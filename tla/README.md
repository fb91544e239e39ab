# A verification project for the FEP participant library

This directory holds TLA+ models of the FEP participant library (`src/`,
`include/`), the TLC configurations that check them and the proofs of their main
properties. Every definition that models code is listed in `PROJECT.json` under
"map", with the lines it stands for.

## 1. The system

A *participant* (class `cModule`, or `fep::core::Participant` on top of it) is one
node of a distributed simulation. It talks to other participants over a bus and
goes through a fixed life cycle that local code and other participants control
with events. Its parts:

| Part | State it keeps | Operations | Hard because |
|---|---|---|---|
| State machine, its worker thread, its notifier (`statemachine/`) | current and last reached state, event queue, flags | `<X>Event`, control commands, `FireupStateMachine`, `PerformShutdown`, `WaitForState`, `Finalize` | three kinds of threads, listeners run in the middle of a change, shutdown must always succeed |
| Module (`module/fep_module.cpp`) | creation state, what is enabled | `Create`, `Destroy`, the internal state listener | every state change switches many things on or off, any of them may fail |
| Component registry (`fep3/components/base`) | list of components | create, initializing, ready, start and their opposites, with fallback | partial failure |
| Clock based scheduler, job runtime check (`fep3/components/scheduler`) | timer list, one thread per job | start, stop, steps of the clock | a chain of threads that wait for each other |
| Clock service and clocks, clock synchronization (`fep3/components/clock*`) | registered clocks, time, event sinks | start, stop, set and reset the time, master and slave events | callbacks from the clock thread, remote masters |
| Locked step timing (`fep3/components/legacy/timing`) | schedules, barriers, acknowledgements | trigger, acknowledge, time limits | messages that are lost, late or repeated |
| Property tree (`fep3/components/legacy/property_tree`) | properties, listeners | get, set, listen, remote requests | listeners that change properties, answers that come after the time limit |
| RPC (`fep3/components/rpc`) | pending requests | request, answer | late answers |
| Data access, distributed data buffer, data registry | sample buffers, queues | receive, read, lock, write | readers against the receiving thread |
| Transmission adapter (`transmission_adapter/`) | receivers, transmitters, queues | enable, disable, mute, receive | capacity of the queues, order of shutdown |
| Incident handler | strategies, history | invoke, register | strategies that cause incidents |
| Signal registry, signal mapping | signals, mappings | register, configure, start, stop | phases in which registration is allowed |
| Automation interface | pending answers | remote queries | several answers under one time limit |
| Messages, tooling, performance measurement, helpers in `_common` | none of interest, but for queues and timers | conversion | |

How they interact: `cModule::Create` makes all parts, registers the components
(property tree, data registry, RPC, clock service, clock synchronization,
scheduler service, timing), initializes the state machine, sets up the bus and
then creates the components and fires the state machine up. From then on the state
machine calls the module's internal listener within every change of state, and
the listener calls the component registry, which calls the components in their
order. The bus delivers commands on a thread of its own; they end in the event
queue. A clock thread calls the scheduler, and the scheduler wakes job threads and
waits for them. `Destroy` is the reverse and begins with `PerformShutdown`.

What makes the parts correct, in short: the state follows the diagram and is what
everybody is told; destruction always gets to SHUTDOWN and nothing runs after it;
what a state switches on the way out of it switches off; a component runs only
while those before it run; every job is called for every one of its instants while
the clock stands still; starts and stops come to an end. The behaviours that are
hard to test are listed in `PROJECT.json` under "hazards", each at its line.

## 2. Modules

| Module | Models |
|---|---|
| `FepStates` | the states and the transition table, shared |
| `Lifecycle` | abstract: the state diagram, and that a state is left only after it was fully reached |
| `StateMachine` | `cStateMachine`, worker, notifier, and the thread that owns the machine; implements `Lifecycle` |
| `Participant`, `MCParticipant` | module, internal listener, component registry |
| `TimerScheduler`, `MCTimerScheduler` | the clock based scheduler under a discrete clock |
| `LockStep` | abstract: what locked step timing promises |
| `LockedStep`, `MCLockedStep` | timing master, timing clients, tasks and the bus between them; implements `LockStep` |
| `Rpc` | the client's side of remote procedure calls |
| `Transmission` | the receive path of the transmission adapter and the signal registry |
| `Ddb` | sample counters, listener adapter and distributed data buffer |
| `ClockSync` | a discrete timing master and slave over RPC |
| `PropertyMirror`, `MCPropertyMirror` | remote access to and mirroring of a property |
| `StateMachineProofs`, `ParticipantProofs`, `TimerSchedulerProofs`, `LockedStepProofs`, `TransmissionProofs`, `DdbProofs`, `ClockSyncProofs`, `RemoteProofs` (`Rpc` and `PropertyMirror`) | the theorems (section 4) |

A definition whose comment begins with "A mutant:" is not part of a model: it is a
plausible mistake in the definition after it, and the property named with it in
`PROJECT.json` fails when it takes that definition's place.

### StateMachine

Threads are the worker (`pc["worker"]`), the owner that creates and destroys
(`pc["owner"]`), and everybody else, who only enqueue events (`LocalEvent`,
`RemoteCommand`). One `SetState` is the sequence of places `request`, `exit`,
`entry`, `reached`; the mutex is held from `BeginSetState` to `Finish`. Each of the
calls of a kind of listeners is one step whose answer is a free choice.
`PerformShutdown` is one action for each statement that another thread can see:
ignoring events, signalling and joining the worker, draining the queue, switching
refusals off, accepting events again, reading the state, enqueueing, waiting.
`EnqueueStateTransition` takes `m_oIgnoreMutex` and is one step, as is
`Initialize`: `Create` sets up the bus, the source of commands, after it.
A *life* is the time between `Initialize` and `Finalize`. A second life of the same
object is used by the tests of the repository ("needed for renewed startup").

Abstractions: who the listeners are (one choice for all listeners of a kind), the
contents of notifications, incidents, and the time of `WaitForState` (a wait that
has not found its state may time out at any moment).

### Participant

The state machine is reduced to "one change after the other, any valid event"; what
is modelled is the work inside a change. The handler of a change is the list
`EntryJobs(old, new)`. A job that calls the registry is a *sweep*: one step for
each component, forwards for create, initializing, ready and start, with the
fallback in the reverse direction after a failure. `comp` says how far each
component object is; an object can have two entries in the registry, as `cRPC`
has, and these are adjacent, as `cModule` registers them (`fep_module.cpp:293`; part of
`RegistryAssumption`, which the order of the start and of the stop rests on). That the
fire up is noted as done only after other changes may have been made
(`FireupDone`) comes from the state machine and is kept.

Abstractions: what components do in their calls is reduced to the phase they are in
afterwards (`After`); DDB entries, names and the header are left out.

### TimerScheduler

`Drive`, `Enter`, `Pick`, `Leave`, `Wake`, `Await` are
`ProcessSchedulerQueueSynchron`, executed by the clock thread in every step and by
the starting thread once. `Loop`, `Awake`, `Run`, `RunFails` are a job thread.
`ClockStart` .. `ClockJoin` are the start and the stop of clock service and
scheduler, in the order of the component registry, and `ReadyAgain` is
`deinitialize` and `initialize` of the next run. The sort and the reinsertion of
the timer list are modelled as they are, because the scheduler looks at nothing
but its first element: `Sorted` is the one list with the same entries in which nothing
stands before something smaller, `Reinserted` moves a timer to where the loop of the
code puts it, `Without` removes the first entry of a timer. Both locks of the timer list are modelled;
`m_oManualEventLock` is implied by the place `run`. The promise a clock waits on,
which a failing job ends and a stop takes away, is modelled, and so are the hangs
that follow from it (section 3).

Abstractions: time is counted in steps of the clock, real time (the waiting between
two steps, the measurement of run times) is left out; the steps of a job (data in,
execute, data out) are one. The scheduler's own thread does nothing under a
discrete clock.

### LockStep and LockedStep

`LockedStep` has the threads of the code: the master's worker (`WorkerComplete`,
`WorkerNext`, `WorkerSend`, `WorkerEnd` are the places where `ThreadFunc` and
`DoNextSchedule` wait or send), its tick thread (`TickThread`, only in the mode
SYSTEM_TIME), the receiving threads (`Trigger` of a client, `ReceiveAck` and
`AnswerSchedule` of the master), one thread per task (`TaskThread`) and the timers
(`AckTimer`, `ClientTimer`). Barriers are counters, as the semaphores of the code are.
A tick and an acknowledgement are lost by `LoseTick` and `LoseAck`. The schedule is
built from the answers of the clients as `ScheduleMap::configure` does it, with
greatest common divisor and least common multiple of the cycle times, and an
acknowledgement is matched by the identifier of its step, which carries no instant.
`Leave` is a stop, or an ErrorEvent of a strategy, at any time.

The refinement mapping reads the master's time from its place in the schedule and
the last step of a task from the number of steps it has computed. So `FollowsLockStep`
says that the n-th step of a task is computed at its n-th instant, once, and that time
goes on only when all of them are done, also with lost messages, watchdogs and
acknowledgements that come late. A participant that is stopped and configured anew gets
new identifiers, which are not in the schedule: its tasks leave the abstract run
(`LockStep!Leave`), all of one participant at once.

The promise is for the first run of the master (`FirstRun`). In a later one it can be
broken, see "Further disagreements". The schedule is never empty: the master has a task
of its own, or the minimal trigger time puts the dummy step into it
(`LockedStepAssumption`); otherwise `isStepInCurrentSchedule` indexes an empty vector
(`schedule_map.cpp:328`), which is undefined.

Abstractions: the modes USER and EXTERNAL, input validation, the global scheduler
configuration, and real time: watchdogs may fire whenever they are armed.

### Rpc

All threads that call one element share a queue of responses. `Call`, `Enter`,
`CountRequest`, `Transmit`, `See`, `Take`, `Timeout` are the places of `SendRequest` and
`wait_for_response`. `CountRequest` and `Transmit` are two steps because
`get_request_id` increments its counter and loads it in two accesses
(`fep_rpc_impl.cpp:61`): two threads can be given the same identifier. Requests and
responses are therefore `<<thread, id>>`, of which the code sees the identifier only.
`Take` is one turn of the loop under the queue's lock: items are
taken out until the own one or the stop item is found, the others are put back at the
end, and the count is corrected as `PushBackup` does it, with its unsigned width.
`Push` is `HandleResponse` in the thread of the bus. `StopConnections`, `BusyWait`,
`ClearConnections`, `Close` are `Shutdown`, step by step because the lock is not held
over them. The number of the width, 65536, stands for 2^64; the identifiers, 32 bits
wide, are not wrapped. `Connect` only while the component is up is an assumption about
the clients, which are created with the participant; `cRPC::Connect` does not check it.

### Transmission

The driver's thread takes a container from the pool, fills it and posts a job
(`Driver`); workers take a job, try `m_mtxJob` of the receiver, and, if they get it,
empty its queue (`Worker`). A sample is "good", "bad" or "big", which is what decides
its way. `Control` is the thread of the state machine: enabling, disabling with join,
clearing of jobs, flushing of queues, and the switch of the signal registry. `User` is
registration of signals and listeners. `Rush` = TRUE lets signals be unregistered
while the adapter is enabled; see section 3.

### Ddb

A sender numbers frames and samples (`SendNow`, `ConfigureSampleCounter`), the bus
loses some, the adapter counts gaps (`Missing`), and the data buffer collects a frame,
swaps it with the stock buffer (`SwitchWriteBuffer`) and sets an event on which its
thread swaps stock and read buffer (`SwitchReadBuffer`) and calls the listeners. Both
the end of the swap and the shared lock for the listeners (`fep_ddb.cpp:236`, 245) are
this one step; a reset in between would have an empty frame delivered, as does a reset
before the swap, which the model has (section 3).
Readers hold the read buffer shared. `Destroy` and `Destruction` are the destructor.
A sample is its numbers, its sync flag and the run of the sender; slots keep old
samples, as in the code, and `AnalyseFrame` decides which of them are valid.
`DeliveredOnce` has the premise `FramesFit`: a frame that is longer than the buffer
overwrites slots of its own and can be given out twice, which the documentation warns
of (section 3).

### ClockSync

Master and slave have one receiving thread each, which handles what comes in in
order; a handler that waits for a lock or joins a thread blocks it, and this is where
the two wait for each other. The start of the master's clock holds `_lock_list` during
the reset event; the slave's reset joins a worker that may wait for an answer. Every
remote call can be given up. `_started` of the updater has no initial value in the code
and is a free choice of Init, kept in `garbage`.

### PropertyMirror

One property, its provider and one consumer. `Compare`, `Assign`, `Notify` are
`cProperty::SetValue`, whose three parts other threads can come between; `HandleX` are
the `Update` methods of the provider on its message thread, `Register` and `Acknowledge`
the later parts of the one for listeners, which takes its copy of the property first.
Values are set as strings, or as the type of the property: setting a floating-point
number on an integer property compares the truncated values (`property.cpp:1093`), so that
the value may change and nobody be told; this is outside the model, as types are.
`MirrorFollows` says nothing about it. The consumer's calls are `GetRemoteProperty`,
`SetRemoteProperty`, `SendOnly` (no wait), `MirrorRemoteProperty` with `Merge` or
`MirrorTimeout`, and `UnmirrorRemoteProperty`; `TakeX` are the listeners, called by its
message thread under `m_oAdapterMutex` and therefore one step each. Commands and
notifications keep their order and take any time. `heard`, `raced`, `leaked`, `deleted`,
and `clean` and `seen` of a call, are history that only the properties read.

`MirrorFollows` excepts the case that a subscription was given up *and* the property
deleted, which the search for an inductive invariant brought up. A mirror call times out
after the provider registered it; the property is deleted and made anew; the next call
is registered at the new property, but takes the late acknowledgement of the first one.
It is unmirrored, and the withdrawal takes the count of the new proxy to 0 while the
second acknowledgement, and a change, are still under way. The property is deleted
again; a third call finds nothing to register at and takes that acknowledgement: the
consumer believes to be subscribed and hears the change, and the provider has no proxy
for it. (TLC finds this with a bound of four calls, without the exception.) Commands and
acknowledgements carry nothing that tells the properties apart
(`fep_propertytree.cpp:1119`, 676).

## 3. Runs

Passing runs:

| Run | States | Shows |
|---|---|---|
| `sm_safety` | 1.4 M | the state is what everybody is told, SHUTDOWN is final, a refusal counts exactly where it should, the refinement of `Lifecycle`, and that `PerformShutdown` returns unless an InitializeEvent is pending after it accepts events again; events that lead to RUNNING, Start and Shutdown as remote commands, one failing callback, and events during `PerformShutdown` |
| `part_safety` | 48 k | components run in order and together, what a state switches on is switched off on every way out, and the header is out of date only after a failure; up to three failing calls, two lives |
| `ts_safety` | 152 k | the clock waits for each job, no timer is overlooked, no instant is left out, steps and stops end unless a job failed or the stop came within a step; a stop at any time, a failing job, two runs |
| `ls_safety` | 259 k | the refinement of `LockStep`, steps compute with the master's time, nobody waits for ever; both trigger modes, a lost message or a step that takes too long, a stop at any time |
| `rpc_safety` | 212 k | references are to queues that exist, the stop item reaches all, no response is lost to another thread unless that one was given the same identifier, calls return; two threads, late responses, two lives |
| `tx_safety` | 357 k | containers are accounted for, no job refers to a destroyed receiver, samples arrive in order, a list of listeners stays as it is while it is gone through, disabling ends |
| `ddb_safety` | 358 k | the event matches the stock, complete frames are whole, each that fits is delivered once and in order, locked frames stay, losses are reported and nothing else is, the thread serves and ends; a restarted sender, two lost samples, a reset |
| `cs_safety` | 423 k | an answered slave has the master's time, its worker ends with it, registration succeeds in the end, and neither waits for ever |
| `pm_safety` | 2.1 M | a mirror follows, no proxy is left behind, answers are fresh; calls that time out, are repeated and meet old answers |

Violated (each is a finding in `PROJECT.json`, with the line it contradicts):

| Run | What the code does |
|---|---|
| `sm_doc_shutdown` | an event of another thread during `PerformShutdown` can keep it from ever returning |
| `sm_doc_error` | a failing callback of a valid transition has the event handler trigger ErrorEvent itself, so that the participant goes to ERROR although nobody asked for it |
| `tx_doc_queue` | a worker that finds the queue empty releases the queue's lock before `m_mtxJob`: a job that comes in between is dropped by another worker, and its sample stays behind until the next one comes |

`TypeOK` of each module is stated there; it is checked in `sm_safety` and `rpc_safety`,
where it says something: what the worker performs, and the width of the count.

### Bounds

`MaxPosts` = 4 in `sm_safety` is the number of events that leads from STARTUP to RUNNING
(StartupDone, Initialize, InitDone, Start), so every state is reached (RUNNING is then
left by the shutdown, or by a failure), and every shorter way leaves events to come
while the shutdown is under way: others may always trigger events then. (The proofs
cover more events of all kinds, and for the invariants further lives; `ShutdownReturns`
was also run with all events and three posts.) `MaxFailures` = 1 is a failure in any one
callback; `MaxRetries` bounds how many `ShutdownEvent`s pile up in the queue, whose
further copies are all ignored in SHUTDOWN. Four registry entries are the least with a
component before, an object with two entries and a component after it. Three timers
(every step; every second step with a delay; one shot) and `MaxTime` = 3 let timers be
due together, alone and after the end of the others.

`ls_safety`: one task of the master for every second instant and one of a client for
every instant, so that items with one and with two steps alternate; the cycle of two
items is gone through once in the mode AFAP. One fault is enough to lose any of the
messages, or to make a step violate its time, at every point. `rpc_safety`: with two
threads each finds items of the other; of three requests two can share an identifier,
and a thread can ask again while the answer to its first request is under way; a second
life meets answers of the first.
`tx_safety`: two workers are the least that meet at one receiver, a pool of two is
exhausted by three samples; the second enabling meets what the first one left.
`ddb_safety`: frames of one to three samples for a depth of two are shorter than, equal
to and longer than the buffer; two losses are the least that can hide each other.
`cs_safety`: two starts of both sides and two calls that
time out without being held up. `pm_safety`: three (un)mirror calls are the least for a
subscription that timed out, one that takes its late acknowledgement, and a withdrawal
(more are covered by the proof); two accesses for an
answer that meets the wrong call; the provider's own thread changes
the value once and a remote set a second time. The two values are interchangeable
(SYMMETRY; no property of this run is temporal).

Deadlock is checked in `sm_safety`, `sm_doc_shutdown`, `sm_doc_error`, `part_safety` and
`ddb_safety`, whose models say when everything may have ended. The other systems may
stop anywhere their bounds are used up, and in `ts_safety` the code itself can hang.

### Fairness

Threads are scheduled by the operating system, and callbacks, jobs and listeners are
assumed to return: weak fairness for the steps of each thread. Nobody has to trigger an
event, to create, to start, to stop, to send or to answer, and nothing has to fail or
arrive. Timers that the code arms elapse (`AckTimer`; `Timeout` of `Rpc` with strong
fairness, because a thread that turns in its loop compares the time in every turn; a
call of `ClockSync` that is held up times out at last). `Transmission` assumes that a
worker that wants `m_mtxListener` gets it in the end.

### Further disagreements

Met while modelling; the models behave this way, but for the ones marked (left out).

State machine and module:

  - an event enqueued in the STARTUP callback may be executed before the fire up is
    noted as done; no request and exit listeners are called for it
    (`fep_state_machine.dox:784`, `fep_statemachine.cpp:877`; `ListenersConsulted`
    states the promise);
  - RUNNING with no component running, after a failed start (`fep_state_machine.dox:331`,
    `fep_statemachine.cpp:546`; `RunningMeansStarted`);
  - a refused request does not clear the event queue (`fep_state_machine.dox:520` and
    the comment at `fep_statemachine.cpp:576` say that it does);
  - events that are enqueued while `Finalize` runs outlive it
    (`fep_statemachine.h:158`: "clears internal data") and are executed in the next
    life, before the fire up;
  - `Header.CurrentState` is out of date when a component refused to be initialized
    or started (`fep_configs.dox:142`); `StaleOnlyAfterFailure` says that this is
    the only case;
  - Stop in INITIALIZING leads to IDLE without `deinitializing()`
    (`fep_state_machine.dox:244`).

Scheduling and timing:

  - a stop within a step of the clock can hang (`local_clock_based_scheduler.cpp:222`):
    the promise is taken away from the clock that waits for it;
  - a job that fails once ends its thread without fulfilling the promise, and the clock
    stands still (`local_clock_based_scheduler.cpp:229`; `job_runtime_check.cpp:93`:
    "failed for this processing cycle");
  - in the second run the first calls are not where the delay puts them: the time the
    clock showed at the end of the first run is subtracted from instants that were
    counted from 0 (`timer_scheduler_impl.cpp:59`);
  - a client that has once noticed that its master is silent does not do so again:
    `m_is_timeout` stays set over later runs (`fep_timing_2.dox:143`,
    `timing_client.cpp:626`; `SilenceNoticed`);
  - a limit of 0 for acknowledgements is refused, `timing_master.cpp:227`, where the
    documentation allows it (left out);
  - the count of `_tick_barrier` is never reset (`timing_master.cpp:98`, 718), so that
    triggers of one run of the master are used up by the next one: its worker passes the
    barrier (664, 699) before the tick thread has set the time, and sends the first tick
    with the time -1, which "marks no tick was received yet" (463). A tick of the last
    run that is still under way to a client which was not stopped is taken for one of
    the new run. The model has both with more than one run of the master, which
    `ls_safety` does not have; hence `FirstRun` in `StepTimeIsMasterTime` and in the
    refinement mapping;
  - `ScheduleMap` is read and written without a lock (`schedule_map.cpp:212`), and
    `LockedStepScheduler::initialize` leaves listeners registered when the
    configuration fails (`locked_step_scheduler.cpp:148`; left out).

Communication and data:

  - two threads can be given the same request identifier, because `get_request_id`
    increments and loads its counter in two accesses (`fep_rpc_impl.cpp:61`); then one
    may take the response to the other's request for its own, against "returns the
    server response" (`fep_rpc.dox:90`). `DistinctIds` states what the identifiers are
    for; TLC refutes it in eleven steps. Hence `Twin` in `NothingLost`;
  - a response in the queue can be hidden behind a count of 0, against the comment of
    `PushBackup` (`fep_rpc_server_connection.cpp:119`; `AnswerVisible`); the request
    then times out, which `CallsReturn` allows;
  - `m_pCommandAccess` is read without a lock (`fep_rpc_impl.cpp:290`; left out);
  - a container is forgotten for every oversized sample (`fep_receiver.cpp:358`;
    `ContainersAccounted` counts them in `lost`);
  - with `Rush` = TRUE, unregistering a signal before the adapter is disabled,
    `NoDeadReceiver` is violated; the code relies on the caller
    (`fep_module.cpp:1063`);
  - a listener that unregisters itself in its callback locks a mutex twice
    (`fep_receiver.cpp:563`; left out);
  - with `Together` = FALSE, a sender restarted without a reset of the receiver,
    `CompleteIsWhole` and `DeliveredOnce` are violated (`fep_ddb.dox:293`);
  - `ResetData` leaves `m_bStockIsFull` set and an empty frame is delivered
    (`fep_ddb.cpp:262`); frames longer than the buffer can be given out again
    (`fep_ddb.dox:306`);
  - `_slaves` is changed while the clock thread iterates over it
    (`local_clock_service_master.cpp:124`), and a discrete slave does not register
    again at a master that was created anew (`:105`; both left out).

Property tree (`fep_propertytree.cpp`):

  - a change between the copy for the acknowledgement and the registration of the
    consumer's listener is lost (1119, 740), against "Any changes [...] will then be
    [...] transparently mirrored" (`fep_properties.dox:242`); hence `heard` in
    `MirrorFollows`;
  - two threads of the provider that set the value at once can leave the mirror with
    the wrong one for good: the comparison that decides whether listeners are told
    (`property.cpp:1060`) is not atomic with the assignment; hence `raced`;
  - "Repeated calls are handled transparently" (`fep_propertytree_intf.h:348`): the
    second `MirrorRemoteProperty` raises the provider's count, one
    `UnmirrorRemoteProperty` lowers it by one and the proxy stays; hence `leaked`;
  - "keep the local copies" (same place): the copy is deleted with the original;
  - answers carry no identifier, so that the answer to an asynchronous set or to a get
    that timed out acknowledges a later set; hence `clean`;
  - `MirrorRemoteProperty` leaves its listener, an object on the stack, registered when
    the command cannot be sent (691); a mirrored property that is deleted locally leaves
    a dangling pointer in the listener; `m_mapMirroredProperties` has no lock (all left
    out).

## 4. Proofs

For every value of the constants (any number of threads, workers, readers, events,
samples and lives), from the assumptions named in the modules, which TLC evaluates too:

| Theorem | Property |
|---|---|
| `StateMachineProofs!TypeCorrect` | `TypeOK` |
| `StateMachineProofs!StatePublished` | `StateIsPublic` |
| `StateMachineProofs!ShutdownFinal` | `ShutdownIsFinal` |
| `StateMachineProofs!VetoRule` | `VetoCounts` |
| `StateMachineProofs!Refinement` | `FollowsDiagram`, for one life (`MaxLives = 1`) |
| `RemoteProofs!RpcTypes` | `TypeOK` |
| `RemoteProofs!AliveWhileUsed` | `UsedWhileAlive` |
| `RemoteProofs!CancelReachesAll` | `StopStays` |
| `RemoteProofs!ResponsesKept` | `NothingLost`, which excepts a thread whose identifier was given to another one too |
| `TransmissionProofs!InOrder` | `DeliveredInOrder` |
| `TransmissionProofs!ListStays` | `ListKeptInUpdate` |
| `TransmissionProofs!NoneDead` | `NoDeadReceiver`, if signals are unregistered in IDLE only (`~Rush`) |
| `DdbProofs!EventExact` | `EventMatchesStock` |
| `TransmissionProofs!ContainersStay` | `ContainersAccounted` |
| `DdbProofs!LockedFrameStays` | `ReadFrameStays` |
| `DdbProofs!CompleteFramesWhole` | `CompleteIsWhole`, if a sender starts anew only after a reset of the receiver (`Together`) |
| `DdbProofs!FramesDeliveredOnce` | `DeliveredOnce`, under the same hypothesis |
| `DdbProofs!LossesAreReported` | `LossesReported` |
| `ParticipantProofs!RegistryStartsAsOne` | `StartedAsOne` |
| `ParticipantProofs!ResourcesFollow` | `ResourcesFollowState` |
| `ParticipantProofs!StaleMeansFailed` | `StaleOnlyAfterFailure` |
| `TimerSchedulerProofs!JobsAreWaitedFor` | `ClockWaitsForJob` |
| `TimerSchedulerProofs!StepsLeaveNothingDue` | `NothingOverdue` |
| `TimerSchedulerProofs!EveryInstantCalled` | `NoInstantLeftOut` |
| `LockedStepProofs!LockedStepTypes` | `TypeOK` |
| `LockedStepProofs!TimesAreTheMasters` | `StepTimeIsMasterTime` |
| `LockedStepProofs!LockStepFollowed` | `FollowsLockStep` |
| `ClockSyncProofs!WorkerEnds` | `WorkerEndsCleanly` |
| `ClockSyncProofs!AnsweredSlaveSynced` | `AnsweredMeansSynced` |
| `RemoteProofs!AnswersAreFresh` | `AnswersFresh` |
| `RemoteProofs!NoProxyIsLeft` | `NoProxyLeft` |
| `RemoteProofs!MirrorsFollow` | `MirrorFollows` |

State machine. None of the safety properties is inductive. `ShutdownIsFinal`, for
instance, holds when `PerformShutdown` returns because *reached* = SHUTDOWN implies that
no change is under way; that takes the invariant that a worker inside `SetState` came
from a state with a valid transition and that this state is the one reached until the
end (`CallInv`), which takes exclusiveness (`LockInv`) and that the owner's flags do not
change under a change (`FlagInv`, `QuietInv`), which takes that the worker is joined
before they change (`ThreadInv`). The inductive invariant `IInv` is the conjunction
of these parts, the type invariant and the properties themselves; theorem
`Inductive`. One lemma treats the steps of `SetState` (`SetStateCore`), which both
threads execute, one the start of a change (`PerformCore`).

The refinement needs two more facts (`DInv`). `EdgeInv`: between the check of the
transition and the change, `reached = state` and the change is in the table. And
`EarlyInv`: before the user code's first callback only commands can be pending, and
of these only Shutdown is valid in STARTUP, so that `FireupStateMachine`, which sets
STARTUP whatever the state is, starts from STARTUP or SHUTDOWN. In a second life the
last one is false, because events of the first are still pending;
hence the hypothesis of the theorem.

RPC. `RInv` adds to the properties when queue and command access exist for each phase of
the life (`LifeInv`: no reference is given out once `stopped` is set, so the busy wait
ends with none), and that one thread is never given an identifier twice (`IdInv`): it
increments the counter between two loads of it, and nobody lowers it. Two threads can
share one; so the property speaks of a thread without a `Twin`, and the argument needs
that whoever else takes an item with its identifier would be one. The heart is
`TakeKeeps`: taking items out up to the first with the own identifier and putting the
rest back at the end loses nothing that a thread with another identifier waits for.

Transmission. `TxInv`: a worker in a job holds the receiver's mutex (`ExclInv`), and the
numbers in a queue increase and are greater than the one being processed (`SampleInv`)
and the last one delivered (`QueueInv`); so deliveries are in order although any worker
may make them. For `NoneDead` it adds `AliveInv` and `CtlInv`: in the phases in which a
receiver can be destroyed there are no jobs, no workers and no driver thread on its way
to posting one. `ContainersStay` needs the exclusiveness too: at most one worker has a
container of a receiver, so taking a sample moves one container from the queue to the
count of those held (`AccountInv`), and when the jobs are cleared all workers have been
joined (`JoinInv`), so that nothing is held by nobody. It holds whoever unregisters what
and when.

Data buffer. `DInv` is `EventMatchesStock` itself with the two types it needs, and that
nobody holds the read buffer when the destruction has begun (`LockInv`). What samples a
frame consists of plays no part there, so those two theorems hold for any sender and any
loss. `WInv`, for `CompleteIsWhole`, says which samples can be in the slots of a frame:
ones that were sent, each in the slot of its number, the valid ones all of one frame
that is closed by the sample with the sync flag. The premise `Together` is needed for a
new run of the sender: frame numbers begin again at 1, and a slot with a sample of the
old run could not be told from one of the new. `OInv` adds an order: everything behind
the last sample that the buffer has seen is later than every slot (`SlotInv`), and the
last frame delivered is earlier than what stock and write buffer hold (`PassInv`).
`LInv`: what was sent before a sample that arrives was lost or has arrived
(`GaplessInv`, `ArrivalInv`), so the losses behind the adapter are at least as many as
those it has reported (`CountInv`); it needs no hypothesis on resets.

Participant. `PInv` describes a change of the state by what is left of its list of jobs
(`JobsInv`), which is one of thirteen lists that end alike, and the sweep by the
operation that began it (`SweepInv`). `RunInv` is the argument for `StartedAsOne`: a
start that has come to entry *k* runs exactly the objects of the entries before *k*, the
fallback and the stop leave none behind the one they are at. An object with two entries
would break this if another object had its entry between them; hence the part of
`RegistryAssumption` on adjacent entries. `ResourceInv` says for every state and rest of
the list what is switched on; `ShownInv` why the header can lag.

Timer scheduler. `WaitInv`: a promise belongs to the driver that waits for it
(`FinishedInv`), a job that runs or is woken has one unless it was canceled (`CallInv`),
and a driver that waits holds `procLock` (`LockInv`). The scheduler only looks at the
first element of the list, so `NothingOverdue` needs that while a step is processed the
due timers come first (`OrderInv`), which the reinsertion of a periodic timer keeps
although the list it leaves need not be sorted. For `NoInstantLeftOut` the next instant
of each timer is in the list or in the call that is under way, never in both and never
in neither (`PendingInv`, `ListInv`); in the first run it is counted from the delay
(`FirstRunInv`).

Locked step. That a task computes with the master's time depends on the tick it was
woken by, this on what was sent before, and that the master is still at that instant on
an acknowledgement that the task has not sent yet; so neither property is inductive and
`StepInv` says all of it. `FreshInv`: until the master is started nothing can be left
over, because only ticks and `Task::destroy` notify a task's barrier. Of the first run,
`MasterInv` says where the worker is and which tick it has sent last; `ChanInv` that the
ticks under way to a participant are a chain, each beginning where the one before it
ends, up to the last one; and `MemberInv`, for each listener in the schedule, that no
earlier instant of it is still under way (`PassedInv`), that it computes or has its
acknowledgement under way only while the master waits for it (`OweInv`), the times it
holds (`TaskInv`), that a client which missed a tick never wakes it again (`ClientInv`:
the master waits for it at the first instant it is due, for ever or until a watchdog
ends it), and how many steps it has computed (`CountInv`). `ReadyInv` is for clients
that are started after their master. That the schedule meets every instant of a listener
is arithmetic: multiples of a divisor of the cycle time (`Quotient`, `NoneBetween`,
`AtTheEnds`), where the greatest common divisor is only needed to be a positive divisor
(`Gcd`). In the refinement each action has a lemma that names its abstract step:
the start of the master begins, a new configuration leaves, `WorkerNext` advances,
`Compute` is a step, the end of the worker ends the run; all others stutter (`Unseen`).

`RemoteProofs` extends both `Rpc` and `PropertyMirror`, two clients that wait for answers
under a time limit; that is why the specification of the second is called `MirrorSpec`
and its parts `MirrorInit`, `MirrorNext` and `MirrorTypeOK`.

Clock synchronization. `CInv` is small: a worker runs only under `_started`
(`FlagInv`), and without the object server nothing is reset (`QuietInv`); `garbage`
keeps apart the case that `_started` was never initialized. `SInv` is about the events
under way: the last one brings the master's time (`LastInv`), at most one is awaited,
and it is the last (`AwaitInv`), so that a reply that is awaited answers it and not one
that was given up; a reset that a slave leaves out meets a slave at 0 (`ZeroInv`).

Property mirror. `ProvInv` and `FreshInv` for answers: if nothing was outstanding when a
call began, every answer under way was made from a value noted since. `SubInv` for
`NoProxyLeft`: as long as no subscription is given up without being withdrawn, the
consumer is in one of three situations, subscribed (`LiveInv`), not subscribed
(`GoneInv`), waiting for an acknowledgement (`WaitInv`), and each says which commands
and notifications can be under way, and in which order. `MirrorFollows` must hold when
subscriptions *are* given up, too, so it rests on a count (`TokenInv`): as long as the
property is not deleted, the proxy's count is at least the number of withdrawals and of
acknowledgements under way, one more for the one the consumer has. So a withdrawal never
takes away the last reference while a consumer follows (`WithdrawalIsOwn`); when the
property was deleted, `SubInv` says the same if nothing was given up, and with both the
property is false. `WriteInv`: without overlapping writes listeners are told if and only
if the value changes. `FollowInv` says of every change under way that somebody may take,
and of the copy: it is the provider's value, or a later change, a deletion, or a
notification that is about to be sent follows it.

Each inductive invariant was an invariant of a run of the module before it was proved;
the one of `LockedStep` also with two runs of the client, and, by simulation, with the
cycle times 4, 6 and 2.

Only model-checked: all liveness properties (`ShutdownReturns`, `NobodyWaitsForever`,
`CallsReturn`, `DisableCompletes`, `ThreadServes`, `RegistrationSucceeds`), which need
fairness and are outside of what the prover treats. Every other property of the passing
runs is a theorem.

## 5. Not modelled, and the plan

Not modelled at all: conversions of messages, parsing of configuration and
description files, command line and network address helpers, the RTI DDS driver and
the discovery of the ZMQ one, tools, performance measurement. They keep no state that a
model would tell more about than a test. Of `sources` that are partly modelled,
`PROJECT.json` says for each component what is left out.

Possible next steps, in this order:

1. A weaker promise for later runs of the master of the locked step timing, and the
   modes USER and EXTERNAL.
2. `TimerScheduler` under a continuous clock (`ProcessSchedulerQueueAsynchron`: a
   second wake up before the timer thread has seen the first is lost,
   `local_clock_based_scheduler.cpp:24`; the scheduler thread holds the timer lock
   while a job is woken, `timer_scheduler_impl.cpp:240`), with the error strategies of
   the job runtime check.
3. The event sink registry of the clock service, the interpolating slave clock, and
   more than one slave.
4. Name changes of elements (`ElementNameChanged`), subproperties, and several
   consumers of one property.
5. Incident handler (strategies that cause incidents), signal mapping, automation
   interface (several answers under one time limit), concurrent calls of `Create`.
6. A composition of state machine and participant, shown to implement both.
