----------------------------- MODULE LockedStep -----------------------------
(***************************************************************************)
(* Locked step timing (fep3/components/legacy/timing/locked_step_legacy):  *)
(* TimingMaster with its ScheduleMap and cInternalStepTriggerStrategy, the *)
(* TimingClient of each participant and its step listeners (Task).         *)
(*                                                                         *)
(* The master sends a tick to every participant, the client of each wakes  *)
(* the tasks that are due, each task computes and sends an acknowledgement *)
(* and the master waits for those of the current schedule item before it   *)
(* goes on.  Ticks and acknowledgements go over the bus: in the order in   *)
(* which one sender sent them, with any delay, and some are lost.          *)
(*                                                                         *)
(* Threads: the master's worker and tick thread, a thread for each task,   *)
(* the receiving threads and the watchdog timers.  A participant is "idle" *)
(* before initialize, "ready" before start, "running", and "stopping" from *)
(* the request to stop (or an ErrorEvent) until stop and deinitialize of   *)
(* its LockedStepScheduler have returned.                                  *)
(***************************************************************************)
EXTENDS Integers, Sequences, FiniteSetsExt

CONSTANTS
  Hosts, Master,  \* the participants, and the one that is the timing master
  Tasks, Host,    \* the step listeners, and the participant of each
  Cycle,          \* cycle time of each
  StepFails,      \* tasks with strategy TS_SET_STM_TO_ERROR, others only warn
  MinTrigger,     \* FEP_TIMING_MASTER_MIN_TRIGGER_TIME, 0 for none
  Modes,          \* values of FEP_TIMING_MASTER_TRIGGER_MODE
  MaxRuns,        \* bound: how often each participant is initialized
  MaxTime,        \* bound for each mode: the master does not go beyond it
  MaxTicks,       \* bound: ticks the tick thread is ahead of the worker
  MaxFaults       \* bound: messages lost and steps that exceed their runtime

ASSUME LockedStepAssumption ==
  /\ Master \in Hosts /\ Host \in [Tasks -> Hosts]
  /\ Cycle \in [Tasks -> Nat \ {0}] /\ StepFails \subseteq Tasks
  /\ MinTrigger \in Nat /\ Modes \subseteq {"AFAP", "SYSTEM_TIME"}
  /\ \/ \E t \in Tasks : Host[t] = Master
     \/ MinTrigger > 0 /\ Modes = {"SYSTEM_TIME"}
  /\ MaxRuns \in [Hosts -> Nat]
  /\ MaxTime \in [Modes -> Nat] /\ {MaxTicks, MaxFaults} \subseteq Nat

TasksOf(h) == {t \in Tasks : Host[t] = h}

VARIABLES
  phase,     \* of each participant
  gen,       \* of each participant: how often its tasks got new identifiers
  requests,  \* participants with a GetScheduleCommand on its way to them
  configs,   \* _schedule_configs of the master
  sched,     \* the steps _schedule_map was configured with
  mode,      \* the trigger strategy
  worker,    \* what the worker thread of the master is doing
  waiting,   \* its need_to_wait_for_step_complete
  initial,   \* _is_initial_schedule_flag
  index,     \* _current_index, counted on beyond the length of the vector
  marks,     \* steps of the current item that are acknowledged
  curTime,   \* _current_time
  duration,  \* _duration_since_last_tick
  completion,\* count of _completition_barrier
  ticks,     \* count of _tick_barrier
  tickChan,  \* ticks on their way to each participant
  ackChan,   \* acknowledgements on their way from each task
  simTime,   \* m_current_simulation_time of each client
  progress,  \* m_time_progress_sum of each client
  timedOut,  \* m_is_timeout of each client
  task,      \* what the thread of each task is doing
  barrier,   \* count of its m_barrier
  taskTime,  \* its m_current_simulation_time
  stepTime,  \* the time its step computes with
  shutdown,  \* its m_thread_shutdown_semaphore
  count,     \* how many steps it has computed since its configuration
  faults     \* what is used up of MaxFaults

config  == <<requests, configs>>
master  == <<sched, mode, worker, waiting, initial, index, marks, curTime,
             duration, completion, ticks>>
client  == <<simTime, progress, timedOut>>
threads == <<task, barrier, taskTime, stepTime, shutdown, count>>
bus     == <<tickChan, ackChan>>
vars    == <<phase, gen, config, master, client, threads,
             bus, faults>>

-----------------------------------------------------------------------------
(***************************************************************************)
(* ScheduleMap: one item for each multiple of the greatest common divisor  *)
(* of the cycle times, with the steps that are due then.                   *)
(***************************************************************************)
Dummy == <<"", 0>>                \* the step without identifier
Uuid(t) == <<t, gen[Host[t]]>>
CycleOf(u) == IF u = Dummy THEN MinTrigger ELSE Cycle[u[1]]

CycleTime ==
  LET first == CHOOSE u \in sched : TRUE
  IN  Max({d \in 1..CycleOf(first) : \A u \in sched : CycleOf(u) % d = 0})

Item(i) == {u \in sched : (CycleTime * i) % CycleOf(u) = 0}

(* A mutant: one acknowledgement completes the item.                        *)
CompleteByOne == marks # {}

IsCurrentScheduleComplete == Item(index) \ {Dummy} \subseteq marks

NeedToWaitForTrigger == mode = "SYSTEM_TIME"

-----------------------------------------------------------------------------
Init ==
  /\ phase = [h \in Hosts |-> "idle"] /\ gen = [h \in Hosts |-> 0]
  /\ requests = {} /\ configs = {} /\ sched = {}
  /\ mode \in Modes
  /\ worker = "none" /\ waiting = FALSE /\ initial = FALSE
  /\ index = 0 /\ marks = {} /\ curTime = 0 /\ duration = 0
  /\ completion = 0 /\ ticks = 0
  /\ tickChan = [h \in Hosts |-> <<>>] /\ ackChan = [t \in Tasks |-> <<>>]
  /\ simTime = [h \in Hosts |-> 0] /\ progress = [h \in Hosts |-> 0]
  /\ timedOut = [h \in Hosts |-> FALSE]
  /\ task = [t \in Tasks |-> "none"] /\ barrier = [t \in Tasks |-> 0]
  /\ taskTime = [t \in Tasks |-> 0] /\ stepTime = [t \in Tasks |-> 0]
  /\ shutdown = [t \in Tasks |-> FALSE] /\ count = [t \in Tasks |-> 0]
  /\ faults = 0

(***************************************************************************)
(* Configuration.                                                          *)
(***************************************************************************)
(* The documentation asks for the master to be initialized after all        *)
(* clients have been configured.                                            *)
MayConfigure(h) ==
  h = Master => \A c \in Hosts \ {h} : phase[c] = "ready"

(* TimingMaster::configure: it asks all participants for their steps.       *)
ConfigureMaster == configs' = {} /\ requests' = Hosts \ {Master}

(* LockedStepScheduler::initialize: the tasks get new identifiers, the      *)
(* client listens to ticks, the master is configured.                       *)
Configure(h) ==
  /\ phase[h] = "idle" /\ gen[h] < MaxRuns[h] /\ MayConfigure(h)
  /\ phase' = [phase EXCEPT ![h] = "ready"]
  /\ gen' = [gen EXCEPT ![h] = @ + 1]
  /\ count' = [t \in Tasks |-> IF t \in TasksOf(h) THEN 0 ELSE count[t]]
  /\ IF h = Master THEN ConfigureMaster ELSE UNCHANGED config
  /\ UNCHANGED <<master, client, task, barrier,
                 taskTime, stepTime, shutdown, bus, faults>>

(* TimingClient::Update(IGetScheduleCommand): what a participant answers.   *)
(* It has no tasks before initialize and after deinitialize.                *)
ScheduleOf(h) == IF phase[h] = "idle" THEN {} ELSE {Uuid(t) : t \in TasksOf(h)}

(* The answer at the master, Update(IScheduleNotification): at any time,    *)
(* also after the start.                                                    *)
AnswerSchedule(h) ==
  /\ h \in requests
  /\ requests' = requests \ {h}
  /\ configs' = configs \cup ScheduleOf(h)
  /\ UNCHANGED <<phase, gen, master, client, threads, bus, faults>>

(* TimingMaster::start.  The barriers keep their counts.                    *)
StartMaster ==
  /\ sched' = configs \cup {Uuid(t) : t \in TasksOf(Master)}
                \cup IF MinTrigger > 0 /\ mode = "SYSTEM_TIME" THEN {Dummy} ELSE {}
  /\ worker' = "loop" /\ waiting' = FALSE /\ initial' = TRUE
  /\ index' = 0 /\ marks' = {} /\ duration' = 0
  /\ curTime' = IF NeedToWaitForTrigger THEN -1 ELSE 0
  /\ UNCHANGED <<mode, completion, ticks>>

(* LockedStepScheduler::start: the client first, then the master.  The      *)
(* watchdogs are not restarted here.                                        *)
Start(h) ==
  LET mine == TasksOf(h)
  IN  /\ phase[h] = "ready"
      /\ phase' = [phase EXCEPT ![h] = "running"]
      /\ simTime' = [simTime EXCEPT ![h] = 0]
      /\ progress' = [progress EXCEPT ![h] = 0]
      /\ task' = [t \in Tasks |-> IF t \in mine THEN "wait" ELSE task[t]]
      /\ barrier' = [t \in Tasks |-> IF t \in mine THEN 0 ELSE barrier[t]]
      /\ shutdown' = [t \in Tasks |-> t \notin mine /\ shutdown[t]]
      /\ IF h = Master THEN StartMaster ELSE UNCHANGED master
      /\ UNCHANGED <<gen, config, timedOut, taskTime,
                     stepTime, count, bus, faults>>

-----------------------------------------------------------------------------
(***************************************************************************)
(* TimingMaster::ThreadFunc and the tick thread.                           *)
(***************************************************************************)
(* The completion barrier was notified: the item may be complete.           *)
WorkerComplete ==
  /\ worker = "loop" /\ waiting /\ completion > 0
  /\ completion' = completion - 1
  /\ worker' = IF IsCurrentScheduleComplete THEN "tick" ELSE "loop"
  /\ UNCHANGED <<phase, gen, config, sched, mode, waiting, initial, index,
                 marks, curTime, duration, ticks, client,
                 threads, bus, faults>>

(* The item is complete, or there is nothing to wait for: the worker waits  *)
(* for a tick if the mode has ticks and goes to the next item, which is     *)
(* DoNextSchedule up to incrementCurrentSchedule.                           *)
WorkerNext ==
  /\ worker = "tick" \/ (worker = "loop" /\ ~waiting)
  /\ NeedToWaitForTrigger => ticks > 0
  /\ initial \/ CycleTime * (index + 1) <= MaxTime[mode]
  /\ ticks' = IF NeedToWaitForTrigger THEN ticks - 1 ELSE ticks
  /\ initial' = FALSE
  /\ IF initial THEN UNCHANGED <<index, marks>>
                ELSE index' = index + 1 /\ marks' = {}
  /\ worker' = "send"
  /\ UNCHANGED <<phase, gen, config, sched, mode, waiting, curTime, duration,
                 completion, client, threads, bus, faults>>

(* Who has registered a listener for ticks: from initialize to deinitialize *)
Listening(h) == phase[h] # "idle"

(* A mutant: the tick carries the time of the next item.                    *)
TickLate == [time |-> curTime + CycleTime, step |-> duration]

(* sendTickSignalToClients.                                                 *)
Tick == [time |-> curTime, step |-> duration]

(* The rest of DoNextSchedule; a tick is sent if the item has a step.       *)
WorkerSend ==
  /\ worker = "send"
  /\ IF Item(index) # {}
     THEN /\ tickChan' = [h \in Hosts |-> IF Listening(h)
                                          THEN Append(tickChan[h], Tick)
                                          ELSE tickChan[h]]
          /\ duration' = CycleTime
     ELSE /\ duration' = duration + CycleTime
          /\ UNCHANGED tickChan
  /\ curTime' = curTime + CycleTime
  /\ waiting' = (Item(index) \ {Dummy} # {})
  /\ worker' = "loop"
  /\ UNCHANGED <<phase, gen, config, sched, mode, initial, index, marks,
                 completion, ticks, client, threads,
                 ackChan, faults>>

(* A mutant: the worker that waits for a completion is not told to stop.    *)
EndAtTick ==
  /\ phase[Master] = "stopping" /\ worker = "tick"
  /\ worker' = "none"
  /\ UNCHANGED <<phase, gen, config, sched, mode, waiting, initial, index,
                 marks, curTime, duration, completion, ticks, client,
                 threads, bus, faults>>

(* TimingMaster::stop joins the worker, which looks at the shutdown         *)
(* semaphore wherever it waits.  (In the mode AFAP it does not wait at      *)
(* "tick", but there the bound MaxTime may hold it.)                        *)
WorkerEnd ==
  /\ phase[Master] = "stopping" /\ worker \in {"loop", "tick"}
  /\ worker' = "none"
  /\ UNCHANGED <<phase, gen, config, sched, mode, waiting, initial, index,
                 marks, curTime, duration, completion, ticks, client,
                 threads, bus, faults>>

(* cInternalStepTriggerStrategy::Work calls InternalTrigger.  Only the      *)
(* first call, with the time 0, can find a negative time.                   *)
TickThread ==
  /\ phase[Master] = "running" /\ NeedToWaitForTrigger /\ ticks < MaxTicks
  /\ curTime' = IF curTime < 0 THEN 0 ELSE curTime
  /\ ticks' = ticks + 1
  /\ UNCHANGED <<phase, gen, config, sched, mode, worker, waiting, initial,
                 index, marks, duration, completion, client,
                 threads, bus, faults>>

Stopping(h) == [phase EXCEPT ![h] = "stopping"]

(* TimingMaster::Update(IUserDataSample): any acknowledgement calms the     *)
(* watchdog, the one of a step of the current item that is not marked yet   *)
(* counts, whatever instant it is for.  Without a listener it is dropped.   *)
ReceiveAck(t) ==
  LET u == <<t, Head(ackChan[t])>>
      counts == Listening(Master) /\ u \in Item(index) \ marks
  IN  /\ ackChan[t] # <<>>
      /\ ackChan' = [ackChan EXCEPT ![t] = Tail(@)]
      /\ marks' = IF counts THEN marks \cup {u} ELSE marks
      /\ completion' = IF counts THEN completion + 1 ELSE completion
      /\ UNCHANGED <<phase, gen, config, sched, mode, worker, waiting, initial,
                     index, curTime, duration, ticks, client,
                     threads, tickChan, faults>>

(* CheckAckTimeout: no acknowledgement has come for longer than the timeout,*)
(* which may be the case at any time, whether one is expected or not.       *)
AckTimer ==
  /\ phase[Master] = "running"
  /\ phase' = Stopping(Master)
  /\ UNCHANGED <<gen, config, master, client, threads, bus, faults>>

-----------------------------------------------------------------------------
(***************************************************************************)
(* TimingClient and Task.                                                  *)
(***************************************************************************)
Woken(h, sum) == {t \in TasksOf(h) : sum % Cycle[t] = 0}

(* TimingClient::Update(IUserDataSample), and Task::simTimeProgress of each *)
(* task: a step that is not finished when the next tick for it comes has    *)
(* violated its time.                                                       *)
Trigger(h) ==
  LET tick == Head(tickChan[h])
      sum  == progress[h] + tick.step
      skip == /\ simTime[h] > 0 /\ TasksOf(h) # {}
              /\ simTime[h] + tick.step # tick.time
      late == {t \in Woken(h, sum) : task[t] = "compute"} \cap StepFails
  IN  /\ tickChan[h] # <<>>
      /\ tickChan' = [tickChan EXCEPT ![h] = Tail(@)]
      /\ phase' = IF skip \/ late # {} THEN Stopping(h) ELSE phase
      /\ IF skip
         THEN UNCHANGED <<simTime, progress, taskTime, barrier, shutdown>>
         ELSE /\ simTime' = [simTime EXCEPT ![h] = tick.time]
              /\ progress' = [progress EXCEPT ![h] = sum]
              /\ taskTime' = [t \in Tasks |-> IF t \in TasksOf(h)
                                             THEN tick.time ELSE taskTime[t]]
              /\ barrier' = [t \in Tasks |-> IF t \in Woken(h, sum)
                                            THEN barrier[t] + 1 ELSE barrier[t]]
              /\ shutdown' = [t \in Tasks |-> shutdown[t] \/ t \in late]
      /\ UNCHANGED <<gen, config, master, timedOut, task, stepTime,
                     count, ackChan, faults>>

(* CheckSystemTimeout: no tick has come for longer than the timeout.        *)
ClientTimer(h) ==
  /\ phase[h] = "running" /\ ~timedOut[h]
  /\ phase' = Stopping(h)
  /\ timedOut' = [timedOut EXCEPT ![h] = TRUE]
  /\ UNCHANGED <<gen, config, master, simTime, progress, threads, bus, faults>>

(* Task::ThreadFunc: the wait on the barrier.                               *)
Wake(t) ==
  /\ task[t] = "wait" /\ barrier[t] > 0
  /\ barrier' = [barrier EXCEPT ![t] = @ - 1]
  /\ task' = [task EXCEPT ![t] = "woken"]
  /\ UNCHANGED <<phase, gen, config, master, client,
                 taskTime, stepTime, shutdown, count, bus, faults>>

(* With m_task_working_mutex it takes the time and looks for the shutdown.  *)
Enter(t) ==
  /\ task[t] = "woken"
  /\ IF shutdown[t]
     THEN task' = [task EXCEPT ![t] = "ended"] /\ UNCHANGED stepTime
     ELSE /\ task' = [task EXCEPT ![t] = "compute"]
          /\ stepTime' = [stepTime EXCEPT ![t] = taskTime[t]]
  /\ UNCHANGED <<phase, gen, config, master, client,
                 barrier, taskTime, shutdown, count, bus, faults>>

(* The callback returns and the acknowledgement is sent; a step that took   *)
(* too long with TS_SET_STM_TO_ERROR ends the thread without one.           *)
Compute(t) ==
  /\ task[t] = "compute"
  /\ count' = [count EXCEPT ![t] = @ + 1]
  /\ stepTime' = [stepTime EXCEPT ![t] = 0]
  /\ \/ /\ ackChan' = [ackChan EXCEPT ![t] = Append(@, gen[Host[t]])]
        /\ task' = [task EXCEPT ![t] = IF shutdown[t] THEN "ended" ELSE "wait"]
        /\ UNCHANGED <<phase, shutdown, faults>>
     \/ /\ faults < MaxFaults /\ t \in StepFails
        /\ faults' = faults + 1
        /\ task' = [task EXCEPT ![t] = "ended"]
        /\ shutdown' = [shutdown EXCEPT ![t] = TRUE]
        /\ phase' = Stopping(Host[t])
        /\ UNCHANGED ackChan
  /\ UNCHANGED <<gen, config, master, client, barrier, taskTime, tickChan>>

-----------------------------------------------------------------------------
(***************************************************************************)
(* Stopping.                                                               *)
(***************************************************************************)
(* Another state is requested.                                              *)
Leave(h) ==
  /\ phase[h] \in {"ready", "running"}
  /\ phase' = Stopping(h)
  /\ UNCHANGED <<gen, config, master, client, threads, bus,
                 faults>>

MasterStopped(h) == h = Master => worker = "none"

(* TimingClient::stop after TimingMaster::stop: Task::destroy of one task.  *)
Destroy(t) ==
  /\ phase[Host[t]] = "stopping" /\ MasterStopped(Host[t])
  /\ task[t] # "none" /\ ~shutdown[t]
  /\ shutdown' = [shutdown EXCEPT ![t] = TRUE]
  /\ barrier' = [barrier EXCEPT ![t] = @ + 1]
  /\ UNCHANGED <<phase, gen, config, master, client, task,
                 taskTime, stepTime, count, bus, faults>>

(* All threads are joined; deinitialize unregisters the listeners.  Values  *)
(* that nobody reads before they are set again are dropped here.            *)
StopDone(h) ==
  LET zero(f) == [t \in Tasks |-> IF t \in TasksOf(h) THEN 0 ELSE f[t]]
  IN  /\ phase[h] = "stopping" /\ MasterStopped(h)
      /\ \A t \in TasksOf(h) : task[t] \in {"none", "ended"}
      /\ phase' = [phase EXCEPT ![h] = "idle"]
      /\ task' = [t \in Tasks |-> IF t \in TasksOf(h) THEN "none" ELSE task[t]]
      /\ simTime' = [simTime EXCEPT ![h] = 0]
      /\ progress' = [progress EXCEPT ![h] = 0]
      /\ barrier' = zero(barrier) /\ taskTime' = zero(taskTime)
      /\ shutdown' = [t \in Tasks |-> t \notin TasksOf(h) /\ shutdown[t]]
      /\ tickChan' = [tickChan EXCEPT ![h] = <<>>]
      /\ UNCHANGED <<gen, config, master, timedOut, stepTime, count, ackChan,
                     faults>>

-----------------------------------------------------------------------------
(* The bus loses the next tick to a participant, or acknowledgement.        *)
LoseTick(h) ==
  /\ faults < MaxFaults /\ tickChan[h] # <<>>
  /\ faults' = faults + 1
  /\ tickChan' = [tickChan EXCEPT ![h] = Tail(@)]
  /\ UNCHANGED <<phase, gen, config, master, client, threads, ackChan>>

LoseAck(t) ==
  /\ faults < MaxFaults /\ ackChan[t] # <<>>
  /\ faults' = faults + 1
  /\ ackChan' = [ackChan EXCEPT ![t] = Tail(@)]
  /\ UNCHANGED <<phase, gen, config, master, client, threads, tickChan>>

Worker == WorkerComplete \/ WorkerNext \/ WorkerSend \/ WorkerEnd

TaskThread(t) == Wake(t) \/ Enter(t) \/ Compute(t)

Next ==
  \/ \E h \in Hosts : \/ Configure(h) \/ AnswerSchedule(h)
                      \/ Start(h) \/ Trigger(h) \/ ClientTimer(h)
                      \/ Leave(h) \/ StopDone(h) \/ LoseTick(h)
  \/ \E t \in Tasks : TaskThread(t) \/ ReceiveAck(t) \/ Destroy(t) \/ LoseAck(t)
  \/ Worker \/ TickThread \/ AckTimer

Spec == Init /\ [][Next]_vars

(* Threads that can go on do so, jobs return and the timer of the master    *)
(* elapses.  Nobody has to configure, start or stop a participant, no       *)
(* message has to arrive and no tick has to come.                           *)
FairSpec ==
  /\ Spec
  /\ WF_vars(Worker) /\ WF_vars(AckTimer)
  /\ \A h \in Hosts : WF_vars(StopDone(h))
  /\ \A t \in Tasks : WF_vars(TaskThread(t)) /\ WF_vars(Destroy(t))

-----------------------------------------------------------------------------
TickType == [time : Int, step : Nat]

(* Every variable has its type; the barriers are counters that no thread    *)
(* passes without a notification.                                           *)
TypeOK ==
  /\ phase \in [Hosts -> {"idle", "ready", "running", "stopping"}]
  /\ gen \in [Hosts -> Nat] /\ requests \subseteq Hosts
  /\ configs \subseteq Tasks \X Nat
  /\ sched \subseteq (Tasks \X Nat) \cup {Dummy}
  /\ marks \subseteq sched
  /\ mode \in Modes /\ worker \in {"none", "loop", "tick", "send"}
  /\ waiting \in BOOLEAN /\ initial \in BOOLEAN
  /\ index \in Nat /\ duration \in Nat /\ completion \in Nat
  /\ ticks \in Nat /\ faults \in Nat
  /\ curTime \in Int
  /\ timedOut \in [Hosts -> BOOLEAN]
  /\ tickChan \in [Hosts -> Seq(TickType)] /\ ackChan \in [Tasks -> Seq(Nat)]
  /\ simTime \in [Hosts -> Int] /\ progress \in [Hosts -> Nat]
  /\ task \in [Tasks -> {"none", "wait", "woken", "compute", "ended"}]
  /\ barrier \in [Tasks -> Nat] /\ count \in [Tasks -> Nat]
  /\ taskTime \in [Tasks -> Int] /\ stepTime \in [Tasks -> Int]
  /\ shutdown \in [Tasks -> BOOLEAN]

(* The promise is for the first run of the master.  In a later one it can   *)
(* be broken: ticks of the last run may still be under way, and what is     *)
(* left in _tick_barrier lets the worker send the first tick with the time  *)
(* -1, before the tick thread has set it.                                   *)
FirstRun == worker # "none" /\ gen[Master] <= 1

(* The listeners that take part in this run of the master.                  *)
Members == IF FirstRun THEN {t \in Tasks : Uuid(t) \in sched \ {Dummy}} ELSE {}

MasterTime == IF FirstRun /\ ~initial THEN CycleTime * index ELSE -1

(* A step in the schedule of the master computes with the time of the       *)
(* master, however late the tick and the thread of the task are             *)
(* (Task::ThreadFunc reads the time after it was woken).                    *)
StepTimeIsMasterTime ==
  \A t \in Members : task[t] = "compute" => stepTime[t] = MasterTime

(* The master and its clients work in locked step: TimingMaster waits for   *)
(* the steps of the current instant, each is executed once.                 *)
Abstract == INSTANCE LockStep WITH
  now <- MasterTime, members <- Members,
  last <- [t \in Tasks |-> IF t \in Members /\ count[t] > 0
                          THEN (count[t] - 1) * Cycle[t] ELSE -1]
FollowsLockStep == Abstract!Spec

(* The master does not wait forever for an acknowledgement: it comes, or    *)
(* CheckAckTimeout stops the participant, and the stop reaches the worker   *)
(* where it waits.                                                          *)
StallEnds == waiting /\ worker = "loop" ~> ~waiting \/ worker # "loop"

(* A participant that is to stop does, TimingClient::stop joins all tasks.  *)
StopCompletes ==
  \A h \in Hosts : phase[h] = "stopping" ~> phase[h] = "idle"

(* Neither the master nor a participant that stops waits for ever.          *)
NobodyWaitsForever == StallEnds /\ StopCompletes

(* fep_timing_2.dox: a client that receives no triggers for the timeout     *)
(* "will reach a wait timeout if not receiving any triggers for a time      *)
(* span configured [...] and set the participant to FS_ERROR state".        *)
SilenceNoticed ==
  \A h \in Hosts \ {Master} :
    phase[h] = "running" /\ phase[Master] = "idle"
      ~> phase[h] # "running" \/ phase[Master] # "idle"
=============================================================================
