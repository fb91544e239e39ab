--------------------------- MODULE TimerScheduler ---------------------------
(***************************************************************************)
(* The clock based scheduler under a discrete clock: cTimerScheduler and   *)
(* the job threads cTimerThread (scheduler/clock_based), JobRuntimeCheck,  *)
(* and the clock thread DiscreteClockUpdater that drives them.             *)
(*                                                                         *)
(* Threads:                                                                *)
(*   - Clock advances the time and, within each step, wakes the jobs that  *)
(*     are due and waits for each of them on a promise;                    *)
(*   - one thread for each timer runs the job;                             *)
(*   - Control is the thread that starts and stops the components: the     *)
(*     clock before the scheduler, and in the reverse order.               *)
(* The scheduler's own thread has no work under a discrete clock.          *)
(***************************************************************************)
EXTENDS Integers, SequencesExt

CONSTANTS
  Timers,       \* the sequence of job timers, in the order of the jobs
  Period,       \* cycle time of each timer, 0 for a one shot timer
  Delay,        \* initial delay of each timer
  MaxTime,      \* bound: the clock stops advancing there
  MaxRuns,      \* bound: how often the scheduler is made ready and started
  MaxFailures   \* bound: jobs that fail or violate their runtime

T == ToSet(Timers)

ASSUME TimersAssumption ==
  /\ Timers \in Seq(T) /\ IsInjective(Timers)
  /\ Period \in [T -> Nat] /\ Delay \in [T -> Nat]
  /\ MaxTime \in Nat /\ MaxRuns \in Nat \ {0} /\ MaxFailures \in Nat

Clock   == "clock"
Control == "control"
Nobody  == "nobody"
Drivers == {Clock, Control}    \* who executes ProcessSchedulerQueueSynchron

VARIABLES
  now,       \* _current_time of the clock
  sim,       \* _simulated_time: what the clock will be set to next
  list,      \* m_oTimers
  started,   \* m_bStarted
  resetTime, \* m_StartUpResetTime
  procLock,  \* holder of m_oTimerProcessingLock
  listLock,  \* holder of m_oTimerLock
  clock,     \* what the clock thread is doing
  stopClock, \* _stop of the clock thread
  driver,    \* for each driver: where it is, the time it processes, the timer
             \* it calls and for which instant
  promised,  \* for each driver: its promise is fulfilled
  thread,    \* what each timer thread is doing
  occurred,  \* m_oManualEventOccured
  wakeTime,  \* m_tmWakeupTime
  lastCall,  \* m_tmLastCallTime
  finished,  \* m_pFinished: whose promise it is
  canceled,  \* m_bCanceled
  ctl,       \* what Control is doing
  turn,      \* the timer that Control is stopping
  runs, failures   \* what is used up of the bounds

locks    == <<procLock, listLock>>
clockVar == <<now, sim, clock, stopClock>>
sched    == <<list, started, resetTime>>
driving  == <<driver, promised>>
timerVar == <<thread, occurred, wakeTime, lastCall, finished, canceled>>
control  == <<ctl, turn, runs>>
vars     == <<clockVar, sched, locks, driving, timerVar, control, failures>>

Off == [at |-> "off", time |-> 0, timer |-> Nobody, instant |-> 0]

(* LocalClockBasedScheduler::initialize: AddTimer of every job.  The clock  *)
(* service is not started, its time is 0 then.                              *)
AddTimers ==
  [i \in 1..Len(Timers) |-> [timer |-> Timers[i], next |-> Delay[Timers[i]]]]

(* The participant is READY for the first time.                             *)
Init ==
  /\ now = 0 /\ sim = 0
  /\ list = AddTimers
  /\ started = FALSE /\ resetTime = -1
  /\ procLock = Nobody /\ listLock = Nobody
  /\ clock = "none" /\ stopClock = FALSE
  /\ driver = [p \in Drivers |-> Off]
  /\ promised = [p \in Drivers |-> FALSE]
  /\ thread = [t \in T |-> "none"]
  /\ occurred = [t \in T |-> FALSE]
  /\ wakeTime = [t \in T |-> -1] /\ lastCall = [t \in T |-> -1]
  /\ finished = [t \in T |-> Nobody]
  /\ canceled = [t \in T |-> FALSE]
  /\ ctl = "ready" /\ turn = 0 /\ runs = 1
  /\ failures = 0

-----------------------------------------------------------------------------
(***************************************************************************)
(* ProcessSchedulerQueueSynchron.                                          *)
(***************************************************************************)
Drive(p, time) ==
  driver' = [driver EXCEPT ![p] = [Off EXCEPT !.at = "lock", !.time = time]]

(* list::sort is stable: the k-th entry of the result is the one that k - 1 *)
(* others precede.                                                          *)
Sorted(l) ==
  LET before(i, j) == \/ l[i].next < l[j].next
                      \/ l[i].next = l[j].next /\ i < j
      rank(i) == Cardinality({j \in 1..Len(l) : before(j, i)}) + 1
  IN  [k \in 1..Len(l) |-> l[CHOOSE i \in 1..Len(l) : rank(i) = k]]

Enter(p) ==
  /\ driver[p].at = "lock" /\ procLock = Nobody /\ listLock = Nobody
  /\ procLock' = p
  /\ list' = Sorted(list)
  /\ driver' = [driver EXCEPT ![p].at = "pick"]
  /\ UNCHANGED <<clockVar, started, resetTime, listLock, promised, timerVar,
                 control, failures>>

(* The first timer is due; a next instant of 0 always is.                   *)
Due(time) == list # <<>> /\ (list[1].next = 0 \/ list[1].next <= time)

(* A mutant: a periodic timer is not moved within the list.                 *)
ReinsertedInPlace(time) ==
  IF Period[list[1].timer] = 0 THEN Tail(list)
  ELSE [list EXCEPT ![1].next = list[1].next + Period[list[1].timer]]

(* A mutant: a periodic timer is resynchronized with the clock.             *)
ReinsertedInFuture(time) ==
  LET head == [list[1] EXCEPT !.next = time + Period[list[1].timer]]
      later == {k \in 2..Len(list) : head.next < list[k].next}
      at == IF later = {} THEN Len(list) ELSE Min(later) - 1
  IN  IF Period[list[1].timer] = 0 THEN Tail(list)
      ELSE InsertAt(Tail(list), at, head)

(* The first timer is moved behind the overdue ones, before the first one   *)
(* that is later; a one shot timer is removed.                              *)
Reinserted(time) ==
  LET head == [list[1] EXCEPT !.next = list[1].next + Period[list[1].timer]]
      rest == Tail(list)
      later == {k \in 1..Len(rest) : rest[k].next > time
                                       /\ head.next < rest[k].next}
      at == IF later = {} THEN Len(rest) + 1 ELSE Min(later)
  IN  IF Period[list[1].timer] = 0 THEN rest ELSE InsertAt(rest, at, head)

(* m_oTimerLock is held until the timer has been woken up.                  *)
Pick(p) ==
  /\ driver[p].at = "pick" /\ listLock = Nobody
  /\ Due(driver[p].time)
  /\ listLock' = p
  /\ list' = Reinserted(driver[p].time)
  /\ driver' = [driver EXCEPT ![p] = [driver[p] EXCEPT
                  !.at = "wake", !.timer = list[1].timer,
                  !.instant = list[1].next]]
  /\ promised' = [promised EXCEPT ![p] = FALSE]
  /\ UNCHANGED <<clockVar, started, resetTime, procLock, timerVar, control,
                 failures>>

Leave(p) ==
  /\ driver[p].at = "pick" /\ listLock = Nobody
  /\ ~Due(driver[p].time)
  /\ procLock' = Nobody
  /\ driver' = [driver EXCEPT ![p] = Off]
  /\ UNCHANGED <<clockVar, sched, listLock, promised, timerVar, control,
                 failures>>

(* cTimerThread::WakeUp.  The timer thread holds m_oManualEventLock while   *)
(* it runs the job.                                                         *)
WakeUp(t, time, promise) ==
  /\ thread[t] # "run"
  /\ finished' = [finished EXCEPT ![t] = promise]
  /\ wakeTime' = [wakeTime EXCEPT ![t] = time]
  /\ occurred' = [occurred EXCEPT ![t] = TRUE]
  /\ UNCHANGED <<thread, lastCall, canceled>>

Wake(p) ==
  /\ driver[p].at = "wake"
  /\ WakeUp(driver[p].timer, driver[p].instant, p)
  /\ listLock' = Nobody
  /\ driver' = [driver EXCEPT ![p].at = "await"]
  /\ UNCHANGED <<clockVar, sched, procLock, promised, control, failures>>

(* A mutant: the driver does not wait.                                      *)
AwaitNothing(p) ==
  /\ driver[p].at = "await"
  /\ driver' = [driver EXCEPT ![p].at = "pick"]
  /\ UNCHANGED <<clockVar, sched, locks, promised, timerVar, control, failures>>

Await(p) ==
  /\ driver[p].at = "await" /\ promised[p]
  /\ driver' = [driver EXCEPT ![p].at = "pick"]
  /\ UNCHANGED <<clockVar, sched, locks, promised, timerVar, control, failures>>

Process(p) == Enter(p) \/ Pick(p) \/ Leave(p) \/ Wake(p) \/ Await(p)

-----------------------------------------------------------------------------
(***************************************************************************)
(* cTimerThread::execute.                                                  *)
(***************************************************************************)
Loop(t) ==
  /\ thread[t] = "loop"
  /\ thread' = [thread EXCEPT ![t] = IF canceled[t] THEN "exited" ELSE "wait"]
  /\ UNCHANGED <<clockVar, sched, locks, driving, occurred, wakeTime, lastCall,
                 finished, canceled, control, failures>>

(* A canceled thread leaves at once, and m_pFinished as it is.              *)
Awake(t) ==
  /\ thread[t] = "wait" /\ occurred[t]
  /\ occurred' = [occurred EXCEPT ![t] = FALSE]
  /\ thread' = [thread EXCEPT ![t] = IF canceled[t] THEN "exited" ELSE "run"]
  /\ UNCHANGED <<clockVar, sched, locks, driving, wakeTime, lastCall, finished,
                 canceled, control, failures>>

IsNew(t) == lastCall[t] = -1 \/ wakeTime[t] > lastCall[t]

(* A mutant: whoever waits is told only if the job was not called.          *)
RunSilent(t) ==
  /\ thread[t] = "run"
  /\ lastCall' = [lastCall EXCEPT ![t] = wakeTime[t]]
  /\ promised' = [p \in Drivers |-> promised[p]
                                     \/ (finished[t] = p /\ ~IsNew(t))]
  /\ finished' = [finished EXCEPT ![t] = Nobody]
  /\ thread' = [thread EXCEPT ![t] = "loop"]
  /\ UNCHANGED <<clockVar, sched, locks, driver, occurred, wakeTime, canceled,
                 control, failures>>

(* The job has run (or was not called twice for the same time), and whoever *)
(* waits for it is told.                                                    *)
Run(t) ==
  /\ thread[t] = "run"
  /\ lastCall' = [lastCall EXCEPT ![t] = IF IsNew(t) THEN wakeTime[t]
                                         ELSE lastCall[t]]
  /\ promised' = [p \in Drivers |-> promised[p] \/ finished[t] = p]
  /\ finished' = [finished EXCEPT ![t] = Nobody]
  /\ thread' = [thread EXCEPT ![t] = "loop"]
  /\ UNCHANGED <<clockVar, sched, locks, driver, occurred, wakeTime, canceled,
                 control, failures>>

(* JobRuntimeCheck::runJob returns an error (the job failed, or it took too *)
(* long and the strategy is to go to ERROR): RETURN_IF_FAILED ends the      *)
(* thread, and m_pFinished stays as it is.                                  *)
RunFails(t) ==
  /\ thread[t] = "run" /\ IsNew(t)
  /\ failures < MaxFailures
  /\ failures' = failures + 1
  /\ thread' = [thread EXCEPT ![t] = "exited"]
  /\ UNCHANGED <<clockVar, sched, locks, driving, occurred, wakeTime, lastCall,
                 finished, canceled, control>>

TimerStep(t) == Loop(t) \/ Awake(t) \/ Run(t) \/ RunFails(t)

-----------------------------------------------------------------------------
(***************************************************************************)
(* The clock thread: DiscreteClockUpdater::work.                           *)
(***************************************************************************)
(* setNewTime, and timeUpdating of the scheduler.                           *)
Tick ==
  /\ clock = "loop" /\ ~stopClock /\ sim <= MaxTime
  /\ now' = sim /\ sim' = sim + 1
  /\ IF started THEN Drive(Clock, sim) ELSE UNCHANGED driver
  /\ clock' = "update"
  /\ UNCHANGED <<stopClock, sched, locks, promised, timerVar, control,
                 failures>>

Tock ==
  /\ clock = "update" /\ driver[Clock] = Off
  /\ clock' = "loop"
  /\ UNCHANGED <<now, sim, stopClock, sched, locks, driving, timerVar, control,
                 failures>>

ClockEnd ==
  /\ clock = "loop" /\ stopClock
  /\ clock' = "ended"
  /\ UNCHANGED <<now, sim, stopClock, sched, locks, driving, timerVar, control,
                 failures>>

-----------------------------------------------------------------------------
(***************************************************************************)
(* Control: start and stop of the clock service and of the scheduler.      *)
(***************************************************************************)
(* timeResetBegin moves the timers along with the time.                     *)
Shifted(diff) ==
  [i \in 1..Len(list) |-> [list[i] EXCEPT !.next = list[i].next - diff]]

(* LocalSystemSimClock::start resets the time, which still is that of the   *)
(* last run.  The scheduler is not started yet and remembers it.            *)
ClockStart ==
  /\ ctl = "ready"
  /\ now' = 0 /\ sim' = 0 /\ stopClock' = FALSE
  /\ list' = Shifted(now)
  /\ resetTime' = 0
  /\ wakeTime' = [t \in T |-> -1] /\ lastCall' = [t \in T |-> -1]
  /\ clock' = "loop" /\ ctl' = "starting"
  /\ UNCHANGED <<started, locks, driving, thread, occurred, finished, canceled,
                 turn, runs, failures>>

(* LocalClockBasedScheduler::start: the timer threads are started, then the *)
(* step of the reset is made up for.                                        *)
SchedulerStart ==
  /\ ctl = "starting"
  /\ thread' = [t \in T |-> "loop"]
  /\ IF resetTime > -1 THEN Drive(Control, resetTime) ELSE UNCHANGED driver
  /\ ctl' = "firstStep"
  /\ UNCHANGED <<clockVar, sched, locks, promised, occurred, wakeTime, lastCall,
                 finished, canceled, turn, runs, failures>>

SchedulerStarted ==
  /\ ctl = "firstStep" /\ driver[Control] = Off
  /\ started' = TRUE
  /\ ctl' = "running"
  /\ UNCHANGED <<clockVar, list, resetTime, locks, driving, timerVar, turn,
                 runs, failures>>

(* LocalClockBasedScheduler::stop.                                          *)
SchedulerStop ==
  /\ ctl = "running"
  /\ started' = FALSE /\ resetTime' = -1
  /\ ctl' = "remove" /\ turn' = 1
  /\ UNCHANGED <<clockVar, list, locks, driving, timerVar, runs, failures>>

Turn == Timers[turn]

(* cTimerScheduler::RemoveTimer erases the first entry of the timer.        *)
Without(l, t) == RemoveFirstMatch(l, LAMBDA e : e.timer = t)

(* cTimerThread::Stop of one timer after the other ...                      *)
RemoveTimer ==
  /\ ctl = "remove" /\ turn <= Len(Timers) /\ listLock = Nobody
  /\ list' = Without(list, Turn)
  /\ ctl' = "cancel"
  /\ UNCHANGED <<clockVar, started, resetTime, locks, driving, timerVar, turn,
                 runs, failures>>

Cancel ==
  /\ ctl = "cancel"
  /\ canceled' = [canceled EXCEPT ![Turn] = TRUE]
  /\ ctl' = "wake"
  /\ UNCHANGED <<clockVar, sched, locks, driving, thread, occurred, wakeTime,
                 lastCall, finished, turn, runs, failures>>

(* ... which is woken up, without a promise, and joined.                    *)
WakeCanceled ==
  /\ ctl = "wake"
  /\ WakeUp(Turn, now, Nobody)
  /\ ctl' = "join"
  /\ UNCHANGED <<clockVar, sched, locks, driving, turn, runs, failures>>

Join ==
  /\ ctl = "join" /\ thread[Turn] = "exited"
  /\ turn' = turn + 1
  /\ ctl' = "remove"
  /\ UNCHANGED <<clockVar, sched, locks, driving, timerVar, runs, failures>>

(* LocalClockService::stop: the clock thread is asked to end and joined.    *)
ClockStop ==
  /\ ctl = "remove" /\ turn > Len(Timers)
  /\ stopClock' = TRUE
  /\ ctl' = "joinClock"
  /\ UNCHANGED <<now, sim, clock, sched, locks, driving, timerVar, turn, runs,
                 failures>>

ClockJoin ==
  /\ ctl = "joinClock" /\ clock = "ended"
  /\ ctl' = "stopped"
  /\ UNCHANGED <<clockVar, sched, locks, driving, timerVar, turn, runs,
                 failures>>

(* deinitialize() and, on the next way to READY, initialize(): new timers;  *)
(* the clock keeps the time of the run that has ended.                      *)
ReadyAgain ==
  /\ ctl = "stopped" /\ runs < MaxRuns
  /\ runs' = runs + 1
  /\ list' = AddTimers
  /\ thread' = [t \in T |-> "none"]
  /\ occurred' = [t \in T |-> FALSE]
  /\ wakeTime' = [t \in T |-> -1] /\ lastCall' = [t \in T |-> -1]
  /\ finished' = [t \in T |-> Nobody]
  /\ canceled' = [t \in T |-> FALSE]
  /\ ctl' = "ready" /\ turn' = 0
  /\ clock' = "none"
  /\ UNCHANGED <<now, sim, stopClock, started, resetTime, locks, driving,
                 failures>>

Starting == SchedulerStart \/ SchedulerStarted
Stopping == \/ RemoveTimer \/ Cancel \/ WakeCanceled \/ Join
            \/ ClockStop \/ ClockJoin

Terminated == ctl = "stopped" /\ runs = MaxRuns /\ UNCHANGED vars

Next == \/ \E p \in Drivers : Process(p)
        \/ \E t \in T : TimerStep(t)
        \/ Tick \/ Tock \/ ClockEnd
        \/ ClockStart \/ Starting \/ SchedulerStop \/ Stopping \/ ReadyAgain
        \/ Terminated

Spec == Init /\ [][Next]_vars

(* Every thread is scheduled and jobs return.  Nobody has to start or stop  *)
(* the scheduler.                                                           *)
Fairness == /\ \A p \in Drivers : WF_vars(Process(p))
            /\ \A t \in T : WF_vars(TimerStep(t))
            /\ WF_vars(Tick \/ Tock \/ ClockEnd)
            /\ WF_vars(Starting) /\ WF_vars(Stopping)

FairSpec == Spec /\ Fairness
-----------------------------------------------------------------------------
TypeOK ==
  /\ now \in 0..MaxTime /\ sim \in 0..(MaxTime + 1)
  /\ \A i \in 1..Len(list) : list[i].timer \in T /\ list[i].next \in Int
  /\ started \in BOOLEAN /\ resetTime \in {-1, 0}
  /\ procLock \in Drivers \cup {Nobody} /\ listLock \in Drivers \cup {Nobody}
  /\ clock \in {"none", "loop", "update", "ended"} /\ stopClock \in BOOLEAN
  /\ \A p \in Drivers :
       /\ driver[p].at \in {"off", "lock", "pick", "wake", "await"}
       /\ driver[p].timer \in T \cup {Nobody}
       /\ driver[p].time \in 0..MaxTime
  /\ promised \in [Drivers -> BOOLEAN]
  /\ thread \in [T -> {"none", "loop", "wait", "run", "exited"}]
  /\ occurred \in [T -> BOOLEAN] /\ canceled \in [T -> BOOLEAN]
  /\ wakeTime \in [T -> Int] /\ lastCall \in [T -> Int]
  /\ finished \in [T -> Drivers \cup {Nobody}]
  /\ turn \in 0..(Len(Timers) + 1)
  /\ runs \in 1..MaxRuns /\ failures \in 0..MaxFailures

(* Jobs run one at a time, and time stands still meanwhile: a job runs only *)
(* while the thread that processes a time step waits for this very job, and *)
(* it is run for an instant that is not in the future.                      *)
ClockWaitsForJob ==
  \A t \in T : thread[t] = "run" =>
    /\ wakeTime[t] <= now
    /\ \E p \in Drivers : /\ driver[p].at = "await" /\ driver[p].timer = t
                          /\ procLock = p /\ finished[t] = p

(* "WE MUST CALL ALL THREADLOOPS of the item": a job is called for every    *)
(* one of its instants, in their order, however far a step advances or how  *)
(* late the scheduler is started.  The first is "the cycle delay time to    *)
(* the 0 point of the time base", but only in the first run of the          *)
(* participant: timeResetBegin subtracts the time the clock showed at the   *)
(* end of the last run from instants that were counted from 0.              *)
NoInstantLeftOut ==
  [][\A t \in T : lastCall'[t] \notin {lastCall[t], -1} =>
       IF lastCall[t] = -1 THEN runs = 1 => lastCall'[t] = Delay[t]
                           ELSE lastCall'[t] = lastCall[t] + Period[t]]_vars

(* A time step ends only when no timer is due any more, although only the   *)
(* first timer of the list is looked at: moving the timers keeps the list   *)
(* in order as far as that matters.                                         *)
NothingOverdue ==
  [][\A p \in Drivers : driver[p].at = "pick" /\ driver'[p] = Off =>
        \A i \in 1..Len(list') : list'[i].next > driver[p].time]_vars

(* Whoever processes a time step gets through it, be it the clock thread or *)
(* start() that makes up for the step of the reset, unless a job has failed *)
(* or the scheduler is stopped meanwhile.                                   *)
StepCompletes ==
  \A p \in Drivers :
    driver[p].at # "off" ~> \/ driver[p].at = "off" \/ failures > 0
                           \/ ctl \notin {"firstStep", "running"}

(* Once the scheduler is asked to stop between two steps of the clock,      *)
(* every job thread and then the clock thread ends.  (Within a step, or     *)
(* after a job has failed, the stop may wait for ever.)                     *)
StopCompletes ==
  ctl = "remove" /\ turn = 1 /\ clock = "loop" ~> ctl = "stopped" \/ failures > 0

(* The clock thread and the thread that starts and stops the scheduler do   *)
(* not wait for ever.                                                       *)
NobodyWaitsForever == StepCompletes /\ StopCompletes
=============================================================================
