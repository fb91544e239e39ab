----------------------------- MODULE ClockSync -----------------------------
(***************************************************************************)
(* A discrete timing master and a discrete timing slave that synchronize   *)
(* by remote procedure calls.  The master: LocalClockService with its      *)
(* LocalSystemSimClock and ClockMaster.  The slave: the clock              *)
(* synchronization service with MasterOnDemandClockDiscrete, whose         *)
(* FarClockUpdater registers at the master, with a worker thread that      *)
(* tries again when that fails.                                            *)
(*                                                                         *)
(* Each participant has one thread that handles what comes in for it,      *)
(* requests and answers in the order of arrival (cRPC::Update); while a    *)
(* request waits there for a lock or a thread, nothing else is handled.    *)
(* A call that is given up is one whose answer nobody awaits any more, in  *)
(* place of the code's request numbers.                                    *)
(***************************************************************************)
EXTENDS Integers, Sequences

CONSTANTS
  MaxTicks,      \* bound: steps of the master's clock
  MaxMStarts,    \* bound: starts of the master's clock service
  MaxSStarts,    \* bound: starts of the slave's services
  MaxTimeouts    \* bound: calls given up although nothing holds them up

ASSUME ClockSyncAssumption ==
  {MaxTicks, MaxMStarts, MaxSStarts, MaxTimeouts} \subseteq Nat

Callers == {"state", "worker"}

VARIABLES
  mpc,      \* the master's state: "off", "reset", "on", "stop"
  tick,     \* where the thread of the master's clock is
  mtime,    \* the master's _current_time
  sim,      \* _simulated_time in cycles
  known,    \* the slave is in _slaves
  mret,     \* the master's call: "none", "wait", "ok" or "fail"
  min,      \* what came in for the master
  spc,      \* where the slave's state machine thread is
  stime,    \* the slave's _current_time
  obj,      \* the slave's object server is registered
  typed,    \* _master_type is known
  flag,     \* _started of the FarClockUpdater
  garbage,  \* what _started was when the clock was constructed
  halt,     \* _stop
  wpc,      \* where the worker is
  lockT,    \* who holds _lock_thread
  hpc,      \* where the thread is that handles what comes in
  cur,      \* the event it handles
  sret,     \* of each caller of the slave: its call
  sin,      \* what came in for the slave
  heard,    \* the life of the slave that answered the last event, or 0
  bound     \* what is used up of the bounds

master  == <<mpc, tick, mtime, sim, known>>
updater == <<typed, flag, garbage, halt, wpc, lockT>>
slave   == <<spc, stime, obj, hpc, cur>>
vars == <<master, mret, min, slave, updater, sret, sin, heard, bound>>

-----------------------------------------------------------------------------
(* Messages: time events and answers for the slave, requests and answers   *)
(* for the master.                                                         *)
Event(k, n, o) == [kind |-> k, new |-> n, old |-> o, awaited |-> TRUE]
Request(k, c)  == [kind |-> k, from |-> c, awaited |-> TRUE]
AnswerTo(r)    == [kind |-> "answer", to |-> r.from, awaited |-> r.awaited]
Reply(e, ok)   == [kind |-> "answer", ok |-> ok, awaited |-> e.awaited,
                   life |-> bound.sstarts]

IsFrom(m, c) == \/ m.kind = "answer" /\ m.to = c
                \/ m.kind \in {"type", "register", "unregister"} /\ m.from = c

(* The answer to an event cannot get through: the master's thread that     *)
(* would take it waits for _lock_list, or the slave's process is gone.     *)
EventHeldUp == \/ mpc = "reset" /\ min # << >> /\ Head(min).kind = "type"
               \/ spc = "dead"

(* The answer to a request cannot get through: the slave's thread that     *)
(* would take it joins the worker, or waits for the thread that joins it.  *)
RequestHeldUp == \/ hpc = "join"
                 \/ hpc \in {"stop", "restart"} /\ lockT = "state"

Init ==
  /\ mpc = "off" /\ tick = "off" /\ mtime = 0 /\ sim = 0 /\ known = FALSE
  /\ mret = "none" /\ min = << >>
  /\ spc = "off" /\ stime = 0 /\ obj = FALSE
  /\ typed = FALSE /\ flag = FALSE /\ garbage = FALSE /\ halt = FALSE
  /\ wpc = "none" /\ lockT = "free" /\ hpc = "idle"
  /\ cur = Event("reset", 0, 0)
  /\ sret = [c \in Callers |-> "none"] /\ sin = << >>
  /\ heard = 0
  /\ bound = [ticks |-> 0, mstarts |-> 0, sstarts |-> 0, timeouts |-> 0]

Use(b) == bound' = [bound EXCEPT ![b] = @ + 1]

-----------------------------------------------------------------------------
(* The master.                                                             *)

(* Every slave that was ever registered is called: isActive is not asked.  *)
Send(e) ==
  /\ heard' = 0
  /\ IF known THEN sin' = Append(sin, e) /\ mret' = "wait"
              ELSE sin' = sin /\ mret' = "none"

(* LocalClockService::start takes _lock_list; the clock's start resets it, *)
(* and the reset is told to the slaves before the time is set.             *)
MasterStart ==
  /\ mpc = "off" /\ bound.mstarts < MaxMStarts /\ Use("mstarts")
  /\ mpc' = "reset"
  /\ Send(Event("reset", 0, mtime))
  /\ UNCHANGED <<tick, mtime, sim, known, min, slave, updater, sret>>

MasterStarted ==
  /\ mpc = "reset" /\ mret # "wait"
  /\ mpc' = "on" /\ mtime' = 0 /\ sim' = 0 /\ tick' = "ready"
  /\ mret' = "none"
  /\ UNCHANGED <<known, min, slave, updater, sret, sin, heard, bound>>

(* DiscreteClockUpdater::work: the next time is set and told.              *)
Tick ==
  /\ tick = "ready" /\ mpc = "on"
  /\ bound.ticks < MaxTicks /\ Use("ticks")
  /\ tick' = "call" /\ mtime' = sim /\ sim' = sim + 1
  /\ Send(Event("update", sim, 0))
  /\ UNCHANGED <<mpc, known, min, slave, updater, sret>>

TickDone ==
  /\ tick = "call" /\ mret # "wait"
  /\ tick' = "ready" /\ mret' = "none"
  /\ UNCHANGED <<mpc, mtime, sim, known, min, slave, updater, sret, sin,
                 heard, bound>>

(* LocalClockService::stop joins the clock's thread.                       *)
MasterStop ==
  /\ mpc = "on"
  /\ mpc' = "stop"
  /\ UNCHANGED <<tick, mtime, sim, known, mret, min, slave, updater, sret,
                 sin, heard, bound>>

MasterStopped ==
  /\ mpc = "stop" /\ tick = "ready"
  /\ mpc' = "off" /\ tick' = "off"
  /\ UNCHANGED <<mtime, sim, known, mret, min, slave, updater, sret, sin,
                 heard, bound>>

(* getMasterType waits for _lock_list unless the service is started.       *)
MayAnswer(m) == m.kind = "type" => mpc # "reset"

MasterReceive ==
  /\ min # << >> /\ MayAnswer(Head(min))
  /\ min' = Tail(min)
  /\ IF Head(min).kind = "answer"
     THEN /\ mret' = IF ~Head(min).awaited THEN mret
                     ELSE IF Head(min).ok THEN "ok" ELSE "fail"
          /\ heard' = IF Head(min).awaited /\ Head(min).ok
                      THEN Head(min).life ELSE heard
          /\ UNCHANGED <<known, sin>>
     ELSE /\ known' = (known \/ Head(min).kind = "register")
          /\ sin' = Append(sin, AnswerTo(Head(min)))
          /\ UNCHANGED <<mret, heard>>
  /\ UNCHANGED <<mpc, tick, mtime, sim, slave, updater, sret, bound>>

(* Nobody awaits the messages of s any more that belong to the call.       *)
Forget(s, Belongs(_)) ==
  [i \in DOMAIN s |-> IF Belongs(s[i]) THEN [s[i] EXCEPT !.awaited = FALSE]
                      ELSE s[i]]
IsEvent(m) == m.kind \in {"reset", "update"}
IsAnswer(m) == m.kind = "answer"

(* The time out of a call, which the model allows when the call is held up,*)
(* and MaxTimeouts times when its answer is just late.                     *)
Late(heldUp) ==
  \/ heldUp /\ bound' = bound
  \/ ~heldUp /\ bound.timeouts < MaxTimeouts /\ Use("timeouts")

(* A mutant: the call waits for its answer without a limit.                 *)
EventWaits ==
  /\ mret = "wait" /\ mret' = "fail"
  /\ ~EventHeldUp /\ Late(FALSE)
  /\ sin' = Forget(sin, IsEvent) /\ min' = Forget(min, IsAnswer)
  /\ cur' = [cur EXCEPT !.awaited = FALSE]
  /\ UNCHANGED <<master, spc, stime, obj, hpc, updater, sret, heard>>

GiveUpEvent ==
  /\ mret = "wait" /\ mret' = "fail"
  /\ Late(EventHeldUp)
  /\ sin' = Forget(sin, IsEvent) /\ min' = Forget(min, IsAnswer)
  /\ cur' = [cur EXCEPT !.awaited = FALSE]
  /\ UNCHANGED <<master, spc, stime, obj, hpc, updater, sret, heard>>

GiveUpRequest(c) ==
  /\ sret[c] = "wait" /\ sret' = [sret EXCEPT ![c] = "fail"]
  /\ Late(RequestHeldUp)
  /\ sin' = Forget(sin, LAMBDA m : m.kind = "answer" /\ IsFrom(m, c))
  /\ min' = Forget(min, LAMBDA m : m.kind # "answer" /\ IsFrom(m, c))
  /\ UNCHANGED <<master, mret, slave, updater, heard>>

-----------------------------------------------------------------------------
(* The slave: calls of its state machine thread and of its worker.         *)
Call(c, k) ==
  /\ min' = Append(min, Request(k, c))
  /\ sret' = [sret EXCEPT ![c] = "wait"]

Returned(c) == sret[c] \in {"ok", "fail"}

(* startWorking: a thread object that is still joinable is overwritten,    *)
(* which terminates the process.                                           *)
StartWorking(next) ==
  /\ lockT = "free"
  /\ IF wpc = "none"
     THEN /\ halt' = FALSE /\ flag' = TRUE /\ wpc' = "loop"
          /\ next
     ELSE spc' = "dead" /\ UNCHANGED <<halt, flag, wpc, hpc>>
  /\ UNCHANGED <<typed, garbage, lockT>>

(* The services are initialized and started: a new clock, whose _started   *)
(* has the value its memory happens to have, is reset, its object server   *)
(* registered, and the master asked for its type.                          *)
SlaveStart ==
  /\ spc = "off" /\ bound.sstarts < MaxSStarts /\ Use("sstarts")
  /\ spc' = "type" /\ stime' = 0 /\ obj' = TRUE
  /\ typed' = FALSE /\ halt' = FALSE
  /\ flag' \in BOOLEAN /\ garbage' = flag'
  /\ Call("state", "type")
  /\ UNCHANGED <<master, mret, hpc, cur, wpc, lockT, sin, heard>>

(* registerToMaster: both calls, whatever the first one answers.           *)
SlaveType ==
  /\ spc = "type" /\ Returned("state")
  /\ spc' = "register" /\ typed' = (typed \/ sret["state"] = "ok")
  /\ Call("state", "register")
  /\ UNCHANGED <<master, mret, stime, obj, hpc, cur, flag, garbage, halt,
                 wpc, lockT, sin, heard, bound>>

(* A mutant: no worker is needed when the master did not answer.            *)
RegisterOnce ==
  /\ spc = "register" /\ Returned("state")
  /\ spc' = "on" /\ typed' = (typed /\ sret["state"] = "ok")
  /\ sret' = [sret EXCEPT !["state"] = "none"]
  /\ UNCHANGED <<master, mret, min, stime, obj, hpc, cur, flag, garbage,
                 halt, wpc, lockT, sin, heard, bound>>

(* startRPC: without the type of a discrete master a worker is started.    *)
SlaveRegister ==
  /\ spc = "register" /\ Returned("state")
  /\ typed' = (typed /\ sret["state"] = "ok")
  /\ spc' = IF typed' THEN "on" ELSE "begin"
  /\ sret' = [sret EXCEPT !["state"] = "none"]
  /\ UNCHANGED <<master, mret, min, stime, obj, hpc, cur, flag, garbage,
                 halt, wpc, lockT, sin, heard, bound>>

SlaveBegin ==
  /\ spc = "begin"
  /\ StartWorking(spc' = "on" /\ hpc' = hpc)
  /\ UNCHANGED <<master, mret, min, stime, obj, cur, sret, sin, heard, bound>>

(* stopRPC: stopWorkingIfStarted keeps _lock_thread while it joins, then   *)
(* the slave is unregistered.                                              *)
SlaveStop ==
  /\ spc = "on" /\ lockT = "free"
  /\ spc' = "join" /\ lockT' = "state" /\ halt' = TRUE
  /\ UNCHANGED <<master, mret, min, stime, obj, hpc, cur, typed, flag,
                 garbage, wpc, sret, sin, heard, bound>>

(* A mutant: the worker is not joined.                                      *)
NotJoined == TRUE

Joined == flag => wpc = "none"

SlaveJoined ==
  /\ spc = "join" /\ Joined
  /\ spc' = "unregister" /\ flag' = FALSE /\ lockT' = "free"
  /\ Call("state", "unregister")
  /\ UNCHANGED <<master, mret, stime, obj, hpc, cur, typed, garbage, halt,
                 wpc, sin, heard, bound>>

(* The object server is unregistered when no call is in it; the destructor *)
(* stops a worker that was started meanwhile.                              *)
SlaveUnregistered ==
  /\ spc = "unregister" /\ Returned("state") /\ hpc = "idle"
  /\ spc' = "destroy" /\ obj' = FALSE /\ halt' = TRUE
  /\ sret' = [sret EXCEPT !["state"] = "none"]
  /\ UNCHANGED <<master, mret, min, stime, hpc, cur, typed, flag, garbage,
                 wpc, lockT, sin, heard, bound>>

SlaveDestroyed ==
  /\ spc = "destroy" /\ Joined
  /\ spc' = "off" /\ flag' = FALSE
  /\ UNCHANGED <<master, mret, min, stime, obj, hpc, cur, typed, garbage,
                 halt, wpc, lockT, sret, sin, heard, bound>>

-----------------------------------------------------------------------------
(* The worker registers until it knows the master's type; of a discrete    *)
(* master it wants nothing else.                                           *)
WorkerLoop ==
  /\ wpc = "loop"
  /\ \/ /\ halt /\ wpc' = "none"
        /\ UNCHANGED <<min, sret>>
     \/ ~halt /\ ~typed /\ wpc' = "type" /\ Call("worker", "type")
  /\ UNCHANGED <<master, mret, slave, typed, flag, garbage, halt, lockT, sin,
                 heard, bound>>

WorkerType ==
  /\ wpc = "type" /\ Returned("worker")
  /\ wpc' = "register" /\ typed' = (typed \/ sret["worker"] = "ok")
  /\ Call("worker", "register")
  /\ UNCHANGED <<master, mret, slave, flag, garbage, halt, lockT, sin, heard,
                 bound>>

WorkerRegister ==
  /\ wpc = "register" /\ Returned("worker")
  /\ wpc' = "loop" /\ typed' = (typed /\ sret["worker"] = "ok")
  /\ sret' = [sret EXCEPT !["worker"] = "none"]
  /\ UNCHANGED <<master, mret, min, slave, flag, garbage, halt, lockT, sin,
                 heard, bound>>

-----------------------------------------------------------------------------
(* The slave's thread that handles what comes in: answers wake the caller; *)
(* masterTimeEvent sets the time or begins a reset; without the object     *)
(* server the master gets an error.                                        *)
SlaveAnswer(m) ==
  /\ sret' = IF m.awaited THEN [sret EXCEPT ![m.to] = "ok"] ELSE sret
  /\ UNCHANGED <<min, stime, hpc, cur>>

SlaveEvent(m) ==
  /\ IF obj /\ m.kind = "reset" /\ m.new # m.old
     THEN hpc' = "stop" /\ cur' = m /\ UNCHANGED <<min, stime>>
     ELSE /\ min' = Append(min, Reply(m, obj))
          /\ stime' = IF obj /\ m.kind = "update" THEN m.new ELSE stime
          /\ UNCHANGED <<hpc, cur>>
  /\ sret' = sret

SlaveReceive ==
  /\ hpc = "idle" /\ sin # << >> /\ spc # "dead"
  /\ sin' = Tail(sin)
  /\ IF Head(sin).kind = "answer" THEN SlaveAnswer(Head(sin))
     ELSE SlaveEvent(Head(sin))
  /\ UNCHANGED <<master, mret, spc, obj, updater, heard, bound>>

(* resetOnEvent: stop the worker, reset the clock, start the worker again  *)
(* if there was one, and only then answer.                                 *)
ResetStop ==
  /\ hpc = "stop" /\ lockT = "free"
  /\ hpc' = "join" /\ lockT' = "handler" /\ halt' = TRUE
  /\ UNCHANGED <<master, mret, min, spc, stime, obj, cur, typed, flag,
                 garbage, wpc, sret, sin, heard, bound>>

(* A mutant: the worker is stopped and started, the clock is not reset.     *)
ResetForgotten ==
  /\ hpc = "join" /\ Joined
  /\ hpc' = (IF flag THEN "restart" ELSE "answer")
  /\ flag' = FALSE /\ lockT' = "free"
  /\ UNCHANGED <<master, mret, min, spc, stime, obj, cur, typed, garbage,
                 halt, wpc, sret, sin, heard, bound>>

ResetJoined ==
  /\ hpc = "join" /\ Joined
  /\ hpc' = (IF flag THEN "restart" ELSE "answer")
  /\ flag' = FALSE /\ lockT' = "free" /\ stime' = cur.new
  /\ UNCHANGED <<master, mret, min, spc, obj, cur, typed, garbage, halt, wpc,
                 sret, sin, heard, bound>>

ResetRestart ==
  /\ hpc = "restart"
  /\ StartWorking(spc' = spc /\ hpc' = "answer")
  /\ UNCHANGED <<master, mret, min, stime, obj, cur, sret, sin, heard, bound>>

ResetAnswer ==
  /\ hpc = "answer"
  /\ hpc' = "idle" /\ min' = Append(min, Reply(cur, TRUE))
  /\ UNCHANGED <<master, mret, spc, stime, obj, cur, updater, sret, sin,
                 heard, bound>>

-----------------------------------------------------------------------------
Master == MasterStarted \/ TickDone \/ MasterStopped \/ MasterReceive
State  == SlaveType \/ SlaveRegister \/ SlaveBegin \/ SlaveJoined
            \/ SlaveUnregistered \/ SlaveDestroyed
Worker == WorkerLoop \/ WorkerType \/ WorkerRegister
Handler == SlaveReceive \/ ResetStop \/ ResetJoined \/ ResetRestart
             \/ ResetAnswer
Alive == spc # "dead"

Next ==
  \/ MasterStart \/ Tick \/ MasterStop \/ Master
  \/ SlaveStart \/ SlaveStop
  \/ Alive /\ (State \/ Worker \/ Handler)
  \/ GiveUpEvent \/ \E c \in Callers : Alive /\ GiveUpRequest(c)

Spec == Init /\ [][Next]_vars

(* Threads run; a call that is held up times out at last.                  *)
FairSpec ==
  /\ Spec
  /\ WF_vars(Master) /\ WF_vars(Alive /\ State) /\ WF_vars(Alive /\ Worker)
  /\ WF_vars(Alive /\ Handler)
  /\ WF_vars(EventHeldUp /\ GiveUpEvent)
  /\ \A c \in Callers : WF_vars(Alive /\ RequestHeldUp /\ GiveUpRequest(c))

-----------------------------------------------------------------------------
(* Types.                                                                  *)
TypeOK ==
  /\ mpc \in {"off", "reset", "on", "stop"}
  /\ tick \in {"off", "ready", "call"}
  /\ {mtime, stime} \subseteq {0} \cup 0 .. MaxTicks - 1
  /\ sim \in 0 .. MaxTicks /\ known \in BOOLEAN
  /\ mret \in {"none", "wait", "ok", "fail"}
  /\ spc \in {"off", "type", "register", "begin", "on", "join", "unregister",
              "destroy", "dead"}
  /\ obj \in BOOLEAN
  /\ typed \in BOOLEAN /\ flag \in BOOLEAN /\ garbage \in BOOLEAN
  /\ halt \in BOOLEAN
  /\ wpc \in {"none", "loop", "type", "register"}
  /\ lockT \in {"free", "state", "handler"}
  /\ hpc \in {"idle", "stop", "join", "restart", "answer"}
  /\ sret \in [Callers -> {"none", "wait", "ok", "fail"}]
  /\ heard \in 0 .. MaxSStarts

(* When a step of the master's clock, or its reset, was answered by the    *)
(* slave, the slave has the master's time until the next one begins; late  *)
(* answers and events of calls that were given up do not spoil it.         *)
AnsweredMeansSynced ==
  heard = bound.sstarts /\ tick = "ready" /\ obj => stime = mtime

(* No worker outlives its clock, although a reset may start one while the  *)
(* slave is being stopped.                                                 *)
WorkerEndsWithClock == spc = "off" => wpc = "none"

(* A running worker is overwritten only if _started was not FALSE in the   *)
(* first place: the constructor does not initialize it.                    *)
TerminatedByGarbage == spc = "dead" => garbage

(* The worker of the slave ends with it, and does not take the process     *)
(* with it unless the uninitialized flag says so.                          *)
WorkerEndsCleanly == WorkerEndsWithClock /\ TerminatedByGarbage

(* A slave in RUNNING learns that it is registered, however many of its    *)
(* calls time out at first.                                                *)
RegistrationSucceeds ==
    spc = "on" ~> (known /\ typed) \/ spc # "on"

(* The start of the master's clock ends, although it holds _lock_list for  *)
(* which the slave's request may wait, while it waits for the slave.       *)
MasterStartEnds == mpc = "reset" ~> mpc = "on"

(* The slave can be stopped, although the thread it joins may wait for an  *)
(* answer that the thread joining it would have to take.                   *)
SlaveStopEnds == spc = "join" ~> spc \in {"off", "dead"}

(* Neither the master nor the slave waits for ever for the other one.      *)
CallsReturn == MasterStartEnds /\ SlaveStopEnds
=============================================================================
