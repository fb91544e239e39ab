---------------------------- MODULE Transmission ----------------------------
(***************************************************************************)
(* The receive path of the transmission adapter: the driver's receiver     *)
(* (transmission_adapter/zmq), cDataReceiver with its pool of containers   *)
(* and its queue, cQueueManager with its worker threads, the listeners,    *)
(* Enable and Disable of cTransmissionAdapter, and the registration of     *)
(* input signals that cSignalRegistry allows or refuses.                   *)
(*                                                                         *)
(* Samples are numbered per receiver.  Of a sample's content the model     *)
(* keeps what decides its way: "good", "bad" (Process refuses its header,  *)
(* size or serialization) or "big" (greater than the containers).          *)
(***************************************************************************)
EXTENDS Integers, FiniteSetsExt, Sequences

CONSTANTS
  Receivers,   \* the cDataReceiver objects that are ever created
  Workers,     \* threads of the queue manager
  Listeners,   \* data listeners of the user
  Pool,        \* containers of a receiver (256 or 20 in the code)
  Kinds,       \* kinds of samples that arrive
  MaxSignals,  \* bound: input signals that are registered at a time
  MaxSamples,  \* bound: samples that arrive at all receivers
  MaxEnables,  \* bound: how often the adapter is enabled
  MaxChanges,  \* bound: registrations of listeners
  Rush         \* signals are unregistered while the adapter is enabled

NoOne == "no one"

ASSUME TransmissionAssumption ==
  /\ Pool \in Nat \ {0} /\ Kinds \subseteq {"good", "bad", "big"}
  /\ {MaxSignals, MaxSamples, MaxEnables, MaxChanges} \subseteq Nat
  /\ Rush \in BOOLEAN
  /\ NoOne \notin Workers \cup Receivers

VARIABLES
  rcv,      \* of each receiver: "unborn", "alive" or "dead"
  active,   \* of each receiver: m_bIsActivated of the driver's receiver
  bus,      \* of each receiver: where the driver's thread is in the callback
  pool,     \* of each receiver: length of m_qPreAllocQueue
  queue,    \* of each receiver: m_qReceiveQueue, samples as <<number, kind>>
  job,      \* of each receiver: who holds m_mtxJob
  lock,     \* of each receiver: who holds m_mtxListener
  lst,      \* of each receiver: m_lstListener without the sample buffer's
  got,      \* of each receiver: samples that arrived
  last,     \* of each receiver: the number of the last sample delivered
  lost,     \* of each receiver: containers that no queue holds any more
  jobs,     \* m_qJobQueue
  open,     \* m_bJobQueueActive
  wpc,      \* where each worker is
  wrcv,     \* the receiver each worker has a job of
  wsample,  \* the sample each worker processes
  ctl,      \* where the thread of the state machine is
  halt,     \* m_oShutdown of the workers is set
  allow,    \* m_bAllowRegistration
  enables,  \* what is used up of MaxEnables
  changes   \* what is used up of MaxChanges

stores   == <<pool, queue, lost>>
locks    == <<job, lock>>
progress == <<got, last>>
workers  == <<wpc, wrcv, wsample>>
control  == <<ctl, halt, allow, enables>>
vars == <<rcv, active, bus, stores, locks, lst, progress, jobs, open, workers,
          control, changes>>

Alive == {r \in Receivers : rcv[r] = "alive"}
NoSample == <<0, "good">>

Init ==
  /\ rcv = [r \in Receivers |-> "unborn"]
  /\ active = [r \in Receivers |-> FALSE]
  /\ bus = [r \in Receivers |-> "idle"]
  /\ pool = [r \in Receivers |-> 0] /\ lost = [r \in Receivers |-> 0]
  /\ queue = [r \in Receivers |-> <<>>]
  /\ job = [r \in Receivers |-> NoOne] /\ lock = [r \in Receivers |-> NoOne]
  /\ lst = [r \in Receivers |-> {}]
  /\ got = [r \in Receivers |-> 0] /\ last = [r \in Receivers |-> 0]
  /\ jobs = <<>> /\ open = FALSE
  /\ wpc = [w \in Workers |-> "none"]
  /\ wrcv = [w \in Workers |-> NoOne]
  /\ wsample = [w \in Workers |-> NoSample]
  /\ ctl = "off" /\ halt = FALSE /\ allow = TRUE
  /\ enables = 0 /\ changes = 0

-----------------------------------------------------------------------------
(***************************************************************************)
(* Registration, by the thread of the state machine in its callbacks.      *)
(***************************************************************************)
(* A state change is not under way, and registration is allowed.  It is     *)
(* allowed while the adapter is enabled too: between Enable and Disallow,   *)
(* and from the exit of READY or RUNNING until Disable.                     *)
MayRegister == allow /\ ctl \in {"off", "enabled", "exit"}

(* RegisterSignal of an input signal, with Create of the receiver.  A       *)
(* receiver that is created is not enabled before the next Enable.          *)
RegisterSignal(r) ==
  /\ MayRegister /\ rcv[r] = "unborn" /\ Cardinality(Alive) < MaxSignals
  /\ rcv' = [rcv EXCEPT ![r] = "alive"]
  /\ pool' = [pool EXCEPT ![r] = Pool]
  /\ UNCHANGED <<active, bus, queue, lost, locks, lst, progress, jobs, open,
                 workers, control, changes>>

(* UnregisterSignal: the listeners go first, the destructor then waits for  *)
(* m_mtxJob and m_mtxListener, and DestroyReceiver for the driver.  Jobs of *)
(* the receiver stay where they are.                                        *)
UnregisterSignal(r) ==
  /\ MayRegister /\ rcv[r] = "alive"
  /\ Rush \/ ctl = "off"
  /\ job[r] = NoOne /\ lock[r] = NoOne /\ bus[r] = "idle"
  /\ rcv' = [rcv EXCEPT ![r] = "dead"]
  /\ active' = [active EXCEPT ![r] = FALSE]
  /\ lst' = [lst EXCEPT ![r] = {}]
  /\ pool' = [pool EXCEPT ![r] = 0] /\ queue' = [queue EXCEPT ![r] = <<>>]
  /\ lost' = [lost EXCEPT ![r] = 0]
  /\ UNCHANGED <<bus, locks, progress, jobs, open, workers, control, changes>>

(* RegisterListener and UnregisterListener, by any thread of the user.      *)
RegisterListener(r, l) ==
  /\ rcv[r] = "alive" /\ lock[r] = NoOne /\ l \notin lst[r]
  /\ changes < MaxChanges /\ changes' = changes + 1
  /\ lst' = [lst EXCEPT ![r] = @ \cup {l}]
  /\ UNCHANGED <<rcv, active, bus, stores, locks, progress, jobs, open,
                 workers, control>>

(* A mutant: the list is changed without the mutex.                         *)
UnregisterUnlocked(r, l) ==
  /\ rcv[r] = "alive" /\ l \in lst[r]
  /\ lst' = [lst EXCEPT ![r] = @ \ {l}]
  /\ UNCHANGED <<rcv, active, bus, stores, locks, progress, jobs, open,
                 workers, control, changes>>

UnregisterListener(r, l) ==
  /\ rcv[r] = "alive" /\ lock[r] = NoOne /\ l \in lst[r]
  /\ lst' = [lst EXCEPT ![r] = @ \ {l}]
  /\ UNCHANGED <<rcv, active, bus, stores, locks, progress, jobs, open,
                 workers, control, changes>>

-----------------------------------------------------------------------------
(***************************************************************************)
(* The driver's thread: HandleMessage holds m_oActivationGuard around      *)
(* EnqueueReceivedData.                                                    *)
(***************************************************************************)
Bus(r, place) == bus' = [bus EXCEPT ![r] = place]

Arrived == MapThenSumSet(LAMBDA x : got[x], Receivers)

(* A sample gets a container and is queued.  Without a container it is      *)
(* dropped; one that is too big is dropped and its container is forgotten.  *)
Receive(r, kind) ==
  /\ rcv[r] = "alive" /\ active[r] /\ bus[r] = "idle"
  /\ Arrived < MaxSamples
  /\ got' = [got EXCEPT ![r] = @ + 1]
  /\ \/ /\ pool[r] = 0
        /\ UNCHANGED <<stores, bus>>
     \/ /\ pool[r] > 0 /\ kind = "big"
        /\ pool' = [pool EXCEPT ![r] = @ - 1]
        /\ lost' = [lost EXCEPT ![r] = @ + 1]
        /\ UNCHANGED <<queue, bus>>
     \/ /\ pool[r] > 0 /\ kind # "big"
        /\ pool' = [pool EXCEPT ![r] = @ - 1]
        /\ queue' = [queue EXCEPT ![r] = Append(@, <<got[r] + 1, kind>>)]
        /\ Bus(r, "queued")
        /\ UNCHANGED lost
  /\ UNCHANGED <<rcv, active, locks, lst, last, jobs, open, workers, control,
                 changes>>

(* EnqueueJob reads the flag and then appends the job.                      *)
ReadOpen(r) ==
  /\ bus[r] = "queued"
  /\ Bus(r, IF open THEN "post" ELSE "idle")
  /\ UNCHANGED <<rcv, active, stores, locks, lst, progress, jobs, open,
                 workers, control, changes>>

EnqueueJob(r) ==
  /\ bus[r] = "post"
  /\ jobs' = Append(jobs, r)
  /\ Bus(r, "idle")
  /\ UNCHANGED <<rcv, active, stores, locks, lst, progress, open, workers,
                 control, changes>>

-----------------------------------------------------------------------------
(***************************************************************************)
(* A worker: ThreadFunc, DoWork and DoJob.                                 *)
(***************************************************************************)
Work(w, place) == wpc' = [wpc EXCEPT ![w] = place]

(* DoWork ends, and with it its pointer to the receiver; the loop of        *)
(* ThreadFunc looks at the shutdown and calls DoWork again.  A sample is    *)
(* dropped with the turn of the loop in DoJob.                              *)
Leave(w)  == /\ Work(w, IF halt THEN "gone" ELSE "idle")
             /\ wrcv' = [wrcv EXCEPT ![w] = NoOne]
Forget(w) == Work(w, "take") /\ wsample' = [wsample EXCEPT ![w] = NoSample]

(* DoWork waits up to 100 ms for a job, whatever m_oShutdown is meanwhile.  *)
TakeJob(w) ==
  /\ wpc[w] = "idle" /\ jobs # <<>>
  /\ wrcv' = [wrcv EXCEPT ![w] = Head(jobs)] /\ jobs' = Tail(jobs)
  /\ Work(w, "try")
  /\ UNCHANGED <<rcv, active, bus, stores, locks, lst, progress, open, wsample,
                 control, changes>>

(* A mutant: the worker goes on whether or not it got the mutex.            *)
EnterAnyway(w) ==
  /\ wpc[w] = "try"
  /\ job' = [job EXCEPT ![wrcv[w]] = w] /\ Work(w, "take")
  /\ UNCHANGED <<rcv, active, bus, stores, lock, lst, progress, jobs, open,
                 wrcv, wsample, control, changes>>

(* try_lock of m_mtxJob: a receiver that another worker is busy with is     *)
(* left to it.                                                              *)
TryJob(w) ==
  /\ wpc[w] = "try"
  /\ IF job[wrcv[w]] = NoOne
     THEN /\ job' = [job EXCEPT ![wrcv[w]] = w]
          /\ Work(w, "take") /\ UNCHANGED wrcv
     ELSE Leave(w) /\ UNCHANGED job
  /\ UNCHANGED <<rcv, active, bus, stores, lock, lst, progress, jobs, open,
                 wsample, control, changes>>

(* TryDequeueAndUnlockGuardIfEmpty looks at the queue with the queue's own  *)
(* lock and unlocks m_mtxJob after it has released that lock.               *)
TakeSample(w) ==
  LET r == wrcv[w]
  IN  /\ wpc[w] = "take"
      /\ IF queue[r] = <<>>
         THEN Work(w, "empty") /\ UNCHANGED <<queue, wsample>>
         ELSE /\ queue' = [queue EXCEPT ![r] = Tail(@)]
              /\ wsample' = [wsample EXCEPT ![w] = Head(queue[r])]
              /\ Work(w, "process")
      /\ UNCHANGED <<rcv, active, bus, pool, lost, locks, lst, progress, jobs,
                     open, wrcv, control, changes>>

UnlockJob(w) ==
  /\ wpc[w] = "empty"
  /\ job' = [job EXCEPT ![wrcv[w]] = NoOne]
  /\ Leave(w)
  /\ UNCHANGED <<rcv, active, bus, stores, lock, lst, progress, jobs, open,
                 wsample, control, changes>>

(* A mutant: the container of a sample that is refused is not given back.   *)
RefuseAndForget(w) ==
  /\ wpc[w] = "process" /\ wsample[w][2] = "bad"
  /\ Forget(w)
  /\ UNCHANGED <<rcv, active, bus, stores, locks, lst, progress, jobs, open,
                 wrcv, control, changes>>

(* Process refuses the sample; the container returns to the pool.           *)
Refuse(w) ==
  /\ wpc[w] = "process" /\ wsample[w][2] = "bad"
  /\ pool' = [pool EXCEPT ![wrcv[w]] = @ + 1]
  /\ Forget(w)
  /\ UNCHANGED <<rcv, active, bus, queue, lost, locks, lst, progress, jobs,
                 open, wrcv, control, changes>>

(* UpdateListeners holds m_mtxListener while it calls them all.             *)
BeginUpdate(w) ==
  /\ wpc[w] = "process" /\ wsample[w][2] = "good" /\ lock[wrcv[w]] = NoOne
  /\ lock' = [lock EXCEPT ![wrcv[w]] = w]
  /\ Work(w, "update")
  /\ UNCHANGED <<rcv, active, bus, stores, job, lst, progress, jobs, open,
                 wrcv, wsample, control, changes>>

EndUpdate(w) ==
  LET r == wrcv[w]
  IN  /\ wpc[w] = "update"
      /\ last' = [last EXCEPT ![r] = wsample[w][1]]
      /\ pool' = [pool EXCEPT ![r] = @ + 1]
      /\ lock' = [lock EXCEPT ![r] = NoOne]
      /\ Forget(w)
      /\ UNCHANGED <<rcv, active, bus, queue, lost, job, lst, got, jobs, open,
                     wrcv, control, changes>>

(* A mutant: the shutdown signal is looked at only after a job has come.    *)
EndAfterJob(w) ==
  /\ wpc[w] = "idle" /\ halt /\ jobs # <<>>
  /\ Work(w, "gone")
  /\ UNCHANGED <<rcv, active, bus, stores, locks, lst, progress, jobs, open,
                 wrcv, wsample, control, changes>>

(* DoWork has waited in vain.                                               *)
WorkerEnd(w) ==
  /\ wpc[w] = "idle" /\ halt
  /\ Work(w, "gone")
  /\ UNCHANGED <<rcv, active, bus, stores, locks, lst, progress, jobs, open,
                 wrcv, wsample, control, changes>>

-----------------------------------------------------------------------------
(***************************************************************************)
(* Enable at the entry of READY, Disable at the entry of IDLE or ERROR.    *)
(***************************************************************************)
Enable ==
  /\ ctl = "off" /\ enables < MaxEnables
  /\ ctl' = "enabled" /\ enables' = enables + 1
  /\ open' = TRUE /\ halt' = FALSE
  /\ wpc' = [w \in Workers |-> "idle"]
  /\ active' = [r \in Receivers |-> rcv[r] = "alive"]
  /\ UNCHANGED <<rcv, bus, stores, locks, lst, progress, jobs, wrcv, wsample,
                 allow, changes>>

DisallowSignalRegistration ==
  /\ ctl = "enabled"
  /\ ctl' = "running" /\ allow' = FALSE
  /\ UNCHANGED <<rcv, active, bus, stores, locks, lst, progress, jobs, open,
                 workers, halt, enables, changes>>

(* At the exit of READY or RUNNING, before the entry of the next state.     *)
AllowSignalRegistration ==
  /\ ctl = "running"
  /\ ctl' = "exit" /\ allow' = TRUE
  /\ UNCHANGED <<rcv, active, bus, stores, locks, lst, progress, jobs, open,
                 workers, halt, enables, changes>>

(* Disable, cQueueManager::Destroy: the workers are told to end ...         *)
SignalWorkers ==
  /\ ctl = "exit"
  /\ ctl' = "join" /\ halt' = TRUE
  /\ UNCHANGED <<rcv, active, bus, stores, locks, lst, progress, jobs, open,
                 workers, allow, enables, changes>>

(* ... and joined, and the queue of jobs is closed ...                      *)
JoinWorkers ==
  /\ ctl = "join" /\ \A w \in Workers : wpc[w] = "gone"
  /\ ctl' = "clear" /\ open' = FALSE
  /\ UNCHANGED <<rcv, active, bus, stores, locks, lst, progress, jobs, workers,
                 halt, allow, enables, changes>>

(* A mutant: the jobs that nobody took stay in the queue.                   *)
ClearNothing ==
  /\ ctl = "clear"
  /\ ctl' = "flush" /\ wpc' = [w \in Workers |-> "none"]
  /\ UNCHANGED <<rcv, active, bus, stores, locks, lst, progress, jobs, open,
                 wrcv, wsample, halt, allow, enables, changes>>

(* ... and cleared.  The last TryDequeue waits 100 ms: a driver's thread    *)
(* that has read the open flag appends its job within that time.            *)
ClearJobs ==
  /\ ctl = "clear" /\ \A r \in Receivers : bus[r] # "post"
  /\ ctl' = "flush" /\ jobs' = <<>> /\ wpc' = [w \in Workers |-> "none"]
  /\ UNCHANGED <<rcv, active, bus, stores, locks, lst, progress, open, wrcv,
                 wsample, halt, allow, enables, changes>>

(* Disable of the driver's receiver waits for m_oActivationGuard, FlushQueue*)
(* for m_mtxJob.                                                            *)
FlushQueue(r) ==
  /\ ctl = "flush" /\ active[r] /\ bus[r] = "idle" /\ job[r] = NoOne
  /\ active' = [active EXCEPT ![r] = FALSE]
  /\ pool' = [pool EXCEPT ![r] = @ + Len(queue[r])]
  /\ queue' = [queue EXCEPT ![r] = <<>>]
  /\ UNCHANGED <<rcv, bus, lost, locks, lst, progress, jobs, open, workers,
                 control, changes>>

DisableDone ==
  /\ ctl = "flush" /\ \A r \in Receivers : ~active[r]
  /\ ctl' = "off"
  /\ UNCHANGED <<rcv, active, bus, stores, locks, lst, progress, jobs, open,
                 workers, halt, allow, enables, changes>>

-----------------------------------------------------------------------------
Driver(r) == (\E k \in Kinds : Receive(r, k)) \/ ReadOpen(r) \/ EnqueueJob(r)

Worker(w) == \/ TakeJob(w) \/ TryJob(w) \/ TakeSample(w) \/ UnlockJob(w)
             \/ Refuse(w) \/ BeginUpdate(w) \/ EndUpdate(w) \/ WorkerEnd(w)

User(r) == \/ RegisterSignal(r) \/ UnregisterSignal(r)
           \/ \E l \in Listeners : \/ RegisterListener(r, l)
                                  \/ UnregisterListener(r, l)

Disable == SignalWorkers \/ JoinWorkers \/ ClearJobs
           \/ (\E r \in Receivers : FlushQueue(r)) \/ DisableDone

Control == Enable \/ DisallowSignalRegistration \/ AllowSignalRegistration
           \/ Disable

Next == \/ \E r \in Receivers : Driver(r) \/ User(r)
        \/ \E w \in Workers : Worker(w)
        \/ Control

Spec == Init /\ [][Next]_vars

(* Threads that can go on do so, and listeners return.  Samples need not    *)
(* arrive, users need not register anything, and the adapter may stay       *)
(* enabled for ever.  m_mtxListener is fair to the worker that wants it.    *)
FairSpec ==
  /\ Spec
  /\ \A r \in Receivers : WF_vars(ReadOpen(r) \/ EnqueueJob(r))
  /\ \A w \in Workers : WF_vars(Worker(w))
  /\ WF_vars(JoinWorkers \/ ClearJobs \/ (\E r \in Receivers : FlushQueue(r))
             \/ DisableDone)

-----------------------------------------------------------------------------
Busy(r) == {w \in Workers : wrcv[w] = r /\ wpc[w] \in {"process", "update"}}

(* Every variable has its type; a pool has at most its containers.          *)
TypeOK ==
  /\ rcv \in [Receivers -> {"unborn", "alive", "dead"}]
  /\ active \in [Receivers -> BOOLEAN]
  /\ bus \in [Receivers -> {"idle", "queued", "post"}]
  /\ pool \in [Receivers -> 0..Pool] /\ lost \in [Receivers -> 0..Pool]
  /\ queue \in [Receivers -> Seq((1..MaxSamples) \X Kinds)]
  /\ job \in [Receivers -> Workers \cup {NoOne}]
  /\ lock \in [Receivers -> Workers \cup {NoOne}]
  /\ lst \in [Receivers -> SUBSET Listeners]
  /\ {got, last} \subseteq [Receivers -> 0..MaxSamples]
  /\ jobs \in Seq(Receivers) /\ open \in BOOLEAN
  /\ wpc \in [Workers -> {"none", "idle", "try", "take", "empty", "process",
                          "update", "gone"}]
  /\ wrcv \in [Workers -> Receivers \cup {NoOne}]
  /\ ctl \in {"off", "enabled", "running", "exit", "join", "clear", "flush"}
  /\ {halt, allow} \subseteq BOOLEAN /\ {enables, changes} \subseteq Nat

(* No container is lost or used twice: each is in the pool, in the queue or *)
(* with a worker, but for one per sample that was too big.                  *)
ContainersAccounted ==
  \A r \in Alive :
    pool[r] + Len(queue[r]) + Cardinality(Busy(r)) + lost[r] = Pool

(* Several workers may take jobs of one receiver, yet its listeners see its *)
(* samples in the order they arrived in, and none twice.                    *)
DeliveredInOrder ==
  [][\A r \in Receivers : last'[r] # last[r] => last'[r] > last[r]]_vars

(* The list of listeners does not change while a worker goes through it,    *)
(* so that a listener is not called after UnregisterListener has returned.  *)
ListKeptInUpdate ==
  [][\A w \in Workers : wpc[w] = "update" /\ wpc'[w] = "update"
       => lst'[wrcv[w]] = lst[wrcv[w]]]_vars

(* The destructor of a receiver: "wait for any receives to return".  No     *)
(* worker comes to a receiver that is gone.                                 *)
NoDeadReceiver ==
  \A w \in Workers : wpc[w] \notin {"none", "idle", "gone"}
                       => rcv[wrcv[w]] = "alive"

(* Disable returns, whatever the workers and the driver are doing.          *)
DisableCompletes == ctl = "join" ~> ctl = "off"

(* doc/input/fep_tx_adapter.dox: "The queued data will be processed by a    *)
(* number of worker threads."                                               *)
QueuedIsProcessed ==
  \A r \in Receivers : queue[r] # <<>> ~> queue[r] = <<>>
=============================================================================
