-------------------------- MODULE LockedStepProofs --------------------------
(***************************************************************************)
(* Theorems about LockedStep, for any participants, tasks, cycle times and *)
(* bounds: its types, that a step computes with the time of the master     *)
(* (TimesAreTheMasters), and that the master with its clients implements   *)
(* LockStep (LockStepFollowed).                                            *)
(*                                                                         *)
(* Neither is inductive.  What a task computes with depends on the tick it *)
(* was woken by, the tick on what the master had sent before, and that the *)
(* master is still at that instant on the acknowledgement which the task   *)
(* has not sent yet.  The invariant StepInv says all of this:              *)
(*   Types     TypeOK, with what is known of the phases and the schedule;  *)
(*   FreshInv  before the master is started no tick, acknowledgement or    *)
(*             woken task can be left over from anything;                  *)
(*   RunInv    in the first run of the master: where its worker is         *)
(*             (MasterInv), the ticks under way, which are a chain up to   *)
(*             the last one sent (ChanInv), and for each listener in the   *)
(*             schedule (MemberInv) that no earlier instant of it is still *)
(*             to come, that it computes or has its acknowledgement under  *)
(*             way only while the master waits for it, the times it holds, *)
(*             that a client that missed a tick never wakes it again, and  *)
(*             how many steps it has computed.                             *)
(* That the master meets every instant of a listener, and no two at once,  *)
(* is arithmetic of multiples: the lemmas of the first section.            *)
(***************************************************************************)
EXTENDS LockedStep, SequenceTheorems, TLAPS, WellFoundedInduction

-----------------------------------------------------------------------------
(***************************************************************************)
(* Numbers.                                                                *)
(***************************************************************************)
(* A bounded set of numbers has a greatest one.                             *)
LEMMA MaxOf ==
  ASSUME NEW b \in Nat, NEW S \in SUBSET 0..b, S # {}
  PROVE  Max(S) \in S
<1>. DEFINE R == OpToRel(<, Nat)
            T == {b - x : x \in S}
<1>a. \A x \in S : x \in 0..b /\ b - x \in Nat
  OBVIOUS
<1>1. T \in SUBSET Nat /\ T # {}
  BY <1>a
<1>2. PICK y \in T : \A z \in T : ~(<<z, y>> \in R)
  BY <1>1, WFMin, NatLessThanWellFounded
<1>3. \A z \in T : ~(z < y)
  BY <1>1, <1>2 DEF OpToRel
<1>4. PICK x \in S : y = b - x
  OBVIOUS
<1>5. \A z \in S : ~(b - z < b - x)
  BY <1>3, <1>4
<1>6. ASSUME NEW z \in S PROVE x >= z
  BY <1>4, <1>5, <1>6, z \in 0..b, x \in 0..b
<1>. QED BY <1>6 DEF Max

(* A multiple, as a product.                                                *)
LEMMA Quotient ==
  ASSUME NEW a \in Nat, NEW c \in Nat \ {0}, a % c = 0
  PROVE  \E q \in Nat : a = c * q
<1>. WITNESS a \div c \in Nat
<1>. QED OBVIOUS

(* A product is a multiple.                                                 *)
LEMMA Multiple ==
  ASSUME NEW q \in Nat, NEW c \in Nat \ {0}
  PROVE  (c * q) % c = 0 /\ (q * c) % c = 0
OBVIOUS

(* Products keep the order of their factors.                                *)
LEMMA Factors ==
  ASSUME NEW d \in Nat \ {0}, NEW i \in Nat, NEW j \in Nat
  PROVE  /\ d * i \in Nat
         /\ d * (i + 1) = d * i + d
         /\ (i + 1) * d = i * d + d
         /\ d * i < d * j => i < j
         /\ i < j => d * i + d <= d * j
<1>1. d * i \in Nat
  OBVIOUS
<1>2. d * (i + 1) = d * i + d /\ (i + 1) * d = i * d + d
  OBVIOUS
<1>3. d * i < d * j => i < j
  OBVIOUS
<1>4. i < j => d * i + d <= d * j
  OBVIOUS
<1>. QED BY <1>1, <1>2, <1>3, <1>4

(* One more step of a listener.                                             *)
LEMMA StepMore ==
  ASSUME NEW k \in Nat, NEW c \in Nat
  PROVE  k * c \in Nat /\ (k + 1) * c = k * c + c
OBVIOUS

(* Multiples of multiples.                                                  *)
LEMMA Products ==
  ASSUME NEW d \in Nat, NEW p \in Nat, NEW q \in Nat
  PROVE  (d * p) * q = d * (p * q) /\ p * q \in Nat
OBVIOUS

(* Between two neighbouring multiples of a divisor d of c there is none of  *)
(* c.                                                                       *)
LEMMA NoneBetween ==
  ASSUME NEW d \in Nat \ {0}, NEW c \in Nat \ {0}, c % d = 0, NEW i \in Nat,
         NEW m \in Nat, m % c = 0, d * i <= m, m < d * i + d
  PROVE  m = d * i
<1>1. PICK p \in Nat : c = d * p
  BY Quotient
<1>2. PICK q \in Nat : m = c * q
  BY Quotient
<1>3. m = d * (p * q) /\ p * q \in Nat
  BY <1>1, <1>2, Products
<1>. DEFINE r == p * q
<1>4. r \in Nat /\ m = d * r
  BY <1>3
<1>. HIDE DEF r
<1>5. ~ (i < r) /\ ~ (r < i)
  BY <1>4, Factors
<1>6. r = i
  BY <1>4, <1>5
<1>. QED BY <1>4, <1>6

(* What is below a multiple of c is at least d below it.                    *)
LEMMA RoomForStep ==
  ASSUME NEW d \in Nat \ {0}, NEW c \in Nat \ {0}, c % d = 0, NEW i \in Nat,
         NEW k \in Nat, d * i < k * c
  PROVE  d * i + d <= k * c
<1>1. PICK p \in Nat : c = d * p
  BY Quotient
<1>2. k * c = d * (p * k) /\ p * k \in Nat
  BY <1>1, Products
<1>. DEFINE r == p * k
<1>3. r \in Nat /\ k * c = d * r
  BY <1>2
<1>. HIDE DEF r
<1>4. i < r
  BY <1>3, Factors
<1>. QED BY <1>3, <1>4, Factors

(* The multiples of c in an interval of that length are its ends.           *)
LEMMA AtTheEnds ==
  ASSUME NEW c \in Nat \ {0}, NEW k \in Nat, NEW n \in Nat, n % c = 0,
         k * c - c <= n, n <= k * c
  PROVE  n = k * c \/ n = k * c - c
<1>1. PICK q \in Nat : n = c * q
  BY Quotient
<1>2. k * c = c * k
  OBVIOUS
<1>3. q < k => c * q + c <= c * k
  BY Factors
<1>4. k < q => c * k + c <= c * q
  BY Factors
<1>5. q = k => c * q = c * k
  OBVIOUS
<1>6. c * q \in Nat /\ c * k \in Nat
  BY Factors
<1>. DEFINE x == c * q
            y == c * k
<1>7. n = x /\ x \in Nat /\ y \in Nat /\ k * c = y
  BY <1>1, <1>2, <1>6
<1>8. \/ q < k /\ x + c <= y
      \/ k < q /\ y + c <= x
      \/ x = y
  BY <1>3, <1>4, <1>5
<1>. HIDE DEF x, y
<1>. QED BY <1>7, <1>8

-----------------------------------------------------------------------------
(***************************************************************************)
(* Types, and what is known of the phases and of the schedule.             *)
(***************************************************************************)
GcdOf(S) ==
  LET first == CHOOSE u \in S : TRUE
  IN  Max({d \in 1..CycleOf(first) : \A u \in S : CycleOf(u) % d = 0})

(* Identifiers are given out by initialize, a schedule is never empty, a    *)
(* participant has threads and messages only from initialize to stop.       *)
PhaseInv ==
  /\ \A h \in Hosts : /\ phase[h] # "idle" => gen[h] > 0
                      /\ phase[h] = "idle" => tickChan[h] = <<>>
  /\ \A t \in Tasks :
       /\ phase[Host[t]] \in {"idle", "ready"} => task[t] = "none"
       /\ phase[Host[t]] = "running" => task[t] # "none"

Given(u) == u[1] \in Tasks /\ u[2] \in 1..gen[Host[u[1]]]

ScheduleInv ==
  /\ \A u \in configs : Given(u)
  /\ \A u \in sched \ {Dummy} : Given(u)
  /\ Dummy \in sched => MinTrigger > 0
  /\ worker # "none" => sched # {}

(* TypeOK in parts that the provers can take one at a time.                 *)
ControlTypes ==
  /\ phase \in [Hosts -> {"idle", "ready", "running", "stopping"}]
  /\ gen \in [Hosts -> Nat] /\ requests \subseteq Hosts
  /\ configs \subseteq Tasks \X Nat
  /\ sched \subseteq (Tasks \X Nat) \cup {Dummy}
  /\ marks \subseteq sched
  /\ mode \in Modes /\ worker \in {"none", "loop", "tick", "send"}

FlagTypes ==
  /\ waiting \in BOOLEAN /\ initial \in BOOLEAN
  /\ timedOut \in [Hosts -> BOOLEAN] /\ shutdown \in [Tasks -> BOOLEAN]

NumberTypes ==
  /\ index \in Nat /\ duration \in Nat /\ completion \in Nat
  /\ ticks \in Nat /\ faults \in Nat
  /\ curTime \in Int

ChannelTypes ==
  tickChan \in [Hosts -> Seq(TickType)] /\ ackChan \in [Tasks -> Seq(Nat)]

ThreadTypes ==
  /\ simTime \in [Hosts -> Int] /\ progress \in [Hosts -> Nat]
  /\ task \in [Tasks -> {"none", "wait", "woken", "compute", "ended"}]
  /\ barrier \in [Tasks -> Nat] /\ count \in [Tasks -> Nat]
  /\ taskTime \in [Tasks -> Int] /\ stepTime \in [Tasks -> Int]

Types == /\ ControlTypes /\ FlagTypes /\ NumberTypes /\ ChannelTypes
         /\ ThreadTypes /\ PhaseInv /\ ScheduleInv

(* The greatest common divisor of cycle times.                              *)
LEMMA GcdIs ==
  ASSUME NEW S, S # {}, \A u \in S : CycleOf(u) \in Nat \ {0}
  PROVE  GcdOf(S) \in Nat \ {0} /\ \A u \in S : CycleOf(u) % GcdOf(S) = 0
<1>. DEFINE first == CHOOSE u \in S : TRUE
            D == {d \in 1..CycleOf(first) : \A u \in S : CycleOf(u) % d = 0}
<1>1. first \in S
  OBVIOUS
<1>. HIDE DEF first
<1>2. 1 \in D
  BY <1>1
<1>3. D \in SUBSET 0..CycleOf(first) /\ D # {} /\ CycleOf(first) \in Nat
  BY <1>1, <1>2
<1>. HIDE DEF D
<1>4. Max(D) \in D
  BY <1>3, MaxOf
<1>5. GcdOf(S) = Max(D)
  BY DEF GcdOf, D, first
<1>. QED BY <1>1, <1>4, <1>5 DEF D

(* The cycle time of the schedule is positive and divides all others.       *)
LEMMA Gcd ==
  ASSUME Types, sched # {}
  PROVE  /\ CycleTime \in Nat \ {0}
         /\ \A u \in sched : /\ CycleOf(u) \in Nat \ {0}
                             /\ CycleOf(u) % CycleTime = 0
         /\ \A u \in sched \ {Dummy} :
              u[1] \in Tasks /\ CycleOf(u) = Cycle[u[1]]
<1>1. \A u \in sched : CycleOf(u) \in Nat \ {0}
  BY LockedStepAssumption DEF Types, ScheduleInv, Given, CycleOf
<1>2. CycleTime = GcdOf(sched)
  BY DEF CycleTime, GcdOf
<1>3. \A u \in sched \ {Dummy} : u[1] \in Tasks /\ CycleOf(u) = Cycle[u[1]]
  BY DEF Types, ScheduleInv, Given, CycleOf
<1>. QED BY <1>1, <1>2, <1>3, GcdIs

(* The cycle time of the next state.                                        *)
LEMMA GcdStays ==
  /\ CycleTime = GcdOf(sched)
  /\ CycleTime' = GcdOf(sched')
BY DEF CycleTime, GcdOf

(* The dummy step has no identifier that initialize gives out.              *)
LEMMA NotDummy == ~ Given(Dummy)
BY DEF Given, Dummy

(* The initial state has the types.                                         *)
LEMMA TypesStart == Init => Types
<1>. SUFFICES ASSUME Init PROVE Types
  OBVIOUS
<1>. USE LockedStepAssumption
<1>1. ControlTypes
  BY DEF Init, ControlTypes
<1>2. waiting \in BOOLEAN /\ initial \in BOOLEAN
  BY Zenon DEF Init
<1>3. timedOut \in [Hosts -> BOOLEAN] /\ shutdown \in [Tasks -> BOOLEAN]
  BY DEF Init
<1>4. NumberTypes
  BY DEF Init, NumberTypes
<1>5. ChannelTypes
  BY DEF Init, ChannelTypes
<1>6. ThreadTypes
  BY DEF Init, ThreadTypes
<1>7. PhaseInv
  BY DEF Init, PhaseInv
<1>8. ScheduleInv
  BY DEF Init, ScheduleInv, Given
<1>. QED BY <1>1, <1>2, <1>3, <1>4, <1>5, <1>6, <1>7, <1>8
            DEF Types, FlagTypes

(* LockedStepScheduler::initialize keeps the types: nobody has the new      *)
(* identifiers yet, and the participant has no ticks and no threads.        *)
LEMMA ConfigureTypes ==
  ASSUME Types, NEW h \in Hosts, Configure(h)
  PROVE  Types'
<1>. USE LockedStepAssumption DEF Types
<1>1. ControlTypes'
  BY DEF ControlTypes, Configure, ConfigureMaster, config, master, client,
    threads, bus
<1>2. FlagTypes'
  BY DEF FlagTypes, Configure, ConfigureMaster, config, master, client,
    threads, bus
<1>3. NumberTypes'
  BY DEF NumberTypes, Configure, ConfigureMaster, config, master, client,
    threads, bus
<1>4. ChannelTypes'
  BY DEF ChannelTypes, Configure, ConfigureMaster, config, master, client,
    threads, bus
<1>5. ThreadTypes'
  BY DEF ThreadTypes, Configure, ConfigureMaster, config, master, client,
    threads, bus
<1>6. PhaseInv'
  <2>1. /\ phase[h] = "idle" /\ phase' = [phase EXCEPT ![h] = "ready"]
        /\ gen' = [gen EXCEPT ![h] = @ + 1]
        /\ tickChan' = tickChan /\ task' = task
    BY DEF Configure, bus
  <2>2. \A g \in Hosts : /\ phase'[g] = IF g = h THEN "ready" ELSE phase[g]
                         /\ gen'[g] = IF g = h THEN gen[g] + 1 ELSE gen[g]
    BY <2>1 DEF ControlTypes
  <2>3. \A g \in Hosts : /\ phase'[g] # "idle" => gen'[g] > 0
                         /\ phase'[g] = "idle" => tickChan'[g] = <<>>
    BY <2>1, <2>2 DEF PhaseInv, ControlTypes
  <2>4. \A t \in Tasks :
          /\ phase'[Host[t]] \in {"idle", "ready"} => task'[t] = "none"
          /\ phase'[Host[t]] = "running" => task'[t] # "none"
    BY <2>1, <2>2 DEF PhaseInv
  <2>. QED BY <2>3, <2>4 DEF PhaseInv
<1>7. ScheduleInv'
  <2>1. \A u : Given(u) => Given(u)'
    <3>1. \A g \in Hosts :
            gen[g] \in Nat /\ gen'[g] \in Nat /\ gen[g] <= gen'[g]
      BY DEF Configure, ControlTypes
    <3>2. \A t \in Tasks : Host[t] \in Hosts
      OBVIOUS
    <3>. QED BY <3>1, <3>2 DEF Given
  <2>2. configs' = configs \/ configs' = {}
    BY DEF Configure, ConfigureMaster, config
  <2>3. sched' = sched /\ worker' = worker
    BY DEF Configure, master
  <2>. QED BY <2>1, <2>2, <2>3 DEF ScheduleInv
<1>. QED BY <1>1, <1>2, <1>3, <1>4, <1>5, <1>6, <1>7

(* The answer of a participant keeps the types: it names identifiers that   *)
(* were given out.                                                          *)
LEMMA AnswerTypes ==
  ASSUME Types, NEW h \in Hosts, AnswerSchedule(h)
  PROVE  Types'
<1>. USE LockedStepAssumption DEF Types
<1>0. ScheduleOf(h) \subseteq Tasks \X Nat /\ \A u \in ScheduleOf(h) : Given(u)
  BY DEF ControlTypes, PhaseInv, ScheduleOf, Given, Uuid, TasksOf
<1>1. ControlTypes'
  BY <1>0 DEF ControlTypes, AnswerSchedule, config, master, client, threads,
    bus
<1>2. FlagTypes'
  BY <1>0 DEF FlagTypes, AnswerSchedule, config, master, client, threads, bus
<1>3. NumberTypes'
  BY <1>0 DEF NumberTypes, AnswerSchedule, config, master, client, threads,
    bus
<1>4. ChannelTypes'
  BY <1>0 DEF ChannelTypes, AnswerSchedule, config, master, client, threads,
    bus
<1>5. ThreadTypes'
  BY <1>0 DEF ThreadTypes, AnswerSchedule, config, master, client, threads,
    bus
<1>6. PhaseInv'
  BY <1>0 DEF PhaseInv, AnswerSchedule, config, master, client, threads, bus,
    ControlTypes, ChannelTypes, ThreadTypes, FlagTypes
<1>7. ScheduleInv'
  BY <1>0 DEF ScheduleInv, Given, AnswerSchedule, config, master, client,
    threads, bus, ControlTypes, PhaseInv
<1>. QED BY <1>1, <1>2, <1>3, <1>4, <1>5, <1>6, <1>7

(* LockedStepScheduler::start keeps the types: the schedule of the master   *)
(* is not empty, because it has a task or the dummy step.                   *)
LEMMA StartTypes ==
  ASSUME Types, NEW h \in Hosts, Start(h)
  PROVE  Types'
<1>. USE LockedStepAssumption DEF Types
<1>a. /\ phase[h] = "ready" /\ phase' = [phase EXCEPT ![h] = "running"]
      /\ UNCHANGED <<gen, requests, configs, tickChan, ackChan, faults>>
      /\ task' = [t \in Tasks |-> IF t \in TasksOf(h) THEN "wait" ELSE task[t]]
  BY DEF Start, config, bus
<1>b. \/ UNCHANGED <<sched, worker, waiting, initial, index, marks, curTime,
                     duration, mode, completion, ticks>>
      \/ h = Master /\ StartMaster
  BY DEF Start, master
<1>c. \A t \in Tasks : phase[Host[t]] # "idle" =>
        Uuid(t) \in Tasks \X Nat /\ Given(Uuid(t))
  BY DEF ControlTypes, PhaseInv, Uuid, Given
<1>1. ControlTypes'
  <2>1. /\ phase' \in [Hosts -> {"idle", "ready", "running", "stopping"}]
        /\ gen' \in [Hosts -> Nat] /\ requests' \subseteq Hosts
        /\ configs' \subseteq Tasks \X Nat /\ mode' = mode
    BY <1>a, <1>b DEF ControlTypes, StartMaster
  <2>2. CASE h = Master /\ StartMaster
    <3>1. {Uuid(t) : t \in TasksOf(Master)} \subseteq Tasks \X Nat
      BY <1>a, <1>c, <2>2 DEF TasksOf
    <3>2. sched' \subseteq (Tasks \X Nat) \cup {Dummy} /\ marks' = {}
      BY <2>2, <3>1 DEF StartMaster, ControlTypes
    <3>. QED BY <2>1, <2>2, <3>2 DEF StartMaster, ControlTypes
  <2>. QED BY <1>b, <2>1, <2>2 DEF ControlTypes
<1>2. FlagTypes'
  BY DEF FlagTypes, Start, StartMaster, TasksOf, Uuid, Dummy, config, master,
    client, threads, bus
<1>3. NumberTypes'
  BY <1>a, <1>b DEF NumberTypes, StartMaster
<1>4. ChannelTypes'
  BY DEF ChannelTypes, Start, StartMaster, TasksOf, Uuid, Dummy, config,
    master, client, threads, bus
<1>5. ThreadTypes'
  BY <1>a DEF ThreadTypes, Start
<1>6. PhaseInv'
  BY DEF PhaseInv, Start, StartMaster, TasksOf, Uuid, Dummy, config, master,
    client, threads, bus, ControlTypes, ChannelTypes, ThreadTypes, FlagTypes
<1>7. ScheduleInv'
  <2>1. \A u : Given(u)' <=> Given(u)
    BY <1>a DEF Given
  <2>2. CASE h = Master /\ StartMaster
    <3>1. \A u \in {Uuid(t) : t \in TasksOf(Master)} : Given(u)
      BY <1>a, <1>c, <2>2 DEF TasksOf
    <3>2. \A u \in sched' \ {Dummy} : Given(u)
      BY <2>2, <3>1 DEF StartMaster, ScheduleInv
    <3>3. Dummy \in sched' => MinTrigger > 0
      <4>1. ~ Given(Dummy)
        BY NotDummy
      <4>2. /\ Dummy \notin configs
            /\ Dummy \notin {Uuid(t) : t \in TasksOf(Master)}
        BY <3>1, <4>1 DEF ScheduleInv
      <4>. QED BY <2>2, <4>2 DEF StartMaster
    <3>4. sched' # {}
      <4>1. CASE \E t \in Tasks : Host[t] = Master
        BY <2>2, <4>1 DEF StartMaster, TasksOf
      <4>2. CASE MinTrigger > 0 /\ Modes = {"SYSTEM_TIME"}
        BY <2>2, <4>2 DEF StartMaster, ControlTypes
      <4>. QED BY <4>1, <4>2
    <3>. QED BY <1>a, <2>1, <3>2, <3>3, <3>4 DEF ScheduleInv
  <2>. QED BY <1>a, <1>b, <2>1, <2>2 DEF ScheduleInv
<1>. QED BY <1>1, <1>2, <1>3, <1>4, <1>5, <1>6, <1>7

(* The end of the wait for an item keeps the types.                         *)
LEMMA CompleteTypes ==
  ASSUME Types, WorkerComplete
  PROVE  Types'
<1>. USE LockedStepAssumption DEF Types
<1>1. ControlTypes'
  BY DEF ControlTypes, WorkerComplete, config, master, client, threads, bus
<1>2. FlagTypes'
  BY DEF FlagTypes, WorkerComplete, config, master, client, threads, bus
<1>3. NumberTypes'
  BY DEF NumberTypes, WorkerComplete, config, master, client, threads, bus
<1>4. ChannelTypes'
  BY DEF ChannelTypes, WorkerComplete, config, master, client, threads, bus
<1>5. ThreadTypes'
  BY DEF ThreadTypes, WorkerComplete, config, master, client, threads, bus
<1>6. PhaseInv'
  BY DEF PhaseInv, WorkerComplete, config, master, client, threads, bus,
    ControlTypes, ChannelTypes, ThreadTypes, FlagTypes
<1>7. ScheduleInv'
  BY DEF ScheduleInv, Given, WorkerComplete, config, master, client, threads,
    bus, ControlTypes, PhaseInv
<1>. QED BY <1>1, <1>2, <1>3, <1>4, <1>5, <1>6, <1>7

(* The step to the next item keeps the types.                               *)
LEMMA NextTypes ==
  ASSUME Types, WorkerNext
  PROVE  Types'
<1>. USE LockedStepAssumption DEF Types
<1>1. ControlTypes'
  BY DEF ControlTypes, WorkerNext, NeedToWaitForTrigger, config, master,
    client, threads, bus
<1>2. FlagTypes'
  BY DEF FlagTypes, WorkerNext, NeedToWaitForTrigger, config, master, client,
    threads, bus
<1>3. NumberTypes'
  BY DEF NumberTypes, WorkerNext, NeedToWaitForTrigger, config, master,
    client, threads, bus
<1>4. ChannelTypes'
  BY DEF ChannelTypes, WorkerNext, NeedToWaitForTrigger, config, master,
    client, threads, bus
<1>5. ThreadTypes'
  BY DEF ThreadTypes, WorkerNext, NeedToWaitForTrigger, config, master,
    client, threads, bus
<1>6. PhaseInv'
  BY DEF PhaseInv, WorkerNext, NeedToWaitForTrigger, config, master, client,
    threads, bus, ControlTypes, ChannelTypes, ThreadTypes, FlagTypes
<1>7. ScheduleInv'
  BY DEF ScheduleInv, Given, WorkerNext, NeedToWaitForTrigger, config,
    master, client, threads, bus, ControlTypes, PhaseInv
<1>. QED BY <1>1, <1>2, <1>3, <1>4, <1>5, <1>6, <1>7

(* The sending of a tick keeps the types: only who listens gets it.         *)
LEMMA SendTypes ==
  ASSUME Types, WorkerSend
  PROVE  Types'
<1>. USE LockedStepAssumption DEF Types
<1>0. CycleTime \in Nat
  BY Gcd DEF WorkerSend, ScheduleInv
<1>1. ControlTypes'
  BY <1>0 DEF ControlTypes, WorkerSend, Tick, TickType, Listening, config,
    master, client, threads, bus
<1>2. FlagTypes'
  BY <1>0 DEF FlagTypes, WorkerSend, Tick, TickType, Listening, config,
    master, client, threads, bus
<1>3. NumberTypes'
  BY <1>0 DEF NumberTypes, WorkerSend, Tick, TickType, Listening, config,
    master, client, threads, bus
<1>4. ChannelTypes'
  <2>1. Tick \in TickType
    BY DEF Tick, TickType, NumberTypes
  <2>2. \A g \in Hosts : Append(tickChan[g], Tick) \in Seq(TickType)
    BY <2>1 DEF ChannelTypes
  <2>3. tickChan' \in [Hosts -> Seq(TickType)]
    BY <2>2 DEF WorkerSend, ChannelTypes
  <2>. QED BY <2>3 DEF WorkerSend, ChannelTypes
<1>5. ThreadTypes'
  BY <1>0 DEF ThreadTypes, WorkerSend, Tick, TickType, Listening, config,
    master, client, threads, bus
<1>6. PhaseInv'
  <2>1. phase' = phase /\ gen' = gen /\ task' = task
    BY DEF WorkerSend, threads
  <2>2. \A g \in Hosts : phase[g] = "idle" => tickChan'[g] = tickChan[g]
    BY DEF WorkerSend, Listening
  <2>. QED BY <2>1, <2>2 DEF PhaseInv
<1>7. ScheduleInv'
  BY <1>0 DEF ScheduleInv, Given, WorkerSend, Tick, TickType, Listening,
    config, master, client, threads, bus, ControlTypes, PhaseInv
<1>. QED BY <1>1, <1>2, <1>3, <1>4, <1>5, <1>6, <1>7

(* The end of the worker keeps the types.                                   *)
LEMMA EndTypes ==
  ASSUME Types, WorkerEnd
  PROVE  Types'
<1>. USE LockedStepAssumption DEF Types
<1>1. ControlTypes'
  BY DEF ControlTypes, WorkerEnd, config, master, client, threads, bus
<1>2. FlagTypes'
  BY DEF FlagTypes, WorkerEnd, config, master, client, threads, bus
<1>3. NumberTypes'
  BY DEF NumberTypes, WorkerEnd, config, master, client, threads, bus
<1>4. ChannelTypes'
  BY DEF ChannelTypes, WorkerEnd, config, master, client, threads, bus
<1>5. ThreadTypes'
  BY DEF ThreadTypes, WorkerEnd, config, master, client, threads, bus
<1>6. PhaseInv'
  BY DEF PhaseInv, WorkerEnd, config, master, client, threads, bus,
    ControlTypes, ChannelTypes, ThreadTypes, FlagTypes
<1>7. ScheduleInv'
  BY DEF ScheduleInv, Given, WorkerEnd, config, master, client, threads, bus,
    ControlTypes, PhaseInv
<1>. QED BY <1>1, <1>2, <1>3, <1>4, <1>5, <1>6, <1>7

(* A trigger of the tick thread keeps the types.                            *)
LEMMA TickTypes ==
  ASSUME Types, TickThread
  PROVE  Types'
<1>. USE LockedStepAssumption DEF Types
<1>1. ControlTypes'
  BY DEF ControlTypes, TickThread, config, master, client, threads, bus
<1>2. FlagTypes'
  BY DEF FlagTypes, TickThread, config, master, client, threads, bus
<1>3. NumberTypes'
  BY DEF NumberTypes, TickThread, config, master, client, threads, bus
<1>4. ChannelTypes'
  BY DEF ChannelTypes, TickThread, config, master, client, threads, bus
<1>5. ThreadTypes'
  BY DEF ThreadTypes, TickThread, config, master, client, threads, bus
<1>6. PhaseInv'
  BY DEF PhaseInv, TickThread, config, master, client, threads, bus,
    ControlTypes, ChannelTypes, ThreadTypes, FlagTypes
<1>7. ScheduleInv'
  BY DEF ScheduleInv, Given, TickThread, config, master, client, threads,
    bus, ControlTypes, PhaseInv
<1>. QED BY <1>1, <1>2, <1>3, <1>4, <1>5, <1>6, <1>7

(* The watchdog of the master keeps the types.                              *)
LEMMA AckTimerTypes ==
  ASSUME Types, AckTimer
  PROVE  Types'
<1>. USE LockedStepAssumption DEF Types
<1>1. ControlTypes'
  BY DEF ControlTypes, AckTimer, Stopping, config, master, client, threads,
    bus
<1>2. FlagTypes'
  BY DEF FlagTypes, AckTimer, Stopping, config, master, client, threads, bus
<1>3. NumberTypes'
  BY DEF NumberTypes, AckTimer, Stopping, config, master, client, threads,
    bus
<1>4. ChannelTypes'
  BY DEF ChannelTypes, AckTimer, Stopping, config, master, client, threads,
    bus
<1>5. ThreadTypes'
  BY DEF ThreadTypes, AckTimer, Stopping, config, master, client, threads,
    bus
<1>6. PhaseInv'
  BY DEF PhaseInv, AckTimer, Stopping, config, master, client, threads, bus,
    ControlTypes, ChannelTypes, ThreadTypes, FlagTypes
<1>7. ScheduleInv'
  BY DEF ScheduleInv, Given, AckTimer, Stopping, config, master, client,
    threads, bus, ControlTypes, PhaseInv
<1>. QED BY <1>1, <1>2, <1>3, <1>4, <1>5, <1>6, <1>7

(* An acknowledgement keeps the types: only steps of the schedule are       *)
(* marked.                                                                  *)
LEMMA ReceiveTypes ==
  ASSUME Types, NEW t \in Tasks, ReceiveAck(t)
  PROVE  Types'
<1>. USE LockedStepAssumption DEF Types
<1>1. ControlTypes'
  BY DEF ControlTypes, ReceiveAck, Item, config, master, client, threads, bus
<1>2. FlagTypes'
  BY DEF FlagTypes, ReceiveAck, Item, config, master, client, threads, bus
<1>3. NumberTypes'
  BY DEF NumberTypes, ReceiveAck, Item, config, master, client, threads, bus
<1>4. ChannelTypes'
  <2>1. Tail(ackChan[t]) \in Seq(Nat)
    BY DEF ReceiveAck, ChannelTypes
  <2>2. /\ tickChan' = tickChan
        /\ ackChan' = [ackChan EXCEPT ![t] = Tail(@)]
    BY DEF ReceiveAck
  <2>. QED BY <2>1, <2>2 DEF ChannelTypes
<1>5. ThreadTypes'
  BY DEF ThreadTypes, ReceiveAck, Item, config, master, client, threads, bus
<1>6. PhaseInv'
  BY DEF PhaseInv, ReceiveAck, Item, config, master, client, threads, bus,
    ControlTypes, ChannelTypes, ThreadTypes, FlagTypes
<1>7. ScheduleInv'
  BY DEF ScheduleInv, Given, ReceiveAck, Item, config, master, client,
    threads, bus, ControlTypes, PhaseInv
<1>. QED BY <1>1, <1>2, <1>3, <1>4, <1>5, <1>6, <1>7

(* A tick at a client keeps the types: who has one is initialized.          *)
LEMMA TriggerTypes ==
  ASSUME Types, NEW h \in Hosts, Trigger(h)
  PROVE  Types'
<1>. USE LockedStepAssumption DEF Types
<1>1. ControlTypes'
  BY DEF ControlTypes, Trigger, Stopping, TickType, Woken, TasksOf, config,
    master, client, threads, bus
<1>2. FlagTypes'
  BY DEF FlagTypes, Trigger, Stopping, TickType, Woken, TasksOf, config,
    master, client, threads, bus
<1>3. NumberTypes'
  BY DEF NumberTypes, Trigger, Stopping, TickType, Woken, TasksOf, config,
    master, client, threads, bus
<1>4. ChannelTypes'
  <2>1. Tail(tickChan[h]) \in Seq(TickType)
    BY DEF Trigger, ChannelTypes
  <2>2. tickChan' \in [Hosts -> Seq(TickType)]
    BY <2>1 DEF Trigger, ChannelTypes
  <2>3. ackChan' = ackChan
    BY DEF Trigger
  <2>. QED BY <2>2, <2>3 DEF ChannelTypes
<1>5. ThreadTypes'
  <2>1. Head(tickChan[h]) \in TickType
    BY DEF Trigger, ChannelTypes
  <2>2. Head(tickChan[h]).time \in Int /\ Head(tickChan[h]).step \in Nat
    BY <2>1 DEF TickType
  <2>. HIDE DEF Types
  <2>. DEFINE tick == Head(tickChan[h])
              sum == progress[h] + tick.step
  <2>3. ThreadTypes /\ sum \in Nat
    BY <2>2 DEF Types, ThreadTypes
  <2>4. \/ UNCHANGED <<simTime, progress, taskTime, barrier>>
        \/ /\ simTime' = [simTime EXCEPT ![h] = tick.time]
           /\ progress' = [progress EXCEPT ![h] = sum]
           /\ taskTime' = [t \in Tasks |-> IF t \in TasksOf(h)
                                           THEN tick.time ELSE taskTime[t]]
           /\ barrier' = [t \in Tasks |-> IF t \in Woken(h, sum)
                                          THEN barrier[t] + 1 ELSE barrier[t]]
    BY DEF Trigger
  <2>. HIDE DEF tick, sum
  <2>6. simTime' \in [Hosts -> Int] /\ progress' \in [Hosts -> Nat]
    BY <2>2, <2>3, <2>4 DEF tick, ThreadTypes
  <2>7. barrier' \in [Tasks -> Nat] /\ taskTime' \in [Tasks -> Int]
    BY <2>2, <2>3, <2>4 DEF tick, ThreadTypes
  <2>5. task' = task /\ stepTime' = stepTime /\ count' = count
    BY DEF Trigger
  <2>. QED BY <2>3, <2>5, <2>6, <2>7 DEF ThreadTypes
<1>6. PhaseInv'
  <2>1. /\ gen' = gen /\ task' = task /\ tickChan[h] # <<>>
        /\ tickChan' = [tickChan EXCEPT ![h] = Tail(@)]
        /\ phase' = phase \/ phase' = Stopping(h)
    BY DEF Trigger
  <2>2. phase[h] # "idle"
    BY <2>1 DEF PhaseInv
  <2>3. \A g \in Hosts : \/ phase'[g] = phase[g]
                         \/ phase[g] # "idle" /\ phase'[g] = "stopping"
    BY <2>1, <2>2 DEF Stopping, ControlTypes
  <2>4. \A g \in Hosts : tickChan'[g] = tickChan[g] \/ g = h
    BY <2>1 DEF ChannelTypes
  <2>5. phase'[h] # "idle"
    BY <2>2, <2>3
  <2>6. \A u \in Tasks : Host[u] \in Hosts
    OBVIOUS
  <2>7. \A g \in Hosts : /\ phase'[g] # "idle" => gen'[g] > 0
                         /\ phase'[g] = "idle" => tickChan'[g] = <<>>
    BY <2>1, <2>3, <2>4, <2>5 DEF PhaseInv
  <2>8. \A u \in Tasks :
          /\ phase'[Host[u]] \in {"idle", "ready"} => task'[u] = "none"
          /\ phase'[Host[u]] = "running" => task'[u] # "none"
    BY <2>1, <2>3, <2>6 DEF PhaseInv
  <2>. QED BY <2>7, <2>8 DEF PhaseInv
<1>7. ScheduleInv'
  BY DEF ScheduleInv, Given, Trigger, Stopping, TickType, Woken, TasksOf,
    config, master, client, threads, bus, ControlTypes, PhaseInv
<1>. QED BY <1>1, <1>2, <1>3, <1>4, <1>5, <1>6, <1>7

(* The watchdog of a client keeps the types.                                *)
LEMMA ClientTimerTypes ==
  ASSUME Types, NEW h \in Hosts, ClientTimer(h)
  PROVE  Types'
<1>. USE LockedStepAssumption DEF Types
<1>1. ControlTypes'
  BY DEF ControlTypes, ClientTimer, Stopping, config, master, client,
    threads, bus
<1>2. FlagTypes'
  BY DEF FlagTypes, ClientTimer, Stopping, config, master, client, threads,
    bus
<1>3. NumberTypes'
  BY DEF NumberTypes, ClientTimer, Stopping, config, master, client, threads,
    bus
<1>4. ChannelTypes'
  BY DEF ChannelTypes, ClientTimer, Stopping, config, master, client,
    threads, bus
<1>5. ThreadTypes'
  BY DEF ThreadTypes, ClientTimer, Stopping, config, master, client, threads,
    bus
<1>6. PhaseInv'
  BY DEF PhaseInv, ClientTimer, Stopping, config, master, client, threads,
    bus, ControlTypes, ChannelTypes, ThreadTypes, FlagTypes
<1>7. ScheduleInv'
  BY DEF ScheduleInv, Given, ClientTimer, Stopping, config, master, client,
    threads, bus, ControlTypes, PhaseInv
<1>. QED BY <1>1, <1>2, <1>3, <1>4, <1>5, <1>6, <1>7

(* A request to stop keeps the types.                                       *)
LEMMA LeaveTypes ==
  ASSUME Types, NEW h \in Hosts, Leave(h)
  PROVE  Types'
<1>. USE LockedStepAssumption DEF Types
<1>1. ControlTypes'
  BY DEF ControlTypes, Leave, Stopping, config, master, client, threads, bus
<1>2. FlagTypes'
  BY DEF FlagTypes, Leave, Stopping, config, master, client, threads, bus
<1>3. NumberTypes'
  BY DEF NumberTypes, Leave, Stopping, config, master, client, threads, bus
<1>4. ChannelTypes'
  BY DEF ChannelTypes, Leave, Stopping, config, master, client, threads, bus
<1>5. ThreadTypes'
  BY DEF ThreadTypes, Leave, Stopping, config, master, client, threads, bus
<1>6. PhaseInv'
  BY DEF PhaseInv, Leave, Stopping, config, master, client, threads, bus,
    ControlTypes, ChannelTypes, ThreadTypes, FlagTypes
<1>7. ScheduleInv'
  BY DEF ScheduleInv, Given, Leave, Stopping, config, master, client,
    threads, bus, ControlTypes, PhaseInv
<1>. QED BY <1>1, <1>2, <1>3, <1>4, <1>5, <1>6, <1>7

(* The end of a stop keeps the types: no threads and no ticks are left.     *)
LEMMA StopTypes ==
  ASSUME Types, NEW h \in Hosts, StopDone(h)
  PROVE  Types'
<1>. USE LockedStepAssumption DEF Types
<1>1. ControlTypes'
  BY DEF ControlTypes, StopDone, TasksOf, config, master, client, threads,
    bus
<1>2. FlagTypes'
  BY DEF FlagTypes, StopDone, TasksOf, config, master, client, threads, bus
<1>3. NumberTypes'
  BY DEF NumberTypes, StopDone, TasksOf, config, master, client, threads, bus
<1>4. ChannelTypes'
  BY DEF ChannelTypes, StopDone, TasksOf, config, master, client, threads,
    bus
<1>5. ThreadTypes'
  <2>1. task' \in [Tasks -> {"none", "wait", "woken", "compute", "ended"}]
    BY DEF ThreadTypes, StopDone
  <2>2. barrier' \in [Tasks -> Nat] /\ taskTime' \in [Tasks -> Int]
    BY DEF ThreadTypes, StopDone
  <2>3. simTime' \in [Hosts -> Int] /\ progress' \in [Hosts -> Nat]
    BY DEF ThreadTypes, StopDone
  <2>. QED BY <2>1, <2>2, <2>3 DEF ThreadTypes, StopDone
<1>6. PhaseInv'
  BY DEF PhaseInv, StopDone, TasksOf, config, master, client, threads, bus,
    ControlTypes, ChannelTypes, ThreadTypes, FlagTypes
<1>7. ScheduleInv'
  BY DEF ScheduleInv, Given, StopDone, TasksOf, config, master, client,
    threads, bus, ControlTypes, PhaseInv
<1>. QED BY <1>1, <1>2, <1>3, <1>4, <1>5, <1>6, <1>7

(* The loss of a tick keeps the types.                                      *)
LEMMA LoseTickTypes ==
  ASSUME Types, NEW h \in Hosts, LoseTick(h)
  PROVE  Types'
<1>. USE LockedStepAssumption DEF Types
<1>1. ControlTypes'
  BY DEF ControlTypes, LoseTick, config, master, client, threads, bus
<1>2. FlagTypes'
  BY DEF FlagTypes, LoseTick, config, master, client, threads, bus
<1>3. NumberTypes'
  BY DEF NumberTypes, LoseTick, config, master, client, threads, bus
<1>4. ChannelTypes'
  BY DEF ChannelTypes, LoseTick, config, master, client, threads, bus
<1>5. ThreadTypes'
  BY DEF ThreadTypes, LoseTick, config, master, client, threads, bus
<1>6. PhaseInv'
  BY DEF PhaseInv, LoseTick, config, master, client, threads, bus,
    ControlTypes, ChannelTypes, ThreadTypes, FlagTypes
<1>7. ScheduleInv'
  BY DEF ScheduleInv, Given, LoseTick, config, master, client, threads, bus,
    ControlTypes, PhaseInv
<1>. QED BY <1>1, <1>2, <1>3, <1>4, <1>5, <1>6, <1>7

(* The wake of a task keeps the types.                                      *)
LEMMA WakeTypes ==
  ASSUME Types, NEW t \in Tasks, Wake(t)
  PROVE  Types'
<1>. USE LockedStepAssumption DEF Types
<1>1. ControlTypes'
  BY DEF ControlTypes, Wake, config, master, client, threads, bus
<1>2. FlagTypes'
  BY DEF FlagTypes, Wake, config, master, client, threads, bus
<1>3. NumberTypes'
  BY DEF NumberTypes, Wake, config, master, client, threads, bus
<1>4. ChannelTypes'
  BY DEF ChannelTypes, Wake, config, master, client, threads, bus
<1>5. ThreadTypes'
  BY DEF ThreadTypes, Wake, config, master, client, threads, bus
<1>6. PhaseInv'
  BY DEF PhaseInv, Wake, config, master, client, threads, bus, ControlTypes,
    ChannelTypes, ThreadTypes, FlagTypes
<1>7. ScheduleInv'
  BY DEF ScheduleInv, Given, Wake, config, master, client, threads, bus,
    ControlTypes, PhaseInv
<1>. QED BY <1>1, <1>2, <1>3, <1>4, <1>5, <1>6, <1>7

(* The begin or the end of a task's step keeps the types.                   *)
LEMMA EnterTypes ==
  ASSUME Types, NEW t \in Tasks, Enter(t)
  PROVE  Types'
<1>. USE LockedStepAssumption DEF Types
<1>1. ControlTypes'
  BY DEF ControlTypes, Enter, config, master, client, threads, bus
<1>2. FlagTypes'
  BY DEF FlagTypes, Enter, config, master, client, threads, bus
<1>3. NumberTypes'
  BY DEF NumberTypes, Enter, config, master, client, threads, bus
<1>4. ChannelTypes'
  BY DEF ChannelTypes, Enter, config, master, client, threads, bus
<1>5. ThreadTypes'
  BY DEF ThreadTypes, Enter, config, master, client, threads, bus
<1>6. PhaseInv'
  <2>1. phase' = phase /\ gen' = gen /\ tickChan' = tickChan
    BY DEF Enter, bus
  <2>2. /\ task[t] # "none"
        /\ \A u \in Tasks : task'[u] = task[u] \/ (u = t /\ task'[u] # "none")
    BY DEF Enter, ThreadTypes
  <2>. QED BY <2>1, <2>2 DEF PhaseInv
<1>7. ScheduleInv'
  BY DEF ScheduleInv, Given, Enter, config, master, client, threads, bus,
    ControlTypes, PhaseInv
<1>. QED BY <1>1, <1>2, <1>3, <1>4, <1>5, <1>6, <1>7

(* A computed step keeps the types: its participant is initialized.         *)
LEMMA ComputeTypes ==
  ASSUME Types, NEW t \in Tasks, Compute(t)
  PROVE  Types'
<1>. USE LockedStepAssumption DEF Types
<1>a. /\ task[t] = "compute" /\ UNCHANGED <<gen, tickChan, barrier, taskTime>>
      /\ UNCHANGED <<simTime, progress>>
      /\ count' = [count EXCEPT ![t] = @ + 1]
      /\ stepTime' = [stepTime EXCEPT ![t] = 0]
  BY DEF Compute, client
<1>b. \/ /\ ackChan' = [ackChan EXCEPT ![t] = Append(@, gen[Host[t]])]
         /\ phase' = phase
         /\ task' = [task EXCEPT ![t] = IF shutdown[t] THEN "ended" ELSE "wait"]
      \/ /\ ackChan' = ackChan
         /\ phase' = [phase EXCEPT ![Host[t]] = "stopping"]
         /\ task' = [task EXCEPT ![t] = "ended"]
  BY DEF Compute, Stopping
<1>c. phase[Host[t]] \notin {"idle", "ready"} /\ Host[t] \in Hosts
  BY <1>a DEF PhaseInv
<1>1. ControlTypes'
  BY DEF ControlTypes, Compute, Stopping, config, master, client, threads,
    bus
<1>2. FlagTypes'
  BY DEF FlagTypes, Compute, Stopping, config, master, client, threads, bus
<1>3. NumberTypes'
  BY DEF NumberTypes, Compute, Stopping, config, master, client, threads, bus
<1>4. ChannelTypes'
  <2>1. Append(ackChan[t], gen[Host[t]]) \in Seq(Nat)
    BY <1>c DEF ChannelTypes, ControlTypes
  <2>2. ackChan' \in [Tasks -> Seq(Nat)]
    BY <1>b, <2>1 DEF ChannelTypes
  <2>. QED BY <1>a, <2>2 DEF ChannelTypes
<1>5. ThreadTypes'
  <2>1. task' \in [Tasks -> {"none", "wait", "woken", "compute", "ended"}]
    BY <1>b DEF ThreadTypes
  <2>2. count' \in [Tasks -> Nat] /\ stepTime' \in [Tasks -> Int]
    BY <1>a DEF ThreadTypes
  <2>. QED BY <1>a, <2>1, <2>2 DEF ThreadTypes
<1>6. PhaseInv'
  <2>a. \A g \in Hosts : \/ phase'[g] = phase[g]
                         \/ phase[g] # "idle" /\ phase'[g] = "stopping"
    BY <1>b, <1>c DEF ControlTypes
  <2>b. gen' = gen /\ tickChan' = tickChan
    BY <1>a
  <2>1. \A g \in Hosts : /\ phase'[g] # "idle" => gen'[g] > 0
                         /\ phase'[g] = "idle" => tickChan'[g] = <<>>
    BY <2>a, <2>b DEF PhaseInv
  <2>2. \A u \in Tasks : task'[u] = task[u] \/ (u = t /\ task'[t] # "none")
    BY <1>b DEF ThreadTypes
  <2>c. \A u \in Tasks : \/ phase'[Host[u]] = phase[Host[u]]
                         \/ phase'[Host[u]] = "stopping"
    BY <2>a
  <2>3. phase'[Host[t]] \notin {"idle", "ready"}
    BY <1>c, <2>a
  <2>. QED BY <2>1, <2>2, <2>3, <2>c DEF PhaseInv
<1>7. ScheduleInv'
  BY DEF ScheduleInv, Given, Compute, Stopping, config, master, client,
    threads, bus, ControlTypes, PhaseInv
<1>. QED BY <1>1, <1>2, <1>3, <1>4, <1>5, <1>6, <1>7

(* Task::destroy keeps the types.                                           *)
LEMMA DestroyTypes ==
  ASSUME Types, NEW t \in Tasks, Destroy(t)
  PROVE  Types'
<1>. USE LockedStepAssumption DEF Types
<1>1. ControlTypes'
  BY DEF ControlTypes, Destroy, config, master, client, threads, bus
<1>2. FlagTypes'
  BY DEF FlagTypes, Destroy, config, master, client, threads, bus
<1>3. NumberTypes'
  BY DEF NumberTypes, Destroy, config, master, client, threads, bus
<1>4. ChannelTypes'
  BY DEF ChannelTypes, Destroy, config, master, client, threads, bus
<1>5. ThreadTypes'
  BY DEF ThreadTypes, Destroy, config, master, client, threads, bus
<1>6. PhaseInv'
  BY DEF PhaseInv, Destroy, config, master, client, threads, bus,
    ControlTypes, ChannelTypes, ThreadTypes, FlagTypes
<1>7. ScheduleInv'
  BY DEF ScheduleInv, Given, Destroy, config, master, client, threads, bus,
    ControlTypes, PhaseInv
<1>. QED BY <1>1, <1>2, <1>3, <1>4, <1>5, <1>6, <1>7

(* The loss of an acknowledgement keeps the types.                          *)
LEMMA LoseAckTypes ==
  ASSUME Types, NEW t \in Tasks, LoseAck(t)
  PROVE  Types'
<1>. USE LockedStepAssumption DEF Types
<1>1. ControlTypes'
  BY DEF ControlTypes, LoseAck, config, master, client, threads, bus
<1>2. FlagTypes'
  BY DEF FlagTypes, LoseAck, config, master, client, threads, bus
<1>3. NumberTypes'
  BY DEF NumberTypes, LoseAck, config, master, client, threads, bus
<1>4. ChannelTypes'
  <2>1. Tail(ackChan[t]) \in Seq(Nat)
    BY DEF LoseAck, ChannelTypes
  <2>2. /\ tickChan' = tickChan
        /\ ackChan' = [ackChan EXCEPT ![t] = Tail(@)]
    BY DEF LoseAck
  <2>. QED BY <2>1, <2>2 DEF ChannelTypes
<1>5. ThreadTypes'
  BY DEF ThreadTypes, LoseAck, config, master, client, threads, bus
<1>6. PhaseInv'
  BY DEF PhaseInv, LoseAck, config, master, client, threads, bus,
    ControlTypes, ChannelTypes, ThreadTypes, FlagTypes
<1>7. ScheduleInv'
  BY DEF ScheduleInv, Given, LoseAck, config, master, client, threads, bus,
    ControlTypes, PhaseInv
<1>. QED BY <1>1, <1>2, <1>3, <1>4, <1>5, <1>6, <1>7

(* One step keeps the types.                                               *)
LEMMA TypesStep == Types /\ [Next]_vars => Types'
<1>. SUFFICES ASSUME Types, [Next]_vars PROVE Types'
  OBVIOUS
<1>1. ASSUME NEW h \in Hosts, Configure(h) PROVE Types'
  BY <1>1, ConfigureTypes
<1>2. ASSUME NEW h \in Hosts, AnswerSchedule(h) PROVE Types'
  BY <1>2, AnswerTypes
<1>3. ASSUME NEW h \in Hosts, Start(h) PROVE Types'
  BY <1>3, StartTypes
<1>4. ASSUME NEW h \in Hosts, Trigger(h) PROVE Types'
  BY <1>4, TriggerTypes
<1>5. ASSUME NEW h \in Hosts, ClientTimer(h) PROVE Types'
  BY <1>5, ClientTimerTypes
<1>6. ASSUME NEW h \in Hosts, Leave(h) PROVE Types'
  BY <1>6, LeaveTypes
<1>7. ASSUME NEW h \in Hosts, StopDone(h) PROVE Types'
  BY <1>7, StopTypes
<1>8. ASSUME NEW h \in Hosts, LoseTick(h) PROVE Types'
  BY <1>8, LoseTickTypes
<1>9. ASSUME NEW t \in Tasks, Wake(t) PROVE Types'
  BY <1>9, WakeTypes
<1>10. ASSUME NEW t \in Tasks, Enter(t) PROVE Types'
  BY <1>10, EnterTypes
<1>11. ASSUME NEW t \in Tasks, Compute(t) PROVE Types'
  BY <1>11, ComputeTypes
<1>12. ASSUME NEW t \in Tasks, ReceiveAck(t) PROVE Types'
  BY <1>12, ReceiveTypes
<1>13. ASSUME NEW t \in Tasks, Destroy(t) PROVE Types'
  BY <1>13, DestroyTypes
<1>14. ASSUME NEW t \in Tasks, LoseAck(t) PROVE Types'
  BY <1>14, LoseAckTypes
<1>15. ASSUME WorkerComplete PROVE Types'
  BY <1>15, CompleteTypes
<1>16. ASSUME WorkerNext PROVE Types'
  BY <1>16, NextTypes
<1>17. ASSUME WorkerSend PROVE Types'
  BY <1>17, SendTypes
<1>18. ASSUME WorkerEnd PROVE Types'
  BY <1>18, EndTypes
<1>19. ASSUME TickThread PROVE Types'
  BY <1>19, TickTypes
<1>20. ASSUME AckTimer PROVE Types'
  BY <1>20, AckTimerTypes
<1>21. CASE UNCHANGED vars
  <2>1. UNCHANGED <<phase, gen, requests, configs, sched, mode, worker,
                    waiting, initial, index, marks, curTime, duration,
                    completion, ticks>>
    BY <1>21 DEF vars, config, master
  <2>2. UNCHANGED <<simTime, progress, timedOut, task, barrier, taskTime,
                    stepTime, shutdown, count, tickChan, ackChan, faults>>
    BY <1>21 DEF vars, client, threads, bus
  <2>. QED
    BY <2>1, <2>2 DEF Types, ControlTypes, FlagTypes, NumberTypes,
       ChannelTypes, ThreadTypes, PhaseInv, ScheduleInv, Given
<1>. QED
  BY <1>1, <1>2, <1>3, <1>4, <1>5, <1>6, <1>7, <1>8, <1>9, <1>10, <1>11,
    <1>12, <1>13, <1>14, <1>15, <1>16, <1>17, <1>18, <1>19, <1>20, <1>21 DEF
    Next, TaskThread, Worker

(***************************************************************************)
(* Until the master is started for the first time nothing moves.           *)
(***************************************************************************)
Fresh == gen[Master] = 0 \/ (gen[Master] = 1 /\ phase[Master] = "ready")

Silent ==
  /\ worker = "none" /\ ticks = 0
  /\ \A h \in Hosts : tickChan[h] = <<>> /\ simTime[h] = 0 /\ progress[h] = 0

Asleep(t) ==
  /\ ackChan[t] = <<>> /\ count[t] = 0
  /\ task[t] # "compute" /\ (task[t] = "woken" => shutdown[t])
  /\ ~ shutdown[t] => barrier[t] = 0

FreshInv == Fresh => Silent /\ \A t \in Tasks : Asleep(t)

(* Before the master is started no step wakes a task: there are no ticks,   *)
(* and the barrier of a task is notified only by Task::destroy.             *)
LEMMA FreshStep == Types /\ FreshInv /\ [Next]_vars => FreshInv'
<1>. SUFFICES ASSUME Types, FreshInv, [Next]_vars PROVE FreshInv'
  OBVIOUS
<1>. USE LockedStepAssumption DEF Types, ControlTypes, ThreadTypes,
         FlagTypes, ChannelTypes, PhaseInv, FreshInv, Fresh, Silent, Asleep
<1>1. ASSUME NEW h \in Hosts, Configure(h) PROVE FreshInv'
  <2>1. /\ phase[h] = "idle" /\ phase' = [phase EXCEPT ![h] = "ready"]
        /\ gen' = [gen EXCEPT ![h] = @ + 1]
        /\ UNCHANGED <<worker, ticks, tickChan, simTime, progress>>
    BY <1>1 DEF Configure, master, client, bus
  <2>2. /\ UNCHANGED <<ackChan, task, shutdown, barrier>>
        /\ count' = [t \in Tasks |-> IF t \in TasksOf(h) THEN 0 ELSE count[t]]
    BY <1>1 DEF Configure, bus
  <2>3. Fresh' => Fresh
    BY <2>1
  <2>. QED BY <2>1, <2>2, <2>3
<1>2. ASSUME NEW h \in Hosts, AnswerSchedule(h) PROVE FreshInv'
  BY <1>2 DEF AnswerSchedule, config, master, client, threads, bus
<1>3. ASSUME NEW h \in Hosts, Start(h) PROVE FreshInv'
  <2>1. /\ phase[h] = "ready" /\ phase' = [phase EXCEPT ![h] = "running"]
        /\ gen' = gen /\ UNCHANGED <<tickChan, ackChan, count>>
        /\ simTime' = [simTime EXCEPT ![h] = 0]
        /\ progress' = [progress EXCEPT ![h] = 0]
        /\ h # Master => worker' = worker /\ ticks' = ticks
    BY <1>3 DEF Start, master, bus
  <2>2. \A t \in Tasks :
          \/ task'[t] = "wait" /\ barrier'[t] = 0
          \/ /\ task'[t] = task[t] /\ barrier'[t] = barrier[t]
             /\ shutdown'[t] = shutdown[t]
    BY <1>3 DEF Start
  <2>a. ~ Fresh' \/ h # Master
    <3>1. SUFFICES ASSUME h = Master PROVE ~ Fresh'
      OBVIOUS
    <3>a. phase[h] # "idle" => gen[h] > 0
      OBVIOUS
    <3>b. gen[h] \in Nat /\ DOMAIN phase = Hosts
      OBVIOUS
    <3>2. phase'[Master] = "running" /\ gen'[Master] # 0
      BY ONLY <2>1, <3>1, <3>a, <3>b, h \in Hosts
    <3>. QED BY <3>2
  <2>b. h # Master => /\ phase'[Master] = phase[Master]
                      /\ gen'[Master] = gen[Master]
    BY <2>1
  <2>3. Fresh' => Fresh /\ h # Master
    BY <2>a, <2>b
  <2>4. ASSUME Fresh' PROVE Silent'
    BY <2>1, <2>3, <2>4
  <2>5. ASSUME Fresh', NEW t \in Tasks PROVE Asleep(t)'
    <3>1. Asleep(t)
      BY <2>3, <2>5
    <3>2. ackChan'[t] = <<>> /\ count'[t] = 0
      BY <2>1, <3>1
    <3>. QED BY <2>2, <3>1, <3>2
  <2>. QED BY <2>4, <2>5
<1>4. ASSUME NEW h \in Hosts, Trigger(h) PROVE FreshInv'
  BY <1>4 DEF Trigger, Stopping, config, master, client, threads, bus
<1>5. ASSUME NEW h \in Hosts, ClientTimer(h) PROVE FreshInv'
  BY <1>5 DEF ClientTimer, Stopping, config, master, client, threads, bus
<1>6. ASSUME NEW h \in Hosts, Leave(h) PROVE FreshInv'
  BY <1>6 DEF Leave, Stopping, config, master, client, threads, bus
<1>7. ASSUME NEW h \in Hosts, StopDone(h) PROVE FreshInv'
  BY <1>7 DEF StopDone, TasksOf, config, master, client, threads, bus
<1>8. ASSUME NEW h \in Hosts, LoseTick(h) PROVE FreshInv'
  BY <1>8 DEF LoseTick, config, master, client, threads, bus
<1>9. ASSUME NEW t \in Tasks, Wake(t) PROVE FreshInv'
  <2>1. /\ task[t] = "wait" /\ barrier[t] > 0
        /\ barrier' = [barrier EXCEPT ![t] = @ - 1]
        /\ task' = [task EXCEPT ![t] = "woken"]
        /\ UNCHANGED <<phase, gen, worker, ticks, tickChan, ackChan, simTime,
                       progress, count, shutdown>>
    BY <1>9 DEF Wake, master, client, bus
  <2>2. Fresh => shutdown[t]
    BY <2>1
  <2>3. ASSUME Fresh', NEW u \in Tasks PROVE Asleep(u)'
    <3>1. Fresh /\ Asleep(u)
      BY <2>1, <2>3
    <3>2. CASE u = t
      BY <2>1, <2>2, <3>1, <3>2
    <3>3. CASE u # t
      BY <2>1, <3>1, <3>3
    <3>. QED BY <3>2, <3>3
  <2>. QED BY <2>1, <2>3
<1>10. ASSUME NEW t \in Tasks, Enter(t) PROVE FreshInv'
  <2>1. /\ task[t] = "woken"
        /\ \/ shutdown[t] /\ task' = [task EXCEPT ![t] = "ended"]
           \/ ~ shutdown[t]
        /\ UNCHANGED <<phase, gen, worker, ticks, tickChan, ackChan, simTime,
                       progress, count, shutdown, barrier>>
    BY <1>10 DEF Enter, master, client, bus
  <2>2. Fresh => shutdown[t]
    BY <2>1
  <2>3. ASSUME Fresh', NEW u \in Tasks PROVE Asleep(u)'
    <3>1. Fresh /\ Asleep(u)
      BY <2>1, <2>3
    <3>2. CASE u = t
      BY <2>1, <2>2, <3>1, <3>2
    <3>3. CASE u # t
      BY <2>1, <2>2, <3>1, <3>3
    <3>. QED BY <3>2, <3>3
  <2>. QED BY <2>1, <2>3
<1>11. ASSUME NEW t \in Tasks, Compute(t) PROVE FreshInv'
  <2>1. ~ Fresh
    BY <1>11 DEF Compute
  <2>2. ~ Fresh'
    BY <1>11, <2>1 DEF Compute, Stopping, master, client
  <2>. QED BY <2>2
<1>12. ASSUME NEW t \in Tasks, ReceiveAck(t) PROVE FreshInv'
  BY <1>12 DEF ReceiveAck, config, master, client, threads, bus
<1>13. ASSUME NEW t \in Tasks, Destroy(t) PROVE FreshInv'
  BY <1>13 DEF Destroy, config, master, client, threads, bus
<1>14. ASSUME NEW t \in Tasks, LoseAck(t) PROVE FreshInv'
  BY <1>14 DEF LoseAck, config, master, client, threads, bus
<1>15. ASSUME WorkerComplete PROVE FreshInv'
  BY <1>15 DEF WorkerComplete, config, master, client, threads, bus
<1>16. ASSUME WorkerNext PROVE FreshInv'
  BY <1>16 DEF WorkerNext, config, master, client, threads, bus
<1>17. ASSUME WorkerSend PROVE FreshInv'
  BY <1>17 DEF WorkerSend, config, master, client, threads, bus
<1>18. ASSUME WorkerEnd PROVE FreshInv'
  BY <1>18 DEF WorkerEnd, config, master, client, threads, bus
<1>19. ASSUME TickThread PROVE FreshInv'
  BY <1>19 DEF TickThread, config, master, client, threads, bus
<1>20. ASSUME AckTimer PROVE FreshInv'
  BY <1>20 DEF AckTimer, Stopping, config, master, client, threads, bus
<1>21. CASE UNCHANGED vars
  BY <1>21 DEF vars, config, master, client, threads, bus
<1>. QED
  BY <1>1, <1>2, <1>3, <1>4, <1>5, <1>6, <1>7, <1>8, <1>9, <1>10, <1>11,
    <1>12, <1>13, <1>14, <1>15, <1>16, <1>17, <1>18, <1>19, <1>20, <1>21 DEF
    Next, TaskThread, Worker

(* In the initial state nothing moves.                                      *)
LEMMA FreshStart == Init => FreshInv
BY LockedStepAssumption DEF Init, FreshInv, Silent, Asleep

-----------------------------------------------------------------------------
(***************************************************************************)
(* Sequences: the acknowledgements and the ticks under way.                *)
(***************************************************************************)
Has(s, g)  == \E i \in 1..Len(s) : s[i] = g
Once(s, g) == \A i, j \in 1..Len(s) : s[i] = g /\ s[j] = g => i = j

(* The next acknowledgement is taken from the bus.                          *)
LEMMA TakeAck ==
  ASSUME NEW s \in Seq(Nat), s # <<>>, NEW g \in Nat, Once(s, g)
  PROVE  /\ Head(s) = g => Has(s, g) /\ ~ Has(Tail(s), g)
         /\ Has(Tail(s), g) => Has(s, g)
         /\ Once(Tail(s), g)
<1>1. /\ Head(s) = s[1] /\ 1 \in 1..Len(s) /\ Len(Tail(s)) = Len(s) - 1
      /\ \A i \in 1..Len(Tail(s)) : Tail(s)[i] = s[i + 1] /\ i + 1 \in 1..Len(s)
  OBVIOUS
<1>2. Head(s) = g => ~ Has(Tail(s), g)
  <2>1. SUFFICES ASSUME Head(s) = g, NEW i \in 1..Len(Tail(s)), Tail(s)[i] = g
                 PROVE  FALSE
    BY DEF Has
  <2>2. 1 = i + 1
    BY <1>1, <2>1 DEF Once
  <2>. QED BY <2>2
<1>3. Head(s) = g => Has(s, g)
  BY <1>1 DEF Has
<1>4. Has(Tail(s), g) => Has(s, g)
  BY <1>1 DEF Has
<1>5. Once(Tail(s), g)
  <2>1. SUFFICES ASSUME NEW i \in 1..Len(Tail(s)), NEW j \in 1..Len(Tail(s)),
                        Tail(s)[i] = g, Tail(s)[j] = g
                 PROVE  i = j
    BY DEF Once
  <2>2. i + 1 = j + 1
    BY <1>1, <2>1 DEF Once
  <2>. QED BY <2>2
<1>. QED BY <1>2, <1>3, <1>4, <1>5

(* A first acknowledgement is sent.                                         *)
LEMMA SendAck ==
  ASSUME NEW s \in Seq(Nat), NEW g \in Nat, ~ Has(s, g)
  PROVE  Has(Append(s, g), g) /\ Once(Append(s, g), g)
<1>1. /\ Len(Append(s, g)) = Len(s) + 1 /\ Append(s, g)[Len(s) + 1] = g
      /\ \A i \in 1..Len(s) : Append(s, g)[i] = s[i]
      /\ Len(s) \in Nat
  OBVIOUS
<1>2. \A i \in 1..Len(Append(s, g)) : Append(s, g)[i] = g => i = Len(s) + 1
  BY <1>1 DEF Has
<1>3. Len(s) + 1 \in 1..Len(Append(s, g))
  BY <1>1
<1>. QED BY <1>1, <1>2, <1>3 DEF Has, Once

(* The ticks under way to a participant follow each other without a gap,    *)
(* up to the last one that was sent, for the instant l.                     *)
Linked(s, i, l) ==
  /\ s[i].step <= s[i].time /\ s[i].time <= l
  /\ s[i].time = 0 \/ s[i].step > 0
  /\ i < Len(s) => /\ s[i].time = s[i + 1].time - s[i + 1].step
                   /\ s[i + 1].step > 0
  /\ i = Len(s) => s[i].time = l

Chain(s, l) == \A i \in 1..Len(s) : Linked(s, i, l)

(* The instant of the last tick before them.                                *)
Before(s, l) == IF s = <<>> THEN l
                ELSE IF s[1].time = 0 THEN -1 ELSE s[1].time - s[1].step

(* The next tick of a chain is taken from it.                               *)
LEMMA TakeTick ==
  ASSUME NEW s \in Seq(TickType), s # <<>>, NEW l \in Int, Chain(s, l)
  PROVE  /\ Chain(Tail(s), l)
         /\ Head(s) \in TickType
         /\ Before(Tail(s), l) = Head(s).time
         /\ Before(s, l) < Head(s).time /\ Head(s).time <= l
         /\ Before(s, l) = IF Head(s).time = 0 THEN -1
                           ELSE Head(s).time - Head(s).step
         /\ Head(s).step <= Head(s).time
         /\ Head(s).time = 0 \/ Head(s).step > 0
         /\ Head(s).time = l => Tail(s) = <<>>
<1>1. /\ Head(s) = s[1] /\ 1 \in 1..Len(s) /\ Len(Tail(s)) = Len(s) - 1
      /\ Len(s) \in Nat
      /\ \A i \in 1..Len(Tail(s)) : Tail(s)[i] = s[i + 1] /\ i + 1 \in 1..Len(s)
  OBVIOUS
<1>a. \A i \in 1..Len(s) : s[i] \in TickType
  OBVIOUS
<1>b. \A x \in TickType : x.time \in Int /\ x.step \in Nat
  BY DEF TickType
<1>2. \A i \in 1..Len(s) : s[i].time \in Int /\ s[i].step \in Nat
  BY <1>a, <1>b
<1>3. Linked(s, 1, l)
  BY <1>1 DEF Chain
<1>4. Chain(Tail(s), l)
  <2>1. SUFFICES ASSUME NEW i \in 1..Len(Tail(s)) PROVE Linked(Tail(s), i, l)
    BY DEF Chain
  <2>2. Linked(s, i + 1, l)
    BY <1>1 DEF Chain
  <2>3. Tail(s)[i] = s[i + 1] /\ Len(Tail(s)) = Len(s) - 1
    BY <1>1
  <2>4. i < Len(Tail(s)) => i + 1 \in 1..Len(Tail(s)) /\ i + 1 < Len(s)
    BY <1>1
  <2>5. i < Len(Tail(s)) => Tail(s)[i + 1] = s[(i + 1) + 1]
    BY <1>1, <2>4
  <2>6. i = Len(Tail(s)) => i + 1 = Len(s)
    BY <1>1
  <2>. HIDE DEF Chain
  <2>. QED BY ONLY <2>2, <2>3, <2>4, <2>5, <2>6 DEF Linked
<1>5. /\ s[1].step <= s[1].time /\ s[1].time <= l
      /\ s[1].time = 0 \/ s[1].step > 0
      /\ 1 = Len(s) => s[1].time = l
  BY <1>3 DEF Linked
<1>6. CASE Len(s) = 1
  <2>1. Tail(s) = <<>>
    <3>1. Tail(s) \in Seq(TickType) /\ Len(Tail(s)) = 0
      BY <1>1, <1>6
    <3>. QED BY <3>1, EmptySeq
  <2>. QED BY <1>1, <1>2, <1>4, <1>5, <1>6, <2>1 DEF Before
<1>7. CASE Len(s) > 1
  <2>a. Len(Tail(s)) >= 1 /\ 1 \in 1..Len(Tail(s)) /\ 2 \in 1..Len(s)
        /\ 1 + 1 = 2
    BY <1>1, <1>7
  <2>b. Tail(s) # <<>>
    <3>1. Tail(s) \in Seq(TickType) /\ Len(Tail(s)) # 0
      BY <1>1, <2>a
    <3>. QED BY <3>1, EmptySeq
  <2>1. Tail(s) # <<>> /\ Tail(s)[1] = s[2] /\ 2 \in 1..Len(s)
    BY <1>1, <2>a, <2>b
  <2>2. s[1].time = s[2].time - s[2].step /\ s[2].step > 0
    BY <1>3, <1>7 DEF Linked
  <2>3. s[2].step <= s[2].time /\ s[2].time <= l
    BY <2>1 DEF Chain, Linked
  <2>. HIDE DEF Chain
  <2>4. s[2].time # 0 /\ s[1].time \in Int /\ s[1].step \in Nat
    BY <1>1, <1>2, <2>1, <2>2, <2>3
  <2>5. Before(Tail(s), l) = s[1].time
    BY ONLY <2>1, <2>2, <2>4 DEF Before
  <2>6. Before(s, l) < s[1].time
    BY ONLY <1>5, <2>4, s # <<>> DEF Before
  <2>7. s[1].time # l
    BY <1>1, <1>2, <2>1, <2>2, <2>3
  <2>8. Before(s, l) = IF s[1].time = 0 THEN -1 ELSE s[1].time - s[1].step
    BY ONLY s # <<>> DEF Before
  <2>9. Head(s) = s[1] /\ Head(s) \in TickType
    BY <1>1, <1>a
  <2>. QED BY ONLY <1>4, <1>5, <2>5, <2>6, <2>7, <2>8, <2>9
<1>. QED BY <1>1, <1>6, <1>7

(* The next tick is sent: the chain goes on.                                *)
LEMMA SendTick ==
  ASSUME NEW s \in Seq(TickType), NEW l \in Int, Chain(s, l),
         NEW k \in TickType, k.step <= k.time,
         k.time = 0 \/ k.step > 0,
         s # <<>> => k.time - k.step = l /\ k.step > 0
  PROVE  /\ Chain(Append(s, k), k.time)
         /\ s = <<>> => Before(Append(s, k), k.time) =
                          IF k.time = 0 THEN -1 ELSE k.time - k.step
         /\ s # <<>> => Before(Append(s, k), k.time) = Before(s, l)
<1>. DEFINE a == Append(s, k)
<1>1. /\ Len(a) = Len(s) + 1 /\ a[Len(s) + 1] = k /\ Len(s) \in Nat
      /\ \A i \in 1..Len(s) : a[i] = s[i]
      /\ a # <<>>
  <2>1. Len(a) = Len(s) + 1 /\ a[Len(s) + 1] = k /\ Len(s) \in Nat
    BY AppendProperties
  <2>2. \A i \in 1..Len(s) : a[i] = s[i]
    BY AppendProperties
  <2>3. a # <<>>
    BY AppendProperties
  <2>. QED BY <2>1, <2>2, <2>3
<1>a. \A i \in 1..Len(s) : s[i] \in TickType
  OBVIOUS
<1>b. \A x \in TickType : x.time \in Int /\ x.step \in Nat
  BY DEF TickType
<1>2. \A i \in 1..Len(s) : s[i].time \in Int /\ s[i].step \in Nat
  BY <1>a, <1>b
<1>3. k.time \in Int /\ k.step \in Nat
  BY DEF TickType
<1>4. s # <<>> => 1 \in 1..Len(s) /\ a[1] = s[1]
  BY <1>1
<1>5. s = <<>> => a[1] = k
  BY <1>1
<1>. HIDE DEF a
<1>6. Chain(a, k.time)
  <2>1. SUFFICES ASSUME NEW i \in 1..Len(a) PROVE Linked(a, i, k.time)
    BY DEF Chain
  <2>2. CASE i = Len(s) + 1
    BY <1>1, <1>3, <2>2 DEF Linked
  <2>3. CASE i \in 1..Len(s)
    <3>1. Linked(s, i, l) /\ s # <<>>
      BY <2>3 DEF Chain
    <3>2. CASE i = Len(s)
      BY <1>1, <1>2, <1>3, <2>3, <3>1, <3>2 DEF Linked
    <3>3. CASE i < Len(s)
      <4>1. i + 1 \in 1..Len(s) /\ a[i + 1] = s[i + 1] /\ a[i] = s[i]
        BY <1>1, <2>3, <3>3
      <4>2. i + 1 <= Len(s) /\ i < Len(a) /\ i # Len(a)
        BY <1>1, <2>3, <3>3
      <4>3. /\ s[i].step <= s[i].time
            /\ s[i].time = 0 \/ s[i].step > 0
            /\ s[i].time = s[i + 1].time - s[i + 1].step
            /\ s[i + 1].step > 0
        BY ONLY <3>1, <3>3 DEF Linked
      <4>4. s[i].time <= l /\ l <= k.time
        <5>1. s[i].time <= l
          BY ONLY <3>1 DEF Linked
        <5>. QED BY <1>3, <3>1, <5>1
      <4>5. s[i].time <= k.time
        BY ONLY <1>2, <1>3, <2>3, <4>4, l \in Int
      <4>. QED BY ONLY <4>1, <4>2, <4>3, <4>5 DEF Linked
    <3>. QED BY <1>1, <2>3, <3>2, <3>3
  <2>. QED BY <1>1, <2>2, <2>3
<1>7. /\ s = <<>> => Before(a, k.time) =
                       IF k.time = 0 THEN -1 ELSE k.time - k.step
      /\ s # <<>> => Before(a, k.time) = Before(s, l)
  BY <1>1, <1>4, <1>5 DEF Before
<1>. QED BY <1>6, <1>7 DEF a

(* No tick is under way: the last one of all was the last one before.       *)
LEMMA NoTick ==
  ASSUME NEW l \in Int
  PROVE  Chain(<<>>, l) /\ Before(<<>>, l) = l
BY DEF Chain, Before

(* What is before the ticks under way is not after the last one.            *)
LEMMA BeforeLast ==
  ASSUME NEW s \in Seq(TickType), NEW l \in Int, Chain(s, l)
  PROVE  Before(s, l) \in Int /\ Before(s, l) <= l
<1>1. CASE s = <<>>
  BY <1>1 DEF Before
<1>2. CASE s # <<>>
  <2>1. /\ Before(s, l) < Head(s).time /\ Head(s).time <= l
        /\ Head(s).time \in Int /\ Head(s).step \in Nat
        /\ Before(s, l) = IF Head(s).time = 0 THEN -1
                          ELSE Head(s).time - Head(s).step
    BY <1>2, TakeTick DEF TickType
  <2>. QED BY <2>1
<1>. QED BY <1>1, <1>2

-----------------------------------------------------------------------------
(***************************************************************************)
(* The first run of the master: its instant, what it has sent, and what    *)
(* each listener in its schedule has to do with it.                        *)
(***************************************************************************)
Now == CycleTime * index

DueSteps(S, n) == {u \in S : n % CycleOf(u) = 0}

(* The instant of the last tick that was sent, -1 for none.                 *)
Sent     == ~ initial /\ ~ (worker = "send" /\ index = 0)
LastSent == IF Sent THEN curTime - duration ELSE -1

(* The instant of the last tick that a participant has received or lost.    *)
Prev(h) == Before(tickChan[h], LastSent)

MasterInv ==
  /\ initial => /\ index = 0 /\ duration = 0 /\ ~ waiting /\ worker = "loop"
                /\ \/ curTime = 0
                   \/ curTime = -1 /\ ticks = 0 /\ mode = "SYSTEM_TIME"
  /\ ~ initial => curTime = IF worker = "send" THEN Now ELSE Now + CycleTime
  /\ worker = "send" => IF index = 0 THEN duration = 0
                                     ELSE LastSent \in 0..Now - 1
  /\ ~ initial /\ worker # "send" =>
       /\ LastSent \in 0..Now
       /\ DueSteps(sched, Now) # {} => LastSent = Now
  /\ ~ initial /\ worker = "loop" =>
       (waiting <=> DueSteps(sched, Now) \ {Dummy} # {})
  /\ worker = "tick" => DueSteps(sched, Now) \ {Dummy} \subseteq marks

ChanInv ==
  \A h \in Hosts : /\ Chain(tickChan[h], LastSent)
                   /\ tickChan[h] # <<>> => Sent

InSchedule(t) == Uuid(t) \in sched \ {Dummy}
Steps(t) == count[t] * Cycle[t]

Acked(t)  == Has(ackChan[t], gen[Host[t]])
Active(t) == \/ task[t] = "compute"
             \/ ~ shutdown[t] /\ task[t] = "woken"
             \/ ~ shutdown[t] /\ task[t] = "wait" /\ barrier[t] > 0

(* Every earlier instant of the listener was received or lost.              *)
PassedInv(t) ==
  \A m \in Nat : m % Cycle[t] = 0 /\ m < Now => m <= Prev(Host[t])

(* A listener computes, or has its acknowledgement under way, only while    *)
(* the master waits for it.                                                 *)
OweInv(t) == Active(t) \/ Acked(t) =>
  /\ worker = "loop" /\ waiting /\ ~ initial /\ Now % Cycle[t] = 0
  /\ Uuid(t) \notin marks /\ tickChan[Host[t]] = <<>>
  /\ \/ phase[Host[t]] = "idle"
     \/ simTime[Host[t]] = Now /\ progress[Host[t]] = Now

TaskInv(t) ==
  /\ task[t] = "compute" => stepTime[t] = Now
  /\ Active(t) /\ task[t] # "compute" => taskTime[t] = Now
  /\ ~ shutdown[t] /\ task[t] \in {"woken", "compute"} => barrier[t] = 0
  /\ ~ shutdown[t] /\ task[t] = "wait" => barrier[t] <= 1
  /\ Active(t) => ~ Acked(t)
  /\ Once(ackChan[t], gen[Host[t]])

(* A participant that has not been started has computed nothing, and the    *)
(* master has not come beyond the first instant.                            *)
ReadyInv(t) ==
  task[t] = "none" /\ phase[Host[t]] # "idle" => Now = 0 /\ count[t] = 0

(* A client that has missed ticks is never woken again: the master waits    *)
(* for it at the first instant it is due.                                   *)
Missed(h) == (simTime[h] = 0 /\ Prev(h) > 0) \/ progress[h] # simTime[h]

ClientInv(t) == phase[Host[t]] # "idle" =>
  /\ progress[Host[t]] <= simTime[Host[t]]
  /\ simTime[Host[t]] > 0 => simTime[Host[t]] <= Prev(Host[t])
  /\ Missed(Host[t]) =>
       Now <= Cycle[t] /\ (Now = Cycle[t] => Uuid(t) \notin marks)

CountInv(t) ==
  /\ Steps(t) - Cycle[t] <= Now /\ Now <= Steps(t)
  /\ Active(t) => Steps(t) = Now
  /\ Uuid(t) \in marks \/ Acked(t) => Steps(t) = Now + Cycle[t]
  /\ Steps(t) = Now + Cycle[t] =>
       ~ initial /\ worker \in {"loop", "tick"} /\ tickChan[Host[t]] = <<>>

MemberInv(t) == /\ PassedInv(t) /\ OweInv(t) /\ TaskInv(t) /\ ReadyInv(t)
                /\ ClientInv(t) /\ CountInv(t)

Run == /\ MasterInv /\ ChanInv
       /\ \A t \in Tasks : InSchedule(t) => MemberInv(t)

RunInv == FirstRun => Run

(***************************************************************************)
(* What follows from the types for the numbers of a run.                   *)
(***************************************************************************)
(* The item of the index is what is due at the instant of the master.       *)
LEMMA Items ==
  /\ Item(index) = DueSteps(sched, Now)
  /\ IsCurrentScheduleComplete
       <=> DueSteps(sched, Now) \ {Dummy} \subseteq marks
BY DEF Item, DueSteps, Now, IsCurrentScheduleComplete

(* The instants of the master are multiples of its cycle time.              *)
LEMMA Instants ==
  ASSUME Types, worker # "none"
  PROVE  /\ CycleTime \in Nat \ {0} /\ Now \in Nat
         /\ index = 0 <=> Now = 0
         /\ index # 0 => CycleTime <= Now
<1>1. CycleTime \in Nat \ {0} /\ index \in Nat
  BY Gcd DEF Types, ScheduleInv, NumberTypes
<1>2. Now = CycleTime * index
  BY DEF Now
<1>3. Now \in Nat /\ (index = 0 => Now = 0)
  BY <1>1, <1>2, Factors
<1>4. index # 0 => CycleTime * 0 + CycleTime <= Now
  BY <1>1, <1>2, Factors
<1>. QED BY <1>1, <1>3, <1>4

(* The numbers of a listener in the schedule.                               *)
LEMMA Numbers ==
  ASSUME Types, worker # "none", NEW t \in Tasks, InSchedule(t)
  PROVE  /\ Cycle[t] \in Nat \ {0} /\ Cycle[t] % CycleTime = 0
         /\ count[t] \in Nat /\ Steps(t) \in Nat /\ Host[t] \in Hosts
         /\ Now % Cycle[t] = 0 <=> Uuid(t) \in DueSteps(sched, Now)
         /\ Uuid(t) \in sched /\ Uuid(t) # Dummy
<1>. USE LockedStepAssumption
<1>1. Uuid(t) \in sched /\ Uuid(t) # Dummy
  BY DEF InSchedule
<1>2. CycleOf(Uuid(t)) = Cycle[t]
  BY <1>1 DEF CycleOf, Uuid
<1>3. Cycle[t] \in Nat \ {0} /\ Cycle[t] % CycleTime = 0
  BY <1>1, <1>2, Gcd
<1>4. count[t] \in Nat
  BY DEF Types, ThreadTypes
<1>5. Steps(t) \in Nat
  BY <1>3, <1>4, Factors DEF Steps
<1>. QED BY <1>1, <1>2, <1>3, <1>4, <1>5 DEF DueSteps

(***************************************************************************)
(* What a step leaves alone.                                               *)
(***************************************************************************)
ClockStays == Now' = Now /\ LastSent' = LastSent /\ CycleTime' = CycleTime

HostStays(h) ==
  /\ tickChan'[h] = tickChan[h] /\ gen'[h] = gen[h]
  /\ simTime'[h] = simTime[h] /\ progress'[h] = progress[h]
  /\ phase'[h] = "idle" <=> phase[h] = "idle"

TaskStays(t) ==
  /\ task'[t] = task[t] /\ barrier'[t] = barrier[t]
  /\ shutdown'[t] = shutdown[t] /\ count'[t] = count[t]
  /\ taskTime'[t] = taskTime[t] /\ stepTime'[t] = stepTime[t]
  /\ ackChan'[t] = ackChan[t]

MarkStays(t) == (Uuid(t) \in marks)' <=> Uuid(t) \in marks

(* The views of the master's part depend on these variables only.           *)
LEMMA ClockIs ==
  ASSUME UNCHANGED <<sched, index, worker, initial>>,
         initial \/ UNCHANGED <<curTime, duration>>
  PROVE  /\ ClockStays /\ Sent' = Sent
         /\ DueSteps(sched, Now)' = DueSteps(sched, Now)
<1>1. CycleTime' = CycleTime
  BY GcdStays
<1>2. Now' = Now
  BY <1>1 DEF Now
<1>3. Sent' = Sent /\ (Sent => ~ initial)
  BY DEF Sent
<1>4. LastSent' = LastSent
  BY <1>3 DEF LastSent
<1>. QED BY <1>1, <1>2, <1>3, <1>4 DEF ClockStays, DueSteps

(* What a participant has received or lost depends on the ticks under way   *)
(* to it and on the last one that was sent.                                 *)
LEMMA PrevStays ==
  ASSUME NEW h, LastSent' = LastSent, tickChan'[h] = tickChan[h]
  PROVE  Prev(h)' = Prev(h)
BY DEF Prev

(* The views of a listener depend on its thread, its acknowledgements and   *)
(* the identifier it has.                                                   *)
LEMMA AtomsStay ==
  ASSUME NEW t, TaskStays(t), gen'[Host[t]] = gen[Host[t]]
  PROVE  /\ Uuid(t)' = Uuid(t) /\ Steps(t)' = Steps(t)
         /\ Active(t)' <=> Active(t)
         /\ Acked(t)' <=> Acked(t)
         /\ Once(ackChan[t], gen[Host[t]])' <=> Once(ackChan[t], gen[Host[t]])
<1>1. Uuid(t)' = Uuid(t) /\ Steps(t)' = Steps(t)
  BY DEF TaskStays, Uuid, Steps
<1>2. Active(t)' <=> Active(t)
  BY DEF TaskStays, Active
<1>3. Acked(t)' <=> Acked(t)
  BY DEF TaskStays, Acked
<1>4. Once(ackChan[t], gen[Host[t]])' <=> Once(ackChan[t], gen[Host[t]])
  BY DEF TaskStays
<1>. QED BY <1>1, <1>2, <1>3, <1>4

(* The invariant of a listener depends on the clock, the worker, its        *)
(* participant, its thread and its mark.                                    *)
LEMMA MemberStays ==
  ASSUME NEW t \in Tasks, MemberInv(t), ClockStays,
         UNCHANGED <<worker, waiting, initial>>,
         HostStays(Host[t]), TaskStays(t), MarkStays(t)
  PROVE  MemberInv(t)'
<1>. DEFINE h == Host[t]
<1>1. Prev(h)' = Prev(h) /\ Now' = Now
  BY PrevStays DEF ClockStays, HostStays
<1>2. /\ Uuid(t)' = Uuid(t) /\ Steps(t)' = Steps(t)
      /\ Active(t)' <=> Active(t)
      /\ Acked(t)' <=> Acked(t)
      /\ Once(ackChan[t], gen[Host[t]])' <=> Once(ackChan[t], gen[Host[t]])
  BY AtomsStay DEF HostStays
<1>3. PassedInv(t)'
  BY <1>1 DEF MemberInv, PassedInv
<1>4. OweInv(t)'
  BY <1>1, <1>2 DEF MemberInv, OweInv, HostStays, MarkStays
<1>5. TaskInv(t)'
  BY <1>1, <1>2 DEF MemberInv, TaskInv, TaskStays
<1>6. ReadyInv(t)'
  BY <1>1 DEF MemberInv, ReadyInv, TaskStays, HostStays
<1>7. ClientInv(t)'
  BY <1>1 DEF MemberInv, ClientInv, Missed, HostStays, MarkStays
<1>8. CountInv(t)'
  BY <1>1, <1>2 DEF MemberInv, CountInv, HostStays, MarkStays
<1>. QED BY <1>3, <1>4, <1>5, <1>6, <1>7, <1>8 DEF MemberInv

(* The invariant of the channels depends on them and on the clock.          *)
LEMMA ChansStay ==
  ASSUME ChanInv, ClockStays, Sent' = Sent, UNCHANGED tickChan
  PROVE  ChanInv'
BY DEF ChanInv, ClockStays

(* The invariant of the master stays when steps are marked.                 *)
LEMMA MasterStays ==
  ASSUME MasterInv, ClockStays, Sent' = Sent,
         UNCHANGED <<sched, worker, waiting, initial, index, duration, curTime,
                     ticks, mode>>,
         marks \subseteq marks'
  PROVE  MasterInv'
<1>. Now' = Now /\ LastSent' = LastSent /\ CycleTime' = CycleTime
  BY DEF ClockStays
<1>1. DueSteps(sched, Now)' = DueSteps(sched, Now)
  BY DEF DueSteps
<1>. QED BY <1>1 DEF MasterInv

(* A step that touches neither the master's part nor the ticks, and leaves  *)
(* alone what belongs to each listener in the schedule.                     *)
LEMMA RunStays ==
  ASSUME Run,
         UNCHANGED <<sched, worker, waiting, initial, index, duration, curTime,
                     ticks, mode, marks, tickChan>>,
         \A t \in Tasks : InSchedule(t)' =>
            (InSchedule(t) /\ HostStays(Host[t]) /\ TaskStays(t))
  PROVE  Run'
<1>1. ClockStays /\ Sent' = Sent
  BY ClockIs
<1>2. MasterInv' /\ ChanInv'
  BY <1>1, MasterStays, ChansStay DEF Run
<1>3. ASSUME NEW t \in Tasks, InSchedule(t)' PROVE MemberInv(t)'
  <2>1. InSchedule(t) /\ HostStays(Host[t]) /\ TaskStays(t)
    BY <1>3
  <2>2. MarkStays(t)
    BY <2>1, AtomsStay DEF MarkStays, HostStays
  <2>. QED BY <1>1, <2>1, <2>2, MemberStays DEF Run
<1>. QED BY <1>2, <1>3 DEF Run

-----------------------------------------------------------------------------
(***************************************************************************)
(* Each step keeps the invariant of the first run.                         *)
(***************************************************************************)
(* A participant that is configured anew leaves the schedule of the master. *)
LEMMA ConfigureRun ==
  ASSUME Types, FreshInv, NEW h \in Hosts, Configure(h), FirstRun => Run,
         FirstRun'
  PROVE  Run'
<1>. USE LockedStepAssumption
<1>1. /\ phase[h] = "idle" /\ phase' = [phase EXCEPT ![h] = "ready"]
      /\ gen' = [gen EXCEPT ![h] = @ + 1]
      /\ count' = [t \in Tasks |-> IF t \in TasksOf(h) THEN 0 ELSE count[t]]
  BY DEF Configure
<1>2. /\ UNCHANGED <<sched, worker, waiting, initial, index, duration, curTime,
                     ticks, mode, marks, tickChan>>
      /\ UNCHANGED <<simTime, progress, task, barrier, shutdown, taskTime,
                     stepTime, ackChan>>
  BY DEF Configure, master, client, bus
<1>3. gen \in [Hosts -> Nat] /\ DOMAIN phase = Hosts
  BY DEF Types, ControlTypes
<1>4. h # Master /\ FirstRun
  <2>1. worker # "none" /\ gen'[Master] <= 1
    BY <1>2 DEF FirstRun
  <2>2. h # Master
    <3>1. SUFFICES ASSUME h = Master PROVE FALSE
      OBVIOUS
    <3>2. gen[Master] = 0
      BY <1>1, <1>3, <2>1, <3>1
    <3>. QED BY <2>1, <3>2 DEF FreshInv, Fresh, Silent
  <2>. QED BY <1>1, <1>3, <2>1, <2>2 DEF FirstRun
<1>5. ASSUME NEW t \in Tasks, InSchedule(t)'
      PROVE  InSchedule(t) /\ HostStays(Host[t]) /\ TaskStays(t)
  <2>1. Host[t] # h
    <3>1. SUFFICES ASSUME Host[t] = h PROVE FALSE
      OBVIOUS
    <3>2. Uuid(t)' = <<t, gen[h] + 1>> /\ Uuid(t)' \in sched \ {Dummy}
      BY <1>1, <1>2, <1>3, <1>5, <3>1 DEF InSchedule, Uuid
    <3>3. Given(<<t, gen[h] + 1>>)
      BY <3>2 DEF Types, ScheduleInv
    <3>4. gen[h] + 1 \in 1..gen[h]
      BY <3>1, <3>3 DEF Given
    <3>. QED BY <1>3, <3>4
  <2>2. Host[t] \in Hosts /\ gen'[Host[t]] = gen[Host[t]]
        /\ phase'[Host[t]] = phase[Host[t]]
    BY <1>1, <1>3, <2>1
  <2>3. count'[t] = count[t]
    BY <1>1, <2>1 DEF TasksOf
  <2>4. InSchedule(t)
    BY <1>2, <1>5, <2>2 DEF InSchedule, Uuid
  <2>. QED BY <1>2, <2>2, <2>3, <2>4 DEF HostStays, TaskStays
<1>. QED BY <1>2, <1>4, <1>5, RunStays

(* The answer to a request for the schedule waits for the next start.       *)
LEMMA AnswerRun ==
  ASSUME NEW h \in Hosts, AnswerSchedule(h), FirstRun => Run, FirstRun'
  PROVE  Run'
<1>1. /\ UNCHANGED <<sched, worker, waiting, initial, index, duration, curTime,
                     ticks, mode, marks, tickChan>>
      /\ UNCHANGED <<simTime, progress, task, barrier, shutdown, taskTime,
                     stepTime, ackChan, phase, gen, count>>
  BY DEF AnswerSchedule, master, client, threads, bus
<1>2. FirstRun
  BY <1>1 DEF FirstRun
<1>3. \A t \in Tasks : InSchedule(t)' =>
        (InSchedule(t) /\ HostStays(Host[t]) /\ TaskStays(t))
  BY <1>1 DEF InSchedule, Uuid, HostStays, TaskStays
<1>. QED BY <1>1, <1>2, <1>3, RunStays

(* A participant is asked to stop: its threads do not notice yet.           *)
LEMMA StoppingRun ==
  ASSUME Types, NEW h \in Hosts, phase[h] # "idle", phase' = Stopping(h),
         UNCHANGED <<gen, master, simTime, progress, threads, bus>>,
         FirstRun => Run, FirstRun'
  PROVE  Run'
<1>1. /\ UNCHANGED <<sched, worker, waiting, initial, index, duration, curTime,
                     ticks, mode, marks, tickChan>>
      /\ UNCHANGED <<simTime, progress, task, barrier, shutdown, taskTime,
                     stepTime, ackChan, gen, count>>
  BY DEF master, threads, bus
<1>2. FirstRun
  BY <1>1 DEF FirstRun
<1>3. \A g \in Hosts : phase'[g] = "idle" <=> phase[g] = "idle"
  BY DEF Stopping, Types, ControlTypes
<1>4. \A t \in Tasks : InSchedule(t)' =>
        (InSchedule(t) /\ HostStays(Host[t]) /\ TaskStays(t))
  BY <1>1, <1>3, LockedStepAssumption DEF InSchedule, Uuid, HostStays, TaskStays
<1>. QED BY <1>1, <1>2, <1>4, RunStays

(* The last tick that was sent is not beyond the instant of the master.     *)
LEMMA LastIs ==
  ASSUME Types, worker # "none", MasterInv
  PROVE  /\ LastSent \in Int /\ -1 <= LastSent /\ LastSent <= Now
         /\ initial \/ worker = "send" => LastSent < Now
<1>1. /\ Now \in Nat /\ (index = 0 <=> Now = 0)
      /\ curTime \in Int /\ duration \in Nat /\ index \in Nat
  BY Instants DEF Types, NumberTypes
<1>2. CASE Sent
  <2>1. ~ initial /\ ~ (worker = "send" /\ index = 0)
        /\ LastSent = curTime - duration
    BY <1>2 DEF Sent, LastSent
  <2>2. CASE worker = "send"
    BY <1>1, <2>1, <2>2 DEF MasterInv
  <2>3. CASE worker # "send"
    BY <1>1, <2>1, <2>3 DEF MasterInv
  <2>. QED BY <2>2, <2>3
<1>3. CASE ~ Sent
  BY <1>1, <1>3 DEF LastSent
<1>. QED BY <1>2, <1>3

(* What a participant has received or lost is not beyond what was sent.     *)
LEMMA PrevIs ==
  ASSUME Types, worker # "none", MasterInv, ChanInv, NEW h \in Hosts
  PROVE  Prev(h) \in Int /\ Prev(h) <= LastSent /\ Prev(h) <= Now
<1>1. tickChan[h] \in Seq(TickType) /\ Chain(tickChan[h], LastSent)
  BY DEF Types, ChannelTypes, ChanInv
<1>2. LastSent \in Int /\ LastSent <= Now /\ Now \in Int
  BY LastIs, Instants
<1>3. Prev(h) \in Int /\ Prev(h) <= LastSent
  BY <1>1, <1>2, BeforeLast DEF Prev
<1>. QED BY <1>2, <1>3

(* A client is started: the master is still at the first instant if it has  *)
(* listeners there.                                                         *)
LEMMA StartClientRun ==
  ASSUME Types, NEW h \in Hosts, h # Master, Start(h),
         FirstRun => Run, FirstRun'
  PROVE  Run'
<1>. USE LockedStepAssumption
<1>1. /\ phase[h] = "ready" /\ phase' = [phase EXCEPT ![h] = "running"]
      /\ simTime' = [simTime EXCEPT ![h] = 0]
      /\ progress' = [progress EXCEPT ![h] = 0]
      /\ task' = [t \in Tasks |-> IF t \in TasksOf(h) THEN "wait" ELSE task[t]]
      /\ barrier' = [t \in Tasks |-> IF t \in TasksOf(h) THEN 0 ELSE barrier[t]]
      /\ shutdown' = [t \in Tasks |-> t \notin TasksOf(h) /\ shutdown[t]]
  BY DEF Start
<1>2. /\ UNCHANGED <<sched, worker, waiting, initial, index, duration, curTime,
                     ticks, mode, marks, tickChan>>
      /\ UNCHANGED <<gen, taskTime, stepTime, count, ackChan>>
  BY DEF Start, master, bus
<1>3. FirstRun /\ Run /\ worker # "none"
  BY <1>2 DEF FirstRun
<1>4. ClockStays /\ Sent' = Sent /\ MasterInv' /\ ChanInv'
  BY <1>2, <1>3, ClockIs, MasterStays, ChansStay DEF Run
<1>5. ASSUME NEW t \in Tasks, InSchedule(t)' PROVE MemberInv(t)'
  <2>1. InSchedule(t) /\ MemberInv(t)
    BY <1>2, <1>3, <1>5 DEF InSchedule, Uuid, Run
  <2>2. CASE Host[t] # h
    <3>1. HostStays(Host[t])
      BY <1>1, <1>2, <2>2 DEF HostStays, Types, ControlTypes, ThreadTypes
    <3>a. shutdown'[t] = shutdown[t]
      BY <1>1, <2>2 DEF TasksOf, Types, FlagTypes
    <3>2. TaskStays(t)
      BY <1>1, <1>2, <2>2, <3>a DEF TaskStays, TasksOf
    <3>3. MarkStays(t)
      BY <1>2 DEF MarkStays, Uuid
    <3>. QED BY <1>2, <1>4, <2>1, <3>1, <3>2, <3>3, MemberStays
  <2>3. CASE Host[t] = h
    <3>1. /\ task[t] = "none" /\ Now = 0 /\ count[t] = 0
      BY <1>1, <2>1, <2>3 DEF Types, PhaseInv, MemberInv, ReadyInv
    <3>2. /\ phase'[h] = "running" /\ simTime'[h] = 0 /\ progress'[h] = 0
          /\ task'[t] = "wait" /\ barrier'[t] = 0 /\ ~ shutdown'[t]
      BY <1>1, <2>3 DEF TasksOf, Types, ControlTypes, ThreadTypes
    <3>3. Now' = 0 /\ Prev(h)' = Prev(h) /\ Prev(h) \in Int /\ Prev(h) <= 0
      BY <1>2, <1>3, <1>4, <3>1, PrevStays, PrevIs DEF ClockStays, Run
    <3>4. /\ Uuid(t)' = Uuid(t) /\ Steps(t)' = Steps(t)
          /\ Acked(t)' <=> Acked(t)
          /\ Once(ackChan[t], gen[Host[t]])' <=> Once(ackChan[t], gen[Host[t]])
      BY <1>2 DEF Uuid, Steps, Acked
    <3>5. ~ Active(t)' /\ ~ Active(t)
      BY <3>1, <3>2 DEF Active
    <3>6. PassedInv(t)'
      BY <3>3 DEF PassedInv
    <3>7. OweInv(t)'
      BY <1>2, <2>1, <2>3, <3>1, <3>2, <3>3, <3>4, <3>5 DEF MemberInv, OweInv
    <3>8. TaskInv(t)'
      BY <2>1, <3>2, <3>4, <3>5 DEF MemberInv, TaskInv
    <3>9. ReadyInv(t)'
      BY <3>2 DEF ReadyInv
    <3>10. ClientInv(t)'
      BY <2>3, <3>2, <3>3 DEF ClientInv, Missed
    <3>11. CountInv(t)'
      BY <1>2, <2>1, <3>1, <3>3, <3>4, <3>5 DEF MemberInv, CountInv
    <3>. QED BY <3>6, <3>7, <3>8, <3>9, <3>10, <3>11 DEF MemberInv
  <2>. QED BY <2>2, <2>3
<1>. QED BY <1>4, <1>5 DEF Run

(* The master is started for the first time: nothing has moved before.      *)
LEMMA StartMasterRun ==
  ASSUME Types, FreshInv, Start(Master), FirstRun', Types'
  PROVE  Run'
<1>. USE LockedStepAssumption
<1>1. /\ phase[Master] = "ready"
      /\ phase' = [phase EXCEPT ![Master] = "running"]
      /\ simTime' = [simTime EXCEPT ![Master] = 0]
      /\ progress' = [progress EXCEPT ![Master] = 0]
      /\ task' = [t \in Tasks |-> IF t \in TasksOf(Master)
                                  THEN "wait" ELSE task[t]]
      /\ barrier' = [t \in Tasks |-> IF t \in TasksOf(Master)
                                     THEN 0 ELSE barrier[t]]
      /\ shutdown' = [t \in Tasks |-> t \notin TasksOf(Master) /\ shutdown[t]]
  BY DEF Start
<1>2. /\ worker' = "loop" /\ waiting' = FALSE /\ initial' = TRUE
      /\ index' = 0 /\ marks' = {} /\ duration' = 0
      /\ curTime' = IF mode = "SYSTEM_TIME" THEN -1 ELSE 0
      /\ UNCHANGED <<mode, ticks>>
  BY DEF Start, StartMaster, NeedToWaitForTrigger
<1>3. UNCHANGED <<gen, taskTime, stepTime, count, tickChan, ackChan>>
  BY DEF Start, bus
<1>4. Fresh /\ Silent /\ \A t \in Tasks : Asleep(t)
  <2>1. gen[Master] \in Nat /\ gen[Master] > 0 /\ gen[Master] <= 1
    BY <1>1, <1>3 DEF Types, ControlTypes, PhaseInv, FirstRun
  <2>. QED BY <1>1, <2>1 DEF FreshInv, Fresh
<1>5. initial' /\ worker' # "none" /\ ~ waiting'
  BY <1>2
<1>6. ~ Sent' /\ LastSent' = -1
  BY <1>5 DEF Sent, LastSent
<1>7. Now' = 0
  <2>1. CycleTime' \in Nat
    <3>1. \A u \in sched' : CycleOf(u) \in Nat \ {0}
      BY DEF Types, ScheduleInv, Given, CycleOf
    <3>2. sched' # {}
      BY <1>5 DEF Types, ScheduleInv
    <3>. QED BY <3>1, <3>2, GcdIs, GcdStays
  <2>2. Now' = CycleTime' * 0
    BY <1>2 DEF Now
  <2>3. \A d \in Nat : d * 0 = 0
    OBVIOUS
  <2>. QED BY ONLY <2>1, <2>2, <2>3
<1>8. MasterInv'
  BY <1>2, <1>4, <1>5 DEF MasterInv, Silent
<1>9. \A h \in Hosts : /\ tickChan'[h] = <<>>
                       /\ simTime'[h] = 0 /\ progress'[h] = 0
  BY <1>1, <1>3, <1>4 DEF Silent, Types, ThreadTypes
<1>10. \A h \in Hosts : Prev(h)' = -1
  BY <1>6, <1>9 DEF Prev, Before
<1>11. ChanInv'
  BY <1>6, <1>9 DEF ChanInv, Chain
<1>12. ASSUME NEW t \in Tasks PROVE MemberInv(t)'
  <2>1. /\ ackChan'[t] = <<>> /\ count'[t] = 0
        /\ task'[t] # "compute" /\ (task'[t] = "woken" => shutdown'[t])
        /\ ~ shutdown'[t] => barrier'[t] = 0
    <3>1. Asleep(t)
      BY <1>4
    <3>2. CASE t \in TasksOf(Master)
      BY <1>1, <1>3, <3>1, <3>2 DEF Asleep
    <3>3. CASE t \notin TasksOf(Master)
      BY <1>1, <1>3, <3>1, <3>3 DEF Asleep
    <3>. QED BY <3>2, <3>3
  <2>2. ~ Active(t)' /\ ~ Acked(t)'
    BY <2>1 DEF Active, Acked, Has
  <2>3. Steps(t)' = 0 /\ Cycle[t] \in Nat \ {0} /\ Host[t] \in Hosts
    BY <2>1 DEF Steps
  <2>4. PassedInv(t)'
    BY <1>7 DEF PassedInv
  <2>5. OweInv(t)'
    BY <2>2 DEF OweInv
  <2>6. TaskInv(t)'
    BY <2>1, <2>2 DEF TaskInv, Once
  <2>7. ReadyInv(t)'
    BY <1>7, <2>1 DEF ReadyInv
  <2>8. ClientInv(t)'
    BY <1>9, <1>10, <2>3 DEF ClientInv, Missed
  <2>9. CountInv(t)'
    BY <1>2, <1>7, <2>2, <2>3 DEF CountInv
  <2>. QED BY <2>4, <2>5, <2>6, <2>7, <2>8, <2>9 DEF MemberInv
<1>. QED BY <1>8, <1>11, <1>12 DEF Run

(* A step that only marks steps and changes threads.                        *)
LEMMA RunFrom ==
  ASSUME Run,
         UNCHANGED <<sched, worker, waiting, initial, index, duration, curTime,
                     ticks, mode, tickChan>>,
         marks \subseteq marks',
         \A t \in Tasks : InSchedule(t)' =>
            \/ MemberInv(t)'
            \/ /\ InSchedule(t) /\ HostStays(Host[t]) /\ TaskStays(t)
               /\ MarkStays(t)
  PROVE  Run'
<1>1. ClockStays /\ Sent' = Sent
  BY ClockIs
<1>2. MasterInv' /\ ChanInv'
  BY <1>1, MasterStays, ChansStay DEF Run
<1>3. ASSUME NEW t \in Tasks, InSchedule(t)' PROVE MemberInv(t)'
  <2>1. CASE InSchedule(t) /\ HostStays(Host[t]) /\ TaskStays(t) /\ MarkStays(t)
    BY <1>1, <2>1, MemberStays DEF Run
  <2>. QED BY <1>3, <2>1
<1>. QED BY <1>2, <1>3 DEF Run

(* The listener owes no more than before.                                   *)
LEMMA OwesLess ==
  ASSUME NEW t \in Tasks, MemberInv(t), ClockStays,
         UNCHANGED <<worker, waiting, initial>>,
         HostStays(Host[t]), MarkStays(t), count'[t] = count[t],
         Active(t)' => Active(t), Acked(t)' => Acked(t),
         TaskInv(t)', ReadyInv(t)'
  PROVE  MemberInv(t)'
<1>1. Prev(Host[t])' = Prev(Host[t]) /\ Now' = Now
  BY PrevStays DEF ClockStays, HostStays
<1>2. Steps(t)' = Steps(t)
  BY DEF Steps
<1>3. PassedInv(t)'
  BY <1>1 DEF MemberInv, PassedInv
<1>4. OweInv(t)'
  BY <1>1 DEF MemberInv, OweInv, HostStays, MarkStays
<1>5. ClientInv(t)'
  BY <1>1 DEF MemberInv, ClientInv, Missed, HostStays, MarkStays
<1>6. CountInv(t)'
  BY <1>1, <1>2 DEF MemberInv, CountInv, HostStays, MarkStays
<1>. QED BY <1>3, <1>4, <1>5, <1>6 DEF MemberInv

(* A task is woken by its barrier.                                          *)
LEMMA WakeRun ==
  ASSUME Types, NEW t \in Tasks, Wake(t), FirstRun => Run, FirstRun'
  PROVE  Run'
<1>1. /\ task[t] = "wait" /\ barrier[t] > 0
      /\ barrier' = [barrier EXCEPT ![t] = @ - 1]
      /\ task' = [task EXCEPT ![t] = "woken"]
      /\ UNCHANGED <<phase, gen, taskTime, stepTime, shutdown, count>>
  BY DEF Wake
<1>2. /\ UNCHANGED <<sched, worker, waiting, initial, index, duration, curTime,
                     ticks, mode, marks, tickChan>>
      /\ UNCHANGED <<simTime, progress, ackChan>>
  BY DEF Wake, master, client, bus
<1>3. FirstRun /\ Run
  BY <1>1, <1>2 DEF FirstRun
<1>4. /\ task'[t] = "woken" /\ barrier'[t] = barrier[t] - 1
      /\ barrier[t] \in Nat
      /\ \A u \in Tasks \ {t} : task'[u] = task[u] /\ barrier'[u] = barrier[u]
  BY <1>1 DEF Types, ThreadTypes
<1>5. \A u \in Tasks : InSchedule(u)' =>
                         InSchedule(u) /\ HostStays(Host[u]) /\ MarkStays(u)
  BY <1>1, <1>2 DEF InSchedule, Uuid, HostStays, MarkStays
<1>6. \A u \in Tasks \ {t} : TaskStays(u)
  BY <1>1, <1>2, <1>4 DEF TaskStays
<1>7. ASSUME InSchedule(t)' PROVE MemberInv(t)'
  <2>1. InSchedule(t) /\ HostStays(Host[t]) /\ MarkStays(t) /\ MemberInv(t)
    BY <1>3, <1>5, <1>7 DEF Run
  <2>2. Acked(t)' <=> Acked(t)
    BY <1>1, <1>2 DEF Acked
  <2>3. Active(t)' => Active(t)
    BY <1>1, <1>4 DEF Active
  <2>4. ClockStays /\ Now' = Now
    BY <1>2, ClockIs DEF ClockStays
  <2>5. ~ shutdown[t] => barrier'[t] = 0
    BY <1>1, <1>4, <2>1 DEF MemberInv, TaskInv
  <2>6. TaskInv(t)'
    BY <1>1, <1>2, <1>4, <2>1, <2>2, <2>3, <2>4, <2>5 DEF MemberInv, TaskInv
  <2>7. ReadyInv(t)'
    BY <1>4 DEF ReadyInv
  <2>. QED BY <1>1, <1>2, <2>1, <2>2, <2>3, <2>4, <2>6, <2>7, OwesLess
<1>. QED BY <1>2, <1>3, <1>5, <1>6, <1>7, RunFrom

(* A woken task takes the time, or ends.                                    *)
LEMMA EnterRun ==
  ASSUME Types, NEW t \in Tasks, Enter(t), FirstRun => Run, FirstRun'
  PROVE  Run'
<1>1. /\ task[t] = "woken"
      /\ \/ /\ shutdown[t] /\ task' = [task EXCEPT ![t] = "ended"]
            /\ UNCHANGED stepTime
         \/ /\ ~ shutdown[t] /\ task' = [task EXCEPT ![t] = "compute"]
            /\ stepTime' = [stepTime EXCEPT ![t] = taskTime[t]]
      /\ UNCHANGED <<phase, gen, barrier, taskTime, shutdown, count>>
  BY DEF Enter
<1>2. /\ UNCHANGED <<sched, worker, waiting, initial, index, duration, curTime,
                     ticks, mode, marks, tickChan>>
      /\ UNCHANGED <<simTime, progress, ackChan>>
  BY DEF Enter, master, client, bus
<1>3. FirstRun /\ Run
  BY <1>1, <1>2 DEF FirstRun
<1>4. /\ \/ shutdown[t] /\ task'[t] = "ended"
         \/ ~ shutdown[t] /\ task'[t] = "compute" /\ stepTime'[t] = taskTime[t]
      /\ \A u \in Tasks \ {t} : task'[u] = task[u] /\ stepTime'[u] = stepTime[u]
  BY <1>1 DEF Types, ThreadTypes
<1>5. \A u \in Tasks : InSchedule(u)' =>
                         InSchedule(u) /\ HostStays(Host[u]) /\ MarkStays(u)
  BY <1>1, <1>2 DEF InSchedule, Uuid, HostStays, MarkStays
<1>6. \A u \in Tasks \ {t} : TaskStays(u)
  BY <1>1, <1>2, <1>4 DEF TaskStays
<1>7. ASSUME InSchedule(t)' PROVE MemberInv(t)'
  <2>1. InSchedule(t) /\ HostStays(Host[t]) /\ MarkStays(t) /\ MemberInv(t)
    BY <1>3, <1>5, <1>7 DEF Run
  <2>2. Acked(t)' <=> Acked(t)
    BY <1>1, <1>2 DEF Acked
  <2>3. (Active(t)' => Active(t)) /\ (Active(t) <=> ~ shutdown[t])
    BY <1>1, <1>4 DEF Active
  <2>4. ClockStays /\ Now' = Now
    BY <1>2, ClockIs DEF ClockStays
  <2>6. TaskInv(t)'
    BY <1>1, <1>2, <1>4, <2>1, <2>2, <2>3, <2>4 DEF MemberInv, TaskInv
  <2>7. ReadyInv(t)'
    BY <1>4 DEF ReadyInv
  <2>. QED BY <1>1, <1>2, <2>1, <2>2, <2>3, <2>4, <2>6, <2>7, OwesLess
<1>. QED BY <1>2, <1>3, <1>5, <1>6, <1>7, RunFrom

(* A task is told to end.                                                   *)
LEMMA DestroyRun ==
  ASSUME Types, NEW t \in Tasks, Destroy(t), FirstRun => Run, FirstRun'
  PROVE  Run'
<1>1. /\ task[t] # "none"
      /\ shutdown' = [shutdown EXCEPT ![t] = TRUE]
      /\ barrier' = [barrier EXCEPT ![t] = @ + 1]
      /\ UNCHANGED <<phase, gen, task, taskTime, stepTime, count>>
  BY DEF Destroy
<1>2. /\ UNCHANGED <<sched, worker, waiting, initial, index, duration, curTime,
                     ticks, mode, marks, tickChan>>
      /\ UNCHANGED <<simTime, progress, ackChan>>
  BY DEF Destroy, master, client, bus
<1>3. FirstRun /\ Run
  BY <1>1, <1>2 DEF FirstRun
<1>4. /\ shutdown'[t]
      /\ \A u \in Tasks \ {t} : /\ shutdown'[u] = shutdown[u]
                                /\ barrier'[u] = barrier[u]
  BY <1>1 DEF Types, ThreadTypes, FlagTypes
<1>5. \A u \in Tasks : InSchedule(u)' =>
                         InSchedule(u) /\ HostStays(Host[u]) /\ MarkStays(u)
  BY <1>1, <1>2 DEF InSchedule, Uuid, HostStays, MarkStays
<1>6. \A u \in Tasks \ {t} : TaskStays(u)
  BY <1>1, <1>2, <1>4 DEF TaskStays
<1>7. ASSUME InSchedule(t)' PROVE MemberInv(t)'
  <2>1. InSchedule(t) /\ HostStays(Host[t]) /\ MarkStays(t) /\ MemberInv(t)
    BY <1>3, <1>5, <1>7 DEF Run
  <2>2. Acked(t)' <=> Acked(t)
    BY <1>1, <1>2 DEF Acked
  <2>3. (Active(t)' => Active(t)) /\ (Active(t)' => task[t] = "compute")
    BY <1>1, <1>4 DEF Active
  <2>4. ClockStays /\ Now' = Now
    BY <1>2, ClockIs DEF ClockStays
  <2>6. TaskInv(t)'
    BY <1>1, <1>2, <1>4, <2>1, <2>2, <2>3, <2>4 DEF MemberInv, TaskInv
  <2>7. ReadyInv(t)'
    BY <1>1 DEF ReadyInv
  <2>. QED BY <1>1, <1>2, <2>1, <2>2, <2>3, <2>4, <2>6, <2>7, OwesLess
<1>. QED BY <1>2, <1>3, <1>5, <1>6, <1>7, RunFrom

(* The bus loses an acknowledgement.                                        *)
LEMMA LoseAckRun ==
  ASSUME Types, NEW t \in Tasks, LoseAck(t), FirstRun => Run, FirstRun'
  PROVE  Run'
<1>. USE LockedStepAssumption
<1>1. /\ ackChan[t] # <<>>
      /\ ackChan' = [ackChan EXCEPT ![t] = Tail(@)]
      /\ UNCHANGED <<phase, gen, tickChan>>
  BY DEF LoseAck
<1>2. /\ UNCHANGED <<sched, worker, waiting, initial, index, duration, curTime,
                     ticks, mode, marks>>
      /\ UNCHANGED <<simTime, progress, task, barrier, taskTime, stepTime,
                     shutdown, count>>
  BY DEF LoseAck, master, client, threads
<1>3. FirstRun /\ Run
  BY <1>1, <1>2 DEF FirstRun
<1>4. /\ ackChan[t] \in Seq(Nat) /\ ackChan'[t] = Tail(ackChan[t])
      /\ gen[Host[t]] \in Nat
      /\ \A u \in Tasks \ {t} : ackChan'[u] = ackChan[u]
  BY <1>1 DEF Types, ChannelTypes, ControlTypes
<1>5. \A u \in Tasks : InSchedule(u)' =>
                         InSchedule(u) /\ HostStays(Host[u]) /\ MarkStays(u)
  BY <1>1, <1>2 DEF InSchedule, Uuid, HostStays, MarkStays
<1>6. \A u \in Tasks \ {t} : TaskStays(u)
  BY <1>1, <1>2, <1>4 DEF TaskStays
<1>7. ASSUME InSchedule(t)' PROVE MemberInv(t)'
  <2>1. InSchedule(t) /\ HostStays(Host[t]) /\ MarkStays(t) /\ MemberInv(t)
    BY <1>3, <1>5, <1>7 DEF Run
  <2>2. (Acked(t)' => Acked(t)) /\ Once(ackChan[t], gen[Host[t]])'
    BY <1>1, <1>4, <2>1, TakeAck DEF Acked, MemberInv, TaskInv
  <2>3. Active(t)' <=> Active(t)
    BY <1>2 DEF Active
  <2>4. ClockStays /\ Now' = Now
    BY <1>2, ClockIs DEF ClockStays
  <2>6. TaskInv(t)'
    BY <1>2, <2>1, <2>2, <2>3, <2>4 DEF MemberInv, TaskInv
  <2>7. ReadyInv(t)'
    BY <1>1, <1>2, <2>1, <2>4 DEF MemberInv, ReadyInv
  <2>. QED BY <1>2, <2>1, <2>2, <2>3, <2>4, <2>6, <2>7, OwesLess
<1>. QED BY <1>1, <1>2, <1>3, <1>5, <1>6, <1>7, RunFrom

(* A task computes its step: the master waits for the acknowledgement.      *)
LEMMA ComputeRun ==
  ASSUME Types, NEW t \in Tasks, Compute(t), FirstRun => Run, FirstRun'
  PROVE  Run'
<1>. USE LockedStepAssumption
<1>1. /\ task[t] = "compute"
      /\ count' = [count EXCEPT ![t] = @ + 1]
      /\ stepTime' = [stepTime EXCEPT ![t] = 0]
      /\ UNCHANGED <<gen, barrier, taskTime, tickChan>>
  BY DEF Compute
<1>2. /\ UNCHANGED <<sched, worker, waiting, initial, index, duration, curTime,
                     ticks, mode, marks>>
      /\ UNCHANGED <<simTime, progress>>
  BY DEF Compute, master, client
<1>3. FirstRun /\ Run /\ worker # "none"
  BY <1>1, <1>2 DEF FirstRun
<1>4. \/ /\ ackChan' = [ackChan EXCEPT ![t] = Append(@, gen[Host[t]])]
         /\ task' = [task EXCEPT ![t] = IF shutdown[t] THEN "ended" ELSE "wait"]
         /\ UNCHANGED <<phase, shutdown>>
      \/ /\ task' = [task EXCEPT ![t] = "ended"]
         /\ shutdown' = [shutdown EXCEPT ![t] = TRUE]
         /\ phase' = [phase EXCEPT ![Host[t]] = "stopping"]
         /\ UNCHANGED ackChan
  BY DEF Compute, Stopping
<1>5. phase[Host[t]] # "idle"
  BY <1>1 DEF Types, PhaseInv
<1>6. \A g \in Hosts : phase'[g] = "idle" <=> phase[g] = "idle"
  BY <1>4, <1>5 DEF Types, ControlTypes
<1>7. /\ count'[t] = count[t] + 1
      /\ \A u \in Tasks \ {t} : /\ count'[u] = count[u]
                                /\ stepTime'[u] = stepTime[u]
  BY <1>1 DEF Types, ThreadTypes
<1>8. \A u \in Tasks \ {t} : /\ task'[u] = task[u] /\ ackChan'[u] = ackChan[u]
                             /\ shutdown'[u] = shutdown[u]
  BY <1>4 DEF Types, ThreadTypes, FlagTypes, ChannelTypes
<1>9. \/ /\ ackChan'[t] = Append(ackChan[t], gen[Host[t]])
         /\ task'[t] = IF shutdown[t] THEN "ended" ELSE "wait"
         /\ shutdown'[t] = shutdown[t]
      \/ task'[t] = "ended" /\ shutdown'[t] /\ ackChan'[t] = ackChan[t]
  BY <1>4 DEF Types, ThreadTypes, FlagTypes, ChannelTypes
<1>10. \A u \in Tasks : InSchedule(u)' =>
                         InSchedule(u) /\ HostStays(Host[u]) /\ MarkStays(u)
  BY <1>1, <1>2, <1>6 DEF InSchedule, Uuid, HostStays, MarkStays
<1>11. \A u \in Tasks \ {t} : TaskStays(u)
  BY <1>1, <1>7, <1>8 DEF TaskStays
<1>12. ASSUME InSchedule(t)' PROVE MemberInv(t)'
  <2>1. InSchedule(t) /\ HostStays(Host[t]) /\ MarkStays(t) /\ MemberInv(t)
    BY <1>3, <1>10, <1>12 DEF Run
  <2>2. ClockStays /\ Now' = Now
    BY <1>2, ClockIs DEF ClockStays
  <2>3. Prev(Host[t])' = Prev(Host[t])
    BY <2>1, <2>2, PrevStays DEF ClockStays, HostStays
  <2>4. Active(t) /\ ~ Acked(t) /\ Once(ackChan[t], gen[Host[t]])
    BY <1>1, <2>1 DEF Active, MemberInv, TaskInv
  <2>5. /\ Cycle[t] \in Nat \ {0} /\ count[t] \in Nat /\ Steps(t) \in Nat
        /\ Now \in Nat
    BY <1>3, <2>1, Numbers, Instants
  <2>6. Steps(t)' = Steps(t) + Cycle[t]
    BY <1>7, <2>5, Factors DEF Steps
  <2>7. ~ shutdown[t] => barrier'[t] = 0
    BY <1>1, <2>1 DEF MemberInv, TaskInv
  <2>8. ~ Active(t)' /\ task'[t] \notin {"none", "compute", "woken"}
    BY <1>9, <2>7 DEF Active
  <2>9. ackChan[t] \in Seq(Nat) /\ gen[Host[t]] \in Nat
    BY DEF Types, ChannelTypes, ControlTypes
  <2>10. Once(ackChan[t], gen[Host[t]])'
    BY <1>1, <1>9, <2>4, <2>9, SendAck DEF Acked
  <2>11. /\ worker = "loop" /\ waiting /\ ~ initial /\ Now % Cycle[t] = 0
         /\ Uuid(t) \notin marks /\ tickChan[Host[t]] = <<>>
         /\ \/ phase[Host[t]] = "idle"
            \/ simTime[Host[t]] = Now /\ progress[Host[t]] = Now
         /\ Steps(t) = Now
    BY <2>1, <2>4 DEF MemberInv, OweInv, CountInv
  <2>12. Uuid(t)' = Uuid(t)
    BY <1>1 DEF Uuid
  <2>13. PassedInv(t)'
    BY <2>1, <2>2, <2>3 DEF MemberInv, PassedInv
  <2>14. OweInv(t)'
    BY <1>1, <1>2, <1>6, <2>2, <2>11, <2>12 DEF OweInv
  <2>15. TaskInv(t)'
    BY <1>9, <2>7, <2>8, <2>10 DEF TaskInv
  <2>16. ReadyInv(t)'
    BY <2>8 DEF ReadyInv
  <2>17. ClientInv(t)'
    BY <1>2, <1>6, <2>1, <2>2, <2>3, <2>12 DEF MemberInv, ClientInv, Missed
  <2>18. CountInv(t)'
    BY <1>1, <1>2, <2>2, <2>5, <2>6, <2>8, <2>11, <2>12 DEF CountInv
  <2>. QED BY <2>13, <2>14, <2>15, <2>16, <2>17, <2>18 DEF MemberInv
<1>. QED BY <1>1, <1>2, <1>3, <1>10, <1>11, <1>12, RunFrom

(* An acknowledgement arrives, from this start of its participant or an     *)
(* earlier one.                                                             *)
LEMMA ReceiveRun ==
  ASSUME Types, NEW t \in Tasks, ReceiveAck(t), FirstRun => Run, FirstRun'
  PROVE  Run'
<1>. USE LockedStepAssumption
<1>. DEFINE v == <<t, Head(ackChan[t])>>
<1>1. /\ ackChan[t] # <<>>
      /\ ackChan' = [ackChan EXCEPT ![t] = Tail(@)]
      /\ marks' = marks \/ marks' = marks \cup {v}
      /\ UNCHANGED <<phase, gen, tickChan>>
  BY DEF ReceiveAck
<1>2. /\ UNCHANGED <<sched, worker, waiting, initial, index, duration, curTime,
                     ticks, mode>>
      /\ UNCHANGED <<simTime, progress, task, barrier, taskTime, stepTime,
                     shutdown, count>>
  BY DEF ReceiveAck, client, threads
<1>3. FirstRun /\ Run /\ worker # "none"
  BY <1>1, <1>2 DEF FirstRun
<1>4. /\ ackChan[t] \in Seq(Nat) /\ ackChan'[t] = Tail(ackChan[t])
      /\ gen[Host[t]] \in Nat
      /\ \A u \in Tasks \ {t} : ackChan'[u] = ackChan[u]
  BY <1>1 DEF Types, ChannelTypes, ControlTypes
<1>5. \A u \in Tasks : InSchedule(u)' => InSchedule(u) /\ HostStays(Host[u])
  BY <1>1, <1>2 DEF InSchedule, Uuid, HostStays
<1>6. \A u \in Tasks \ {t} : TaskStays(u)
  BY <1>2, <1>4 DEF TaskStays
<1>7. \A u \in Tasks : Uuid(u)' = Uuid(u) /\ (Uuid(u) # v => MarkStays(u))
  BY <1>1 DEF MarkStays, Uuid
<1>8. \A u \in Tasks \ {t} : Uuid(u) # v
  BY DEF Uuid
<1>9. ASSUME InSchedule(t)' PROVE MemberInv(t)'
  <2>1. InSchedule(t) /\ HostStays(Host[t]) /\ MemberInv(t)
    BY <1>3, <1>5, <1>9 DEF Run
  <2>2. ClockStays /\ Now' = Now
    BY <1>2, ClockIs DEF ClockStays
  <2>3. /\ Acked(t)' => Acked(t)
        /\ Once(ackChan[t], gen[Host[t]])'
        /\ Head(ackChan[t]) = gen[Host[t]] => Acked(t) /\ ~ Acked(t)'
    BY <1>1, <1>4, <2>1, TakeAck DEF Acked, MemberInv, TaskInv
  <2>4. Active(t)' <=> Active(t)
    BY <1>2 DEF Active
  <2>5. TaskInv(t)'
    BY <1>2, <2>1, <2>2, <2>3, <2>4 DEF MemberInv, TaskInv
  <2>6. ReadyInv(t)'
    BY <1>1, <1>2, <2>1, <2>2 DEF MemberInv, ReadyInv
  <2>7. CASE Head(ackChan[t]) # gen[Host[t]]
    <3>1. MarkStays(t)
      BY <1>7, <2>7 DEF Uuid
    <3>. QED BY <1>2, <2>1, <2>2, <2>3, <2>4, <2>5, <2>6, <3>1, OwesLess
  <2>8. CASE Head(ackChan[t]) = gen[Host[t]]
    <3>1. Acked(t) /\ ~ Acked(t)' /\ ~ Active(t)' /\ ~ Active(t)
      BY <2>1, <2>3, <2>4, <2>8 DEF MemberInv, TaskInv
    <3>2. /\ \/ phase[Host[t]] = "idle"
             \/ simTime[Host[t]] = Now /\ progress[Host[t]] = Now
          /\ Steps(t) = Now + Cycle[t]
      BY <2>1, <3>1 DEF MemberInv, OweInv, CountInv
    <3>3. Prev(Host[t])' = Prev(Host[t]) /\ Steps(t)' = Steps(t)
      BY <1>2, <2>1, <2>2, PrevStays DEF ClockStays, HostStays, Steps
    <3>4. PassedInv(t)'
      BY <2>1, <2>2, <3>3 DEF MemberInv, PassedInv
    <3>5. OweInv(t)'
      BY <3>1 DEF OweInv
    <3>6. ClientInv(t)'
      <4>1. Cycle[t] # 0
        OBVIOUS
      <4>2. Missed(Host[t])' <=> Missed(Host[t])
        BY <1>2, <3>3 DEF Missed
      <4>3. phase[Host[t]] # "idle" /\ Missed(Host[t]) => Now = 0
        BY <3>2 DEF Missed
      <4>. QED BY <1>1, <1>2, <2>1, <2>2, <3>3, <4>1, <4>2, <4>3
               DEF MemberInv, ClientInv
    <3>7. CountInv(t)'
      BY <1>1, <1>2, <2>1, <2>2, <3>1, <3>2, <3>3 DEF MemberInv, CountInv
    <3>. QED BY <2>5, <2>6, <3>4, <3>5, <3>6, <3>7 DEF MemberInv
  <2>. QED BY <2>7, <2>8
<1>. QED BY <1>1, <1>2, <1>3, <1>5, <1>6, <1>7, <1>8, <1>9, RunFrom

(* With a tick under way to its participant a listener owes nothing.        *)
LEMMA OwesNothing ==
  ASSUME NEW t \in Tasks, MemberInv(t), tickChan[Host[t]] # <<>>
  PROVE  /\ ~ Active(t) /\ ~ Acked(t) /\ Uuid(t) \notin marks
         /\ Steps(t) # Now + Cycle[t]
BY DEF MemberInv, OweInv, CountInv

(* A tick is lost, or the client finds that it has missed some.             *)
LEMMA DropTick ==
  ASSUME Types, worker # "none", MasterInv, ChanInv,
         NEW t \in Tasks, InSchedule(t), MemberInv(t), ClockStays,
         UNCHANGED <<worker, waiting, initial>>,
         tickChan[Host[t]] # <<>>,
         tickChan'[Host[t]] = Tail(tickChan[Host[t]]),
         gen'[Host[t]] = gen[Host[t]], simTime'[Host[t]] = simTime[Host[t]],
         progress'[Host[t]] = progress[Host[t]],
         phase[Host[t]] # "idle", TaskStays(t), MarkStays(t)
  PROVE  MemberInv(t)'
<1>. DEFINE h == Host[t]
<1>1. /\ ~ Active(t) /\ ~ Acked(t) /\ Uuid(t) \notin marks
      /\ Steps(t) # Now + Cycle[t]
  BY OwesNothing
<1>2. Host[t] \in Hosts /\ Cycle[t] \in Nat \ {0} /\ Now \in Nat
  BY Numbers, Instants
<1>3. Prev(h) \in Int /\ Prev(h)' \in Int /\ Prev(h) < Prev(h)'
  <2>1. tickChan[h] \in Seq(TickType) /\ Chain(tickChan[h], LastSent)
    BY <1>2 DEF Types, ChannelTypes, ChanInv
  <2>2. LastSent \in Int /\ LastSent' = LastSent
    BY LastIs DEF ClockStays
  <2>3. Prev(h)' = Before(Tail(tickChan[h]), LastSent)
    BY <2>2 DEF Prev
  <2>4. Prev(h) < Head(tickChan[h]).time /\ Prev(h)' = Head(tickChan[h]).time
    BY <2>1, <2>2, <2>3, TakeTick DEF Prev
  <2>5. Head(tickChan[h]).time \in Int
    BY <2>1, <2>2, TakeTick DEF TickType
  <2>. QED BY <1>2, <2>4, <2>5, PrevIs
<1>4. /\ Uuid(t)' = Uuid(t) /\ Steps(t)' = Steps(t)
      /\ Active(t)' <=> Active(t)
      /\ Acked(t)' <=> Acked(t)
      /\ Once(ackChan[t], gen[Host[t]])' <=> Once(ackChan[t], gen[Host[t]])
  BY AtomsStay
<1>5. Now' = Now
  BY DEF ClockStays
<1>6. PassedInv(t)'
  BY <1>3, <1>5 DEF MemberInv, PassedInv
<1>7. OweInv(t)'
  BY <1>1, <1>4 DEF OweInv
<1>8. TaskInv(t)'
  BY <1>4, <1>5 DEF MemberInv, TaskInv, TaskStays
<1>9. ReadyInv(t)'
  BY <1>5 DEF MemberInv, ReadyInv, TaskStays
<1>10. ClientInv(t)'
  <2>1. simTime[h] \in Int /\ progress[h] \in Nat
    BY <1>2 DEF Types, ThreadTypes
  <2>2. progress[h] <= simTime[h] /\ (simTime[h] > 0 => simTime[h] <= Prev(h)')
    BY <1>2, <1>3, <2>1 DEF MemberInv, ClientInv
  <2>3. Missed(h)' => Now <= Cycle[t]
    <3>1. CASE Missed(h)
      BY <3>1 DEF MemberInv, ClientInv
    <3>2. CASE ~ Missed(h) /\ simTime[h] = 0
      <4>1. ~ (Cycle[t] <= Prev(h))
        BY <1>2, <1>3, <3>2 DEF Missed
      <4>2. Cycle[t] % Cycle[t] = 0 /\ Cycle[t] \in Nat
        BY <1>2
      <4>3. ~ (Cycle[t] < Now)
        BY <4>1, <4>2 DEF MemberInv, PassedInv
      <4>. QED BY <1>2, <4>3
    <3>3. CASE ~ Missed(h) /\ simTime[h] # 0
      BY <3>3 DEF Missed
    <3>. QED BY <3>1, <3>2, <3>3
  <2>. QED BY <1>1, <1>4, <1>5, <2>2, <2>3 DEF ClientInv, MarkStays
<1>11. CountInv(t)'
  BY <1>1, <1>4, <1>5 DEF MemberInv, CountInv, MarkStays
<1>. QED BY <1>6, <1>7, <1>8, <1>9, <1>10, <1>11 DEF MemberInv

(* The ticks to one participant change.                                     *)
LEMMA ChansChange ==
  ASSUME Types, worker # "none", MasterInv, ChanInv, ClockStays, Sent' = Sent,
         NEW h \in Hosts, NEW s,
         s = <<>> \/ (tickChan[h] # <<>> /\ s = Tail(tickChan[h])),
         tickChan' = [tickChan EXCEPT ![h] = s]
  PROVE  ChanInv'
<1>1. \A g \in Hosts : /\ tickChan[g] \in Seq(TickType)
                       /\ Chain(tickChan[g], LastSent)
  BY DEF Types, ChannelTypes, ChanInv
<1>2. LastSent \in Int /\ LastSent' = LastSent
  BY LastIs DEF ClockStays
<1>3. Chain(s, LastSent) /\ (s # <<>> => tickChan[h] # <<>>)
  <2>1. CASE s = <<>>
    BY ONLY <1>2, <2>1, NoTick
  <2>2. CASE tickChan[h] # <<>> /\ s = Tail(tickChan[h])
    <3>1. Chain(Tail(tickChan[h]), LastSent)
      BY ONLY <1>1, <1>2, <2>2, h \in Hosts, TakeTick
    <3>. QED BY <2>2, <3>1
  <2>. QED BY <2>1, <2>2
<1>4. \A g \in Hosts : tickChan'[g] = IF g = h THEN s ELSE tickChan[g]
  BY DEF Types, ChannelTypes
<1>. QED BY <1>1, <1>2, <1>3, <1>4 DEF ChanInv

(* The bus loses a tick.                                                    *)
LEMMA LoseTickRun ==
  ASSUME Types, NEW h \in Hosts, LoseTick(h), FirstRun => Run, FirstRun'
  PROVE  Run'
<1>1. /\ tickChan[h] # <<>>
      /\ tickChan' = [tickChan EXCEPT ![h] = Tail(@)]
      /\ UNCHANGED <<phase, gen, ackChan>>
  BY DEF LoseTick
<1>2. /\ UNCHANGED <<sched, worker, waiting, initial, index, duration, curTime,
                     ticks, mode, marks>>
      /\ UNCHANGED <<simTime, progress, task, barrier, taskTime, stepTime,
                     shutdown, count>>
  BY DEF LoseTick, master, client, threads
<1>3. FirstRun /\ Run /\ worker # "none"
  BY <1>1, <1>2 DEF FirstRun
<1>4. ClockStays /\ Sent' = Sent
  BY <1>2, ClockIs
<1>5. MasterInv'
  BY <1>2, <1>3, <1>4, MasterStays DEF Run
<1>6. ChanInv'
  BY <1>1, <1>3, <1>4, ChansChange DEF Run
<1>7. phase[h] # "idle"
  BY <1>1 DEF Types, PhaseInv
<1>8. \A g \in Hosts :
        tickChan'[g] = IF g = h THEN Tail(tickChan[h]) ELSE tickChan[g]
  BY <1>1 DEF Types, ChannelTypes
<1>9. ASSUME NEW t \in Tasks, InSchedule(t)' PROVE MemberInv(t)'
  <2>1. InSchedule(t) /\ MemberInv(t) /\ Host[t] \in Hosts
    BY <1>1, <1>2, <1>3, <1>9, LockedStepAssumption DEF InSchedule, Uuid, Run
  <2>2. TaskStays(t) /\ MarkStays(t)
    BY <1>1, <1>2 DEF TaskStays, MarkStays, Uuid
  <2>3. CASE Host[t] = h
    BY <1>1, <1>2, <1>3, <1>4, <1>7, <1>8, <2>1, <2>2, <2>3, DropTick DEF Run
  <2>4. CASE Host[t] # h
    <3>1. HostStays(Host[t])
      BY <1>1, <1>2, <1>8, <2>1, <2>4 DEF HostStays
    <3>. QED BY <1>2, <1>4, <2>1, <2>2, <3>1, MemberStays
  <2>. QED BY <2>3, <2>4
<1>. QED BY <1>5, <1>6, <1>9 DEF Run

(* A participant has stopped: what it still owes was acknowledged before.   *)
LEMMA StopRun ==
  ASSUME Types, NEW h \in Hosts, StopDone(h), FirstRun => Run, FirstRun'
  PROVE  Run'
<1>. USE LockedStepAssumption
<1>1. /\ \A t \in TasksOf(h) : task[t] \in {"none", "ended"}
      /\ phase' = [phase EXCEPT ![h] = "idle"]
      /\ task' = [t \in Tasks |-> IF t \in TasksOf(h) THEN "none" ELSE task[t]]
      /\ simTime' = [simTime EXCEPT ![h] = 0]
      /\ progress' = [progress EXCEPT ![h] = 0]
      /\ shutdown' = [t \in Tasks |-> t \notin TasksOf(h) /\ shutdown[t]]
      /\ tickChan' = [tickChan EXCEPT ![h] = <<>>]
  BY DEF StopDone
<1>2. \A t \in Tasks : Host[t] # h => barrier'[t] = barrier[t]
                                      /\ taskTime'[t] = taskTime[t]
  BY DEF StopDone, TasksOf
<1>3. UNCHANGED <<gen, sched, worker, waiting, initial, index, duration,
                curTime,
                  ticks, mode, marks, stepTime, count, ackChan>>
  BY DEF StopDone, master
<1>4. FirstRun /\ Run /\ worker # "none"
  BY <1>3 DEF FirstRun
<1>5. ClockStays /\ Sent' = Sent
  BY <1>3, ClockIs
<1>6. MasterInv'
  BY <1>3, <1>4, <1>5, MasterStays DEF Run
<1>7. ChanInv'
  BY <1>1, <1>4, <1>5, ChansChange DEF Run
<1>8. \A g \in Hosts \ {h} : tickChan'[g] = tickChan[g] /\ phase'[g] = phase[g]
                             /\ simTime'[g] = simTime[g]
                             /\ progress'[g] = progress[g]
  BY <1>1 DEF Types, ChannelTypes, ControlTypes, ThreadTypes
<1>9. tickChan'[h] = <<>> /\ phase'[h] = "idle"
  BY <1>1 DEF Types, ChannelTypes, ControlTypes
<1>10. ASSUME NEW t \in Tasks, InSchedule(t)' PROVE MemberInv(t)'
  <2>1. InSchedule(t) /\ MemberInv(t) /\ Host[t] \in Hosts
    BY <1>3, <1>4, <1>10 DEF InSchedule, Uuid, Run
  <2>2. MarkStays(t)
    BY <1>3 DEF MarkStays, Uuid
  <2>3. CASE Host[t] # h
    <3>1. HostStays(Host[t])
      BY <1>3, <1>8, <2>1, <2>3 DEF HostStays
    <3>2. task'[t] = task[t] /\ shutdown'[t] = shutdown[t]
      BY <1>1, <2>3 DEF TasksOf, Types, FlagTypes
    <3>3. TaskStays(t)
      BY <1>2, <1>3, <2>3, <3>2 DEF TaskStays
    <3>. QED BY <1>3, <1>5, <2>1, <2>2, <3>1, <3>3, MemberStays
  <2>4. CASE Host[t] = h
    <3>1. task'[t] = "none"
      BY <1>1, <2>4 DEF TasksOf
    <3>2. ~ Active(t)'
      BY <3>1 DEF Active
    <3>3. /\ Uuid(t)' = Uuid(t) /\ Steps(t)' = Steps(t) /\ Now' = Now
          /\ Acked(t)' <=> Acked(t)
          /\ Once(ackChan[t], gen[Host[t]])' <=> Once(ackChan[t], gen[Host[t]])
      BY <1>3, <1>5 DEF Uuid, Steps, Acked, ClockStays
    <3>4. Prev(h)' = LastSent /\ LastSent \in Int
      BY <1>4, <1>5, <1>9, LastIs DEF Prev, Before, ClockStays, Run
    <3>5. Prev(h) \in Int /\ Prev(h) <= LastSent
      BY <1>4, PrevIs DEF Run
    <3>6. PassedInv(t)'
      BY <2>1, <2>4, <3>3, <3>4, <3>5 DEF MemberInv, PassedInv
    <3>7. OweInv(t)'
      BY <1>3, <1>9, <2>1, <2>4, <3>2, <3>3 DEF MemberInv, OweInv
    <3>8. TaskInv(t)'
      BY <2>1, <3>1, <3>2, <3>3 DEF MemberInv, TaskInv
    <3>9. ReadyInv(t)' /\ ClientInv(t)'
      BY <1>9, <2>4 DEF ReadyInv, ClientInv
    <3>10. CountInv(t)'
      BY <1>3, <1>9, <2>1, <2>4, <3>2, <3>3 DEF MemberInv, CountInv
    <3>. QED BY <3>6, <3>7, <3>8, <3>9, <3>10 DEF MemberInv
  <2>. QED BY <2>3, <2>4
<1>. QED BY <1>6, <1>7, <1>10 DEF Run

(* A client receives a tick.  It wakes a listener only if the tick is the   *)
(* one of the instant of the master.                                        *)
LEMMA TakenTick ==
  ASSUME Types, worker # "none", MasterInv, ChanInv,
         NEW t \in Tasks, InSchedule(t), MemberInv(t), ClockStays,
         UNCHANGED <<worker, waiting, initial>>,
         NEW h \in Hosts, Host[t] = h, NEW tick, NEW sum,
         tickChan[h] # <<>>, tick = Head(tickChan[h]),
         sum = progress[h] + tick.step,
         simTime[h] > 0 => simTime[h] + tick.step = tick.time,
         phase[h] # "idle",
         tickChan'[h] = Tail(tickChan[h]), gen'[h] = gen[h],
         simTime'[h] = tick.time, progress'[h] = sum,
         taskTime'[t] = tick.time,
         barrier'[t] = IF sum % Cycle[t] = 0
                       THEN barrier[t] + 1 ELSE barrier[t],
         shutdown'[t] \in BOOLEAN,
         task[t] # "compute" => shutdown'[t] = shutdown[t],
         task'[t] = task[t], stepTime'[t] = stepTime[t], count'[t] = count[t],
         ackChan'[t] = ackChan[t], MarkStays(t)
  PROVE  MemberInv(t)'
<1>. DEFINE c == Cycle[t]
<1>1. /\ ~ Active(t) /\ ~ Acked(t) /\ Uuid(t) \notin marks
      /\ Steps(t) # Now + c
  BY OwesNothing
<1>2. /\ c \in Nat \ {0} /\ Now \in Nat /\ Steps(t) \in Nat /\ count[t] \in Nat
      /\ Now % c = 0 => Uuid(t) \in DueSteps(sched, Now) \ {Dummy}
  BY Numbers, Instants
<1>3. /\ LastSent \in Int /\ LastSent <= Now /\ LastSent' = LastSent
      /\ initial \/ worker = "send" => LastSent < Now
      /\ Now' = Now
  BY LastIs DEF ClockStays
<1>4. /\ Before(Tail(tickChan[h]), LastSent) = tick.time
      /\ Prev(h) < tick.time /\ tick.time <= LastSent
      /\ Prev(h) = IF tick.time = 0 THEN -1 ELSE tick.time - tick.step
      /\ tick.step <= tick.time /\ (tick.time = 0 \/ tick.step > 0)
      /\ tick.time = LastSent => Tail(tickChan[h]) = <<>>
      /\ tick \in TickType
  <2>1. tickChan[h] \in Seq(TickType) /\ Chain(tickChan[h], LastSent)
    BY DEF Types, ChannelTypes, ChanInv
  <2>. QED BY <1>3, <2>1, TakeTick DEF Prev
<1>5. tick.time \in Nat /\ tick.step \in Nat
  <2>1. tick.time \in Int /\ tick.step \in Nat
    BY <1>4 DEF TickType
  <2>. QED BY <1>4, <2>1
<1>6. Prev(h)' = tick.time
  BY <1>3, <1>4 DEF Prev
<1>7. /\ simTime[h] \in Int /\ progress[h] \in Nat /\ progress[h] <= simTime[h]
      /\ simTime[h] > 0 => simTime[h] <= Prev(h)
      /\ Missed(h) => Now <= c
  BY DEF Types, ThreadTypes, MemberInv, ClientInv
<1>8. sum \in Nat /\ sum <= tick.time
  BY <1>5, <1>7, <1>4
<1>9. ~ Missed(h) => sum = tick.time
  BY <1>4, <1>5, <1>7 DEF Missed
<1>10. ASSUME sum % c = 0
       PROVE  tick.time = Now /\ sum = Now
  <2>1. CASE Missed(h)
    <3>1. sum # 0
      BY <1>4, <1>5, <1>7, <2>1 DEF Missed
    <3>2. c <= sum
      <4>1. PICK q \in Nat : sum = c * q
        BY <1>2, <1>8, <1>10, Quotient
      <4>2. 0 < q /\ 0 \in Nat /\ q \in Nat /\ c \in Nat \ {0}
        BY <1>2, <3>1, <4>1
      <4>3. c * 0 + c <= c * q
        BY ONLY <4>2, Factors
      <4>. QED BY ONLY <4>1, <4>2, <4>3
    <3>. QED BY <1>2, <1>3, <1>4, <1>5, <1>7, <1>8, <2>1, <3>2
  <2>2. CASE ~ Missed(h)
    <3>1. sum = tick.time /\ tick.time % c = 0
      BY <1>9, <1>10, <2>2
    <3>2. ~ (tick.time < Now)
      BY <1>4, <1>5, <3>1, PrevIs DEF MemberInv, PassedInv
    <3>. QED BY <1>2, <1>3, <1>4, <1>5, <3>1, <3>2
  <2>. QED BY <2>1, <2>2
<1>11. ASSUME sum % c = 0
       PROVE  /\ worker = "loop" /\ waiting /\ ~ initial /\ Now % c = 0
              /\ Tail(tickChan[h]) = <<>> /\ Steps(t) = Now
  <2>1. tick.time = Now /\ sum = Now /\ Now % c = 0
    BY <1>10, <1>11
  <2>2. LastSent = Now /\ Tail(tickChan[h]) = <<>>
    BY <1>2, <1>3, <1>4, <2>1
  <2>3. ~ initial /\ worker # "send"
    BY <1>2, <1>3, <2>2
  <2>4. Uuid(t) \in DueSteps(sched, Now) \ {Dummy}
    BY <1>2, <2>1
  <2>5. worker # "tick"
    BY <1>1, <2>4 DEF MasterInv
  <2>6. worker = "loop"
    BY <2>3, <2>5 DEF Types, ControlTypes
  <2>7. waiting
    BY <2>3, <2>4, <2>6 DEF MasterInv
  <2>8. Steps(t) = Now
    <3>1. Steps(t) - c <= Now /\ Now <= Steps(t) /\ Steps(t) = count[t] * c
      BY DEF MemberInv, CountInv, Steps
    <3>a. /\ count[t] * c - c <= Now /\ Now <= count[t] * c /\ Now % c = 0
          /\ c \in Nat \ {0} /\ count[t] \in Nat /\ Now \in Nat
      BY <1>2, <2>1, <3>1
    <3>b. Now = count[t] * c \/ Now = count[t] * c - c
      BY ONLY <3>a, AtTheEnds
    <3>2. Now = Steps(t) \/ Now = Steps(t) - c
      BY <3>1, <3>b
    <3>. QED BY <1>1, <1>2, <3>2
  <2>. QED BY <2>1, <2>2, <2>3, <2>6, <2>7, <2>8
<1>12. /\ Uuid(t)' = Uuid(t) /\ Steps(t)' = Steps(t)
       /\ Acked(t)' <=> Acked(t)
       /\ Once(ackChan[t], gen[Host[t]])' <=> Once(ackChan[t], gen[Host[t]])
  BY DEF Uuid, Steps, Acked
<1>13. /\ task[t] # "compute" /\ shutdown'[t] = shutdown[t]
       /\ ~ shutdown[t] => task[t] # "woken"
       /\ ~ shutdown[t] /\ task[t] = "wait" => barrier[t] = 0
  <2>1. barrier[t] \in Nat
    BY DEF Types, ThreadTypes
  <2>2. task[t] # "compute"
    BY <1>1 DEF Active
  <2>. QED BY <1>1, <2>1, <2>2 DEF Active
<1>14. Active(t)' => sum % c = 0
  BY <1>13 DEF Active
<1>15. PassedInv(t)'
  <2>1. Prev(h) \in Int
    BY PrevIs
  <2>. QED BY <1>3, <1>4, <1>5, <1>6, <2>1 DEF MemberInv, PassedInv
<1>16. OweInv(t)'
  BY <1>1, <1>3, <1>10, <1>11, <1>12, <1>14 DEF OweInv, MarkStays
<1>17. TaskInv(t)'
  BY <1>1, <1>3, <1>10, <1>12, <1>13, <1>14 DEF MemberInv, TaskInv
<1>18. ReadyInv(t)'
  BY <1>3 DEF MemberInv, ReadyInv
<1>19. ClientInv(t)'
  BY <1>1, <1>3, <1>5, <1>6, <1>7, <1>8, <1>9, <1>12
     DEF ClientInv, Missed, MarkStays
<1>20. CountInv(t)'
  BY <1>1, <1>3, <1>11, <1>12, <1>14 DEF MemberInv, CountInv, MarkStays
<1>. QED BY <1>15, <1>16, <1>17, <1>18, <1>19, <1>20 DEF MemberInv

(* A client receives a tick: its time goes on, or it has missed one.        *)
LEMMA TriggerRun ==
  ASSUME Types, NEW h \in Hosts, Trigger(h), FirstRun => Run, FirstRun'
  PROVE  Run'
<1>. USE LockedStepAssumption
<1>. DEFINE tick == Head(tickChan[h])
            sum  == progress[h] + tick.step
            late == {t \in Woken(h, sum) : task[t] = "compute"} \cap StepFails
<1>1. /\ tickChan[h] # <<>>
      /\ tickChan' = [tickChan EXCEPT ![h] = Tail(@)]
      /\ phase' = phase \/ phase' = [phase EXCEPT ![h] = "stopping"]
      /\ UNCHANGED <<gen, task, stepTime, count, ackChan>>
  BY DEF Trigger, Stopping
<1>2. UNCHANGED <<sched, worker, waiting, initial, index, duration, curTime,
                  ticks, mode, marks>>
  BY DEF Trigger, master
<1>3. \/ UNCHANGED <<simTime, progress, taskTime, barrier, shutdown>>
      \/ /\ ~ (/\ simTime[h] > 0 /\ TasksOf(h) # {}
               /\ simTime[h] + tick.step # tick.time)
         /\ simTime' = [simTime EXCEPT ![h] = tick.time]
         /\ progress' = [progress EXCEPT ![h] = sum]
         /\ taskTime' = [t \in Tasks |-> IF t \in TasksOf(h)
                                         THEN tick.time ELSE taskTime[t]]
         /\ barrier' = [t \in Tasks |-> IF t \in Woken(h, sum)
                                        THEN barrier[t] + 1 ELSE barrier[t]]
         /\ shutdown' = [t \in Tasks |-> shutdown[t] \/ t \in late]
  BY DEF Trigger
<1>. HIDE DEF tick, sum, late
<1>4. FirstRun /\ Run /\ worker # "none"
  BY <1>1, <1>2 DEF FirstRun
<1>5. ClockStays /\ Sent' = Sent
  BY <1>2, ClockIs
<1>6. MasterInv'
  BY <1>2, <1>4, <1>5, MasterStays DEF Run
<1>7. ChanInv'
  BY <1>1, <1>4, <1>5, ChansChange DEF Run
<1>8. phase[h] # "idle"
  BY <1>1 DEF Types, PhaseInv
<1>9. /\ \A g \in Hosts : tickChan'[g] = IF g = h THEN Tail(tickChan[h])
                                         ELSE tickChan[g]
      /\ \A g \in Hosts : phase'[g] = "idle" <=> phase[g] = "idle"
  BY <1>1, <1>8 DEF Types, ChannelTypes, ControlTypes
<1>10. \A g \in Hosts \ {h} : /\ simTime'[g] = simTime[g]
                              /\ progress'[g] = progress[g]
  BY <1>3 DEF Types, ThreadTypes
<1>11. \A t \in Tasks :
         Host[t] # h => t \notin TasksOf(h) /\ t \notin Woken(h, sum)
                                       /\ t \notin late
  BY DEF TasksOf, Woken, late
<1>12. \A t \in Tasks : Host[t] # h => TaskStays(t)
  <2>1. SUFFICES ASSUME NEW t \in Tasks, Host[t] # h PROVE TaskStays(t)
    OBVIOUS
  <2>2. t \notin TasksOf(h) /\ t \notin Woken(h, sum) /\ t \notin late
    BY <1>11, <2>1
  <2>3. barrier'[t] = barrier[t] /\ taskTime'[t] = taskTime[t]
    BY <1>3, <2>2
  <2>4. shutdown'[t] = shutdown[t]
    BY <1>3, <2>2 DEF Types, FlagTypes
  <2>. QED BY <1>1, <2>3, <2>4 DEF TaskStays
<1>13. ASSUME NEW t \in Tasks, InSchedule(t)' PROVE MemberInv(t)'
  <2>1. InSchedule(t) /\ MemberInv(t) /\ Host[t] \in Hosts
    BY <1>1, <1>2, <1>4, <1>13 DEF InSchedule, Uuid, Run
  <2>2. MarkStays(t)
    BY <1>1, <1>2 DEF MarkStays, Uuid
  <2>3. CASE Host[t] # h
    <3>1. HostStays(Host[t])
      BY <1>1, <1>9, <1>10, <2>1, <2>3 DEF HostStays
    <3>. QED BY <1>2, <1>5, <1>12, <2>1, <2>2, <2>3, <3>1, MemberStays
  <2>4. CASE Host[t] = h
             /\ UNCHANGED <<simTime, progress, taskTime, barrier, shutdown>>
    <3>1. TaskStays(t)
      BY <1>1, <2>4 DEF TaskStays
    <3>. QED BY <1>1, <1>2, <1>4, <1>5, <1>8, <1>9, <2>1, <2>2, <2>4, <3>1,
                DropTick
             DEF Run
  <2>5. CASE Host[t] = h
             /\ ~ UNCHANGED <<simTime, progress, taskTime, barrier, shutdown>>
    <3>1. t \in TasksOf(h) /\ (t \in Woken(h, sum) <=> sum % Cycle[t] = 0)
      BY <2>5 DEF TasksOf, Woken
    <3>2. /\ simTime[h] > 0 => simTime[h] + tick.step = tick.time
          /\ taskTime'[t] = tick.time
          /\ barrier'[t] = IF sum % Cycle[t] = 0
                           THEN barrier[t] + 1 ELSE barrier[t]
      BY <1>3, <2>5, <3>1
    <3>3. simTime'[h] = tick.time /\ progress'[h] = sum
      BY <1>3, <2>5 DEF Types, ThreadTypes
    <3>4. /\ shutdown'[t] \in BOOLEAN
          /\ task[t] # "compute" => shutdown'[t] = shutdown[t]
      <4>1. shutdown'[t] = (shutdown[t] \/ t \in late)
        BY <1>3, <2>5
      <4>2. t \in late => task[t] = "compute"
        BY DEF late
      <4>3. shutdown[t] \in BOOLEAN
        BY DEF Types, FlagTypes
      <4>. QED BY <4>1, <4>2, <4>3
    <3>5. tick = Head(tickChan[h]) /\ sum = progress[h] + tick.step
      BY DEF tick, sum
    <3>6. tickChan'[h] = Tail(tickChan[h])
      BY <1>9
    <3>7. Types /\ worker # "none" /\ MasterInv /\ ChanInv
      BY <1>4 DEF Run
    <3>8. /\ InSchedule(t) /\ MemberInv(t) /\ ClockStays /\ MarkStays(t)
          /\ Host[t] = h /\ phase[h] # "idle" /\ tickChan[h] # <<>>
      BY <1>1, <1>5, <1>8, <2>1, <2>2, <2>5
    <3>9. UNCHANGED <<worker, waiting, initial>>
      BY <1>2
    <3>10. /\ gen'[h] = gen[h] /\ task'[t] = task[t]
           /\ stepTime'[t] = stepTime[t]
           /\ count'[t] = count[t] /\ ackChan'[t] = ackChan[t]
      BY <1>1
    <3>. HIDE DEF Types
    <3>. QED BY ONLY t \in Tasks, h \in Hosts, <3>2, <3>3, <3>4, <3>5, <3>6,
                <3>7,
                     <3>8, <3>9, <3>10, TakenTick
  <2>. QED BY <2>3, <2>4, <2>5
<1>. QED BY <1>6, <1>7, <1>13 DEF Run

(* All acknowledgements of the instant have come.                           *)
LEMMA CompleteRun ==
  ASSUME Types, WorkerComplete, FirstRun => Run, FirstRun'
  PROVE  Run'
<1>1. /\ worker = "loop" /\ waiting
      /\ \/ worker' = "loop"
         \/ worker' = "tick" /\ IsCurrentScheduleComplete
      /\ UNCHANGED <<sched, waiting, initial, index, duration, curTime,
                     ticks, mode, marks, tickChan>>
  BY DEF WorkerComplete, bus
<1>2. UNCHANGED <<phase, gen, simTime, progress, task, barrier, taskTime,
                  stepTime, shutdown, count, ackChan>>
  BY DEF WorkerComplete, client, threads, bus
<1>3. FirstRun /\ Run /\ worker # "none"
  BY <1>1, <1>2 DEF FirstRun
<1>4. \A t \in Tasks : InSchedule(t)' =>
        InSchedule(t) /\ HostStays(Host[t]) /\ TaskStays(t) /\ MarkStays(t)
  BY <1>1, <1>2 DEF InSchedule, Uuid, HostStays, TaskStays, MarkStays
<1>5. CASE worker' = "loop"
  BY <1>1, <1>3, <1>4, <1>5, RunStays
<1>6. CASE worker' = "tick" /\ IsCurrentScheduleComplete
  <2>1. CycleTime' = CycleTime
    BY <1>1, GcdStays
  <2>2. Now' = Now
    BY <1>1, <2>1 DEF Now
  <2>3. ~ initial
    BY <1>1, <1>3 DEF Run, MasterInv
  <2>4. Sent /\ Sent' /\ LastSent' = LastSent
    BY <1>1, <1>6, <2>3 DEF Sent, LastSent
  <2>5. DueSteps(sched, Now)' = DueSteps(sched, Now)
    BY <1>1, <2>2 DEF DueSteps
  <2>6. DueSteps(sched, Now) \ {Dummy} \subseteq marks
    BY <1>6, Items
  <2>7. MasterInv'
    BY <1>1, <1>3, <1>6, <2>1, <2>2, <2>3, <2>4, <2>5, <2>6 DEF Run, MasterInv
  <2>8. ChanInv'
    BY <1>1, <1>3, <2>4 DEF Run, ChanInv
  <2>9. ASSUME NEW t \in Tasks, InSchedule(t)' PROVE MemberInv(t)'
    <3>1. InSchedule(t) /\ HostStays(Host[t]) /\ TaskStays(t) /\ MemberInv(t)
      BY <1>3, <1>4, <2>9 DEF Run
    <3>2. /\ Uuid(t)' = Uuid(t) /\ Steps(t)' = Steps(t)
          /\ Active(t)' <=> Active(t)
          /\ Acked(t)' <=> Acked(t)
          /\ Once(ackChan[t], gen[Host[t]])' <=> Once(ackChan[t], gen[Host[t]])
      BY <3>1, AtomsStay DEF HostStays
    <3>3. Prev(Host[t])' = Prev(Host[t])
      BY <1>1, <2>4, PrevStays
    <3>4. ~ Active(t) /\ ~ Acked(t)
      <4>1. Now % Cycle[t] = 0 => Uuid(t) \in DueSteps(sched, Now) \ {Dummy}
        BY <1>3, <3>1, Numbers
      <4>. QED BY <2>6, <3>1, <4>1 DEF MemberInv, OweInv
    <3>5. PassedInv(t)'
      BY <2>2, <3>1, <3>3 DEF MemberInv, PassedInv
    <3>6. OweInv(t)'
      BY <3>2, <3>4 DEF OweInv
    <3>7. TaskInv(t)' /\ ReadyInv(t)'
      BY <1>2, <2>2, <3>1, <3>2 DEF MemberInv, TaskInv, ReadyInv
    <3>8. ClientInv(t)'
      BY <1>1, <1>2, <2>2, <3>1, <3>2, <3>3 DEF MemberInv, ClientInv, Missed
    <3>9. CountInv(t)'
      BY <1>1, <1>6, <2>2, <3>1, <3>2, <3>4 DEF MemberInv, CountInv
    <3>. QED BY <3>5, <3>6, <3>7, <3>8, <3>9 DEF MemberInv
  <2>. QED BY <2>7, <2>8, <2>9 DEF Run
<1>. QED BY <1>1, <1>5, <1>6

(* The tick thread: it sets the time of the first tick.                     *)
LEMMA TickThreadRun ==
  ASSUME Types, TickThread, FirstRun => Run, FirstRun'
  PROVE  Run'
<1>1. /\ curTime' = IF curTime < 0 THEN 0 ELSE curTime
      /\ ticks' = ticks + 1
      /\ UNCHANGED <<sched, worker, waiting, initial, index, duration,
                     mode, marks, tickChan>>
  BY DEF TickThread, bus
<1>2. UNCHANGED <<phase, gen, simTime, progress, task, barrier, taskTime,
                  stepTime, shutdown, count, ackChan>>
  BY DEF TickThread, client, threads, bus
<1>3. FirstRun /\ Run /\ worker # "none"
  BY <1>1, <1>2 DEF FirstRun
<1>4. \A t \in Tasks : InSchedule(t)' =>
        InSchedule(t) /\ HostStays(Host[t]) /\ TaskStays(t) /\ MarkStays(t)
  BY <1>1, <1>2 DEF InSchedule, Uuid, HostStays, TaskStays, MarkStays
<1>5. initial \/ curTime' = curTime
  <2>1. CycleTime \in Nat /\ Now \in Nat
    BY <1>3, Instants
  <2>. QED BY <1>1, <1>3, <2>1 DEF Run, MasterInv
<1>6. ClockStays /\ Sent' = Sent /\ DueSteps(sched, Now)' = DueSteps(sched, Now)
  BY <1>1, <1>5, ClockIs
<1>7. MasterInv'
  <2>1. Now' = Now /\ LastSent' = LastSent /\ CycleTime' = CycleTime
    BY <1>6 DEF ClockStays
  <2>2. initial => curTime' = 0
    BY <1>1, <1>3 DEF Run, MasterInv
  <2>. QED BY <1>1, <1>3, <1>5, <1>6, <2>1, <2>2 DEF Run, MasterInv
<1>8. ChanInv'
  BY <1>1, <1>3, <1>6, ChansStay DEF Run
<1>9. ASSUME NEW t \in Tasks, InSchedule(t)' PROVE MemberInv(t)'
  BY <1>1, <1>3, <1>4, <1>6, <1>9, MemberStays DEF Run
<1>. QED BY <1>7, <1>8, <1>9 DEF Run

(* What the worker knows of a listener when it goes to the next item.       *)
LEMMA NextFinds ==
  ASSUME Types, WorkerNext, FirstRun, Run, NEW t \in Tasks, InSchedule(t)
  PROVE  /\ MemberInv(t) /\ ~ Active(t) /\ ~ Acked(t)
         /\ ~ initial /\ Now % Cycle[t] = 0 =>
              /\ Uuid(t) \in marks /\ Steps(t) = Now + Cycle[t]
              /\ Prev(Host[t]) = Now
<1>1. worker = "tick" \/ (worker = "loop" /\ ~ waiting)
  BY DEF WorkerNext
<1>2. MemberInv(t) /\ MasterInv /\ ChanInv /\ worker # "none"
  BY DEF Run, FirstRun
<1>3. ~ Active(t) /\ ~ Acked(t)
  BY <1>1, <1>2 DEF MemberInv, OweInv
<1>4. ASSUME ~ initial, Now % Cycle[t] = 0
      PROVE  /\ Uuid(t) \in marks /\ Steps(t) = Now + Cycle[t]
             /\ Prev(Host[t]) = Now
  <2>1. Uuid(t) \in DueSteps(sched, Now) \ {Dummy}
    BY <1>2, <1>4, Numbers
  <2>2. Uuid(t) \in marks
    BY <1>1, <1>2, <1>4, <2>1 DEF MasterInv
  <2>3. Steps(t) = Now + Cycle[t] /\ tickChan[Host[t]] = <<>>
    BY <1>2, <2>2 DEF MemberInv, CountInv
  <2>4. LastSent = Now
    BY <1>1, <1>2, <1>4, <2>1 DEF MasterInv
  <2>. QED BY <2>2, <2>3, <2>4 DEF Prev, Before
<1>. QED BY <1>2, <1>3, <1>4

(* The master goes to the next instant.                                     *)
LEMMA NextRun ==
  ASSUME Types, WorkerNext, FirstRun => Run, FirstRun'
  PROVE  Run'
<1>1. /\ worker = "tick" \/ (worker = "loop" /\ ~ waiting)
      /\ mode = "SYSTEM_TIME" => ticks > 0
      /\ initial' = FALSE /\ worker' = "send"
      /\ \/ initial /\ index' = index /\ marks' = marks
         \/ ~ initial /\ index' = index + 1 /\ marks' = {}
      /\ UNCHANGED <<sched, waiting, curTime, duration, mode, tickChan>>
  BY DEF WorkerNext, NeedToWaitForTrigger, bus
<1>2. UNCHANGED <<phase, gen, simTime, progress, task, barrier, taskTime,
                  stepTime, shutdown, count, ackChan>>
  BY DEF WorkerNext, client, threads, bus
<1>3. FirstRun /\ Run /\ worker # "none"
  BY <1>1, <1>2 DEF FirstRun
<1>4. /\ CycleTime \in Nat \ {0} /\ Now \in Nat /\ (index = 0 <=> Now = 0)
      /\ index \in Nat /\ curTime \in Int /\ duration \in Nat
  BY <1>3, Instants DEF Types, NumberTypes
<1>5. CycleTime' = CycleTime
  BY <1>1, GcdStays
<1>6. Now' = IF initial THEN Now ELSE Now + CycleTime
  <2>1. Now = CycleTime * index /\ Now' = CycleTime * index'
    BY <1>5 DEF Now
  <2>2. CycleTime * (index + 1) = CycleTime * index + CycleTime
    BY <1>4, Factors
  <2>. QED BY <1>1, <2>1, <2>2
<1>7. /\ initial => ~ Sent /\ ~ Sent'
      /\ ~ initial => Sent /\ Sent'
  BY <1>1, <1>3, <1>4 DEF Sent, Run, MasterInv
<1>8. LastSent' = LastSent
  BY <1>1, <1>7 DEF LastSent
<1>9. MasterInv'
  <2>1. MasterInv
    BY <1>3 DEF Run
  <2>2. curTime' = Now'
    BY <1>1, <1>4, <1>6, <2>1 DEF MasterInv
  <2>3. initial => index' = 0 /\ duration' = 0
    BY <1>1, <2>1 DEF MasterInv
  <2>4. ~ initial => index' # 0 /\ LastSent' \in 0..Now' - 1
    BY <1>1, <1>4, <1>6, <1>8, <2>1 DEF MasterInv
  <2>. QED BY <1>1, <2>2, <2>3, <2>4 DEF MasterInv
<1>10. ChanInv'
  BY <1>1, <1>3, <1>7, <1>8 DEF Run, ChanInv
<1>11. ASSUME NEW t \in Tasks, InSchedule(t)' PROVE MemberInv(t)'
  <2>1. InSchedule(t)
    BY <1>1, <1>2, <1>11 DEF InSchedule, Uuid
  <2>2. /\ MemberInv(t) /\ ~ Active(t) /\ ~ Acked(t)
        /\ ~ initial /\ Now % Cycle[t] = 0 =>
             /\ Uuid(t) \in marks /\ Steps(t) = Now + Cycle[t]
             /\ Prev(Host[t]) = Now
    BY <1>3, <2>1, NextFinds
  <2>3. /\ Cycle[t] \in Nat \ {0} /\ Cycle[t] % CycleTime = 0
        /\ count[t] \in Nat /\ Steps(t) \in Nat
    BY <1>3, <2>1, Numbers
  <2>4. /\ Uuid(t)' = Uuid(t) /\ Steps(t)' = Steps(t)
        /\ Active(t)' <=> Active(t)
        /\ Acked(t)' <=> Acked(t)
        /\ Once(ackChan[t], gen[Host[t]])' <=> Once(ackChan[t], gen[Host[t]])
    BY <1>2, AtomsStay DEF TaskStays
  <2>5. Prev(Host[t])' = Prev(Host[t])
    BY <1>1, <1>8, PrevStays
  <2>6. OweInv(t)'
    BY <2>2, <2>4 DEF OweInv
  <2>7. TaskInv(t)'
    BY <1>2, <2>2, <2>4 DEF MemberInv, TaskInv, Active
  <2>8. CASE initial
    <3>1. Now' = Now /\ marks' = marks
      BY <1>1, <1>6, <2>8
    <3>2. PassedInv(t)' /\ ReadyInv(t)'
      BY <1>2, <2>2, <2>5, <3>1 DEF MemberInv, PassedInv, ReadyInv
    <3>3. ClientInv(t)'
      BY <1>2, <2>2, <2>4, <2>5, <3>1 DEF MemberInv, ClientInv, Missed
    <3>4. CountInv(t)'
      BY <2>2, <2>4, <2>8, <3>1 DEF MemberInv, CountInv
    <3>. QED BY <2>6, <2>7, <3>2, <3>3, <3>4 DEF MemberInv
  <2>9. CASE ~ initial
    <3>1. Now' = Now + CycleTime /\ marks' = {}
      BY <1>1, <1>6, <2>9
    <3>2. PassedInv(t)'
      <4>1. SUFFICES ASSUME NEW m \in Nat, m % Cycle[t] = 0, m < Now + CycleTime
                     PROVE  m <= Prev(Host[t])
        BY <2>5, <3>1 DEF PassedInv
      <4>2. CASE m < Now
        BY <2>2, <4>1, <4>2 DEF MemberInv, PassedInv
      <4>3. CASE ~ (m < Now)
        <5>1. CycleTime * index <= m /\ m < CycleTime * index + CycleTime
          BY <1>4, <4>1, <4>3 DEF Now
        <5>2. m = Now
          BY <1>4, <2>3, <4>1, <5>1, NoneBetween DEF Now
        <5>. QED BY <2>2, <2>9, <4>1, <5>2
      <4>. QED BY <4>2, <4>3
    <3>3. ReadyInv(t)'
      <4>1. ~ (task[t] = "none" /\ phase[Host[t]] # "idle")
        <5>1. SUFFICES ASSUME Now = 0, count[t] = 0 PROVE FALSE
          BY <2>2 DEF MemberInv, ReadyInv
        <5>2. Now % Cycle[t] = 0
          BY <2>3, <5>1
        <5>3. Steps(t) = 0
          BY <2>3, <5>1 DEF Steps
        <5>. QED BY <2>2, <2>3, <2>9, <5>1, <5>2, <5>3
      <4>. QED BY <1>2, <4>1 DEF ReadyInv
    <3>4. Now < Cycle[t] => Now' <= Cycle[t]
      <4>1. Now = CycleTime * index /\ 1 * Cycle[t] = Cycle[t]
        BY <2>3 DEF Now
      <4>. QED BY <1>4, <2>3, <3>1, <4>1, RoomForStep
    <3>5. ClientInv(t)'
      <4>1. Missed(Host[t])' <=> Missed(Host[t])
        BY <1>2, <2>5 DEF Missed
      <4>2. phase[Host[t]] # "idle" /\ Missed(Host[t]) => Now < Cycle[t]
        <5>1. SUFFICES ASSUME Now <= Cycle[t],
                              Now = Cycle[t] => Uuid(t) \notin marks
                       PROVE  Now < Cycle[t]
          BY <2>2 DEF MemberInv, ClientInv
        <5>2. Now = Cycle[t] => Now % Cycle[t] = 0
          BY <2>3
        <5>. QED BY <1>4, <2>2, <2>3, <2>9, <5>1, <5>2
      <4>. QED BY <1>2, <2>2, <2>5, <3>1, <3>4, <4>1, <4>2 DEF ClientInv,
                  MemberInv
    <3>6. CountInv(t)'
      <4>1. Steps(t) - Cycle[t] <= Now /\ Now <= Steps(t)
        BY <2>2 DEF MemberInv, CountInv
      <4>2. Now # Steps(t)
        <5>1. Now = Steps(t) => Now % Cycle[t] = 0
          BY <2>3, Multiple DEF Steps
        <5>. QED BY <2>2, <2>3, <2>9, <5>1
      <4>3. CycleTime * index < count[t] * Cycle[t]
        BY <1>4, <2>3, <4>1, <4>2 DEF Now, Steps
      <4>4. CycleTime * index + CycleTime <= count[t] * Cycle[t]
        BY <1>4, <2>3, <4>3, RoomForStep
      <4>5. Now' <= Steps(t)
        BY <3>1, <4>4 DEF Now, Steps
      <4>. QED BY <1>4, <2>2, <2>3, <2>4, <3>1, <4>1, <4>5 DEF CountInv
    <3>. QED BY <2>6, <2>7, <3>2, <3>3, <3>5, <3>6 DEF MemberInv
  <2>. QED BY <2>8, <2>9
<1>. QED BY <1>9, <1>10, <1>11 DEF Run

(* The tick of the instant is sent, or there is no step for it.             *)
LEMMA SendRun ==
  ASSUME Types, WorkerSend, FirstRun => Run, FirstRun'
  PROVE  Run'
<1>. USE LockedStepAssumption
<1>1. /\ worker = "send" /\ worker' = "loop"
      /\ \/ /\ Item(index) # {} /\ duration' = CycleTime
            /\ tickChan' = [h \in Hosts |-> IF phase[h] # "idle"
                                            THEN Append(tickChan[h], Tick)
                                            ELSE tickChan[h]]
         \/ /\ Item(index) = {} /\ duration' = duration + CycleTime
            /\ tickChan' = tickChan
      /\ curTime' = curTime + CycleTime
      /\ waiting' = (Item(index) \ {Dummy} # {})
      /\ UNCHANGED <<sched, initial, index, marks, mode, ticks>>
  BY DEF WorkerSend, Listening
<1>2. UNCHANGED <<phase, gen, simTime, progress, task, barrier, taskTime,
                  stepTime, shutdown, count, ackChan>>
  BY DEF WorkerSend, client, threads
<1>3. FirstRun /\ Run /\ worker # "none"
  BY <1>1, <1>2 DEF FirstRun
<1>4. /\ CycleTime \in Nat \ {0} /\ Now \in Nat /\ (index = 0 <=> Now = 0)
      /\ index \in Nat /\ curTime \in Int /\ duration \in Nat
  BY <1>3, Instants DEF Types, NumberTypes
<1>5. CycleTime' = CycleTime /\ Now' = Now
  BY <1>1, GcdStays DEF Now
<1>6. Item(index) = DueSteps(sched, Now)
      /\ DueSteps(sched, Now)' = DueSteps(sched, Now)
  BY <1>1, <1>5, Items DEF DueSteps
<1>7. MasterInv /\ ~ initial
  BY <1>1, <1>3 DEF Run, MasterInv
<1>8. /\ LastSent \in Int /\ -1 <= LastSent /\ LastSent < Now /\ curTime = Now
      /\ index = 0 => LastSent = -1 /\ ~ Sent /\ duration = 0
      /\ index # 0 => LastSent = curTime - duration
  <2>1. LastSent \in Int /\ -1 <= LastSent /\ LastSent < Now
    BY <1>1, <1>3, <1>7, LastIs
  <2>2. curTime = Now /\ (index = 0 => duration = 0)
    BY <1>1, <1>7 DEF MasterInv
  <2>. QED BY <1>1, <1>7, <2>1, <2>2 DEF LastSent, Sent
<1>9. Item(index) = {} => index # 0
  <2>1. SUFFICES ASSUME Now = 0 PROVE DueSteps(sched, Now) # {}
    BY <1>4, <1>6
  <2>2. sched # {}
    BY <1>3 DEF Types, ScheduleInv
  <2>3. \A u \in sched : CycleOf(u) \in Nat \ {0}
    BY <2>2, Gcd
  <2>4. \A u \in sched : Now % CycleOf(u) = 0
    BY <2>1, <2>3
  <2>. QED BY <2>2, <2>4 DEF DueSteps
<1>10. Sent' /\ LastSent' = IF Item(index) # {} THEN Now ELSE LastSent
  <2>1. Sent' /\ LastSent' = curTime' - duration'
    BY <1>1, <1>7 DEF Sent, LastSent
  <2>2. Item(index) # {} => LastSent' = Now
    BY <1>1, <1>4, <1>8, <2>1
  <2>3. Item(index) = {} => LastSent' = LastSent
    BY <1>1, <1>4, <1>8, <1>9, <2>1
  <2>. QED BY <2>1, <2>2, <2>3
<1>11. MasterInv'
  <2>1. LastSent' \in 0..Now
    BY <1>4, <1>7, <1>1, <1>8, <1>9, <1>10 DEF MasterInv
  <2>. QED BY <1>1, <1>5, <1>6, <1>7, <1>8, <1>10, <2>1 DEF MasterInv
<1>12. ASSUME NEW h \in Hosts
       PROVE  /\ Chain(tickChan'[h], LastSent')
              /\ Prev(h) \in Int /\ Prev(h)' \in Int /\ Prev(h) <= Prev(h)'
              /\ phase[h] # "idle" => Prev(h)' = Prev(h)
  <2>1. /\ tickChan[h] \in Seq(TickType) /\ Chain(tickChan[h], LastSent)
        /\ tickChan[h] # <<>> => Sent
    BY <1>3 DEF Types, ChannelTypes, ChanInv, Run
  <2>2. Prev(h) \in Int /\ Prev(h) <= LastSent
        /\ Prev(h) = Before(tickChan[h], LastSent)
    BY <1>3, PrevIs DEF Run, Prev
  <2>3. CASE Item(index) = {}
    BY <1>1, <1>10, <2>1, <2>2, <2>3 DEF Prev
  <2>4. CASE Item(index) # {} /\ phase[h] = "idle"
    <3>1. tickChan[h] = <<>> /\ tickChan'[h] = <<>>
      BY <1>1, <2>4 DEF Types, PhaseInv
    <3>2. Prev(h)' = Now
      BY <1>10, <2>4, <3>1 DEF Prev, Before
    <3>. QED BY <1>4, <1>8, <1>10, <2>2, <2>4, <3>1, <3>2, NoTick
  <2>5. CASE Item(index) # {} /\ phase[h] # "idle"
    <3>1. Tick \in TickType /\ Tick.time = Now /\ Tick.step = duration
      BY <1>4, <1>8 DEF Tick, TickType
    <3>2. /\ index = 0 => tickChan[h] = <<>> /\ Now = 0 /\ duration = 0
          /\ index # 0 => Now - duration = LastSent
      BY <1>4, <1>8, <2>1
    <3>3. /\ Tick.step <= Tick.time /\ (Tick.time = 0 \/ Tick.step > 0)
          /\ tickChan[h] # <<>> => /\ Tick.time - Tick.step = LastSent
                                   /\ Tick.step > 0
      <4>1. CASE index = 0
        BY <3>1, <3>2, <4>1
      <4>2. CASE index # 0
        <5>1. 0 <= LastSent
          BY <1>1, <1>7, <4>2 DEF MasterInv
        <5>. QED BY <1>4, <1>8, <3>1, <3>2, <4>2, <5>1
      <4>. QED BY <4>1, <4>2
    <3>4. tickChan'[h] = Append(tickChan[h], Tick) /\ LastSent' = Tick.time
      BY <1>1, <1>10, <2>5, <3>1
    <3>5. /\ Chain(Append(tickChan[h], Tick), Tick.time)
          /\ tickChan[h] = <<>> =>
               Before(Append(tickChan[h], Tick), Tick.time)
                 = IF Tick.time = 0 THEN -1 ELSE Tick.time - Tick.step
          /\ tickChan[h] # <<>> => Before(Append(tickChan[h], Tick), Tick.time)
                                     = Before(tickChan[h], LastSent)
      BY <1>8, <2>1, <3>1, <3>3, SendTick
    <3>6. Prev(h)' = Before(Append(tickChan[h], Tick), Tick.time)
      BY <3>4 DEF Prev
    <3>7. tickChan[h] = <<>> => Prev(h)' = LastSent /\ Prev(h) = LastSent
      BY <1>4, <1>8, <2>2, <3>1, <3>2, <3>5, <3>6 DEF Before
    <3>8. Prev(h)' = Prev(h)
      BY <2>2, <3>5, <3>6, <3>7
    <3>. QED BY <2>2, <3>4, <3>5, <3>8
  <2>. QED BY <2>3, <2>4, <2>5
<1>13. ChanInv'
  BY <1>10, <1>12 DEF ChanInv
<1>14. ASSUME NEW t \in Tasks, InSchedule(t)' PROVE MemberInv(t)'
  <2>1. InSchedule(t) /\ MemberInv(t) /\ Host[t] \in Hosts
    BY <1>1, <1>2, <1>3, <1>14 DEF InSchedule, Uuid, Run
  <2>2. ~ Active(t) /\ ~ Acked(t) /\ Steps(t) # Now + Cycle[t]
        /\ Uuid(t) \notin marks
    BY <1>1, <2>1 DEF MemberInv, OweInv, CountInv
  <2>3. /\ Uuid(t)' = Uuid(t) /\ Steps(t)' = Steps(t)
        /\ Active(t)' <=> Active(t)
        /\ Acked(t)' <=> Acked(t)
        /\ Once(ackChan[t], gen[Host[t]])' <=> Once(ackChan[t], gen[Host[t]])
    BY <1>2, AtomsStay DEF TaskStays
  <2>4. /\ Prev(Host[t]) \in Int /\ Prev(Host[t])' \in Int
        /\ Prev(Host[t]) <= Prev(Host[t])'
        /\ phase[Host[t]] # "idle" => Prev(Host[t])' = Prev(Host[t])
    BY <1>12, <2>1
  <2>5. PassedInv(t)'
    BY <1>5, <2>1, <2>4 DEF MemberInv, PassedInv
  <2>6. OweInv(t)'
    BY <2>2, <2>3 DEF OweInv
  <2>7. TaskInv(t)' /\ ReadyInv(t)'
    BY <1>2, <1>5, <2>1, <2>3 DEF MemberInv, TaskInv, ReadyInv
  <2>8. ClientInv(t)'
    BY <1>1, <1>2, <1>5, <2>1, <2>3, <2>4 DEF MemberInv, ClientInv, Missed
  <2>9. CountInv(t)'
    BY <1>1, <1>5, <2>1, <2>2, <2>3 DEF MemberInv, CountInv
  <2>. QED BY <2>5, <2>6, <2>7, <2>8, <2>9 DEF MemberInv
<1>. QED BY <1>11, <1>13, <1>14 DEF Run

(* The end of the worker is the end of the run.                             *)
LEMMA EndRun ==
  ASSUME WorkerEnd
  PROVE  ~ FirstRun'
BY DEF WorkerEnd, FirstRun

(* A start of the master begins its first run only if nothing has moved.    *)
LEMMA StartRun ==
  ASSUME Types, FreshInv, RunInv, NEW h \in Hosts, Start(h), FirstRun'
  PROVE  Run'
<1>1. CASE h = Master
  BY <1>1, StartTypes, StartMasterRun
<1>2. CASE h # Master
  BY <1>2, StartClientRun DEF RunInv
<1>. QED BY <1>1, <1>2

(* One step keeps the invariant of the first run.                           *)
LEMMA RunStep == Types /\ FreshInv /\ RunInv /\ [Next]_vars => RunInv'
<1>. SUFFICES ASSUME Types, FreshInv, RunInv, [Next]_vars, FirstRun'
              PROVE  Run'
  BY DEF RunInv
<1>. FirstRun => Run
  BY DEF RunInv
<1>1. ASSUME NEW h \in Hosts, Configure(h) PROVE Run'
  BY <1>1, ConfigureRun
<1>2. ASSUME NEW h \in Hosts, AnswerSchedule(h) PROVE Run'
  BY <1>2, AnswerRun
<1>3. ASSUME NEW h \in Hosts, Start(h) PROVE Run'
  BY <1>3, StartRun
<1>4. ASSUME NEW h \in Hosts, Trigger(h) PROVE Run'
  BY <1>4, TriggerRun
<1>5. ASSUME NEW h \in Hosts, ClientTimer(h) PROVE Run'
  <2>1. /\ phase[h] # "idle" /\ phase' = Stopping(h)
        /\ UNCHANGED <<gen, master, simTime, progress, threads, bus>>
    BY <1>5 DEF ClientTimer
  <2>. QED BY <2>1, StoppingRun
<1>6. ASSUME NEW h \in Hosts, Leave(h) PROVE Run'
  <2>1. /\ phase[h] # "idle" /\ phase' = Stopping(h)
        /\ UNCHANGED <<gen, master, simTime, progress, threads, bus>>
    BY <1>6 DEF Leave, client
  <2>. QED BY <2>1, StoppingRun
<1>7. ASSUME NEW h \in Hosts, StopDone(h) PROVE Run'
  BY <1>7, StopRun
<1>8. ASSUME NEW h \in Hosts, LoseTick(h) PROVE Run'
  BY <1>8, LoseTickRun
<1>9. ASSUME NEW t \in Tasks, Wake(t) PROVE Run'
  BY <1>9, WakeRun
<1>10. ASSUME NEW t \in Tasks, Enter(t) PROVE Run'
  BY <1>10, EnterRun
<1>11. ASSUME NEW t \in Tasks, Compute(t) PROVE Run'
  BY <1>11, ComputeRun
<1>12. ASSUME NEW t \in Tasks, ReceiveAck(t) PROVE Run'
  BY <1>12, ReceiveRun
<1>13. ASSUME NEW t \in Tasks, Destroy(t) PROVE Run'
  BY <1>13, DestroyRun
<1>14. ASSUME NEW t \in Tasks, LoseAck(t) PROVE Run'
  BY <1>14, LoseAckRun
<1>15. ASSUME WorkerComplete PROVE Run'
  BY <1>15, CompleteRun
<1>16. ASSUME WorkerNext PROVE Run'
  BY <1>16, NextRun
<1>17. ASSUME WorkerSend PROVE Run'
  BY <1>17, SendRun
<1>18. ASSUME WorkerEnd PROVE Run'
  BY <1>18, EndRun
<1>19. ASSUME TickThread PROVE Run'
  BY <1>19, TickThreadRun
<1>20. ASSUME AckTimer PROVE Run'
  <2>1. /\ phase[Master] # "idle" /\ phase' = Stopping(Master)
        /\ UNCHANGED <<gen, master, simTime, progress, threads, bus>>
    BY <1>20 DEF AckTimer, client
  <2>. QED BY <2>1, StoppingRun, LockedStepAssumption
<1>21. CASE UNCHANGED vars
  <2>1. UNCHANGED <<phase, gen, sched, mode, worker, waiting, initial, index,
                    marks, curTime, duration, ticks>>
    BY <1>21 DEF vars, master
  <2>2. UNCHANGED <<simTime, progress, task, barrier, taskTime,
                    stepTime, shutdown, count, tickChan, ackChan>>
    BY <1>21 DEF vars, client, threads, bus
  <2>3. FirstRun
    BY <2>1 DEF FirstRun
  <2>4. \A t \in Tasks : InSchedule(t)' =>
          InSchedule(t) /\ HostStays(Host[t]) /\ TaskStays(t)
    BY <2>1, <2>2 DEF InSchedule, Uuid, HostStays, TaskStays
  <2>. QED BY <2>1, <2>2, <2>3, <2>4, RunStays
<1>. QED
  BY <1>1, <1>2, <1>3, <1>4, <1>5, <1>6, <1>7, <1>8, <1>9, <1>10, <1>11,
    <1>12, <1>13, <1>14, <1>15, <1>16, <1>17, <1>18, <1>19, <1>20, <1>21 DEF
    Next, TaskThread, Worker

(* The inductive invariant of the specification.                            *)
StepInv == Types /\ FreshInv /\ RunInv

(* The invariant holds in every state.                                      *)
LEMMA StepInvariant == Spec => []StepInv
<1>1. Init => StepInv
  <2>1. Init => ~ FirstRun
    BY DEF Init, FirstRun
  <2>. QED BY <2>1, TypesStart, FreshStart DEF StepInv, RunInv
<1>2. StepInv /\ [Next]_vars => StepInv'
  BY TypesStep, FreshStep, RunStep DEF StepInv
<1>. QED BY <1>1, <1>2, PTL DEF Spec

(* Every variable has its type.                                             *)
THEOREM LockedStepTypes == Spec => []TypeOK
<1>1. StepInv => TypeOK
  BY DEF StepInv, Types, ControlTypes, FlagTypes, NumberTypes, ChannelTypes,
         ThreadTypes, TypeOK
<1>. QED BY <1>1, StepInvariant, PTL

(* The step of a listener in the schedule computes with the time of the     *)
(* master (Task::ThreadFunc), however late its tick and its thread are: the *)
(* master waits at the instant of a tick that has woken a task.             *)
THEOREM TimesAreTheMasters == Spec => []StepTimeIsMasterTime
<1>1. StepInv => StepTimeIsMasterTime
  <2>1. SUFFICES ASSUME StepInv, NEW t \in Members, task[t] = "compute"
                 PROVE  stepTime[t] = MasterTime
    BY DEF StepTimeIsMasterTime
  <2>2. FirstRun /\ t \in Tasks /\ InSchedule(t)
    BY DEF Members, InSchedule
  <2>3. MemberInv(t) /\ Active(t)
    BY <2>1, <2>2 DEF StepInv, RunInv, Run, Active
  <2>4. ~ initial /\ stepTime[t] = Now
    BY <2>1, <2>3 DEF MemberInv, OweInv, TaskInv
  <2>. QED BY <2>2, <2>4 DEF MasterTime, Now
<1>. QED BY <1>1, StepInvariant, PTL

-----------------------------------------------------------------------------
(***************************************************************************)
(* The master and its clients implement LockStep.                          *)
(***************************************************************************)
Last == [t \in Tasks |-> IF t \in Members /\ count[t] > 0
                         THEN (count[t] - 1) * Cycle[t] ELSE -1]

(* The steps of the abstract specification, of these views.                 *)
Begins(S) == /\ Members = {}
             /\ MasterTime' = -1 /\ Members' = S
             /\ Last' = [t \in Tasks |-> -1]

Leaves(S) == /\ Members' = Members \ S
             /\ Last' = [t \in Tasks |-> IF t \in S THEN -1 ELSE Last[t]]
             /\ MasterTime' = MasterTime

Ends == Members' = {} /\ MasterTime' = -1 /\ Last' = [t \in Tasks |-> -1]

Advances ==
  /\ MasterTime < MasterTime'
  /\ \A t \in Members :
       (MasterTime >= 0 /\ MasterTime % Cycle[t] = 0) => Last[t] = MasterTime
  /\ \A t \in Members, k \in (MasterTime + 1)..(MasterTime' - 1) :
       ~ (k % Cycle[t] = 0)
  /\ Members' = Members /\ Last' = Last

StepsOf(t) == /\ MasterTime >= 0 /\ t \in Members
              /\ MasterTime % Cycle[t] = 0 /\ Last[t] < MasterTime
              /\ Last' = [Last EXCEPT ![t] = MasterTime]
              /\ MasterTime' = MasterTime /\ Members' = Members

Stutters == MasterTime' = MasterTime /\ Members' = Members /\ Last' = Last

(* The begin of a run is one of the abstract specification.                 *)
LEMMA BeginsIs == \A S \in SUBSET Tasks : Begins(S) => Abstract!Next
BY DEF Begins, Last, Abstract!Next, Abstract!Begin

(* What leaves the schedule leaves it in the abstract specification.        *)
LEMMA LeavesIs == \A S \in SUBSET Tasks : Leaves(S) => Abstract!Next
BY DEF Leaves, Last, Abstract!Next, Abstract!Leave

(* The end of a run is one of the abstract specification.                   *)
LEMMA EndsIs == Ends => Abstract!Next
BY DEF Ends, Last, Abstract!Next, Abstract!End

(* The next instant is a step of the clock of the abstract specification.   *)
LEMMA AdvancesIs == Advances => Abstract!Next
BY DEF Advances, Last, Abstract!Next, Abstract!Advance, Abstract!Due

(* A computed step is one of the abstract specification.                    *)
LEMMA StepsIs == \A t \in Tasks : StepsOf(t) => Abstract!Next
BY DEF StepsOf, Last, Abstract!Next, Abstract!Step, Abstract!Due

(* A state without a first run of the master is one before its begin.       *)
LEMMA NoRun ==
  /\ ~ FirstRun => /\ MasterTime = -1 /\ Members = {}
                   /\ Last = [t \in Tasks |-> -1]
  /\ ~ FirstRun' => /\ MasterTime' = -1 /\ Members' = {}
                    /\ Last' = [t \in Tasks |-> -1]
BY DEF MasterTime, Members, Last

(* What the mapping depends on.                                             *)
LEMMA StaysSo ==
  ASSUME FirstRun, FirstRun', UNCHANGED <<sched, gen>>
  PROVE  /\ Members' = Members /\ CycleTime' = CycleTime
         /\ UNCHANGED count => Last' = Last
         /\ UNCHANGED <<initial, index>> => MasterTime' = MasterTime
<1>1. Members' = Members
  BY DEF Members, Uuid
<1>2. CycleTime' = CycleTime
  BY GcdStays
<1>3. UNCHANGED count => Last' = Last
  BY <1>1 DEF Last
<1>4. UNCHANGED <<initial, index>> => MasterTime' = MasterTime
  BY <1>2 DEF MasterTime
<1>. QED BY <1>1, <1>2, <1>3, <1>4

(* The first start of the master begins the run.                            *)
LEMMA StartMaps ==
  ASSUME StepInv, NEW h \in Hosts, Start(h), FirstRun'
  PROVE  Begins(Members') \/ Stutters
<1>1. CASE h = Master
  <2>1. phase[Master] = "ready" /\ gen' = gen /\ count' = count
        /\ initial' = TRUE
    BY <1>1 DEF Start, StartMaster
  <2>2. gen[Master] \in Nat /\ gen[Master] > 0 /\ gen[Master] <= 1
    BY <2>1, LockedStepAssumption
       DEF StepInv, Types, ControlTypes, PhaseInv, FirstRun
  <2>3. worker = "none" /\ \A t \in Tasks : count[t] = 0
    BY <2>1, <2>2 DEF StepInv, FreshInv, Fresh, Silent, Asleep
  <2>4. Members = {}
    BY <2>3 DEF Members, FirstRun
  <2>5. MasterTime' = -1
    BY <2>1 DEF MasterTime
  <2>6. Last' = [t \in Tasks |-> -1]
    BY <2>1, <2>3 DEF Last
  <2>. QED BY <2>4, <2>5, <2>6 DEF Begins
<1>2. CASE h # Master
  <2>1. UNCHANGED <<sched, gen, worker, initial, index, count>>
    BY <1>2 DEF Start, master
  <2>2. FirstRun
    BY <2>1 DEF FirstRun
  <2>. QED BY <2>1, <2>2, StaysSo DEF Stutters
<1>. QED BY <1>1, <1>2

(* Listeners that are configured anew leave the run.                        *)
LEMMA ConfigureMaps ==
  ASSUME StepInv, NEW h \in Hosts, Configure(h), FirstRun'
  PROVE  Leaves(TasksOf(h))
<1>. USE LockedStepAssumption DEF StepInv
<1>1. /\ gen' = [gen EXCEPT ![h] = @ + 1]
      /\ count' = [t \in Tasks |-> IF t \in TasksOf(h) THEN 0 ELSE count[t]]
      /\ UNCHANGED <<sched, worker, initial, index>>
  BY DEF Configure, master
<1>2. gen \in [Hosts -> Nat]
  BY DEF Types, ControlTypes
<1>3. FirstRun
  <2>1. gen[Master] <= 1
    BY <1>1, <1>2 DEF FirstRun
  <2>. QED BY <1>1, <2>1 DEF FirstRun
<1>4. ASSUME NEW t \in Tasks
      PROVE  t \in Members' <=> t \in Members \ TasksOf(h)
  <2>1. CASE t \in TasksOf(h)
    <3>1. Uuid(t)' = <<t, gen[h] + 1>>
      BY <1>1, <1>2, <2>1 DEF Uuid, TasksOf
    <3>2. ~ Given(<<t, gen[h] + 1>>)
      BY <1>2, <2>1 DEF Given, TasksOf
    <3>3. <<t, gen[h] + 1>> \notin sched \ {Dummy}
      BY <3>2 DEF Types, ScheduleInv
    <3>. QED BY <1>1, <2>1, <3>1, <3>3 DEF Members
  <2>2. CASE t \notin TasksOf(h)
    <3>1. Uuid(t)' = Uuid(t)
      BY <1>1, <1>2, <2>2 DEF Uuid, TasksOf
    <3>. QED BY <1>1, <1>3, <2>2, <3>1 DEF Members
  <2>. QED BY <2>1, <2>2
<1>5. Members' = Members \ TasksOf(h)
  <2>1. Members \subseteq Tasks /\ Members' \subseteq Tasks
    BY DEF Members
  <2>. QED BY <1>4, <2>1
<1>6. Last' = [t \in Tasks |-> IF t \in TasksOf(h) THEN -1 ELSE Last[t]]
  <2>1. ASSUME NEW t \in Tasks
        PROVE  (IF t \in Members' /\ count'[t] > 0
                  THEN (count'[t] - 1) * Cycle[t] ELSE -1)
               = IF t \in TasksOf(h) THEN -1 ELSE Last[t]
    <3>1. CASE t \in TasksOf(h)
      BY <1>5, <3>1
    <3>2. CASE t \notin TasksOf(h)
      BY <1>1, <1>5, <3>2 DEF Last
    <3>. QED BY <3>1, <3>2
  <2>. QED BY <2>1 DEF Last
<1>7. MasterTime' = MasterTime
  BY <1>1, <1>3, GcdStays DEF MasterTime
<1>. QED BY <1>5, <1>6, <1>7 DEF Leaves

(* A listener computes its step, once.                                      *)
LEMMA ComputeMaps ==
  ASSUME StepInv, NEW t \in Tasks, Compute(t), FirstRun'
  PROVE  StepsOf(t) \/ Stutters
<1>1. /\ task[t] = "compute" /\ count' = [count EXCEPT ![t] = @ + 1]
      /\ UNCHANGED <<gen, sched, worker, initial, index>>
  BY DEF Compute, master
<1>2. FirstRun
  BY <1>1 DEF FirstRun
<1>3. Members' = Members /\ MasterTime' = MasterTime
  BY <1>1, <1>2, StaysSo
<1>4. count'[t] = count[t] + 1 /\ \A u \in Tasks \ {t} : count'[u] = count[u]
  BY <1>1 DEF StepInv, Types, ThreadTypes
<1>5. CASE t \notin Members
  <2>1. ASSUME NEW u \in Tasks
        PROVE  (IF u \in Members' /\ count'[u] > 0
                  THEN (count'[u] - 1) * Cycle[u] ELSE -1) = Last[u]
    BY <1>3, <1>4, <1>5 DEF Last
  <2>2. Last' = Last
    BY <2>1 DEF Last
  <2>. QED BY <1>3, <2>2 DEF Stutters
<1>6. CASE t \in Members
  <2>1. InSchedule(t) /\ MemberInv(t) /\ Types /\ worker # "none"
    BY <1>2, <1>6 DEF Members, InSchedule, StepInv, RunInv, Run, FirstRun
  <2>2. Active(t)
    BY <1>1 DEF Active
  <2>3. ~ initial /\ Now % Cycle[t] = 0 /\ Steps(t) = Now
    BY <2>1, <2>2 DEF MemberInv, OweInv, CountInv
  <2>4. /\ Cycle[t] \in Nat \ {0} /\ count[t] \in Nat /\ Now \in Nat
        /\ count[t] * Cycle[t] = Now
    BY <2>1, <2>3, Numbers, Instants DEF Steps
  <2>5. MasterTime = Now
    BY <1>2, <2>3 DEF MasterTime, Now
  <2>6. Last[t] < Now
    <3>1. CASE count[t] = 0
      BY <2>4, <3>1 DEF Last
    <3>2. CASE count[t] # 0
      <4>1. count[t] - 1 \in Nat /\ (count[t] - 1) + 1 = count[t]
        BY <2>4, <3>2
      <4>2. ((count[t] - 1) + 1) * Cycle[t]
              = (count[t] - 1) * Cycle[t] + Cycle[t]
        BY <2>4, <4>1, StepMore
      <4>3. Last[t] = (count[t] - 1) * Cycle[t]
        BY <1>6, <2>4, <3>2 DEF Last
      <4>. QED BY <2>4, <4>1, <4>2, <4>3, StepMore
    <3>. QED BY <3>1, <3>2
  <2>7. ASSUME NEW u \in Tasks
        PROVE  (IF u \in Members' /\ count'[u] > 0
                  THEN (count'[u] - 1) * Cycle[u] ELSE -1)
               = IF u = t THEN Now ELSE Last[u]
    <3>1. CASE u = t
      <4>1. count'[t] > 0 /\ count'[t] - 1 = count[t]
        BY <1>4, <2>4
      <4>. QED BY <1>3, <1>6, <2>4, <3>1, <4>1
    <3>2. CASE u # t
      BY <1>3, <1>4, <3>2 DEF Last
    <3>. QED BY <3>1, <3>2
  <2>8. Last' = [Last EXCEPT ![t] = MasterTime]
    BY <2>5, <2>7 DEF Last
  <2>. QED BY <1>3, <1>6, <2>3, <2>4, <2>5, <2>6, <2>8 DEF StepsOf
<1>. QED BY <1>5, <1>6

(* The master goes to the next instant: everybody has done the step of this *)
(* one, and nobody has one in between.                                      *)
LEMMA NextMaps ==
  ASSUME StepInv, WorkerNext, FirstRun'
  PROVE  Advances
<1>1. /\ initial' = FALSE
      /\ \/ initial /\ index' = index
         \/ ~ initial /\ index' = index + 1
      /\ UNCHANGED <<gen, sched, count>> /\ worker # "none"
  BY DEF WorkerNext, threads
<1>2. FirstRun /\ Run /\ Types
  BY <1>1 DEF FirstRun, StepInv, RunInv
<1>3. Members' = Members /\ Last' = Last /\ CycleTime' = CycleTime
  BY <1>1, <1>2, StaysSo
<1>4. /\ CycleTime \in Nat \ {0} /\ Now \in Nat /\ (index = 0 <=> Now = 0)
      /\ index \in Nat
  BY <1>1, <1>2, Instants DEF Types, NumberTypes
<1>5. \A t \in Members : t \in Tasks /\ InSchedule(t)
  BY DEF Members, InSchedule
<1>6. CASE initial
  <2>1. index = 0
    BY <1>2, <1>6 DEF Run, MasterInv
  <2>2. MasterTime = -1 /\ MasterTime' = CycleTime * 0
    BY <1>1, <1>2, <1>3, <1>6, <2>1 DEF MasterTime
  <2>3. \A d \in Nat : d * 0 = 0
    OBVIOUS
  <2>4. MasterTime' = 0
    BY <1>4, <2>2, <2>3
  <2>5. (MasterTime + 1)..(MasterTime' - 1) = {}
    BY <2>2, <2>4
  <2>. QED BY <1>3, <2>2, <2>4, <2>5 DEF Advances
<1>7. CASE ~ initial
  <2>1. MasterTime = Now /\ MasterTime' = Now + CycleTime
    <3>1. MasterTime' = CycleTime * (index + 1)
      BY <1>1, <1>3, <1>7 DEF MasterTime
    <3>2. CycleTime * (index + 1) = CycleTime * index + CycleTime
      BY <1>4, Factors
    <3>. QED BY <1>2, <1>7, <3>1, <3>2 DEF MasterTime, Now
  <2>2. ASSUME NEW t \in Members, Now % Cycle[t] = 0 PROVE Last[t] = Now
    <3>1. t \in Tasks /\ InSchedule(t)
      BY <1>5
    <3>2. Steps(t) = Now + Cycle[t]
      BY <1>2, <1>7, <2>2, <3>1, NextFinds
    <3>3. Cycle[t] \in Nat \ {0} /\ count[t] \in Nat
      BY <1>1, <1>2, <3>1, Numbers
    <3>4. count[t] # 0
      BY <1>4, <3>2, <3>3 DEF Steps
    <3>5. count[t] - 1 \in Nat /\ (count[t] - 1) + 1 = count[t]
      BY <3>3, <3>4
    <3>6. count[t] * Cycle[t] = (count[t] - 1) * Cycle[t] + Cycle[t]
      BY <3>3, <3>5, StepMore
    <3>7. Last[t] = (count[t] - 1) * Cycle[t]
      BY <2>2, <3>1, <3>3, <3>4 DEF Last
    <3>. QED BY <1>4, <3>2, <3>3, <3>5, <3>6, <3>7, StepMore DEF Steps
  <2>3. ASSUME NEW t \in Members, NEW k \in (Now + 1)..(Now + CycleTime - 1)
        PROVE  ~ (k % Cycle[t] = 0)
    <3>1. t \in Tasks /\ InSchedule(t)
      BY <1>5
    <3>2. Cycle[t] \in Nat \ {0} /\ Cycle[t] % CycleTime = 0
      BY <1>1, <1>2, <3>1, Numbers
    <3>3. /\ k \in Nat /\ CycleTime * index <= k
          /\ k < CycleTime * index + CycleTime
          /\ k # CycleTime * index
      BY <1>4, <2>3 DEF Now
    <3>. QED BY <1>4, <3>2, <3>3, NoneBetween
  <2>. QED BY <1>3, <1>4, <2>1, <2>2, <2>3 DEF Advances
<1>. QED BY <1>6, <1>7

(* What leaves the schedule, the instant and the counts alone is no step of *)
(* the abstract specification.                                              *)
LEMMA Unseen ==
  ASSUME FirstRun', worker' # "none" => worker # "none",
         UNCHANGED <<gen, sched, initial, index, count>>
  PROVE  Stutters
<1>1. FirstRun
  BY DEF FirstRun
<1>. QED BY <1>1, StaysSo DEF Stutters

(* Each step of the master and its clients is one of LockStep, or none.     *)
LEMMA StepMaps == StepInv /\ [Next]_vars => Abstract!Next \/ Stutters
<1>. SUFFICES ASSUME StepInv, [Next]_vars PROVE Abstract!Next \/ Stutters
  OBVIOUS
<1>1. CASE ~ FirstRun'
  BY <1>1, NoRun, EndsIs DEF Ends
<1>2. CASE FirstRun'
  <2>1. ASSUME NEW h \in Hosts, Configure(h) PROVE Abstract!Next \/ Stutters
    <3>1. TasksOf(h) \in SUBSET Tasks
      BY DEF TasksOf
    <3>. QED BY <1>2, <2>1, <3>1, ConfigureMaps, LeavesIs
  <2>2. ASSUME NEW h \in Hosts, AnswerSchedule(h)
        PROVE  Abstract!Next \/ Stutters
    BY <1>2, <2>2, Unseen DEF AnswerSchedule, master, threads
  <2>3. ASSUME NEW h \in Hosts, Start(h) PROVE Abstract!Next \/ Stutters
    <3>1. Members' \in SUBSET Tasks
      BY DEF Members
    <3>. QED BY <1>2, <2>3, <3>1, StartMaps, BeginsIs
  <2>4. ASSUME NEW h \in Hosts, Trigger(h) PROVE Abstract!Next \/ Stutters
    BY <1>2, <2>4, Unseen DEF Trigger, master, threads
  <2>5. ASSUME NEW h \in Hosts, ClientTimer(h) PROVE Abstract!Next \/ Stutters
    BY <1>2, <2>5, Unseen DEF ClientTimer, master, threads
  <2>6. ASSUME NEW h \in Hosts, Leave(h) PROVE Abstract!Next \/ Stutters
    BY <1>2, <2>6, Unseen DEF Leave, master, threads
  <2>7. ASSUME NEW h \in Hosts, StopDone(h) PROVE Abstract!Next \/ Stutters
    BY <1>2, <2>7, Unseen DEF StopDone, master, threads
  <2>8. ASSUME NEW h \in Hosts, LoseTick(h) PROVE Abstract!Next \/ Stutters
    BY <1>2, <2>8, Unseen DEF LoseTick, master, threads
  <2>9. ASSUME NEW t \in Tasks, Wake(t) PROVE Abstract!Next \/ Stutters
    BY <1>2, <2>9, Unseen DEF Wake, master, threads
  <2>10. ASSUME NEW t \in Tasks, Enter(t) PROVE Abstract!Next \/ Stutters
    BY <1>2, <2>10, Unseen DEF Enter, master, threads
  <2>11. ASSUME NEW t \in Tasks, Compute(t) PROVE Abstract!Next \/ Stutters
    BY <1>2, <2>11, ComputeMaps, StepsIs
  <2>12. ASSUME NEW t \in Tasks, ReceiveAck(t) PROVE Abstract!Next \/ Stutters
    BY <1>2, <2>12, Unseen DEF ReceiveAck, master, threads
  <2>13. ASSUME NEW t \in Tasks, Destroy(t) PROVE Abstract!Next \/ Stutters
    BY <1>2, <2>13, Unseen DEF Destroy, master, threads
  <2>14. ASSUME NEW t \in Tasks, LoseAck(t) PROVE Abstract!Next \/ Stutters
    BY <1>2, <2>14, Unseen DEF LoseAck, master, threads
  <2>15. ASSUME WorkerComplete PROVE Abstract!Next \/ Stutters
    BY <1>2, <2>15, Unseen DEF WorkerComplete, master, threads
  <2>16. ASSUME WorkerNext PROVE Abstract!Next \/ Stutters
    BY <1>2, <2>16, NextMaps, AdvancesIs
  <2>17. ASSUME WorkerSend PROVE Abstract!Next \/ Stutters
    BY <1>2, <2>17, Unseen DEF WorkerSend, master, threads
  <2>18. ASSUME WorkerEnd PROVE Abstract!Next \/ Stutters
    BY <1>2, <2>18, EndRun
  <2>19. ASSUME TickThread PROVE Abstract!Next \/ Stutters
    BY <1>2, <2>19, Unseen DEF TickThread, master, threads
  <2>20. ASSUME AckTimer PROVE Abstract!Next \/ Stutters
    BY <1>2, <2>20, Unseen DEF AckTimer, master, threads
  <2>21. CASE UNCHANGED vars
    BY <1>2, <2>21, Unseen DEF vars, master, threads
  <2>. QED
    BY <2>1, <2>2, <2>3, <2>4, <2>5, <2>6, <2>7, <2>8, <2>9, <2>10, <2>11,
      <2>12, <2>13, <2>14, <2>15, <2>16, <2>17, <2>18, <2>19, <2>20, <2>21
      DEF Next, TaskThread, Worker
<1>. QED BY <1>1, <1>2

(* The master and its clients implement LockStep (TimingMaster::ThreadFunc, *)
(* Task::ThreadFunc): time goes on only when every listener in the schedule *)
(* has done its step of this instant, no instant of a listener is left out, *)
(* and no step is executed twice.                                           *)
THEOREM LockStepFollowed == Spec => FollowsLockStep
<1>1. Init => Abstract!Init
  <2>1. Init => ~ FirstRun
    BY DEF Init, FirstRun
  <2>. QED BY <2>1, NoRun DEF Abstract!Init, Last
<1>2. StepInv /\ [Next]_vars
        => [Abstract!Next]_<<MasterTime, Members,
             [t \in Tasks |-> IF t \in Members /\ count[t] > 0
                              THEN (count[t] - 1) * Cycle[t] ELSE -1]>>
  BY StepMaps DEF Stutters, Last
<1>. QED BY <1>1, <1>2, StepInvariant, PTL DEF Spec, FollowsLockStep,
            Abstract!Spec
=============================================================================
