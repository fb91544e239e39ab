------------------------- MODULE TransmissionProofs -------------------------
(***************************************************************************)
(* Proofs about the receive path, for any number of receivers, workers,    *)
(* listeners, containers and samples.                                      *)
(*                                                                         *)
(* The argument: m_mtxJob makes the workers exclusive per receiver         *)
(* (ExclInv), so that the sample a worker processes is older than all that *)
(* are queued and newer than all that were delivered (OrderInv).           *)
(***************************************************************************)
EXTENDS Transmission, TLAPS, SequenceTheorems, FiniteSetTheorems

InJob == {"take", "empty", "process", "update"}
Away  == {"none", "idle", "gone"}
Numbered == Nat \X {"good", "bad", "big"}

TInv ==
  /\ rcv \in [Receivers -> {"unborn", "alive", "dead"}]
  /\ bus \in [Receivers -> {"idle", "queued", "post"}]
  /\ queue \in [Receivers -> Seq(Numbered)]
  /\ job \in [Receivers -> Workers \cup {NoOne}]
  /\ lock \in [Receivers -> Workers \cup {NoOne}]
  /\ lst \in [Receivers -> SUBSET Listeners]
  /\ got \in [Receivers -> Nat] /\ last \in [Receivers -> Nat]
  /\ jobs \in Seq(Receivers)
  /\ wpc \in [Workers -> InJob \cup Away \cup {"try"}]
  /\ wrcv \in [Workers -> Receivers \cup {NoOne}]
  /\ wsample \in [Workers -> Numbered]

(* A worker that is in DoJob holds m_mtxJob of its receiver, and            *)
(* m_mtxListener while it calls the listeners.                              *)
ExclInv ==
  \A w \in Workers :
    /\ wpc[w] \notin Away => wrcv[w] \in Receivers
    /\ wpc[w] \in InJob => job[wrcv[w]] = w
    /\ wpc[w] = "update" => lock[wrcv[w]] = w

(* The numbers of the samples in the queue of a receiver increase; they are *)
(* greater than the one being processed and the last one delivered.         *)
QueueInv ==
  \A r \in Receivers :
    /\ last[r] <= got[r]
    /\ \A i \in 1..Len(queue[r]) : /\ last[r] < queue[r][i][1]
                                   /\ queue[r][i][1] <= got[r]
    /\ \A i, j \in 1..Len(queue[r]) :
         i < j => queue[r][i][1] < queue[r][j][1]

SampleInv ==
  \A w \in Workers :
    wpc[w] \in {"process", "update"} =>
      /\ last[wrcv[w]] < wsample[w][1] /\ wsample[w][1] <= got[wrcv[w]]
      /\ \A i \in 1..Len(queue[wrcv[w]]) :
           wsample[w][1] < queue[wrcv[w]][i][1]

(* The inductive invariant.                                                 *)
TxInv == TInv /\ ExclInv /\ QueueInv /\ SampleInv

-----------------------------------------------------------------------------
(* The initial states satisfy the invariant.                                *)
LEMMA InitTxInv == Init => TxInv
<1>. SUFFICES ASSUME Init PROVE TxInv
  OBVIOUS
<1>1. <<>> \in Seq(Numbered) /\ <<>> \in Seq(Receivers) /\ Len(<<>>) = 0
  OBVIOUS
<1>2. TInv
  BY <1>1 DEF Init, TInv, Numbered, NoSample, Away
<1>. QED BY <1>2 DEF Init, TxInv, ExclInv, QueueInv, SampleInv, InJob, Away

(* What the first sample of a queue is, and what is left of it.             *)
LEMMA TailKeeps ==
  ASSUME TInv, NEW r \in Receivers, queue[r] # <<>>
  PROVE  /\ Head(queue[r]) = queue[r][1] /\ Head(queue[r]) \in Numbered
         /\ Tail(queue[r]) \in Seq(Numbered)
         /\ Len(queue[r]) \in Nat /\ Len(queue[r]) > 0
         /\ Len(Tail(queue[r])) = Len(queue[r]) - 1
         /\ \A i \in 1..Len(Tail(queue[r])) : Tail(queue[r])[i] = queue[r][i+1]
<1>1. queue[r] \in Seq(Numbered)
  BY DEF TInv
<1>. QED BY <1>1, HeadTailProperties

(* Types are preserved.                                                     *)
LEMMA TStep == TInv /\ ExclInv /\ [Next]_vars => TInv'
<1>. SUFFICES ASSUME TInv, ExclInv, [Next]_vars PROVE TInv'
  OBVIOUS
<1>. USE DEF TInv, stores, locks, progress, workers, control, InJob, Away
<1>1. <<>> \in Seq(Numbered) /\ NoSample \in Numbered
  BY DEF NoSample, Numbered
<1>2. ASSUME NEW r \in Receivers, User(r) PROVE TInv'
  <2>1. CASE RegisterSignal(r)
    BY <2>1 DEF RegisterSignal
  <2>2. CASE UnregisterSignal(r)
    BY <1>1, <2>2 DEF UnregisterSignal
  <2>3. ASSUME NEW l \in Listeners,
               RegisterListener(r, l) \/ UnregisterListener(r, l)
        PROVE  TInv'
    <3>1. lst[r] \cup {l} \in SUBSET Listeners /\ lst[r] \ {l} \in SUBSET Listeners
      OBVIOUS
    <3>2. lst' \in [Receivers -> SUBSET Listeners]
      BY <2>3, <3>1 DEF RegisterListener, UnregisterListener
    <3>. QED BY <2>3, <3>2 DEF RegisterListener, UnregisterListener
  <2>. QED BY <1>2, <2>1, <2>2, <2>3 DEF User
<1>3. ASSUME NEW r \in Receivers, Driver(r) PROVE TInv'
  <2>1. ASSUME NEW k \in Kinds, Receive(r, k) PROVE TInv'
    <3>1. <<got[r] + 1, k>> \in Numbered
      <4>1. k \in {"good", "bad", "big"} /\ got[r] + 1 \in Nat
        BY TransmissionAssumption
      <4>. QED BY <4>1 DEF Numbered
    <3>2. Append(queue[r], <<got[r] + 1, k>>) \in Seq(Numbered)
      BY <3>1, AppendProperties
    <3>3. queue' = queue
            \/ queue' = [queue EXCEPT ![r] = Append(@, <<got[r] + 1, k>>)]
      BY <2>1 DEF Receive
    <3>4. queue' \in [Receivers -> Seq(Numbered)]
      BY <3>2, <3>3
    <3>5. bus' = bus \/ bus' = [bus EXCEPT ![r] = "queued"]
      BY <2>1 DEF Receive, Bus
    <3>6. got' = [got EXCEPT ![r] = @ + 1]
          /\ UNCHANGED <<rcv, job, lock, lst, last, jobs, wpc, wrcv, wsample>>
      BY <2>1 DEF Receive
    <3>7. got' \in [Receivers -> Nat]
      <4>1. got' = [got EXCEPT ![r] = got[r] + 1]
        BY <3>6
      <4>. QED BY <4>1
    <3>8. bus' \in [Receivers -> {"idle", "queued", "post"}]
      BY <3>5
    <3>. QED BY <3>4, <3>6, <3>7, <3>8
  <2>2. CASE ReadOpen(r)
    BY <2>2 DEF ReadOpen, Bus
  <2>3. CASE EnqueueJob(r)
    <3>1. Append(jobs, r) \in Seq(Receivers)
      BY AppendProperties
    <3>. QED BY <2>3, <3>1 DEF EnqueueJob, Bus
  <2>. QED BY <1>3, <2>1, <2>2, <2>3 DEF Driver
<1>4. ASSUME NEW w \in Workers, Worker(w) PROVE TInv'
  <2>. USE DEF Work, Leave, Forget
  <2>1. CASE TakeJob(w)
    <3>1. jobs # <<>> => Head(jobs) \in Receivers /\ Tail(jobs) \in Seq(Receivers)
      BY HeadTailProperties
    <3>. QED BY <2>1, <3>1 DEF TakeJob
  <2>2. CASE TryJob(w)
    BY <2>2 DEF TryJob
  <2>3. CASE TakeSample(w)
    <3>1. wrcv[w] \in Receivers
      BY <2>3 DEF TakeSample, ExclInv
    <3>2. queue[wrcv[w]] # <<>> => /\ Head(queue[wrcv[w]]) \in Numbered
                                   /\ Tail(queue[wrcv[w]]) \in Seq(Numbered)
      BY <3>1, TailKeeps
    <3>. QED BY ZenonT(30), <2>3, <3>1, <3>2 DEF TakeSample
  <2>4. CASE UnlockJob(w)
    BY <2>4 DEF UnlockJob
  <2>5. CASE Refuse(w)
    BY <1>1, <2>5 DEF Refuse
  <2>6. CASE BeginUpdate(w)
    BY <2>6 DEF BeginUpdate
  <2>7. CASE EndUpdate(w)
    <3>1. wsample[w][1] \in Nat
      BY DEF Numbered
    <3>. QED BY <1>1, <2>7, <3>1 DEF EndUpdate
  <2>8. CASE WorkerEnd(w)
    BY <2>8 DEF WorkerEnd
  <2>. QED BY <1>4, <2>1, <2>2, <2>3, <2>4, <2>5, <2>6, <2>7, <2>8 DEF Worker
<1>5. CASE Control
  <2>1. CASE Enable
    BY <2>1 DEF Enable
  <2>2. CASE DisallowSignalRegistration \/ AllowSignalRegistration
    BY <2>2 DEF DisallowSignalRegistration, AllowSignalRegistration
  <2>3. CASE SignalWorkers \/ JoinWorkers \/ DisableDone
    BY <2>3 DEF SignalWorkers, JoinWorkers, DisableDone
  <2>4. CASE ClearJobs
    <3>1. <<>> \in Seq(Receivers)
      OBVIOUS
    <3>. QED BY <2>4, <3>1 DEF ClearJobs
  <2>5. ASSUME NEW r \in Receivers, FlushQueue(r) PROVE TInv'
    BY <1>1, <2>5 DEF FlushQueue
  <2>. QED BY <1>5, <2>1, <2>2, <2>3, <2>4, <2>5 DEF Control, Disable
<1>6. CASE UNCHANGED vars
  BY <1>6 DEF vars
<1>. QED BY <1>2, <1>3, <1>4, <1>5, <1>6 DEF Next

(* The workers stay exclusive.                                              *)
LEMMA ExclStep == TInv /\ ExclInv /\ [Next]_vars => ExclInv'
<1>. SUFFICES ASSUME TInv, ExclInv, [Next]_vars PROVE ExclInv'
  OBVIOUS
<1>. USE DEF TInv, ExclInv, stores, locks, progress, workers, control, InJob,
             Away
<1>1. CASE UNCHANGED <<job, lock, wpc, wrcv>>
  BY <1>1
<1>2. ASSUME NEW r \in Receivers, User(r) \/ Driver(r) PROVE ExclInv'
  BY <1>1, <1>2 DEF User, RegisterSignal, UnregisterSignal, RegisterListener,
     UnregisterListener, Driver, Receive, ReadOpen, EnqueueJob
<1>3. ASSUME NEW w \in Workers, Worker(w) PROVE ExclInv'
  <2>. USE DEF Work, Leave, Forget
  <2>1. CASE TakeJob(w)
    <3>1. jobs # <<>> => Head(jobs) \in Receivers
      BY HeadTailProperties
    <3>. QED BY <2>1, <3>1 DEF TakeJob
  <2>2. CASE TryJob(w)
    <3>1. wrcv[w] \in Receivers /\ w # NoOne
      BY <2>2, TransmissionAssumption DEF TryJob
    <3>2. CASE job[wrcv[w]] = NoOne
      <4>1. \A v \in Workers : wpc[v] \in InJob => wrcv[v] # wrcv[w]
        BY <3>2, TransmissionAssumption
      <4>. QED BY <2>2, <3>1, <3>2, <4>1 DEF TryJob
    <3>3. CASE job[wrcv[w]] # NoOne
      <4>1. /\ wpc' = [wpc EXCEPT ![w] = IF halt THEN "gone" ELSE "idle"]
            /\ wrcv' = [wrcv EXCEPT ![w] = NoOne] /\ UNCHANGED <<job, lock>>
        BY <2>2, <3>3 DEF TryJob
      <4>2. wpc'[w] \in Away
        BY <4>1
      <4>. QED BY <4>1, <4>2
    <3>. QED BY <3>2, <3>3
  <2>3. CASE TakeSample(w)
    <3>1. /\ UNCHANGED <<wrcv, job, lock>> /\ wpc[w] = "take"
          /\ \/ wpc' = [wpc EXCEPT ![w] = "empty"]
             \/ wpc' = [wpc EXCEPT ![w] = "process"]
      BY <2>3 DEF TakeSample
    <3>. QED BY <3>1
  <2>4. CASE UnlockJob(w)
    BY <2>4, TransmissionAssumption DEF UnlockJob
  <2>5. CASE Refuse(w)
    BY <2>5 DEF Refuse
  <2>6. CASE BeginUpdate(w)
    BY <2>6, TransmissionAssumption DEF BeginUpdate
  <2>7. CASE EndUpdate(w)
    BY <2>7, TransmissionAssumption DEF EndUpdate
  <2>8. CASE WorkerEnd(w)
    BY <2>8 DEF WorkerEnd
  <2>. QED BY <1>3, <2>1, <2>2, <2>3, <2>4, <2>5, <2>6, <2>7, <2>8 DEF Worker
<1>4. CASE Control
  <2>1. CASE Enable
    BY <2>1 DEF Enable
  <2>2. CASE ClearJobs
    BY <2>2 DEF ClearJobs
  <2>3. CASE ~Enable /\ ~ClearJobs
    BY <1>1, <1>4, <2>3 DEF Control, DisallowSignalRegistration,
       AllowSignalRegistration, Disable, SignalWorkers, JoinWorkers,
       FlushQueue, DisableDone
  <2>. QED BY <2>1, <2>2, <2>3
<1>5. CASE UNCHANGED vars
  BY <1>1, <1>5 DEF vars
<1>. QED BY <1>2, <1>3, <1>4, <1>5 DEF Next

(* What a step does to the samples of receivers and workers it is not about.*)
LEMMA OrderKept ==
  ASSUME TxInv, UNCHANGED <<queue, got, last>>,
         \A v \in Workers : wpc'[v] \in {"process", "update"} =>
           /\ wpc[v] \in {"process", "update"}
           /\ wsample'[v] = wsample[v] /\ wrcv'[v] = wrcv[v]
  PROVE  QueueInv' /\ SampleInv'
BY DEF TxInv, QueueInv, SampleInv

(* A sample arrives: it is newer than all before it.                        *)
LEMMA ReceiveOrder ==
  ASSUME TxInv, NEW r \in Receivers, NEW k \in Kinds, Receive(r, k)
  PROVE  QueueInv' /\ SampleInv'
<1>. DEFINE s == <<got[r] + 1, k>>
<1>. USE DEF TxInv
<1>1. /\ UNCHANGED <<last, wpc, wrcv, wsample>>
      /\ got' = [got EXCEPT ![r] = got[r] + 1]
      /\ queue' = queue \/ queue' = [queue EXCEPT ![r] = Append(queue[r], s)]
  BY DEF Receive, workers, stores
<1>2. queue[r] \in Seq(Numbered) /\ got[r] \in Nat /\ s[1] = got[r] + 1
  BY DEF TInv
<1>3. s \in Numbered
  <2>1. k \in {"good", "bad", "big"} /\ got[r] + 1 \in Nat
    BY <1>2, TransmissionAssumption
  <2>. QED BY <2>1 DEF Numbered
<1>4. /\ Len(Append(queue[r], s)) = Len(queue[r]) + 1 /\ Len(queue[r]) \in Nat
      /\ \A i \in 1..Len(queue[r]) : Append(queue[r], s)[i] = queue[r][i]
      /\ Append(queue[r], s)[Len(queue[r]) + 1] = s
  BY <1>2, <1>3, AppendProperties
<1>. HIDE DEF s
<1>5. \A x \in Receivers : x # r => queue'[x] = queue[x] /\ got'[x] = got[x]
  BY <1>1 DEF TInv
<1>6. got'[r] = got[r] + 1
  BY <1>1 DEF TInv
<1>7. \/ queue'[r] = queue[r]
      \/ queue'[r] = Append(queue[r], s)
  BY <1>1 DEF TInv
<1>8. \A x \in Receivers : /\ last[x] \in Nat /\ got[x] \in Nat
                           /\ Len(queue[x]) \in Nat
                           /\ \A i \in 1..Len(queue[x]) :
                                queue[x][i][1] \in Nat
  BY LenProperties, ElementOfSeq DEF TInv, Numbered
<1>9. QueueInv'
  <2>. SUFFICES ASSUME NEW x \in Receivers
                PROVE  /\ last[x] <= got'[x]
                       /\ \A i \in 1..Len(queue'[x]) :
                            /\ last[x] < queue'[x][i][1]
                            /\ queue'[x][i][1] <= got'[x]
                       /\ \A i, j \in 1..Len(queue'[x]) :
                            i < j => queue'[x][i][1] < queue'[x][j][1]
    BY <1>1 DEF QueueInv
  <2>1. CASE x # r
    BY <1>5, <2>1 DEF QueueInv
  <2>2. CASE x = r /\ queue'[r] = queue[r]
    BY <1>6, <1>8, <2>2 DEF QueueInv
  <2>3. CASE x = r /\ queue'[r] = Append(queue[r], s)
    <3>1. \A i \in 1..Len(queue'[r]) :
             \/ i = Len(queue[r]) + 1 /\ queue'[r][i][1] = got[r] + 1
             \/ i \in 1..Len(queue[r]) /\ queue'[r][i] = queue[r][i]
      BY <1>2, <1>4, <2>3
    <3>. QED BY <1>6, <1>8, <2>3, <3>1 DEF QueueInv
  <2>. QED BY <1>7, <2>1, <2>2, <2>3
<1>10. SampleInv'
  <2>. SUFFICES ASSUME NEW w \in Workers, wpc[w] \in {"process", "update"}
                PROVE  /\ last[wrcv[w]] < wsample[w][1]
                       /\ wsample[w][1] <= got'[wrcv[w]]
                       /\ \A i \in 1..Len(queue'[wrcv[w]]) :
                            wsample[w][1] < queue'[wrcv[w]][i][1]
    BY <1>1 DEF SampleInv
  <2>1. wrcv[w] \in Receivers /\ wsample[w][1] \in Nat
    BY DEF ExclInv, Away, TInv, Numbered
  <2>2. /\ last[wrcv[w]] < wsample[w][1] /\ wsample[w][1] <= got[wrcv[w]]
        /\ \A i \in 1..Len(queue[wrcv[w]]) :
             wsample[w][1] < queue[wrcv[w]][i][1]
    BY DEF SampleInv
  <2>3. CASE wrcv[w] # r
    BY <1>5, <2>1, <2>2, <2>3
  <2>4. CASE wrcv[w] = r /\ queue'[r] = queue[r]
    BY <1>6, <1>8, <2>1, <2>2, <2>4
  <2>5. CASE wrcv[w] = r /\ queue'[r] = Append(queue[r], s)
    <3>1. \A i \in 1..Len(queue'[r]) :
             \/ i = Len(queue[r]) + 1 /\ queue'[r][i][1] = got[r] + 1
             \/ i \in 1..Len(queue[r]) /\ queue'[r][i] = queue[r][i]
      BY <1>2, <1>4, <2>5
    <3>. QED BY <1>6, <1>8, <2>1, <2>2, <2>5, <3>1
  <2>. QED BY <1>7, <2>3, <2>4, <2>5
<1>. QED BY <1>9, <1>10

(* A worker takes the first sample: it is older than those left.            *)
LEMMA TakeOrder ==
  ASSUME TxInv, NEW w \in Workers, TakeSample(w)
  PROVE  QueueInv' /\ SampleInv'
<1>. DEFINE r == wrcv[w]
<1>. USE DEF TxInv
<1>1. r \in Receivers /\ job[r] = w /\ UNCHANGED <<got, last, wrcv>>
  BY DEF TakeSample, ExclInv, InJob, Away, progress
<1>2. CASE queue[r] = <<>>
  <2>1. /\ UNCHANGED <<queue, wsample>>
        /\ wpc' = [wpc EXCEPT ![w] = "empty"]
    BY <1>2 DEF TakeSample, Work
  <2>. QED BY <1>1, <2>1, OrderKept DEF TInv
<1>3. CASE queue[r] # <<>>
  <2>1. /\ queue' = [queue EXCEPT ![r] = Tail(queue[r])]
        /\ wsample' = [wsample EXCEPT ![w] = Head(queue[r])]
        /\ wpc' = [wpc EXCEPT ![w] = "process"]
    BY <1>3 DEF TakeSample, Work
  <2>2. /\ Head(queue[r]) = queue[r][1]
        /\ Len(queue[r]) \in Nat /\ Len(queue[r]) > 0
        /\ Len(Tail(queue[r])) = Len(queue[r]) - 1
        /\ \A i \in 1..Len(Tail(queue[r])) :
             Tail(queue[r])[i] = queue[r][i + 1]
    BY <1>1, <1>3, TailKeeps
  <2>3. \A x \in Receivers : x # r => queue'[x] = queue[x]
    BY <2>1 DEF TInv
  <2>4. /\ queue'[r] = Tail(queue[r])
        /\ wsample'[w] = queue[r][1]
    BY <1>1, <2>1, <2>2 DEF TInv
  <2>5. \A i \in 1..Len(queue'[r]) :
          i + 1 \in 1..Len(queue[r]) /\ queue'[r][i] = queue[r][i + 1]
    BY <2>2, <2>4
  <2>. HIDE DEF r
  <2>6. QueueInv'
    <3>. SUFFICES ASSUME NEW x \in Receivers
                  PROVE  /\ last[x] <= got[x]
                         /\ \A i \in 1..Len(queue'[x]) :
                              /\ last[x] < queue'[x][i][1]
                              /\ queue'[x][i][1] <= got[x]
                         /\ \A i, j \in 1..Len(queue'[x]) :
                              i < j => queue'[x][i][1] < queue'[x][j][1]
      BY <1>1 DEF QueueInv
    <3>1. CASE x # r
      BY <2>3, <3>1 DEF QueueInv
    <3>2. CASE x = r
      <4>1. /\ last[r] <= got[r]
            /\ \A i \in 1..Len(queue[r]) : /\ last[r] < queue[r][i][1]
                                           /\ queue[r][i][1] <= got[r]
            /\ \A i, j \in 1..Len(queue[r]) :
                 i < j => queue[r][i][1] < queue[r][j][1]
        BY <1>1 DEF QueueInv
      <4>2. ASSUME NEW i \in 1..Len(queue'[r]), NEW j \in 1..Len(queue'[r]),
                   i < j
            PROVE  queue'[r][i][1] < queue'[r][j][1]
        <5>1. Len(queue'[r]) \in Nat
          BY <2>2, <2>4
        <5>2. i + 1 < j + 1
          BY <4>2, <5>1
        <5>. QED BY <2>5, <4>1, <5>2
      <4>3. ASSUME NEW i \in 1..Len(queue'[r])
            PROVE  last[r] < queue'[r][i][1] /\ queue'[r][i][1] <= got[r]
        BY <2>5, <4>1
      <4>. QED BY <3>2, <4>1, <4>2, <4>3
    <3>. QED BY <3>1, <3>2
  <2>7. SampleInv'
    <3>. SUFFICES ASSUME NEW v \in Workers, wpc'[v] \in {"process", "update"}
                  PROVE  /\ last[wrcv[v]] < wsample'[v][1]
                         /\ wsample'[v][1] <= got[wrcv[v]]
                         /\ \A i \in 1..Len(queue'[wrcv[v]]) :
                              wsample'[v][1] < queue'[wrcv[v]][i][1]
      BY <1>1 DEF SampleInv
    <3>1. CASE v = w
      <4>1. 1 \in 1..Len(queue[r])
        BY <2>2
      <4>2. last[r] < queue[r][1][1] /\ queue[r][1][1] <= got[r]
        BY <1>1, <4>1 DEF QueueInv
      <4>3. \A i \in 1..Len(queue'[r]) : queue[r][1][1] < queue'[r][i][1]
        BY <1>1, <2>2, <2>4, <2>5, <4>1 DEF QueueInv
      <4>. QED BY <2>4, <3>1, <4>2, <4>3 DEF r
    <3>2. CASE v # w
      <4>1. wpc[v] \in {"process", "update"} /\ wsample'[v] = wsample[v]
        BY <2>1, <3>2 DEF TInv
      <4>2. wrcv[v] \in Receivers /\ wrcv[v] # r
        BY <1>1, <3>2, <4>1 DEF ExclInv, InJob, Away, r
      <4>. QED BY <2>3, <4>1, <4>2 DEF SampleInv
    <3>. QED BY <3>1, <3>2
  <2>. QED BY <2>6, <2>7
<1>. QED BY <1>2, <1>3

(* A delivered sample is older than those in the queue.                     *)
LEMMA DeliverOrder ==
  ASSUME TxInv, NEW w \in Workers, EndUpdate(w)
  PROVE  /\ QueueInv' /\ SampleInv'
         /\ \A x \in Receivers : last'[x] # last[x] => last'[x] > last[x]
<1>. DEFINE r == wrcv[w]
<1>. USE DEF TxInv
<1>1. r \in Receivers /\ job[r] = w /\ wpc[w] = "update"
  BY DEF EndUpdate, ExclInv, InJob, Away
<1>2. /\ UNCHANGED <<queue, got, wrcv>>
      /\ last' = [last EXCEPT ![r] = wsample[w][1]]
      /\ wpc' = [wpc EXCEPT ![w] = "take"]
      /\ \A v \in Workers : v # w => wsample'[v] = wsample[v]
  BY DEF EndUpdate, Forget, Work, TInv
<1>3. /\ last[r] < wsample[w][1] /\ wsample[w][1] <= got[r]
      /\ \A i \in 1..Len(queue[r]) : wsample[w][1] < queue[r][i][1]
  BY <1>1 DEF SampleInv
<1>4. wsample[w][1] \in Nat /\ last[r] \in Nat
  BY <1>1 DEF TInv, Numbered
<1>. HIDE DEF r
<1>5. /\ last'[r] = wsample[w][1]
      /\ \A x \in Receivers : x # r => last'[x] = last[x]
  BY <1>1, <1>2 DEF TInv
<1>6. QueueInv'
  <2>. SUFFICES ASSUME NEW x \in Receivers
                PROVE  /\ last'[x] <= got[x]
                       /\ \A i \in 1..Len(queue[x]) :
                            /\ last'[x] < queue[x][i][1]
                            /\ queue[x][i][1] <= got[x]
                       /\ \A i, j \in 1..Len(queue[x]) :
                            i < j => queue[x][i][1] < queue[x][j][1]
    BY <1>2 DEF QueueInv
  <2>1. CASE x # r
    BY <1>5, <2>1 DEF QueueInv
  <2>2. CASE x = r
    BY <1>3, <1>5, <2>2 DEF QueueInv
  <2>. QED BY <2>1, <2>2
<1>7. SampleInv'
  <2>. SUFFICES ASSUME NEW v \in Workers, wpc'[v] \in {"process", "update"}
                PROVE  /\ last'[wrcv[v]] < wsample'[v][1]
                       /\ wsample'[v][1] <= got[wrcv[v]]
                       /\ \A i \in 1..Len(queue[wrcv[v]]) :
                            wsample'[v][1] < queue[wrcv[v]][i][1]
    BY <1>2 DEF SampleInv
  <2>1. v # w /\ wpc[v] \in {"process", "update"}
    BY <1>2 DEF TInv
  <2>2. wrcv[v] \in Receivers /\ wrcv[v] # r
    BY <1>1, <2>1 DEF ExclInv, InJob, Away
  <2>. QED BY <1>2, <1>5, <2>1, <2>2 DEF SampleInv
<1>8. \A x \in Receivers : last'[x] # last[x] => last'[x] > last[x]
  BY <1>3, <1>4, <1>5
<1>. QED BY <1>6, <1>7, <1>8

(* A queue is emptied: nothing is left to be out of order.                  *)
LEMMA EmptyOrder ==
  ASSUME TxInv, NEW r \in Receivers, queue' = [queue EXCEPT ![r] = <<>>],
         UNCHANGED <<got, last, wpc, wrcv, wsample>>
  PROVE  QueueInv' /\ SampleInv'
<1>. USE DEF TxInv
<1>1. queue'[r] = <<>> /\ \A x \in Receivers : x # r => queue'[x] = queue[x]
  BY DEF TInv
<1>2. \A i \in 1..Len(queue'[r]) : FALSE
  BY <1>1
<1>3. QueueInv'
  <2>. SUFFICES ASSUME NEW x \in Receivers
                PROVE  /\ last[x] <= got[x]
                       /\ \A i \in 1..Len(queue'[x]) :
                            /\ last[x] < queue'[x][i][1]
                            /\ queue'[x][i][1] <= got[x]
                       /\ \A i, j \in 1..Len(queue'[x]) :
                            i < j => queue'[x][i][1] < queue'[x][j][1]
    BY DEF QueueInv
  <2>1. CASE x # r
    BY <1>1, <2>1 DEF QueueInv
  <2>2. CASE x = r
    BY <1>2, <2>2 DEF QueueInv
  <2>. QED BY <2>1, <2>2
<1>4. SampleInv'
  <2>. SUFFICES ASSUME NEW w \in Workers, wpc[w] \in {"process", "update"}
                PROVE  /\ last[wrcv[w]] < wsample[w][1]
                       /\ wsample[w][1] <= got[wrcv[w]]
                       /\ \A i \in 1..Len(queue'[wrcv[w]]) :
                            wsample[w][1] < queue'[wrcv[w]][i][1]
    BY DEF SampleInv
  <2>1. wrcv[w] \in Receivers
    BY DEF ExclInv, Away
  <2>2. CASE wrcv[w] # r
    BY <1>1, <2>1, <2>2 DEF SampleInv
  <2>3. CASE wrcv[w] = r
    BY <1>2, <2>3 DEF SampleInv
  <2>. QED BY <2>2, <2>3
<1>. QED BY <1>3, <1>4

(* Every step keeps the order, and delivers what is newer.                  *)
LEMMA OrderStep ==
  ASSUME TxInv, [Next]_vars
  PROVE  /\ QueueInv' /\ SampleInv'
         /\ \A x \in Receivers : last'[x] # last[x] => last'[x] > last[x]
<1>. DEFINE Goal == /\ QueueInv' /\ SampleInv'
                    /\ \A x \in Receivers : last'[x] # last[x]
                                              => last'[x] > last[x]
<1>. USE DEF stores, locks, progress, workers, control
<1>0. TInv
  BY DEF TxInv
<1>1. CASE UNCHANGED <<queue, got, last, wpc, wrcv, wsample>>
  BY <1>1, OrderKept
<1>2. ASSUME NEW r \in Receivers, User(r) PROVE Goal
  <2>1. CASE UnregisterSignal(r)
    BY <2>1, EmptyOrder DEF UnregisterSignal
  <2>2. CASE ~UnregisterSignal(r)
    BY <1>1, <1>2, <2>2 DEF User, RegisterSignal, RegisterListener,
       UnregisterListener
  <2>. QED BY <2>1, <2>2
<1>3. ASSUME NEW r \in Receivers, Driver(r) PROVE Goal
  <2>1. ASSUME NEW k \in Kinds, Receive(r, k) PROVE Goal
    BY <2>1, ReceiveOrder DEF Receive
  <2>2. CASE ReadOpen(r) \/ EnqueueJob(r)
    BY <1>1, <2>2 DEF ReadOpen, EnqueueJob
  <2>. QED BY <1>3, <2>1, <2>2 DEF Driver
<1>4. ASSUME NEW w \in Workers, Worker(w) PROVE Goal
  <2>1. CASE TakeSample(w)
    BY <2>1, TakeOrder DEF TakeSample
  <2>2. CASE EndUpdate(w)
    BY <2>2, DeliverOrder
  <2>3. CASE Refuse(w)
    <3>1. /\ UNCHANGED <<queue, got, last, wrcv>>
          /\ wpc' = [wpc EXCEPT ![w] = "take"]
          /\ wsample' = [wsample EXCEPT ![w] = NoSample]
      BY <2>3 DEF Refuse, Forget, Work
    <3>. QED BY <1>0, <3>1, OrderKept DEF TInv
  <2>4. CASE BeginUpdate(w)
    <3>1. /\ UNCHANGED <<queue, got, last, wrcv, wsample>>
          /\ wpc[w] = "process" /\ wpc' = [wpc EXCEPT ![w] = "update"]
      BY <2>4 DEF BeginUpdate, Work
    <3>. QED BY <1>0, <3>1, OrderKept DEF TInv
  <2>5. CASE TakeJob(w) \/ TryJob(w) \/ UnlockJob(w) \/ WorkerEnd(w)
    <3>1. /\ UNCHANGED <<queue, got, last, wsample>>
          /\ \E p \in Away \cup {"try", "take"} :
               wpc' = [wpc EXCEPT ![w] = p]
          /\ \A v \in Workers : v # w => wrcv'[v] = wrcv[v]
      BY <1>0, <2>5 DEF TakeJob, TryJob, UnlockJob, WorkerEnd, Work, Leave,
         Away, TInv
    <3>. QED BY <1>0, <3>1, OrderKept DEF TInv, Away
  <2>. QED BY <1>4, <2>1, <2>2, <2>3, <2>4, <2>5 DEF Worker
<1>5. CASE Control
  <2>1. CASE Enable \/ ClearJobs
    <3>1. /\ UNCHANGED <<queue, got, last>>
          /\ \A v \in Workers : wpc'[v] \in {"idle", "none"}
      BY <2>1 DEF Enable, ClearJobs
    <3>. QED BY <3>1, OrderKept
  <2>2. ASSUME NEW r \in Receivers, FlushQueue(r) PROVE Goal
    BY <2>2, EmptyOrder DEF FlushQueue
  <2>3. CASE DisallowSignalRegistration \/ AllowSignalRegistration
             \/ SignalWorkers \/ JoinWorkers \/ DisableDone
    BY <1>1, <2>3 DEF DisallowSignalRegistration, AllowSignalRegistration,
       SignalWorkers, JoinWorkers, DisableDone
  <2>. QED BY <1>5, <2>1, <2>2, <2>3 DEF Control, Disable
<1>6. CASE UNCHANGED vars
  BY <1>1, <1>6 DEF vars
<1>. QED BY <1>2, <1>3, <1>4, <1>5, <1>6 DEF Next

-----------------------------------------------------------------------------
(* The invariant holds in every reachable state.                            *)
THEOREM TxInvariant == Spec => []TxInv
<1>1. TxInv /\ [Next]_vars => TxInv'
  BY TStep, ExclStep, OrderStep DEF TxInv
<1>. QED BY <1>1, InitTxInv, PTL DEF Spec

(* However many workers take jobs of a receiver, its listeners see its      *)
(* samples in the order they arrived in.                                    *)
THEOREM InOrder == Spec => DeliveredInOrder
<1>1. TxInv /\ [Next]_vars
        => [\A r \in Receivers : last'[r] # last[r] => last'[r] > last[r]]_vars
  BY OrderStep
<1>. QED BY <1>1, TxInvariant, PTL DEF Spec, DeliveredInOrder

(* The listeners of a receiver do not change while they are called.         *)
THEOREM ListStays == Spec => ListKeptInUpdate
<1>. DEFINE Kept == \A w \in Workers : wpc[w] = "update" /\ wpc'[w] = "update"
                       => lst'[wrcv[w]] = lst[wrcv[w]]
<1>1. ASSUME TxInv, Next PROVE Kept
  <2>. USE DEF stores, locks, progress, workers, control
  <2>1. CASE UNCHANGED lst
    BY <2>1
  <2>2. ASSUME NEW r \in Receivers, User(r) PROVE Kept
    <3>1. CASE RegisterSignal(r)
      BY <2>1, <3>1 DEF RegisterSignal
    <3>2. CASE ~RegisterSignal(r)
      <4>1. lock[r] = NoOne /\ \A x \in Receivers : x # r => lst'[x] = lst[x]
        BY <1>1, <2>2, <3>2 DEF User, UnregisterSignal, RegisterListener,
           UnregisterListener, TxInv, TInv
      <4>2. \A w \in Workers : wpc[w] = "update"
                                 => wrcv[w] \in Receivers /\ wrcv[w] # r
        BY <1>1, <4>1, TransmissionAssumption DEF TxInv, ExclInv, Away
      <4>. QED BY <4>1, <4>2
    <3>. QED BY <3>1, <3>2
  <2>3. ASSUME NEW r \in Receivers, Driver(r) PROVE UNCHANGED lst
    BY <2>3 DEF Driver, Receive, ReadOpen, EnqueueJob
  <2>4. ASSUME NEW w \in Workers, Worker(w) PROVE UNCHANGED lst
    BY <2>4 DEF Worker, TakeJob, TryJob, TakeSample, UnlockJob, Refuse,
       BeginUpdate, EndUpdate, WorkerEnd
  <2>5. CASE Control
    BY <2>1, <2>5 DEF Control, Enable, DisallowSignalRegistration,
       AllowSignalRegistration, Disable, SignalWorkers, JoinWorkers,
       ClearJobs, FlushQueue, DisableDone
  <2>. QED BY <1>1, <2>1, <2>2, <2>3, <2>4, <2>5 DEF Next
<1>2. TxInv /\ [Next]_vars => [Kept]_vars
  BY <1>1
<1>. QED BY <1>2, TxInvariant, PTL DEF Spec, ListKeptInUpdate

-----------------------------------------------------------------------------
(* Signals that are unregistered only while the adapter is disabled: what   *)
(* could still lead a worker to a receiver.  Jobs, workers and the driver   *)
(* know receivers that are alive only; Disable leaves no job and no worker, *)
(* and no thread of the driver that is about to post one.                   *)
AliveInv ==
  /\ active \in [Receivers -> BOOLEAN]
  /\ \A r \in Receivers : /\ bus[r] # "idle" => active[r]
                          /\ active[r] => rcv[r] = "alive"
  /\ \A i \in 1..Len(jobs) : rcv[jobs[i]] = "alive"
  /\ NoDeadReceiver

CtlInv ==
  /\ ctl \in {"clear", "flush", "off"} => ~open
  /\ ctl \in {"flush", "off"} =>
       /\ jobs = <<>> /\ \A w \in Workers : wpc[w] = "none"
       /\ \A r \in Receivers : bus[r] # "post"

(* What Disable has closed stays closed.                                    *)
LEMMA CtlStep == TInv /\ CtlInv /\ [Next]_vars => CtlInv'
<1>. SUFFICES ASSUME TInv, CtlInv, [Next]_vars PROVE CtlInv'
  OBVIOUS
<1>. USE DEF CtlInv, stores, locks, progress, workers, control
<1>1. ASSUME NEW r \in Receivers, User(r) PROVE CtlInv'
  BY <1>1 DEF User, RegisterSignal, UnregisterSignal, RegisterListener,
     UnregisterListener
<1>2. ASSUME NEW r \in Receivers, Driver(r) PROVE CtlInv'
  BY <1>2 DEF Driver, Receive, ReadOpen, EnqueueJob, Bus, TInv
<1>3. ASSUME NEW w \in Workers, Worker(w) PROVE CtlInv'
  <2>1. wpc[w] # "none" /\ UNCHANGED <<ctl, open>>
    BY <1>3 DEF Worker, TakeJob, TryJob, TakeSample, UnlockJob, Refuse,
       BeginUpdate, EndUpdate, WorkerEnd
  <2>2. ctl' \notin {"flush", "off"}
    BY <2>1
  <2>. QED BY <2>1, <2>2
<1>4. CASE Control
  BY <1>4 DEF Control, Enable, DisallowSignalRegistration, ClearJobs,
     AllowSignalRegistration, Disable, SignalWorkers, JoinWorkers, FlushQueue,
     DisableDone
<1>5. CASE UNCHANGED vars
  BY <1>5 DEF vars
<1>. QED BY <1>1, <1>2, <1>3, <1>4, <1>5 DEF Next

(* Nothing leads to a receiver that is gone.                                *)
LEMMA AliveStep ==
  ASSUME TInv, ExclInv, CtlInv, AliveInv, [Next]_vars, ~Rush PROVE AliveInv'
<1>. USE DEF AliveInv, NoDeadReceiver, stores, locks, progress, workers,
             control, TInv
<1>1. ASSUME NEW r \in Receivers, User(r) PROVE AliveInv'
  <2>1. CASE RegisterSignal(r)
    BY <2>1 DEF RegisterSignal, Away, ExclInv
  <2>2. CASE UnregisterSignal(r)
    <3>1. jobs' = <<>> /\ \A w \in Workers : wpc'[w] = "none"
      BY <2>2 DEF UnregisterSignal, CtlInv
    <3>. QED BY <2>2, <3>1 DEF UnregisterSignal
  <2>3. CASE ~RegisterSignal(r) /\ ~UnregisterSignal(r)
    BY SMTT(30), <1>1, <2>3 DEF User, RegisterListener, UnregisterListener
  <2>. QED BY <2>1, <2>2, <2>3
<1>2. ASSUME NEW r \in Receivers, Driver(r) PROVE AliveInv'
  <2>1. ASSUME NEW k \in Kinds, Receive(r, k) PROVE AliveInv'
    <3>1. /\ bus' = bus \/ bus' = [bus EXCEPT ![r] = "queued"]
          /\ active[r] /\ UNCHANGED <<rcv, active, jobs, wpc, wrcv>>
      BY <2>1 DEF Receive, Bus
    <3>. QED BY <3>1
  <2>2. CASE ReadOpen(r)
    BY <2>2 DEF ReadOpen, Bus
  <2>3. CASE EnqueueJob(r)
    <3>1. /\ Len(Append(jobs, r)) = Len(jobs) + 1 /\ Len(jobs) \in Nat
          /\ \A i \in 1..Len(jobs) : Append(jobs, r)[i] = jobs[i]
          /\ Append(jobs, r)[Len(jobs) + 1] = r
      BY AppendProperties
    <3>2. rcv[r] = "alive"
      BY <2>3 DEF EnqueueJob
    <3>3. \A i \in 1..Len(jobs') : rcv[jobs'[i]] = "alive"
      BY <2>3, <3>1, <3>2 DEF EnqueueJob
    <3>. QED BY <2>3, <3>3 DEF EnqueueJob, Bus
  <2>. QED BY <1>2, <2>1, <2>2, <2>3 DEF Driver
<1>3. ASSUME NEW w \in Workers, Worker(w) PROVE AliveInv'
  <2>. USE DEF Work, Leave, Forget
  <2>1. CASE TakeJob(w)
    <3>1. /\ Head(jobs) = jobs[1] /\ Head(jobs) \in Receivers
          /\ 1 \in 1..Len(jobs)
          /\ \A i \in 1..Len(Tail(jobs)) :
               i + 1 \in 1..Len(jobs) /\ Tail(jobs)[i] = jobs[i + 1]
      BY <2>1, HeadTailProperties, LenProperties DEF TakeJob
    <3>2. \A i \in 1..Len(jobs') : rcv[jobs'[i]] = "alive"
      BY <2>1, <3>1 DEF TakeJob
    <3>3. rcv[Head(jobs)] = "alive"
      BY <3>1
    <3>4. wpc' = [wpc EXCEPT ![w] = "try"]
          /\ wrcv' = [wrcv EXCEPT ![w] = Head(jobs)]
          /\ UNCHANGED <<rcv, active, bus>>
      BY <2>1 DEF TakeJob
    <3>5. wrcv'[w] = Head(jobs)
      BY <3>4
    <3>6. \A v \in Workers : v # w => wpc'[v] = wpc[v] /\ wrcv'[v] = wrcv[v]
      BY <3>4
    <3>7. \A v \in Workers : wpc'[v] \notin {"none", "idle", "gone"} =>
                             rcv'[wrcv'[v]] = "alive"
      BY <3>3, <3>4, <3>5, <3>6
    <3>. QED BY <3>2, <3>4, <3>7
  <2>2. CASE ~TakeJob(w)
    <3>1. /\ UNCHANGED <<rcv, active, bus, jobs>>
          /\ wpc[w] = "idle" \/ wpc[w] \notin Away
          /\ wpc[w] = "idle" => wpc' = [wpc EXCEPT ![w] = "gone"]
          /\ \E p \in InJob \cup Away : wpc' = [wpc EXCEPT ![w] = p]
          /\ \/ UNCHANGED wrcv
             \/ /\ wpc'[w] \in Away
                /\ \A v \in Workers : v # w => wrcv'[v] = wrcv[v]
      BY <1>3, <2>2 DEF Worker, TryJob, TakeSample, UnlockJob, Refuse,
         BeginUpdate, EndUpdate, WorkerEnd, InJob, Away
    <3>. QED BY <3>1 DEF Away
  <2>. QED BY <2>1, <2>2
<1>4. CASE Control
  <2>1. CASE Enable
    <3>1. /\ UNCHANGED <<rcv, bus, jobs>>
          /\ \A w \in Workers : wpc'[w] = "idle"
          /\ active' = [r \in Receivers |-> rcv[r] = "alive"]
      BY <2>1 DEF Enable
    <3>. QED BY <3>1
  <2>2. CASE ClearJobs
    BY <2>2 DEF ClearJobs
  <2>3. ASSUME NEW r \in Receivers, FlushQueue(r) PROVE AliveInv'
    BY <2>3 DEF FlushQueue
  <2>4. CASE DisallowSignalRegistration \/ AllowSignalRegistration
             \/ SignalWorkers \/ JoinWorkers \/ DisableDone
    BY <2>4 DEF DisallowSignalRegistration, AllowSignalRegistration,
       SignalWorkers, JoinWorkers, DisableDone
  <2>. QED BY <1>4, <2>1, <2>2, <2>3, <2>4 DEF Control, Disable
<1>5. CASE UNCHANGED vars
  BY <1>5 DEF vars
<1>. QED BY <1>1, <1>2, <1>3, <1>4, <1>5 DEF Next

(* If signals are unregistered only while the adapter is disabled, no       *)
(* worker comes to a receiver that is gone.                                 *)
THEOREM NoneDead == ~Rush => (Spec => []NoDeadReceiver)
<1>1. SUFFICES ASSUME ~Rush PROVE Spec => []NoDeadReceiver
  OBVIOUS
<1>2. Init => CtlInv /\ AliveInv
  BY DEF Init, CtlInv, AliveInv, NoDeadReceiver
<1>3. TxInv /\ CtlInv /\ AliveInv /\ [Next]_vars => CtlInv' /\ AliveInv'
  BY <1>1, CtlStep, AliveStep DEF TxInv
<1>4. AliveInv => NoDeadReceiver
  BY DEF AliveInv
<1>. QED BY <1>2, <1>3, <1>4, TxInvariant, PTL DEF Spec

-----------------------------------------------------------------------------
(* The containers.  m_mtxJob lets one worker at most have a sample of a     *)
(* receiver, so that the containers with the workers are one or none.       *)
Active == {"process", "update"}
Held(r) == IF \E w \in Workers : wrcv[w] = r /\ wpc[w] \in Active
           THEN 1 ELSE 0

(* A receiver that is not alive has no samples, nowhere.                    *)
Account(r) ==
  IF rcv[r] = "alive"
  THEN pool[r] + Len(queue[r]) + Held(r) + lost[r] = Pool
  ELSE queue[r] = <<>> /\ Held(r) = 0 /\ lost[r] = 0

AccountInv ==
  /\ pool \in [Receivers -> Nat] /\ lost \in [Receivers -> Nat]
  /\ \A r \in Receivers : Account(r)

JoinInv == ctl = "clear" => \A w \in Workers : wpc[w] = "gone"

(* What is joined stays joined.                                             *)
LEMMA JoinStep == TInv /\ JoinInv /\ [Next]_vars => JoinInv'
<1>. SUFFICES ASSUME TInv, JoinInv, [Next]_vars PROVE JoinInv'
  OBVIOUS
<1>. USE DEF JoinInv, stores, locks, progress, workers, control
<1>1. ASSUME NEW r \in Receivers, User(r) \/ Driver(r) PROVE JoinInv'
  BY <1>1 DEF User, RegisterSignal, UnregisterSignal, RegisterListener,
     UnregisterListener, Driver, Receive, ReadOpen, EnqueueJob
<1>2. ASSUME NEW w \in Workers, Worker(w) PROVE JoinInv'
  <2>1. wpc[w] # "gone" /\ UNCHANGED ctl
    BY <1>2 DEF Worker, TakeJob, TryJob, TakeSample, UnlockJob, Refuse,
       BeginUpdate, EndUpdate, WorkerEnd
  <2>. QED BY <2>1
<1>3. CASE Control
  BY <1>3 DEF Control, Enable, DisallowSignalRegistration, ClearJobs,
     AllowSignalRegistration, Disable, SignalWorkers, JoinWorkers, FlushQueue,
     DisableDone
<1>4. CASE UNCHANGED vars
  BY <1>4 DEF vars
<1>. QED BY <1>1, <1>2, <1>3, <1>4 DEF Next

(* A step that moves no container of the receiver x.                        *)
LEMMA AccountKept ==
  ASSUME NEW x \in Receivers, Account(x), rcv'[x] = rcv[x],
         pool'[x] = pool[x], queue'[x] = queue[x], lost'[x] = lost[x],
         \A w \in Workers : (wrcv'[w] = x /\ wpc'[w] \in Active)
                              <=> (wrcv[w] = x /\ wpc[w] \in Active)
  PROVE  Account(x)'
<1>1. Held(x)' = Held(x)
  BY DEF Held
<1>. QED BY <1>1 DEF Account

(* A sample arrives.                                                        *)
LEMMA ReceiveAccount ==
  ASSUME TxInv, AccountInv, NEW r \in Receivers, NEW k \in Kinds, Receive(r, k)
  PROVE  AccountInv'
<1>. DEFINE s == <<got[r] + 1, k>>
<1>1. /\ UNCHANGED <<rcv, wpc, wrcv>> /\ rcv[r] = "alive"
      /\ \/ UNCHANGED <<pool, queue, lost>>
         \/ /\ pool[r] > 0 /\ pool' = [pool EXCEPT ![r] = @ - 1]
            /\ lost' = [lost EXCEPT ![r] = @ + 1] /\ UNCHANGED queue
         \/ /\ pool[r] > 0 /\ pool' = [pool EXCEPT ![r] = @ - 1]
            /\ queue' = [queue EXCEPT ![r] = Append(@, s)] /\ UNCHANGED lost
  BY DEF Receive, workers, stores
<1>2. s \in Numbered
  <2>1. k \in {"good", "bad", "big"} /\ got[r] + 1 \in Nat
    BY TransmissionAssumption DEF TxInv, TInv
  <2>. QED BY <2>1 DEF Numbered
<1>3. /\ Len(Append(queue[r], s)) = Len(queue[r]) + 1
      /\ Len(queue[r]) \in Nat /\ queue \in [Receivers -> Seq(Numbered)]
  BY <1>2, AppendProperties DEF TxInv, TInv
<1>. HIDE DEF s
<1>4. /\ pool[r] \in Nat /\ lost[r] \in Nat /\ pool \in [Receivers -> Nat]
      /\ lost \in [Receivers -> Nat]
      /\ pool[r] + Len(queue[r]) + Held(r) + lost[r] = Pool
  BY <1>1 DEF AccountInv, Account
<1>5. Held(r)' = Held(r) /\ Held(r) \in {0, 1}
  BY <1>1 DEF Held
<1>. DEFINE Kept == /\ pool' \in [Receivers -> Nat] /\ lost' \in [Receivers -> Nat]
                    /\ \A x \in Receivers : x # r => /\ pool'[x] = pool[x]
                                                     /\ lost'[x] = lost[x]
                                                     /\ queue'[x] = queue[x]
                    /\ pool'[r] + Len(queue'[r]) + Held(r) + lost'[r] = Pool
<1>6. ASSUME UNCHANGED <<pool, queue, lost>> PROVE Kept
  BY <1>4, <1>6
<1>7. ASSUME pool[r] > 0, pool' = [pool EXCEPT ![r] = @ - 1],
             lost' = [lost EXCEPT ![r] = @ + 1], UNCHANGED queue
      PROVE  Kept
  <2>1. /\ pool'[r] = pool[r] - 1 /\ lost'[r] = lost[r] + 1
        /\ pool[r] - 1 \in Nat /\ lost[r] + 1 \in Nat
    BY <1>4, <1>7
  <2>2. pool' \in [Receivers -> Nat] /\ lost' \in [Receivers -> Nat]
    BY <1>4, <1>7, <2>1
  <2>3. (pool[r] - 1) + Len(queue[r]) + Held(r) + (lost[r] + 1) = Pool
    <3>1. \A a, b, c, d \in Int : (a - 1) + b + c + (d + 1) = a + b + c + d
      OBVIOUS
    <3>2. /\ pool[r] \in Int /\ Len(queue[r]) \in Int /\ Held(r) \in Int
          /\ lost[r] \in Int
      BY <1>3, <1>4, <1>5
    <3>. QED BY ONLY <1>4, <3>1, <3>2
  <2>. QED BY <1>4, <1>7, <2>1, <2>2, <2>3
<1>8. ASSUME pool[r] > 0, pool' = [pool EXCEPT ![r] = @ - 1],
             queue' = [queue EXCEPT ![r] = Append(@, s)], UNCHANGED lost
      PROVE  Kept
  <2>1. /\ pool'[r] = pool[r] - 1 /\ pool[r] - 1 \in Nat
        /\ queue'[r] = Append(queue[r], s)
    BY <1>3, <1>4, <1>8
  <2>2. pool' \in [Receivers -> Nat]
    BY <1>4, <1>8, <2>1
  <2>3. (pool[r] - 1) + (Len(queue[r]) + 1) + Held(r) + lost[r] = Pool
    BY ONLY <1>3, <1>4, <1>5
  <2>4. pool'[r] + Len(queue'[r]) + Held(r) + lost'[r] = Pool
    BY ONLY <1>3, <1>8, <2>1, <2>3
  <2>. QED BY <1>3, <1>4, <1>8, <2>2, <2>4
<1>. HIDE DEF Kept
<1>9. Kept
  BY <1>1, <1>6, <1>7, <1>8
<1>10. Account(r)'
  BY <1>1, <1>5, <1>9 DEF Account, Kept
<1>11. \A x \in Receivers : x # r => Account(x)'
  BY <1>1, <1>9, AccountKept DEF AccountInv, Kept
<1>. QED BY <1>9, <1>10, <1>11 DEF AccountInv, Kept

(* A worker takes the first sample with its container, if there is one.     *)
LEMMA TakeAccount ==
  ASSUME TxInv, AccountInv, NEW w \in Workers, TakeSample(w)
  PROVE  AccountInv'
<1>. PICK r \in Receivers : r = wrcv[w]
  BY DEF TakeSample, TxInv, ExclInv, Away
<1>1. /\ wpc[w] = "take" /\ UNCHANGED <<rcv, pool, lost, wrcv>>
      /\ wpc \in [Workers -> InJob \cup Away \cup {"try"}]
      /\ queue \in [Receivers -> Seq(Numbered)] /\ job[r] = w
      /\ pool \in [Receivers -> Nat] /\ lost \in [Receivers -> Nat]
  BY DEF TakeSample, TxInv, TInv, ExclInv, InJob, AccountInv
<1>2. \A v \in Workers : v # w /\ wpc[v] \in Active => wrcv[v] # r
  BY <1>1 DEF TxInv, ExclInv, InJob, Active
<1>3. CASE queue[r] = <<>>
  <2>1. wpc' = [wpc EXCEPT ![w] = "empty"] /\ UNCHANGED queue
    BY <1>3 DEF TakeSample, Work
  <2>. QED BY <1>1, <2>1, AccountKept DEF AccountInv, Active
<1>4. CASE queue[r] # <<>>
  <2>1. /\ wpc' = [wpc EXCEPT ![w] = "process"]
        /\ queue' = [queue EXCEPT ![r] = Tail(queue[r])]
    BY <1>4 DEF TakeSample, Work
  <2>2. Len(Tail(queue[r])) = Len(queue[r]) - 1 /\ Len(queue[r]) \in Nat
    BY <1>4, TailKeeps DEF TxInv
  <2>3. rcv[r] = "alive"
    BY <1>4 DEF AccountInv, Account
  <2>4. Held(r) = 0 /\ Held(r)' = 1
    BY <1>1, <1>2, <2>1 DEF Held, Active
  <2>5. queue'[r] = Tail(queue[r]) /\ pool[r] \in Nat /\ lost[r] \in Nat
    BY <1>1, <2>1
  <2>6. pool[r] + Len(queue[r]) + Held(r) + lost[r] = Pool
    BY <2>3 DEF AccountInv, Account
  <2>7. pool[r] + (Len(queue[r]) - 1) + 1 + lost[r] = Pool
    BY ONLY <2>2, <2>4, <2>5, <2>6
  <2>8. Account(r)'
    BY <1>1, <2>2, <2>3, <2>4, <2>5, <2>7 DEF Account
  <2>9. \A x \in Receivers : x # r => Account(x)'
    BY <1>1, <2>1, AccountKept DEF AccountInv, Active
  <2>. QED BY <1>1, <2>8, <2>9 DEF AccountInv
<1>. QED BY <1>3, <1>4

(* A worker gives its container back.                                       *)
LEMMA GiveBackAccount ==
  ASSUME TxInv, AccountInv, NEW w \in Workers, wpc[w] \in Active,
         pool' = [pool EXCEPT ![wrcv[w]] = @ + 1],
         wpc' = [wpc EXCEPT ![w] = "take"],
         UNCHANGED <<rcv, queue, lost, wrcv>>
  PROVE  AccountInv'
<1>. PICK r \in Receivers : r = wrcv[w]
  BY DEF TxInv, ExclInv, Away, Active
<1>1. /\ wpc \in [Workers -> InJob \cup Away \cup {"try"}]
      /\ queue[r] \in Seq(Numbered) /\ Len(queue[r]) \in Nat /\ job[r] = w
      /\ pool \in [Receivers -> Nat] /\ lost \in [Receivers -> Nat]
  BY LenProperties DEF TxInv, TInv, ExclInv, InJob, Active, AccountInv
<1>2. \A v \in Workers : v # w /\ wpc[v] \in Active => wrcv[v] # r
  BY <1>1 DEF TxInv, ExclInv, InJob, Active
<1>3. Held(r) = 1 /\ Held(r)' = 0
  BY <1>1, <1>2 DEF Held, Active
<1>4. rcv[r] = "alive" /\ pool[r] + Len(queue[r]) + Held(r) + lost[r] = Pool
  BY <1>3 DEF AccountInv, Account
<1>5. pool'[r] = pool[r] + 1 /\ pool[r] \in Nat /\ lost[r] \in Nat
  BY <1>1
<1>6. (pool[r] + 1) + Len(queue[r]) + 0 + lost[r] = Pool
  BY ONLY <1>1, <1>3, <1>4, <1>5
<1>7. Account(r)'
  BY <1>3, <1>4, <1>5, <1>6 DEF Account
<1>8. \A x \in Receivers : x # r => Account(x)'
  BY <1>1, AccountKept DEF AccountInv, Active
<1>9. pool' \in [Receivers -> Nat]
  BY <1>1, <1>5
<1>. QED BY <1>1, <1>7, <1>8, <1>9 DEF AccountInv

(* A receiver begins with all its containers, and takes them with it.       *)
LEMMA RegisterAccount ==
  ASSUME TxInv, AccountInv, NEW r \in Receivers,
         RegisterSignal(r) \/ UnregisterSignal(r)
  PROVE  AccountInv'
<1>0. UNCHANGED <<wpc, wrcv>> /\ TInv
  BY DEF RegisterSignal, UnregisterSignal, workers, TxInv
<1>1. CASE RegisterSignal(r)
  <2>1. /\ rcv[r] = "unborn" /\ rcv' = [rcv EXCEPT ![r] = "alive"]
        /\ pool' = [pool EXCEPT ![r] = Pool] /\ UNCHANGED <<queue, lost>>
    BY <1>1 DEF RegisterSignal
  <2>2. queue[r] = <<>> /\ Held(r)' = 0 /\ lost[r] = 0 /\ Len(<<>>) = 0
    BY <1>0, <2>1 DEF AccountInv, Account, Held
  <2>3. Account(r)'
    BY <1>0, <2>1, <2>2, TransmissionAssumption DEF Account, AccountInv, TInv
  <2>4. \A x \in Receivers : x # r => Account(x)'
    BY <1>0, <2>1, AccountKept DEF AccountInv, TInv
  <2>. QED BY <2>1, <2>3, <2>4, TransmissionAssumption DEF AccountInv
<1>2. CASE UnregisterSignal(r)
  <2>1. /\ job[r] = NoOne /\ rcv' = [rcv EXCEPT ![r] = "dead"]
        /\ pool' = [pool EXCEPT ![r] = 0] /\ lost' = [lost EXCEPT ![r] = 0]
        /\ queue' = [queue EXCEPT ![r] = <<>>]
    BY <1>2 DEF UnregisterSignal
  <2>2. Held(r)' = 0
    BY <1>0, <2>1, TransmissionAssumption DEF Held, TxInv, ExclInv, InJob, Active
  <2>3. Account(r)'
    BY <1>0, <2>1, <2>2 DEF Account, AccountInv, TInv
  <2>4. \A x \in Receivers : x # r => Account(x)'
    BY <1>0, <2>1, AccountKept DEF AccountInv, TInv
  <2>. QED BY <2>1, <2>3, <2>4 DEF AccountInv
<1>. QED BY <1>1, <1>2

(* What is left in the queue returns to the pool.                           *)
LEMMA FlushAccount ==
  ASSUME TxInv, AccountInv, NEW r \in Receivers, FlushQueue(r)
  PROVE  AccountInv'
<1>1. /\ pool' = [pool EXCEPT ![r] = @ + Len(queue[r])]
      /\ queue' = [queue EXCEPT ![r] = <<>>]
      /\ UNCHANGED <<rcv, lost, wpc, wrcv>>
  BY DEF FlushQueue, workers
<1>2. /\ queue \in [Receivers -> Seq(Numbered)] /\ Len(queue[r]) \in Nat
      /\ pool \in [Receivers -> Nat] /\ lost \in [Receivers -> Nat]
  BY LenProperties DEF TxInv, TInv, AccountInv
<1>3. /\ pool'[r] = pool[r] + Len(queue[r]) /\ queue'[r] = <<>>
      /\ Len(queue'[r]) = 0 /\ pool[r] \in Nat /\ lost[r] \in Nat
      /\ Held(r)' = Held(r) /\ Held(r) \in {0, 1}
  BY <1>1, <1>2 DEF Held
<1>4. Account(r)'
  <2>1. CASE rcv[r] = "alive"
    <3>1. pool[r] + Len(queue[r]) + Held(r) + lost[r] = Pool
      BY <2>1 DEF AccountInv, Account
    <3>2. (pool[r] + Len(queue[r])) + 0 + Held(r) + lost[r] = Pool
      BY ONLY <1>2, <1>3, <3>1
    <3>. QED BY <1>1, <1>3, <2>1, <3>2 DEF Account
  <2>2. CASE rcv[r] # "alive"
    BY <1>1, <1>3, <2>2 DEF AccountInv, Account
  <2>. QED BY <2>1, <2>2
<1>5. \A x \in Receivers : x # r => Account(x)'
  BY <1>1, <1>2, AccountKept DEF AccountInv
<1>6. pool' \in [Receivers -> Nat]
  BY <1>1, <1>2, <1>3
<1>. QED BY <1>1, <1>2, <1>4, <1>5, <1>6 DEF AccountInv

(* Every step accounts for the containers.                                  *)
LEMMA AccountStep ==
  ASSUME TxInv, CtlInv, JoinInv, AccountInv, [Next]_vars
  PROVE  AccountInv'
<1>. USE DEF stores, locks, progress, workers, control
<1>0. TInv
  BY DEF TxInv
<1>1. ASSUME UNCHANGED <<rcv, pool, queue, lost>>,
             \A v \in Workers, x \in Receivers :
               (wrcv'[v] = x /\ wpc'[v] \in Active)
                 <=> (wrcv[v] = x /\ wpc[v] \in Active)
      PROVE  AccountInv'
  BY <1>1, AccountKept DEF AccountInv
<1>2. ASSUME NEW r \in Receivers, User(r) PROVE AccountInv'
  <2>1. CASE RegisterSignal(r) \/ UnregisterSignal(r)
    BY <2>1, RegisterAccount
  <2>2. ASSUME NEW l \in Listeners,
               RegisterListener(r, l) \/ UnregisterListener(r, l)
        PROVE  AccountInv'
    BY <1>1, <2>2 DEF RegisterListener, UnregisterListener
  <2>. QED BY <1>2, <2>1, <2>2 DEF User
<1>3. ASSUME NEW r \in Receivers, Driver(r) PROVE AccountInv'
  <2>1. CASE ReadOpen(r) \/ EnqueueJob(r)
    BY <1>1, <2>1 DEF ReadOpen, EnqueueJob
  <2>. QED BY <1>3, <2>1, ReceiveAccount DEF Driver
<1>4. ASSUME NEW w \in Workers, Worker(w) PROVE AccountInv'
  <2>1. CASE TakeSample(w)
    BY <2>1, TakeAccount
  <2>2. CASE Refuse(w)
    BY <2>2, GiveBackAccount DEF Refuse, Forget, Work, Active
  <2>3. CASE EndUpdate(w)
    BY <2>3, GiveBackAccount DEF EndUpdate, Forget, Work, Active
  <2>4. CASE BeginUpdate(w)
    <3>1. /\ UNCHANGED <<rcv, pool, queue, lost, wrcv>>
          /\ wpc[w] = "process" /\ wpc' = [wpc EXCEPT ![w] = "update"]
      BY <2>4 DEF BeginUpdate, Work
    <3>. QED BY <1>0, <1>1, <3>1 DEF TInv, Active
  <2>5. CASE TakeJob(w) \/ TryJob(w) \/ UnlockJob(w) \/ WorkerEnd(w)
    <3>1. /\ UNCHANGED <<rcv, pool, queue, lost>> /\ wpc[w] \notin Active
          /\ \E p \in Away \cup {"try", "take"} : wpc' = [wpc EXCEPT ![w] = p]
          /\ \A v \in Workers : v # w => wrcv'[v] = wrcv[v]
      BY <1>0, <2>5 DEF TakeJob, TryJob, UnlockJob, WorkerEnd, Work, Leave,
         Away, TInv, Active
    <3>. QED BY <1>0, <1>1, <3>1 DEF TInv, Away, Active
  <2>. QED BY <1>4, <2>1, <2>2, <2>3, <2>4, <2>5 DEF Worker
<1>5. CASE Control
  <2>1. CASE Enable \/ ClearJobs
    <3>1. /\ UNCHANGED <<rcv, pool, queue, lost, wrcv>>
          /\ \A v \in Workers : /\ wpc'[v] \in {"idle", "none"}
                                /\ wpc[v] \in {"none", "gone"}
      BY <2>1 DEF Enable, ClearJobs, CtlInv, JoinInv
    <3>. QED BY <1>1, <3>1 DEF Active
  <2>2. ASSUME NEW r \in Receivers, FlushQueue(r) PROVE AccountInv'
    BY <2>2, FlushAccount
  <2>3. CASE DisallowSignalRegistration \/ AllowSignalRegistration
             \/ SignalWorkers \/ JoinWorkers \/ DisableDone
    BY <1>1, <2>3 DEF DisallowSignalRegistration, AllowSignalRegistration,
       SignalWorkers, JoinWorkers, DisableDone
  <2>. QED BY <1>5, <2>1, <2>2, <2>3 DEF Control, Disable
<1>6. CASE UNCHANGED vars
  BY <1>1, <1>6 DEF vars
<1>. QED BY <1>2, <1>3, <1>4, <1>5, <1>6 DEF Next

(* The workers of a receiver that have a sample are one or none.            *)
LEMMA HeldIsBusy ==
  ASSUME TInv, ExclInv, NEW r \in Receivers
  PROVE  Cardinality(Busy(r)) = Held(r)
<1>1. CASE \E w \in Workers : wrcv[w] = r /\ wpc[w] \in Active
  <2>1. PICK w \in Workers : wrcv[w] = r /\ wpc[w] \in Active
    BY <1>1
  <2>2. \A v \in Busy(r) : v = w
    BY <2>1 DEF Busy, ExclInv, InJob, Active
  <2>3. Busy(r) = {w}
    BY <2>1, <2>2 DEF Busy, Active
  <2>. QED BY <1>1, <2>3, FS_Singleton DEF Held
<1>2. CASE ~ \E w \in Workers : wrcv[w] = r /\ wpc[w] \in Active
  <2>1. Busy(r) = {}
    BY <1>2 DEF Busy, Active
  <2>. QED BY <1>2, <2>1, FS_EmptySet DEF Held
<1>. QED BY <1>1, <1>2

(* No container of a receiver is lost or used twice, whoever unregisters    *)
(* what and when, and however the adapter is enabled and disabled.          *)
THEOREM ContainersStay == Spec => []ContainersAccounted
<1>1. Init => CtlInv /\ JoinInv /\ AccountInv
  BY DEF Init, CtlInv, JoinInv, AccountInv, Account, Held, Active
<1>2. TxInv /\ CtlInv /\ JoinInv /\ AccountInv /\ [Next]_vars
        => CtlInv' /\ JoinInv' /\ AccountInv'
  BY CtlStep, JoinStep, AccountStep DEF TxInv
<1>3. TxInv /\ AccountInv => ContainersAccounted
  BY HeldIsBusy DEF TxInv, AccountInv, Account, ContainersAccounted, Alive
<1>. QED BY <1>1, <1>2, <1>3, TxInvariant, PTL DEF Spec
=============================================================================
