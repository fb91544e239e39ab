-------------------------------- MODULE Ddb --------------------------------
(***************************************************************************)
(* Frames of samples from a sender's counter to the readers of the         *)
(* distributed data buffer: cSignalCounter numbers the samples it sends,   *)
(* cDataListenerAdapter watches the numbers for gaps, cDDB collects the    *)
(* samples of a frame in its write buffer, passes full frames on through   *)
(* the stock buffer, and its thread hands them to the read buffer.         *)
(*                                                                         *)
(* Of a sample the model keeps the numbers, the sync flag and, in place of *)
(* the payload, the run of the sender it comes from.  A buffer whose       *)
(* m_bIsCurrent is false has no valid samples and size 0, which is what    *)
(* its getters then return.                                                *)
(***************************************************************************)
EXTENDS Integers, FiniteSets, Sequences

CONSTANTS
  Readers,      \* threads that poll with LockData
  Depth,        \* szMaxDepth: the slots of a frame
  Dump,         \* m_nDDBDeliverStrategy is DDBDS_DumpIncomplete
  Together,     \* the sender starts anew only after the receiver was reset
  MaxLength,    \* bound: samples of a frame
  MaxSamples,   \* bound: samples that are sent
  MaxRuns,      \* bound: how often the sender registers its signal
  MaxLost,      \* bound: samples the bus loses
  MaxResets,    \* bound: ResetData
  MaxWire,      \* bound: samples under way
  MaxCalls      \* bound: LockData of each reader

ASSUME DdbAssumption ==
  /\ Depth \in Nat \ {0} /\ Dump \in BOOLEAN /\ Together \in BOOLEAN
  /\ {MaxLength, MaxSamples, MaxRuns, MaxLost, MaxResets, MaxWire, MaxCalls}
       \subseteq Nat

VARIABLES
  run, frame, no,     \* cSignalCounter: its life, m_nFrameId, m_nSampleNumber
  sent, lost, wire,   \* samples sent, lost, and under way to the receiver
  prev, missed,       \* cDataListenerAdapter: m_nPrev..., m_nMissedDataSamples
  upd,                \* the sample in cDDB::Update, which holds the write guard
  ddbPrev,            \* cDDB: m_nPrev...
  read, stock, write, \* the three frames
  full,               \* m_bStockIsFull
  ready,              \* m_oEventFrameReady
  pc,                 \* where the thread of the DDB is
  held,               \* readers that hold m_oLockBufferRead shared
  last,               \* the sample that identifies the last frame delivered
  life,               \* of the DDB: "live", "released", "waked", "gone"
  resets, calls       \* what is used up of the bounds

sender   == <<run, frame, no, sent>>
adapter  == <<prev, missed>>
buffers  == <<read, stock, write, full>>
thread   == <<pc, last>>
bounds   == <<resets, calls>>
vars == <<sender, lost, wire, adapter, upd, ddbPrev, buffers, ready, thread,
          held, life, bounds>>

-----------------------------------------------------------------------------
Sample(r, f, n, s) == [run |-> r, frame |-> f, no |-> n, sync |-> s]
Samples == [run : 0 .. MaxRuns, frame : 0 .. MaxSamples,
            no : 0 .. MaxLength, sync : BOOLEAN]

(* The state of a slot that was never written, or was invalidated.         *)
Blank == Sample(0, 0, 0, FALSE)

(* m_nPrevFrameId, m_nPrevSampleNumber and m_bPrevSyncFlag at first.       *)
NoPrev == Sample(0, 0, 0, TRUE)

(* No sample is in Update: frames are numbered from 1.                     *)
NoSample == Blank

Slots  == 0 .. Depth - 1
Frames == [slot : [Slots -> Samples], valid : SUBSET Slots,
           size : 0 .. Depth + 1]

InvalidateData == [slot |-> [i \in Slots |-> Blank], valid |-> {}, size |-> 0]

(* Samples at or beyond szMaxSize are refused with ERR_MEMORY.             *)
SetSample(b, s) ==
  IF s.no < Depth
  THEN [slot |-> [b.slot EXCEPT ![s.no] = s], valid |-> {}, size |-> 0]
  ELSE b

(* A mutant: the last slot counts as the end of the frame whether or not    *)
(* it has the sync flag.                                                   *)
AnalyseUnsynced(b) ==
  LET valid == {i \in Slots : /\ b.slot[i].frame # 0
                              /\ \A j \in Slots :
                                   b.slot[j].frame <= b.slot[i].frame}
      end   == CHOOSE i \in valid : \A j \in valid : j <= i
  IN  [b EXCEPT !.valid = valid, !.size = IF valid = {} THEN 0 ELSE end + 1]

(* The samples of the largest frame number are the valid ones; the last of *)
(* them tells the size: one more is missing if it has no sync flag.        *)
AnalyseFrame(b) ==
  LET valid == {i \in Slots : /\ b.slot[i].frame # 0
                              /\ \A j \in Slots :
                                   b.slot[j].frame <= b.slot[i].frame}
      end   == CHOOSE i \in valid : \A j \in valid : j <= i
  IN  [b EXCEPT !.valid = valid,
                !.size  = IF valid = {} THEN 0
                          ELSE IF b.slot[end].sync THEN end + 1 ELSE end + 2]

IsComplete(b) == b.size # 0 /\ Cardinality(b.valid) = b.size

-----------------------------------------------------------------------------
Init ==
  /\ run = 1 /\ frame = 1 /\ no = 0
  /\ sent = {} /\ lost = {} /\ wire = << >>
  /\ prev = NoPrev /\ missed = 0
  /\ upd = NoSample /\ ddbPrev = NoPrev
  /\ read = InvalidateData /\ stock = InvalidateData /\ write = InvalidateData
  /\ full = FALSE /\ ready = 0
  /\ pc = "wait" /\ last = NoPrev
  /\ held = {}
  /\ life = "live"
  /\ resets = 0 /\ calls = [r \in Readers |-> 0]

(* SendNow with a TransmitData that succeeds (a failed one is not counted  *)
(* and changes nothing); the bus may lose the sample.                      *)
SendNow(sync, arrives) ==
  LET s == Sample(run, frame, no, sync) IN
  /\ life = "live" /\ Cardinality(sent) < MaxSamples
  /\ no + 1 = MaxLength => sync
  /\ IF sync THEN no' = 0 /\ frame' = frame + 1
             ELSE no' = no + 1 /\ frame' = frame
  /\ sent' = sent \cup {s}
  /\ IF arrives
     THEN /\ Len(wire) < MaxWire
          /\ wire' = Append(wire, s) /\ lost' = lost
     ELSE /\ Cardinality(lost) < MaxLost
          /\ wire' = wire /\ lost' = lost \cup {s}
  /\ UNCHANGED <<run, adapter, upd, ddbPrev, buffers, ready, thread, held,
                 life, bounds>>

(* The sender's participant registers its signal again: a new counter.     *)
ConfigureSampleCounter ==
  /\ life = "live" /\ run < MaxRuns
  /\ Together => wire = << >> /\ upd = NoSample /\ ddbPrev = NoPrev
  /\ run' = run + 1 /\ frame' = 1 /\ no' = 0
  /\ UNCHANGED <<sent, lost, wire, adapter, upd, ddbPrev, buffers, ready,
                 thread, held, life, bounds>>

-----------------------------------------------------------------------------
(* A mutant: without the third condition.                                   *)
MissingByNumber(s) ==
  \/ s.frame > prev.frame + 1
  \/ s.no > prev.no + 1

(* The conditions under which cDataListenerAdapter reports a loss.         *)
Missing(s) ==
  \/ s.frame > prev.frame + 1
  \/ s.no > prev.no + 1
  \/ s.frame > prev.frame /\ ~prev.sync

(* A queue worker updates the listeners of the signal, one after another:  *)
(* the adapter of a user's listener, then the DDB, which takes the guard   *)
(* of the write buffer.                                                    *)
Receive ==
  /\ wire # << >> /\ upd = NoSample
  /\ wire' = Tail(wire)
  /\ prev' = Head(wire)
  /\ missed' = missed + (IF Missing(Head(wire)) THEN 1 ELSE 0)
  /\ upd' = IF life = "live" THEN Head(wire) ELSE NoSample
  /\ UNCHANGED <<sender, lost, ddbPrev, buffers, ready, thread, held, life,
                 bounds>>

(* A mutant: the event is notified for every frame.                         *)
SwitchAndNotify(b) ==
  IF Dump /\ ~IsComplete(b)
  THEN write' = b /\ UNCHANGED <<stock, full, ready>>
  ELSE stock' = b /\ write' = stock /\ full' = TRUE /\ ready' = ready + 1

(* An incomplete frame stays in the write buffer if the strategy says so;  *)
(* a frame that is still in the stock buffer is lost to the new one.       *)
SwitchWriteBuffer(b) ==
  IF Dump /\ Cardinality(b.valid) # b.size
  THEN write' = b /\ UNCHANGED <<stock, full, ready>>
  ELSE /\ stock' = b /\ write' = stock /\ full' = TRUE
       /\ ready' = IF full THEN ready ELSE ready + 1

(* The first sample of a later frame while the sync flag of the last one   *)
(* is outstanding: what the write buffer has is passed on as it is.  That  *)
(* this is done the model notes in ddbPrev, which Update overwrites.       *)
MissedSync ==
  /\ upd # NoSample
  /\ upd.frame > ddbPrev.frame /\ ~ddbPrev.sync
  /\ SwitchWriteBuffer(AnalyseFrame(write))
  /\ ddbPrev' = [ddbPrev EXCEPT !.sync = TRUE]
  /\ UNCHANGED <<sender, lost, wire, adapter, upd, read, thread, held, life,
                 bounds>>

(* The sample is stored, and its sync flag passes the frame on.            *)
Update ==
  /\ upd # NoSample
  /\ ~(upd.frame > ddbPrev.frame /\ ~ddbPrev.sync)
  /\ IF upd.sync
     THEN SwitchWriteBuffer(AnalyseFrame(SetSample(write, upd)))
     ELSE write' = SetSample(write, upd) /\ UNCHANGED <<stock, full, ready>>
  /\ ddbPrev' = upd /\ upd' = NoSample
  /\ UNCHANGED <<sender, lost, wire, adapter, read, thread, held, life,
                 bounds>>

-----------------------------------------------------------------------------
(* The condition of the loop of ThreadFunc: m_oShutdownThread.             *)
LoopHead == IF life = "live" THEN "wait" ELSE "ended"

(* A mutant: the thread does not wait for readers.                          *)
ReadyUnlessHeld ==
  /\ pc = "wait" /\ ready > 0
  /\ ready' = ready - 1
  /\ pc' = IF life = "live" /\ held = {} THEN "lock" ELSE LoopHead
  /\ UNCHANGED <<sender, lost, wire, adapter, upd, ddbPrev, buffers, last,
                 held, life, bounds>>

(* ThreadFunc: after the wait the shutdown is checked, else the thread     *)
(* asks for the exclusive lock.                                            *)
FrameReady ==
  /\ pc = "wait" /\ ready > 0
  /\ ready' = ready - 1
  /\ pc' = IF life = "live" THEN "lock" ELSE "ended"
  /\ UNCHANGED <<sender, lost, wire, adapter, upd, ddbPrev, buffers, last,
                 held, life, bounds>>

(* What identifies the frame of a buffer, if it has one.                   *)
FrameOf(b) == IF b.valid = {} THEN Blank
              ELSE b.slot[CHOOSE i \in b.valid : TRUE]

(* A mutant: the buffers are switched without the exclusive lock.           *)
SwitchUnlocked ==
  /\ pc = "lock"
  /\ IF full THEN /\ stock' = read /\ read' = stock /\ full' = FALSE
                  /\ pc' = "notify"
             ELSE pc' = LoopHead /\ UNCHANGED <<stock, read, full>>
  /\ UNCHANGED <<sender, lost, wire, adapter, upd, ddbPrev, write, ready,
                 last, held, life, bounds>>

(* The thread gets the exclusive lock and switches stock and read buffer.  *)
(* The model passes from it to the shared lock of ProcessDDBSync at once;  *)
(* in the code a reset can come in between and leave an empty frame for the*)
(* listeners, which in the model a reset before the switch does.           *)
SwitchReadBuffer ==
  /\ pc = "lock" /\ held = {}
  /\ IF full THEN /\ stock' = read /\ read' = stock /\ full' = FALSE
                  /\ pc' = "notify"
             ELSE pc' = LoopHead /\ UNCHANGED <<stock, read, full>>
  /\ UNCHANGED <<sender, lost, wire, adapter, upd, ddbPrev, write, ready,
                 last, held, life, bounds>>

(* The listeners have returned, under the listener guard and a shared lock.*)
ProcessDDBSync ==
  /\ pc = "notify"
  /\ pc' = LoopHead
  /\ last' = IF read.valid # {} THEN FrameOf(read) ELSE last
  /\ UNCHANGED <<sender, lost, wire, adapter, upd, ddbPrev, buffers, ready,
                 held, life, bounds>>

-----------------------------------------------------------------------------
(* A waiting writer keeps new readers out of m_oLockBufferRead.  LockData  *)
(* keeps the lock when it answers ERR_EMPTY as well.                       *)
LockData(r) ==
  /\ life = "live" /\ r \notin held /\ pc # "lock"
  /\ calls[r] < MaxCalls
  /\ held' = held \cup {r}
  /\ calls' = [calls EXCEPT ![r] = @ + 1]
  /\ UNCHANGED <<sender, lost, wire, adapter, upd, ddbPrev, buffers, ready,
                 thread, life, resets>>

UnlockData(r) ==
  /\ r \in held
  /\ held' = held \ {r}
  /\ UNCHANGED <<sender, lost, wire, adapter, upd, ddbPrev, buffers, ready,
                 thread, life, bounds>>

(* A mutant: the write buffer keeps what it has.                            *)
ResetAllButWrite ==
  /\ life = "live" /\ resets < MaxResets
  /\ held = {} /\ pc # "notify" /\ upd = NoSample
  /\ read' = InvalidateData /\ stock' = InvalidateData
  /\ ddbPrev' = NoPrev
  /\ lost' = lost \cup {wire[i] : i \in DOMAIN wire} /\ wire' = << >>
  /\ resets' = resets + 1
  /\ UNCHANGED <<sender, adapter, upd, write, full, ready, thread, held,
                 life, calls>>

(* The module enters FS_IDLE: reception is disabled, what is queued is     *)
(* flushed, and the DDB forgets its samples under its three locks; that a  *)
(* frame waits in the stock buffer it does not forget.                     *)
ResetData ==
  /\ life = "live" /\ resets < MaxResets
  /\ held = {} /\ pc # "notify" /\ upd = NoSample
  /\ read' = InvalidateData /\ stock' = InvalidateData
  /\ write' = InvalidateData /\ ddbPrev' = NoPrev
  /\ lost' = lost \cup {wire[i] : i \in DOMAIN wire} /\ wire' = << >>
  /\ resets' = resets + 1
  /\ UNCHANGED <<sender, adapter, upd, full, ready, thread, held, life,
                 calls>>

-----------------------------------------------------------------------------
(* DestroyDDBEntry: the listener is taken from the receiver, the destructor*)
(* releases the shared locks and tells the thread to end.                  *)
Destroy ==
  /\ life = "live" /\ upd = NoSample
  /\ life' = "released" /\ held' = {}
  /\ UNCHANGED <<sender, lost, wire, adapter, upd, ddbPrev, buffers, ready,
                 thread, bounds>>

Wake ==
  /\ life = "released"
  /\ life' = "waked" /\ full' = FALSE /\ ready' = ready + 1
  /\ UNCHANGED <<sender, lost, wire, adapter, upd, ddbPrev, read, stock,
                 write, thread, held, bounds>>

(* The thread is joined and the memory of the frames is given back.        *)
DeleteMemory ==
  /\ life = "waked" /\ pc = "ended"
  /\ life' = "gone"
  /\ read' = InvalidateData /\ stock' = InvalidateData
  /\ write' = InvalidateData
  /\ UNCHANGED <<sender, lost, wire, adapter, upd, ddbPrev, full, ready,
                 thread, held, bounds>>

(* Nothing has to happen once the module destroys the DDB, except what     *)
(* DestroyCompletes says.                                                  *)
Finished == life # "live" /\ UNCHANGED vars

Thread == FrameReady \/ SwitchReadBuffer \/ ProcessDDBSync
Receiver == Receive \/ MissedSync \/ Update
Destruction == Wake \/ DeleteMemory

Next ==
  \/ \E sync, arrives \in BOOLEAN : SendNow(sync, arrives)
  \/ ConfigureSampleCounter
  \/ Receiver \/ Thread
  \/ \E r \in Readers : LockData(r) \/ UnlockData(r)
  \/ ResetData
  \/ Destroy \/ Destruction
  \/ Finished

Spec == Init /\ [][Next]_vars

(* Threads run, readers unlock what they have locked, callbacks return.    *)
FairSpec ==
  /\ Spec
  /\ WF_vars(Receiver) /\ WF_vars(Thread) /\ WF_vars(Destruction)
  /\ \A r \in Readers : WF_vars(UnlockData(r))

-----------------------------------------------------------------------------
(* Types.                                                                  *)
TypeOK ==
  /\ run \in 1 .. MaxRuns /\ frame \in 1 .. MaxSamples + 1
  /\ no \in 0 .. MaxLength
  /\ sent \subseteq Samples /\ lost \subseteq sent
  /\ wire \in Seq(Samples) /\ Len(wire) <= MaxWire
  /\ prev \in Samples /\ missed \in Nat
  /\ upd \in Samples /\ ddbPrev \in Samples
  /\ {read, stock, write} \subseteq Frames
  /\ full \in BOOLEAN /\ ready \in 0 .. 2
  /\ pc \in {"wait", "lock", "notify", "ended"}
  /\ last \in Samples
  /\ held \subseteq Readers
  /\ life \in {"live", "released", "waked", "gone"}
  /\ resets \in 0 .. MaxResets
  /\ calls \in [Readers -> 0 .. MaxCalls]

(* The event and the stock buffer agree: the thread is told exactly once   *)
(* of a frame in the stock buffer, however often it is overwritten there   *)
(* (SwitchWriteBuffer, "notify (only once!)"), so no frame is left behind  *)
(* and none is announced twice.                                            *)
EventMatchesStock ==
  life = "live" =>
    ready + (IF pc = "lock" THEN 1 ELSE 0) = (IF full THEN 1 ELSE 0)

(* The samples that were sent of the frame that s belongs to.              *)
SentWith(s) == {t \in sent : t.run = s.run /\ t.frame = s.frame}

(* A frame that readers find complete is what the sender sent as one       *)
(* frame, every sample of it and none of another frame, although slots     *)
(* keep the samples of earlier frames (AnalyseFrame, IsComplete).          *)
CompleteIsWhole ==
  \A b \in {read, stock} :
    IsComplete(b) =>
      {b.slot[i] : i \in b.valid} = SentWith(b.slot[0])

Earlier(s, t) == \/ s.run < t.run
                 \/ s.run = t.run /\ s.frame < t.frame

(* No sample was sent that the buffers have no slot for.                   *)
FramesFit == \A s \in sent : s.no < Depth

(* Frames reach the sync listeners in the order they were sent, each one   *)
(* once, whatever was dropped in between (ThreadFunc, SwitchReadBuffer).   *)
(* The frames have to fit: Update ignores that SetSample refuses a sample  *)
(* beyond the last slot, and passes on an older frame of the write buffer  *)
(* when nothing else of the frame has arrived.                             *)
DeliveredOnce ==
  [][pc = "lock" /\ pc' = "notify" /\ read'.valid # {} /\ FramesFit =>
       Earlier(last, FrameOf(read'))]_vars

(* A reader between LockData and UnlockData sees a frame that nobody       *)
(* changes, nor does a listener during ProcessDDBSync.                     *)
ReadFrameStays ==
  [][\/ held \cap held' # {}
     \/ pc = "notify" /\ pc' = "notify"
     => read' = read]_vars

(* When the last sample of a frame is lost, the adapter reports it with    *)
(* the next sample it gets of that run of the sender.                      *)
LostSyncNoticed ==
  [][\A s \in lost :
       /\ prev' # prev /\ prev.run = s.run /\ s.run = prev'.run
       /\ s.sync /\ Earlier(s, prev') /\ ~Earlier(s, prev)
       => missed' > missed]_vars

(* Every report of the adapter is due to a loss of its own.                *)
NoFalseAlarm == missed <= Cardinality(lost)

(* A lost end of a frame is reported, and only a loss is.                  *)
LossesReported == LostSyncNoticed /\ []NoFalseAlarm

(* A frame in the stock buffer is passed on to the read buffer.            *)
StockIsServed == full ~> ~full

(* Whoever destroys the DDB gets its thread joined.                        *)
DestroyCompletes == life = "released" ~> life = "gone"

(* The thread of the DDB passes every frame on, and ends when it is told.  *)
ThreadServes == StockIsServed /\ DestroyCompletes
=============================================================================
