----------------------------- MODULE DdbProofs -----------------------------
(***************************************************************************)
(* Proofs about the distributed data buffer, for frames and sample rates   *)
(* of any size, any number of readers, losses, resets and runs of the      *)
(* sender.                                                                 *)
(***************************************************************************)
EXTENDS Ddb, FiniteSetTheorems, WellFoundedInduction, TLAPS

(* What the proofs need of the types.                                       *)
StockType == ready \in Nat /\ full \in BOOLEAN

(* Nobody holds the read buffer once the destruction has begun.             *)
LockInv == life # "live" => held = {}

(* The inductive invariant.                                                 *)
DInv == StockType /\ EventMatchesStock /\ LockInv

-----------------------------------------------------------------------------
(* A frame that is passed on is announced if none was waiting.              *)
LEMMA SwitchAnnounces ==
  ASSUME StockType, EventMatchesStock, NEW b, SwitchWriteBuffer(b),
         UNCHANGED <<pc, life>>
  PROVE  StockType' /\ EventMatchesStock'
<1>. USE DEF StockType, EventMatchesStock
<1>1. CASE UNCHANGED <<full, ready>>
  BY <1>1
<1>2. CASE full' = TRUE /\ full /\ ready' = ready
  BY <1>2
<1>3. CASE full' = TRUE /\ ~full /\ ready' = ready + 1
  BY <1>3
<1>. QED BY <1>1, <1>2, <1>3 DEF SwitchWriteBuffer

(* The thread of the DDB takes an announcement and a frame together.        *)
LEMMA ThreadStep ==
  ASSUME StockType, EventMatchesStock, Thread
  PROVE  StockType' /\ EventMatchesStock'
<1>. USE DEF StockType, EventMatchesStock, LoopHead, buffers
<1>1. CASE FrameReady
  BY <1>1 DEF FrameReady
<1>2. CASE SwitchReadBuffer
  <2>1. UNCHANGED <<ready, life>> /\ pc = "lock"
    BY <1>2 DEF SwitchReadBuffer
  <2>2. CASE full
    <3>1. full' = FALSE /\ pc' = "notify"
      BY <1>2, <2>2 DEF SwitchReadBuffer
    <3>2. ~full' /\ full' \in BOOLEAN
      BY <3>1, Zenon
    <3>3. pc' = "notify"
      BY <3>1
    <3>. QED BY <2>1, <2>2, <3>2, <3>3
  <2>3. CASE ~full
    <3>1. full' = full /\ life # "live"
      BY <1>2, <2>1, <2>3 DEF SwitchReadBuffer
    <3>. QED BY <2>1, <3>1
  <2>. QED BY <2>2, <2>3
<1>3. CASE ProcessDDBSync
  BY <1>3 DEF ProcessDDBSync
<1>. QED BY <1>1, <1>2, <1>3 DEF Thread

(* Every step preserves the invariant.                                      *)
LEMMA DStep == DInv /\ [Next]_vars => DInv'
<1>. SUFFICES ASSUME DInv, [Next]_vars PROVE DInv'
  OBVIOUS
<1>. USE DEF DInv, sender, adapter, buffers, thread, bounds
<1>1. CASE UNCHANGED <<ready, full, pc, life, held>>
  BY <1>1 DEF StockType, EventMatchesStock, LockInv
<1>2. ASSUME NEW sync \in BOOLEAN, NEW arrives \in BOOLEAN,
             SendNow(sync, arrives)
      PROVE  DInv'
  BY <1>1, <1>2 DEF SendNow
<1>3. CASE ConfigureSampleCounter
  BY <1>1, <1>3 DEF ConfigureSampleCounter
<1>4. CASE Receiver
  <2>1. CASE Receive
    BY <1>1, <2>1 DEF Receive
  <2>2. CASE MissedSync
    <3>1. SwitchWriteBuffer(AnalyseFrame(write)) /\ UNCHANGED <<pc, life, held>>
      BY <2>2 DEF MissedSync
    <3>. QED BY <3>1, SwitchAnnounces DEF LockInv
  <2>3. CASE Update
    <3>1. UNCHANGED <<pc, life, held>>
      BY <2>3 DEF Update
    <3>2. CASE upd.sync
      <4>1. SwitchWriteBuffer(AnalyseFrame(SetSample(write, upd)))
        BY <2>3, <3>2 DEF Update
      <4>. QED BY <3>1, <4>1, SwitchAnnounces DEF LockInv
    <3>3. CASE ~upd.sync
      BY <1>1, <2>3, <3>1, <3>3 DEF Update
    <3>. QED BY <3>2, <3>3
  <2>. QED BY <1>4, <2>1, <2>2, <2>3 DEF Receiver
<1>5. CASE Thread
  <2>1. UNCHANGED <<life, held>>
    BY <1>5 DEF Thread, FrameReady, SwitchReadBuffer, ProcessDDBSync
  <2>. QED BY <1>5, <2>1, ThreadStep DEF LockInv
<1>6. ASSUME NEW r \in Readers, LockData(r) PROVE DInv'
  BY <1>6 DEF LockData, StockType, EventMatchesStock, LockInv
<1>7. ASSUME NEW r \in Readers, UnlockData(r) PROVE DInv'
  BY <1>7 DEF UnlockData, StockType, EventMatchesStock, LockInv
<1>8. CASE ResetData
  BY <1>1, <1>8 DEF ResetData
<1>9. CASE Destroy
  BY <1>9 DEF Destroy, StockType, EventMatchesStock, LockInv
<1>10. CASE Destruction
  <2>1. life' # "live" /\ held' = held /\ life # "live"
    BY <1>10 DEF Destruction, Wake, DeleteMemory
  <2>2. full' = FALSE \/ full' = full
    BY <1>10 DEF Destruction, Wake, DeleteMemory
  <2>3. full' \in BOOLEAN
    BY <2>2, Zenon DEF StockType
  <2>4. ready' = ready + 1 \/ ready' = ready
    BY <1>10 DEF Destruction, Wake, DeleteMemory
  <2>. QED BY <2>1, <2>3, <2>4 DEF StockType, EventMatchesStock, LockInv
<1>11. CASE UNCHANGED vars
  BY <1>1, <1>11 DEF vars
<1>. QED BY <1>2, <1>3, <1>4, <1>5, <1>6, <1>7, <1>8, <1>9, <1>10, <1>11
         DEF Next, Finished

(* The invariant holds in every reachable state.                            *)
THEOREM DdbInvariant == Spec => []DInv
<1>1. Init => DInv
  <2>. SUFFICES ASSUME Init PROVE DInv
    OBVIOUS
  <2>1. ready = 0 /\ full = FALSE /\ pc = "wait" /\ held = {}
    BY DEF Init
  <2>2. ~full /\ full \in BOOLEAN
    BY <2>1, Zenon
  <2>3. ready = 0 /\ pc = "wait" /\ held = {}
    BY <2>1
  <2>. QED BY <2>2, <2>3 DEF DInv, StockType, EventMatchesStock, LockInv
<1>. QED BY <1>1, DStep, PTL DEF Spec

(* m_oEventFrameReady counts exactly the frame in the stock buffer, for     *)
(* frames of any length and any interleaving of senders, readers, resets.   *)
THEOREM EventExact == Spec => []EventMatchesStock
BY DdbInvariant, PTL DEF DInv

(* A frame does not change under a reader that has locked it, nor under a   *)
(* sync listener.                                                           *)
THEOREM LockedFrameStays == Spec => ReadFrameStays
<1>. DEFINE Kept == held \cap held' # {} \/ (pc = "notify" /\ pc' = "notify")
                      => read' = read
<1>1. DInv /\ [Next]_vars => [Kept]_vars
  <2>. SUFFICES ASSUME DInv, Next PROVE Kept
    BY DEF vars
  <2>. USE DEF sender, adapter, buffers, thread, bounds
  <2>1. CASE SwitchReadBuffer
    BY <2>1 DEF SwitchReadBuffer
  <2>2. CASE ResetData
    BY <2>2 DEF ResetData
  <2>3. CASE DeleteMemory
    BY <2>3 DEF DeleteMemory, DInv, LockInv
  <2>4. CASE ~SwitchReadBuffer /\ ~ResetData /\ ~DeleteMemory
    <3>1. read' = read
      BY <2>4 DEF Next, SendNow, ConfigureSampleCounter, Receiver, Receive,
         MissedSync, Update, Thread, FrameReady, ProcessDDBSync, LockData,
         UnlockData, Destroy, Destruction, Wake, Finished, vars,
         SwitchWriteBuffer
    <3>. QED BY <3>1
  <2>. QED BY <2>1, <2>2, <2>3, <2>4
<1>. QED BY DdbInvariant, <1>1, PTL DEF Spec, ReadFrameStays

-----------------------------------------------------------------------------
(* What the buffers hold, when the sender starts anew only together with    *)
(* the receiver.                                                            *)
Msg == [run : Nat, frame : Nat, no : Nat, sync : BOOLEAN]
Frm == [slot : [Slots -> Msg], valid : SUBSET Slots, size : Nat]

(* The samples ss that a sender in its run r, at frame f and sample n, has  *)
(* sent: the numbers identify a sample, and the last one of a frame is the  *)
(* one with the sync flag.                                                  *)
GoodSent(ss, r, f, n) ==
  /\ ss \subseteq Msg /\ r \in Nat \ {0} /\ f \in Nat \ {0} /\ n \in Nat
  /\ \A s \in ss : s.frame # 0 /\ s.run <= r
  /\ \A s \in ss : s.run = r => s.frame <= f
  /\ \A s \in ss : s.run = r /\ s.frame = f => s.no < n /\ ~s.sync
  /\ \A s, t \in ss : s.run = t.run /\ s.frame = t.frame =>
       (s.no = t.no => s = t) /\ (s.sync => t.no <= s.no)

(* A sample of the current run on its way.                                  *)
GoodSample(s, ss, r) == s \in ss /\ s.run = r

(* A frame whose slots are blank or hold what was sent for them, and whose  *)
(* analysis, if there was one since, is that of its slots.                  *)
GoodFrame(b, ss, r) ==
  /\ b \in Frm
  /\ \A i \in Slots : \/ b.slot[i] = Blank
                      \/ (GoodSample(b.slot[i], ss, r) /\ b.slot[i].no = i)
  /\ (b.valid = {} /\ b.size = 0) \/ b = AnalyseFrame(b)

SentInv  == GoodSent(sent, run, frame, no)
WireInv  == /\ wire \in Seq(Msg)
            /\ \A i \in 1 .. Len(wire) : GoodSample(wire[i], sent, run)
            /\ upd # NoSample => GoodSample(upd, sent, run) /\ life = "live"
FrameInv == /\ GoodFrame(read, sent, run)
            /\ GoodFrame(stock, sent, run)
            /\ GoodFrame(write, sent, run)
PrevInv  == /\ ddbPrev \in Msg
            /\ ddbPrev.frame = 0 => /\ ddbPrev = NoPrev
                                   /\ read = InvalidateData
                                   /\ stock = InvalidateData
                                   /\ write = InvalidateData

(* The inductive invariant of CompleteIsWhole.                              *)
WInv == SentInv /\ WireInv /\ FrameInv /\ PrevInv

-----------------------------------------------------------------------------
(* The order of the frames, from the sender to the listeners.               *)

(* A sample of frame f may come after s.                                    *)
Before(s, f) == s.frame < f \/ (s.frame = f /\ ~s.sync)

(* Nothing more comes of the frame of s, from a sender in run r at frame f, *)
(* a queue w, a sample u in Update and a last sample p.                     *)
Past(s, r, f, w, u, p) ==
  \/ s.run < r
  \/ /\ s.run = r /\ s.frame < f
     /\ \A i \in 1 .. Len(w) : s.frame < w[i].frame
     /\ u # NoSample => s.frame < u.frame
     /\ ~p.sync => s.frame < p.frame

Behind(s) == Past(s, run, frame, wire, upd, ddbPrev)

QueueInv ==
  /\ Before(ddbPrev, frame)
  /\ \A i \in 1 .. Len(wire) : Before(ddbPrev, wire[i].frame)
  /\ \A i, j \in 1 .. Len(wire) : i < j => Before(wire[i], wire[j].frame)
  /\ upd # NoSample => /\ Before(ddbPrev, upd.frame)
                       /\ \A i \in 1 .. Len(wire) : Before(upd, wire[i].frame)

(* No slot has a frame later than that of the last sample, which is itself  *)
(* in the write buffer as long as the frame is open.                        *)
SlotInv ==
  /\ \A i \in Slots : /\ read.slot[i].frame <= ddbPrev.frame
                      /\ stock.slot[i].frame <= ddbPrev.frame
                      /\ write.slot[i].frame <= ddbPrev.frame
  /\ life = "live" /\ ~ddbPrev.sync =>
       /\ ddbPrev.no \in Slots
       /\ write.slot[ddbPrev.no].frame = ddbPrev.frame

(* What was delivered is behind, and earlier than what is to be delivered.  *)
PassInv ==
  /\ last \in Msg /\ Behind(last)
  /\ full => \A i \in stock.valid : /\ Behind(stock.slot[i])
                                    /\ Earlier(last, stock.slot[i])
  /\ pc = "notify" =>
       \A i \in read.valid :
         /\ Behind(read.slot[i])
         /\ full => \A j \in stock.valid :
                      Earlier(read.slot[i], stock.slot[j])

(* The inductive invariant of DeliveredOnce.                                *)
OInv == WInv /\ QueueInv /\ (FramesFit => SlotInv /\ PassInv)

-----------------------------------------------------------------------------
(* A set of slots has a last one.                                           *)
LEMMA LargestSlot ==
  ASSUME NEW n \in Nat, NEW V \in SUBSET (0 .. n), V # {}
  PROVE  \E i \in V : \A j \in V : j <= i
<1>. DEFINE T == {n - i : i \in V}
            R == OpToRel(<, Nat)
<1>1. T \subseteq Nat /\ T # {}
  <2>1. \A i \in V : n - i \in Nat
    OBVIOUS
  <2>2. PICK i \in V : TRUE
    OBVIOUS
  <2>3. n - i \in T
    BY <2>2
  <2>. QED BY <2>1, <2>3
<1>2. PICK x \in T : \A y \in T : ~(<<y, x>> \in R)
  <2>. HIDE DEF T
  <2>. QED BY <1>1, NatLessThanWellFounded, WFMin
<1>3. \A y \in T : ~(y < x)
  BY <1>1, <1>2 DEF OpToRel
<1>4. PICK i \in V : x = n - i
  BY <1>2
<1>5. \A j \in V : ~(n - j < n - i)
  BY <1>3, <1>4
<1>. QED BY <1>4, <1>5

(* What AnalyseFrame finds out.                                             *)
LEMMA AnalyseFinds ==
  ASSUME NEW b \in Frm
  PROVE  LET a == AnalyseFrame(b) IN
         /\ a \in Frm /\ a.slot = b.slot /\ a = AnalyseFrame(a)
         /\ a.valid = {i \in Slots : /\ b.slot[i].frame # 0
                                     /\ \A j \in Slots :
                                          b.slot[j].frame <= b.slot[i].frame}
         /\ a.valid = {} => a.size = 0
         /\ a.valid # {} =>
              \E e \in a.valid :
                /\ \A j \in a.valid : j <= e
                /\ a.size = IF b.slot[e].sync THEN e + 1 ELSE e + 2
<1>. DEFINE V == {i \in Slots : /\ b.slot[i].frame # 0
                                /\ \A j \in Slots :
                                     b.slot[j].frame <= b.slot[i].frame}
            e == CHOOSE i \in V : \A j \in V : j <= i
            z == IF V = {} THEN 0 ELSE IF b.slot[e].sync THEN e + 1 ELSE e + 2
            a == AnalyseFrame(b)
<1>1. a = [b EXCEPT !.valid = V, !.size = z]
  BY DEF AnalyseFrame
<1>2. a = [slot |-> b.slot, valid |-> V, size |-> z]
  BY <1>1 DEF Frm
<1>3. V # {} => e \in V /\ \A j \in V : j <= e
  <2>. SUFFICES ASSUME V # {} PROVE \E i \in V : \A j \in V : j <= i
    OBVIOUS
  <2>1. Depth - 1 \in Nat /\ V \in SUBSET (0 .. Depth - 1)
    BY DdbAssumption DEF Slots
  <2>. HIDE DEF V
  <2>. QED BY <2>1, LargestSlot
<1>4. V \subseteq Slots /\ Slots \subseteq Nat
  BY DEF Slots
<1>5. z \in Nat
  <2>1. CASE V = {}
    BY <2>1
  <2>2. CASE V # {}
    <3>1. e \in Nat
      BY <1>3, <1>4, <2>2
    <3>2. e + 1 \in Nat /\ e + 2 \in Nat
      BY <3>1
    <3>3. z = e + 1 \/ z = e + 2
      BY <2>2
    <3>. QED BY <3>2, <3>3
  <2>. QED BY <2>1, <2>2
<1>6. AnalyseFrame(a) = [a EXCEPT !.valid = V, !.size = z]
  <2>1. a.slot = b.slot
    BY <1>2
  <2>. QED BY <2>1 DEF AnalyseFrame
<1>7. AnalyseFrame(a) = a
  <2>. HIDE DEF a, V, z
  <2>. QED BY <1>2, <1>6
<1>8. a \in Frm
  <2>. HIDE DEF V, z
  <2>. QED BY <1>2, <1>4, <1>5 DEF Frm
<1>9. a.valid = V /\ a.size = z /\ a.slot = b.slot
  <2>. HIDE DEF V, z
  <2>. QED BY <1>2
<1>10. V = {} => z = 0
  OBVIOUS
<1>11. V # {} => \E k \in V : /\ \A j \in V : j <= k
                              /\ z = IF b.slot[k].sync THEN k + 1 ELSE k + 2
  <2>. SUFFICES ASSUME V # {} PROVE z = IF b.slot[e].sync THEN e + 1 ELSE e + 2
    BY <1>3
  <2>. QED OBVIOUS
<1>. HIDE DEF V, z, e, a
<1>12. /\ a \in Frm /\ a.slot = b.slot /\ a = AnalyseFrame(a)
       /\ a.valid = V
       /\ a.valid = {} => a.size = 0
       /\ a.valid # {} =>
              \E k \in a.valid :
                /\ \A j \in a.valid : j <= k
                /\ a.size = IF b.slot[k].sync THEN k + 1 ELSE k + 2
  BY <1>7, <1>8, <1>9, <1>10, <1>11
<1>. QED BY <1>12 DEF V, a

(* A complete frame is what the sender sent as one frame.                   *)
LEMMA CompleteFrame ==
  ASSUME NEW ss, NEW r, NEW f, NEW n, GoodSent(ss, r, f, n),
         NEW b, GoodFrame(b, ss, r), IsComplete(b)
  PROVE  {b.slot[i] : i \in b.valid}
           = {t \in ss : t.run = b.slot[0].run /\ t.frame = b.slot[0].frame}
<1>. DEFINE V == b.valid
<1>1. b \in Frm /\ b = AnalyseFrame(b) /\ b.size # 0 /\ Cardinality(V) = b.size
  BY FS_EmptySet DEF GoodFrame, IsComplete
<1>2. /\ V = {i \in Slots : /\ b.slot[i].frame # 0
                            /\ \A j \in Slots :
                                 b.slot[j].frame <= b.slot[i].frame}
      /\ V = {} => b.size = 0
      /\ V # {} => \E k \in V :
                     /\ \A j \in V : j <= k
                     /\ b.size = IF b.slot[k].sync THEN k + 1 ELSE k + 2
  BY <1>1, AnalyseFinds
<1>3. PICK e \in V : /\ \A j \in V : j <= e
                     /\ b.size = IF b.slot[e].sync THEN e + 1 ELSE e + 2
  BY <1>1, <1>2
<1>4. V \in SUBSET (0 .. e) /\ e \in Nat /\ e \in Slots
  BY <1>1, <1>3 DEF Frm, Slots
<1>5. IsFiniteSet(0 .. e) /\ Cardinality(0 .. e) = e + 1
  BY <1>4, FS_Interval
<1>6. Cardinality(V) <= e + 1 /\ (Cardinality(V) = e + 1 => V = 0 .. e)
  BY <1>4, <1>5, FS_Subset
<1>7. b.slot[e].sync /\ V = 0 .. e
  BY <1>1, <1>3, <1>4, <1>6
<1>8. \A i \in V : /\ i \in Slots /\ GoodSample(b.slot[i], ss, r)
                   /\ b.slot[i].no = i
                   /\ b.slot[i].frame = b.slot[0].frame
  <2>. SUFFICES ASSUME NEW i \in V
                PROVE  /\ i \in Slots /\ GoodSample(b.slot[i], ss, r)
                       /\ b.slot[i].no = i
                       /\ b.slot[i].frame = b.slot[0].frame
    OBVIOUS
  <2>1. i \in Slots /\ 0 \in Slots /\ 0 \in V
    BY <1>2, <1>4, <1>7 DEF Slots
  <2>2. b.slot[i].frame # 0 /\ b.slot[i] # Blank
    BY <1>2 DEF Blank, Sample
  <2>3. b.slot[i].frame <= b.slot[0].frame /\ b.slot[0].frame <= b.slot[i].frame
    BY <1>2, <2>1
  <2>4. b.slot[i].frame \in Int /\ b.slot[0].frame \in Int
    BY <1>1, <2>1 DEF Frm, Msg
  <2>. QED BY <2>1, <2>2, <2>3, <2>4 DEF GoodFrame
<1>9. 0 \in V /\ e \in V
  BY <1>4, <1>7
<1>10. b.slot[0].run = r
  BY <1>8, <1>9 DEF GoodSample
<1>11. ASSUME NEW t \in ss, t.run = r, t.frame = b.slot[0].frame
       PROVE  t.no \in V /\ b.slot[t.no] = t
  <2>1. b.slot[e] \in ss /\ b.slot[e].run = t.run /\ b.slot[e].frame = t.frame
        /\ b.slot[e].no = e
    BY <1>8, <1>9, <1>11 DEF GoodSample
  <2>2. t.no <= e /\ t.no \in Nat
    BY <1>7, <1>11, <2>1 DEF GoodSent, Msg
  <2>3. t.no \in V
    BY <1>4, <1>7, <2>2
  <2>4. b.slot[t.no] \in ss /\ b.slot[t.no].run = t.run
        /\ b.slot[t.no].frame = t.frame /\ b.slot[t.no].no = t.no
    BY <1>8, <1>11, <2>3 DEF GoodSample
  <2>. QED BY <2>3, <2>4 DEF GoodSent
<1>. QED BY <1>8, <1>10, <1>11 DEF GoodSample

-----------------------------------------------------------------------------
(* The numbers of the next sample are new, and so is the frame after one    *)
(* with the sync flag.                                                      *)
LEMMA SendGood ==
  ASSUME NEW ss, NEW r, NEW f, NEW n, GoodSent(ss, r, f, n),
         NEW sync \in BOOLEAN
  PROVE  GoodSent(ss \cup {Sample(r, f, n, sync)}, r,
                  IF sync THEN f + 1 ELSE f, IF sync THEN 0 ELSE n + 1)
<1>. DEFINE x  == Sample(r, f, n, sync)
            tt == ss \cup {x}
            g  == IF sync THEN f + 1 ELSE f
            m  == IF sync THEN 0 ELSE n + 1
<1>1. r \in Nat /\ f \in Nat /\ f # 0 /\ n \in Nat /\ ss \subseteq Msg
  BY DEF GoodSent
<1>2. x \in Msg /\ x.run = r /\ x.frame = f /\ x.no = n /\ x.sync = sync
  BY <1>1 DEF Sample, Msg
<1>3. g \in Nat /\ g # 0 /\ m \in Nat
  BY <1>1
<1>4. \A s \in tt : s.frame # 0 /\ s.run <= r
  BY <1>1, <1>2 DEF GoodSent
<1>5. ASSUME NEW s \in tt, s.run = r
      PROVE  s.frame <= g /\ (s.frame = g => s.no < m /\ ~s.sync)
  <2>1. CASE s = x
    BY <1>1, <1>2, <2>1
  <2>2. CASE s \in ss
    <3>1. s.frame <= f /\ (s.frame = f => s.no < n) /\ s.frame \in Nat /\ s.no \in Nat
      BY <1>1, <1>5, <2>2 DEF GoodSent, Msg
    <3>2. s.frame = f => ~s.sync
      BY <1>5, <2>2 DEF GoodSent
    <3>. QED BY <1>1, <3>1, <3>2
  <2>. QED BY <2>1, <2>2
<1>6. ASSUME NEW s \in tt, NEW t \in tt, s.run = t.run, s.frame = t.frame
      PROVE  (s.no = t.no => s = t) /\ (s.sync => t.no <= s.no)
  <2>1. CASE s \in ss /\ t \in ss
    BY <1>6, <2>1 DEF GoodSent
  <2>2. CASE s = x /\ t = x
    BY <1>1, <1>2, <2>2
  <2>3. CASE s = x /\ t \in ss
    <3>1. t.run = r /\ t.frame = f
      BY <1>2, <1>6, <2>3
    <3>2. t.no < n /\ t.no \in Nat
      BY <1>1, <2>3, <3>1 DEF GoodSent, Msg
    <3>. QED BY <1>1, <1>2, <2>3, <3>2
  <2>4. CASE t = x /\ s \in ss
    <3>1. s.run = r /\ s.frame = f
      BY <1>2, <1>6, <2>4
    <3>2. s.no < n /\ s.no \in Nat /\ ~s.sync
      BY <1>1, <2>4, <3>1 DEF GoodSent, Msg
    <3>. QED BY <1>1, <1>2, <2>4, <3>2
  <2>. QED BY <2>1, <2>2, <2>3, <2>4
<1>7. tt \subseteq Msg
  BY <1>1, <1>2
<1>. HIDE DEF x, tt, g, m
<1>8. GoodSent(tt, r, g, m)
  BY <1>1, <1>3, <1>4, <1>5, <1>6, <1>7 DEF GoodSent
<1>. QED BY <1>8 DEF x, tt, g, m

(* A new counter is ahead of everything that was sent.                      *)
LEMMA RunGood ==
  ASSUME NEW ss, NEW r, NEW f, NEW n, GoodSent(ss, r, f, n)
  PROVE  GoodSent(ss, r + 1, 1, 0)
<1>1. \A s \in ss : s.run <= r /\ s.run \in Nat /\ r \in Nat
  BY DEF GoodSent, Msg
<1>2. \A s \in ss : s.run <= r + 1 /\ s.run # r + 1
  BY <1>1
<1>3. r + 1 \in Nat /\ 1 \in Nat \ {0} /\ 0 \in Nat
  BY DEF GoodSent
<1>. QED BY <1>2, <1>3 DEF GoodSent

(* Frames stay good while more is sent, when they are analysed, take a      *)
(* sample, or are made blank.                                               *)
LEMMA MoreSent ==
  ASSUME NEW ss, NEW tt, ss \subseteq tt, NEW r, NEW b, GoodFrame(b, ss, r)
  PROVE  GoodFrame(b, tt, r)
BY DEF GoodFrame, GoodSample

(* AnalyseFrame turns a good frame into a good one.                         *)
LEMMA AnalyseGood ==
  ASSUME NEW ss, NEW r, NEW b, GoodFrame(b, ss, r)
  PROVE  GoodFrame(AnalyseFrame(b), ss, r)
<1>. DEFINE a == AnalyseFrame(b)
<1>1. a \in Frm /\ a.slot = b.slot /\ a = AnalyseFrame(a)
  BY AnalyseFinds DEF GoodFrame
<1>. HIDE DEF a
<1>2. GoodFrame(a, ss, r)
  BY <1>1 DEF GoodFrame
<1>. QED BY <1>2 DEF a

(* A buffer that was just invalidated holds a good frame.                   *)
LEMMA BlankGood ==
  ASSUME NEW ss, NEW r
  PROVE  GoodFrame(InvalidateData, ss, r)
<1>. DEFINE f == [i \in Slots |-> Blank]
<1>1. Blank \in Msg
  BY DEF Blank, Sample, Msg
<1>2. f \in [Slots -> Msg] /\ \A i \in Slots : f[i] = Blank
  BY <1>1
<1>3. InvalidateData = [slot |-> f, valid |-> {}, size |-> 0]
  BY DEF InvalidateData
<1>. HIDE DEF f
<1>4. InvalidateData \in Frm /\ InvalidateData.slot = f
      /\ InvalidateData.valid = {} /\ InvalidateData.size = 0
  BY <1>2, <1>3 DEF Frm
<1>. QED BY <1>2, <1>4 DEF GoodFrame

(* SetSample writes one slot and keeps a good frame good.                   *)
LEMMA SetGood ==
  ASSUME NEW ss, ss \subseteq Msg, NEW r, NEW b, GoodFrame(b, ss, r),
         NEW s, GoodSample(s, ss, r)
  PROVE  /\ GoodFrame(SetSample(b, s), ss, r)
         /\ s.no < Depth => SetSample(b, s).slot[s.no] = s
         /\ \A i \in Slots : \/ SetSample(b, s).slot[i] = b.slot[i]
                             \/ SetSample(b, s).slot[i] = s
<1>1. s \in Msg /\ s.no \in Nat /\ b \in Frm /\ Depth \in Nat
  BY DdbAssumption DEF GoodSample, GoodFrame, Msg
<1>2. CASE ~(s.no < Depth)
  BY <1>2 DEF SetSample
<1>3. CASE s.no < Depth
  <2>. DEFINE f == [b.slot EXCEPT ![s.no] = s]
              c == SetSample(b, s)
  <2>1. s.no \in Slots
    BY <1>1, <1>3 DEF Slots
  <2>2. /\ f \in [Slots -> Msg] /\ f[s.no] = s
        /\ \A i \in Slots : i # s.no => f[i] = b.slot[i]
    BY <1>1, <2>1 DEF Frm
  <2>3. c = [slot |-> f, valid |-> {}, size |-> 0]
    BY <1>3 DEF SetSample
  <2>. HIDE DEF f, c
  <2>4. c \in Frm /\ c.slot = f /\ c.valid = {} /\ c.size = 0
    BY <2>2, <2>3 DEF Frm
  <2>5. \A i \in Slots : \/ f[i] = Blank
                         \/ (GoodSample(f[i], ss, r) /\ f[i].no = i)
    BY <2>1, <2>2 DEF GoodFrame
  <2>6. GoodFrame(c, ss, r)
    BY <2>4, <2>5 DEF GoodFrame
  <2>7. c.slot[s.no] = s /\ \A i \in Slots : c.slot[i] = b.slot[i] \/ c.slot[i] = s
    BY <2>1, <2>2, <2>4
  <2>. QED BY <2>6, <2>7 DEF c
<1>. QED BY <1>2, <1>3

(* The rotation of the buffers loses none of this.                          *)
LEMMA SwitchGood ==
  ASSUME FrameInv, NEW b, GoodFrame(b, sent, run), SwitchWriteBuffer(b),
         UNCHANGED <<read, sent, run>>
  PROVE  FrameInv'
BY DEF FrameInv, SwitchWriteBuffer

(* What the queue of samples under way is made of.                          *)
LEMMA TailOf ==
  ASSUME NEW w \in Seq(Msg), w # << >>
  PROVE  /\ Tail(w) \in Seq(Msg) /\ Head(w) = w[1] /\ 1 \in 1 .. Len(w)
         /\ \A i \in 1 .. Len(Tail(w)) : /\ Tail(w)[i] = w[i + 1]
                                         /\ i + 1 \in 1 .. Len(w)
<1>1. Len(w) \in Nat /\ Len(w) # 0 /\ Tail(w) \in Seq(Msg) /\ Head(w) = w[1]
  OBVIOUS
<1>2. Len(Tail(w)) = Len(w) - 1 /\ \A i \in 1 .. Len(w) - 1 : Tail(w)[i] = w[i + 1]
  OBVIOUS
<1>3. \A i \in 1 .. Len(w) - 1 : i + 1 \in 1 .. Len(w)
  BY <1>1
<1>. QED BY <1>1, <1>2, <1>3

(* The messages of a sequence that grew by one.                             *)
LEMMA AppendOf ==
  ASSUME NEW w \in Seq(Msg), NEW x \in Msg
  PROVE  /\ Append(w, x) \in Seq(Msg)
         /\ Len(Append(w, x)) = Len(w) + 1 /\ Len(w) \in Nat
         /\ \A i \in 1 .. Len(w) + 1 :
              \/ i \in 1 .. Len(w) /\ Append(w, x)[i] = w[i]
              \/ i = Len(w) + 1 /\ Append(w, x)[i] = x
<1>1. Len(w) \in Nat /\ Append(w, x) \in Seq(Msg)
      /\ Len(Append(w, x)) = Len(w) + 1
  OBVIOUS
<1>2. \A i \in 1 .. Len(w) : Append(w, x)[i] = w[i]
  OBVIOUS
<1>3. Append(w, x)[Len(w) + 1] = x
  OBVIOUS
<1>4. \A i \in 1 .. Len(w) + 1 : i \in 1 .. Len(w) \/ i = Len(w) + 1
  BY <1>1
<1>. QED BY <1>1, <1>2, <1>3, <1>4

-----------------------------------------------------------------------------
(* A step of the sender.                                                    *)
LEMMA SendKeeps ==
  ASSUME WInv, NEW sync \in BOOLEAN, NEW arrives \in BOOLEAN,
         SendNow(sync, arrives)
  PROVE  WInv'
<1>. DEFINE x == Sample(run, frame, no, sync)
<1>1. /\ sent' = sent \cup {x} /\ run' = run
      /\ UNCHANGED <<upd, ddbPrev, read, stock, write, life>>
      /\ wire' = Append(wire, x) \/ wire' = wire
      /\ frame' = IF sync THEN frame + 1 ELSE frame
      /\ no' = IF sync THEN 0 ELSE no + 1
  BY DEF SendNow, buffers
<1>2. SentInv'
  BY <1>1, SendGood DEF WInv, SentInv
<1>3. x \in Msg /\ GoodSample(x, sent', run')
  BY <1>1 DEF WInv, SentInv, GoodSent, GoodSample, Sample, Msg
<1>4. \A s : GoodSample(s, sent, run) => GoodSample(s, sent', run')
  BY <1>1 DEF GoodSample
<1>. HIDE DEF x
<1>5. WireInv'
  <2>1. CASE wire' = wire
    BY <1>1, <1>4, <2>1 DEF WInv, WireInv, NoSample
  <2>2. CASE wire' = Append(wire, x)
    <3>1. wire \in Seq(Msg)
      BY DEF WInv, WireInv
    <3>2. /\ wire' \in Seq(Msg) /\ Len(wire') = Len(wire) + 1
          /\ \A i \in 1 .. Len(wire) + 1 :
               \/ i \in 1 .. Len(wire) /\ wire'[i] = wire[i]
               \/ i = Len(wire) + 1 /\ wire'[i] = x
      BY <1>3, <2>2, <3>1, AppendOf
    <3>3. \A i \in 1 .. Len(wire') : GoodSample(wire'[i], sent', run')
      BY <1>3, <1>4, <3>2 DEF WInv, WireInv
    <3>. QED BY <1>1, <1>4, <3>2, <3>3 DEF WInv, WireInv, NoSample
  <2>. QED BY <1>1, <2>1, <2>2
<1>6. FrameInv'
  <2>1. sent \subseteq sent'
    BY <1>1
  <2>. QED BY <1>1, <2>1, MoreSent DEF WInv, FrameInv
<1>7. PrevInv'
  BY <1>1 DEF WInv, PrevInv
<1>. QED BY <1>2, <1>5, <1>6, <1>7 DEF WInv

(* A new run of the sender, which finds the receiver reset.                 *)
LEMMA RunKeeps ==
  ASSUME WInv, ConfigureSampleCounter, Together
  PROVE  WInv'
<1>1. /\ wire = << >> /\ upd = NoSample /\ ddbPrev = NoPrev
      /\ run' = run + 1 /\ frame' = 1 /\ no' = 0
      /\ UNCHANGED <<sent, wire, upd, ddbPrev, read, stock, write, life>>
  BY DEF ConfigureSampleCounter, buffers
<1>2. SentInv'
  BY <1>1, RunGood DEF WInv, SentInv
<1>3. WireInv'
  BY <1>1 DEF WInv, WireInv, NoSample
<1>4. NoPrev.frame = 0
  BY DEF NoPrev, Sample
<1>5. /\ read' = InvalidateData /\ stock' = InvalidateData
      /\ write' = InvalidateData
  BY <1>1, <1>4 DEF WInv, PrevInv
<1>6. FrameInv'
  BY <1>5, BlankGood DEF FrameInv
<1>7. PrevInv'
  BY <1>1 DEF WInv, PrevInv
<1>. QED BY <1>2, <1>3, <1>6, <1>7 DEF WInv

(* The steps of the thread that receives.                                   *)
LEMMA ReceiverKeeps ==
  ASSUME WInv, Receiver
  PROVE  WInv'
<1>. USE DEF sender, adapter, buffers, thread, bounds
<1>1. UNCHANGED <<sent, run, frame, no, read, life>>
  BY DEF Receiver, Receive, MissedSync, Update
<1>2. SentInv'
  BY <1>1 DEF WInv, SentInv
<1>3. sent \subseteq Msg /\ \A s \in sent : s.frame # 0
  BY DEF WInv, SentInv, GoodSent
<1>4. CASE Receive
  <2>1. /\ wire # << >> /\ wire' = Tail(wire)
        /\ upd' = IF life = "live" THEN Head(wire) ELSE NoSample
        /\ UNCHANGED <<ddbPrev, stock, write>>
    BY <1>4 DEF Receive
  <2>2. wire \in Seq(Msg)
    BY DEF WInv, WireInv
  <2>3. /\ wire' \in Seq(Msg) /\ Head(wire) = wire[1] /\ 1 \in 1 .. Len(wire)
        /\ \A i \in 1 .. Len(wire') : /\ wire'[i] = wire[i + 1]
                                      /\ i + 1 \in 1 .. Len(wire)
    BY <2>1, <2>2, TailOf
  <2>4. WireInv'
    BY <1>1, <2>1, <2>3 DEF WInv, WireInv, NoSample
  <2>5. FrameInv' /\ PrevInv'
    BY <1>1, <2>1 DEF WInv, FrameInv, PrevInv
  <2>. QED BY <1>2, <2>4, <2>5 DEF WInv
<1>5. CASE MissedSync
  <2>1. /\ upd # NoSample /\ ~ddbPrev.sync
        /\ SwitchWriteBuffer(AnalyseFrame(write))
        /\ ddbPrev' = [ddbPrev EXCEPT !.sync = TRUE]
        /\ UNCHANGED <<wire, upd>>
    BY <1>5 DEF MissedSync
  <2>2. WireInv'
    BY <1>1, <2>1 DEF WInv, WireInv, NoSample
  <2>3. GoodFrame(AnalyseFrame(write), sent, run)
    BY AnalyseGood DEF WInv, FrameInv
  <2>4. FrameInv'
    BY <1>1, <2>1, <2>3, SwitchGood DEF WInv
  <2>5. ddbPrev.frame # 0
    BY <2>1 DEF WInv, PrevInv, NoPrev, Sample
  <2>6. ddbPrev' \in Msg /\ ddbPrev'.frame = ddbPrev.frame
    BY <2>1 DEF WInv, PrevInv, Msg
  <2>. QED BY <1>2, <2>2, <2>4, <2>5, <2>6 DEF WInv, PrevInv
<1>6. CASE Update
  <2>1. /\ upd # NoSample /\ ddbPrev' = upd /\ upd' = NoSample /\ wire' = wire
    BY <1>6 DEF Update
  <2>2. GoodSample(upd, sent, run)
    BY <2>1 DEF WInv, WireInv
  <2>3. WireInv'
    BY <1>1, <2>1 DEF WInv, WireInv, NoSample
  <2>4. GoodFrame(SetSample(write, upd), sent, run)
    BY <1>3, <2>2, SetGood DEF WInv, FrameInv
  <2>5. GoodFrame(AnalyseFrame(SetSample(write, upd)), sent, run)
    BY <2>4, AnalyseGood
  <2>6. CASE upd.sync
    <3>1. SwitchWriteBuffer(AnalyseFrame(SetSample(write, upd)))
      BY <1>6, <2>6 DEF Update
    <3>. QED BY <1>1, <1>2, <1>3, <2>1, <2>2, <2>3, <2>5, <3>1, SwitchGood
             DEF WInv, PrevInv, GoodSample
  <2>7. CASE ~upd.sync
    <3>1. write' = SetSample(write, upd) /\ stock' = stock
      BY <1>6, <2>7 DEF Update
    <3>2. FrameInv'
      BY <1>1, <2>4, <3>1 DEF WInv, FrameInv
    <3>. QED BY <1>1, <1>2, <1>3, <2>1, <2>2, <2>3, <3>2
             DEF WInv, PrevInv, GoodSample
  <2>. QED BY <2>6, <2>7
<1>. QED BY <1>4, <1>5, <1>6 DEF Receiver

(* All frames are made blank.                                               *)
LEMMA BlankKeeps ==
  ASSUME WInv, read' = InvalidateData, stock' = InvalidateData,
         write' = InvalidateData, ddbPrev' \in {ddbPrev, NoPrev},
         wire' \in {wire, << >>}, UNCHANGED <<sent, run, frame, no, upd>>,
         life' = life \/ upd = NoSample
  PROVE  WInv'
<1>1. SentInv'
  BY DEF WInv, SentInv
<1>2. WireInv'
  <2>1. CASE wire' = wire
    BY <2>1 DEF WInv, WireInv, NoSample
  <2>2. CASE wire' = << >>
    BY <2>2 DEF WInv, WireInv, NoSample
  <2>. QED BY <2>1, <2>2
<1>3. FrameInv'
  BY BlankGood DEF FrameInv
<1>4. NoPrev \in Msg
  BY DEF NoPrev, Sample, Msg
<1>5. PrevInv'
  BY <1>4 DEF WInv, PrevInv
<1>. QED BY <1>1, <1>2, <1>3, <1>5 DEF WInv

(* Every step preserves the invariant.                                      *)
LEMMA WStep ==
  ASSUME WInv, [Next]_vars, Together
  PROVE  WInv'
<1>. USE DEF sender, adapter, buffers, thread, bounds
<1>1. CASE UNCHANGED <<sent, run, frame, no, wire, upd, ddbPrev, read, stock,
                       write>> /\ (life' = life \/ upd = NoSample)
  BY <1>1 DEF WInv, SentInv, WireInv, FrameInv, PrevInv, NoSample
<1>2. ASSUME NEW sync \in BOOLEAN, NEW arrives \in BOOLEAN,
             SendNow(sync, arrives)
      PROVE  WInv'
  BY <1>2, SendKeeps
<1>3. CASE ConfigureSampleCounter
  BY <1>3, RunKeeps
<1>4. CASE Receiver
  BY <1>4, ReceiverKeeps
<1>5. CASE Thread
  <2>1. CASE FrameReady \/ ProcessDDBSync
    BY <1>1, <2>1 DEF FrameReady, ProcessDDBSync
  <2>2. CASE SwitchReadBuffer
    <3>1. /\ UNCHANGED <<sent, run, frame, no, wire, upd, ddbPrev, write, life>>
          /\ (stock' = read /\ read' = stock) \/ UNCHANGED <<stock, read>>
      BY <2>2 DEF SwitchReadBuffer
    <3>2. SentInv' /\ WireInv'
      BY <3>1 DEF WInv, SentInv, WireInv, NoSample
    <3>3. FrameInv' /\ PrevInv'
      BY <3>1 DEF WInv, FrameInv, PrevInv
    <3>. QED BY <3>2, <3>3 DEF WInv
  <2>. QED BY <1>5, <2>1, <2>2 DEF Thread
<1>6. ASSUME NEW r \in Readers, LockData(r) PROVE WInv'
  BY <1>1, <1>6 DEF LockData
<1>7. ASSUME NEW r \in Readers, UnlockData(r) PROVE WInv'
  BY <1>1, <1>7 DEF UnlockData
<1>8. CASE ResetData
  BY <1>8, BlankKeeps DEF ResetData
<1>9. CASE Destroy
  BY <1>1, <1>9 DEF Destroy
<1>10. CASE Destruction
  <2>0. upd = NoSample
    BY <1>10 DEF Destruction, Wake, DeleteMemory, WInv, WireInv
  <2>1. CASE Wake
    BY <1>1, <2>0, <2>1 DEF Wake
  <2>2. CASE DeleteMemory
    BY <2>0, <2>2, BlankKeeps DEF DeleteMemory
  <2>. QED BY <1>10, <2>1, <2>2 DEF Destruction
<1>11. CASE UNCHANGED vars
  BY <1>1, <1>11 DEF vars
<1>. QED BY <1>2, <1>3, <1>4, <1>5, <1>6, <1>7, <1>8, <1>9, <1>10, <1>11
         DEF Next, Finished

(* The initial states satisfy the invariant of the wire.                    *)
LEMMA WStart == Init => WInv
<1>. SUFFICES ASSUME Init PROVE WInv
  OBVIOUS
<1>1. /\ run = 1 /\ frame = 1 /\ no = 0 /\ sent = {} /\ wire = << >>
      /\ upd = NoSample /\ ddbPrev = NoPrev
      /\ read = InvalidateData /\ stock = InvalidateData
      /\ write = InvalidateData
  BY DEF Init
<1>2. SentInv
  BY <1>1 DEF SentInv, GoodSent
<1>3. WireInv
  BY <1>1 DEF WireInv
<1>4. FrameInv
  BY <1>1, BlankGood DEF FrameInv
<1>5. NoPrev \in Msg
  BY DEF NoPrev, Sample, Msg
<1>. QED BY <1>1, <1>2, <1>3, <1>4, <1>5 DEF WInv, PrevInv

(* A frame that readers find complete is exactly what the sender sent as    *)
(* one frame, for frames and buffers of any size and whatever is lost on    *)
(* the way, if a sender starts anew only after the receiver was reset.      *)
THEOREM CompleteFramesWhole == Together => (Spec => []CompleteIsWhole)
<1>1. SUFFICES ASSUME Together PROVE Spec => []CompleteIsWhole
  OBVIOUS
<1>2. WInv /\ [Next]_vars => WInv'
  BY <1>1, WStep
<1>3. WInv => CompleteIsWhole
  <2>. SUFFICES ASSUME WInv, NEW b \in {read, stock}, IsComplete(b)
                PROVE  {b.slot[i] : i \in b.valid} = SentWith(b.slot[0])
    BY DEF CompleteIsWhole
  <2>1. GoodFrame(b, sent, run) /\ GoodSent(sent, run, frame, no)
    BY DEF WInv, FrameInv, SentInv
  <2>. QED BY <2>1, CompleteFrame DEF SentWith
<1>. QED BY <1>2, <1>3, WStart, PTL DEF Spec

-----------------------------------------------------------------------------
(* The samples that are under way, and the sender, are in order.            *)
LEMMA UnderWay ==
  ASSUME WInv
  PROVE  /\ run \in Nat /\ frame \in Nat /\ frame # 0
         /\ wire \in Seq(Msg) /\ ddbPrev \in Msg
         /\ sent \subseteq Msg /\ \A s \in sent : s.frame # 0
         /\ \A i \in 1 .. Len(wire) :
              wire[i] \in Msg /\ wire[i].run = run /\ Before(wire[i], frame)
         /\ upd # NoSample =>
              /\ upd \in sent /\ upd \in Msg /\ upd.run = run
              /\ upd.frame # 0 /\ Before(upd, frame)
<1>1. /\ run \in Nat /\ frame \in Nat /\ frame # 0 /\ sent \subseteq Msg
      /\ \A s \in sent : s.frame # 0
      /\ wire \in Seq(Msg) /\ ddbPrev \in Msg
  BY DEF WInv, SentInv, GoodSent, WireInv, PrevInv
<1>2. \A s : GoodSample(s, sent, run) =>
               /\ s \in sent /\ s \in Msg /\ s.run = run /\ s.frame # 0
               /\ Before(s, frame)
  <2>. SUFFICES ASSUME NEW s, GoodSample(s, sent, run)
                PROVE  /\ s \in sent /\ s \in Msg /\ s.run = run
                       /\ s.frame # 0 /\ Before(s, frame)
    OBVIOUS
  <2>1. s \in sent /\ s.run = run /\ s \in Msg /\ s.frame # 0
    BY <1>1 DEF GoodSample
  <2>2. s.frame <= frame /\ (s.frame = frame => ~s.sync) /\ s.frame \in Nat
    BY <2>1 DEF WInv, SentInv, GoodSent, Msg
  <2>. QED BY <1>1, <2>1, <2>2 DEF Before
<1>. QED BY <1>1, <1>2 DEF WInv, WireInv

(* What comes before a frame comes before all later ones.                   *)
LEMMA BeforeGrows ==
  ASSUME NEW s \in Msg, NEW f \in Nat, NEW g \in Nat, Before(s, f), f <= g
  PROVE  Before(s, g) /\ s.frame <= f
BY DEF Before, Msg

(* The sample that stands for none comes before every frame.                *)
LEMMA NoPrevFirst ==
  /\ NoPrev \in Msg /\ NoPrev.sync /\ NoPrev.frame = 0
  /\ \A f \in Nat : f # 0 => Before(NoPrev, f)
<1>1. NoPrev \in Msg /\ NoPrev.sync /\ NoPrev.frame = 0
  BY DEF NoPrev, Sample, Msg
<1>. QED BY <1>1 DEF Before

(* Steps that change neither the sender, the queue nor the last sample.     *)
LEMMA QueueSame ==
  ASSUME QueueInv, UNCHANGED <<frame, wire, upd, ddbPrev>>
  PROVE  QueueInv'
BY DEF QueueInv, NoSample

(* Sending keeps the order of what is queued.                               *)
LEMMA QueueSend ==
  ASSUME WInv, QueueInv, NEW sync \in BOOLEAN, NEW arrives \in BOOLEAN,
         SendNow(sync, arrives)
  PROVE  QueueInv'
<1>. DEFINE x == Sample(run, frame, no, sync)
<1>1. /\ UNCHANGED <<upd, ddbPrev>>
      /\ wire' = Append(wire, x) \/ wire' = wire
      /\ frame' = frame + 1 \/ frame' = frame
  BY DEF SendNow
<1>2. x \in Msg /\ x.frame = frame
  BY DEF WInv, SentInv, GoodSent, Sample, Msg
<1>. HIDE DEF x
<1>3. frame \in Nat /\ frame' \in Nat /\ frame <= frame' /\ ddbPrev \in Msg
  BY <1>1, UnderWay
<1>4. Before(ddbPrev', frame')
  BY <1>1, <1>3, BeforeGrows DEF QueueInv
<1>5. CASE wire' = wire
  BY <1>1, <1>4, <1>5 DEF QueueInv, NoSample
<1>6. CASE wire' = Append(wire, x)
  <2>1. /\ Len(wire') = Len(wire) + 1 /\ Len(wire) \in Nat
        /\ \A i \in 1 .. Len(wire) + 1 :
             \/ i \in 1 .. Len(wire) /\ wire'[i] = wire[i]
             \/ i = Len(wire) + 1 /\ wire'[i] = x
    BY <1>2, <1>6, UnderWay, AppendOf
  <2>2. \A i \in 1 .. Len(wire') : Before(ddbPrev, wire'[i].frame)
    BY <1>2, <2>1 DEF QueueInv
  <2>3. ASSUME NEW i \in 1 .. Len(wire'), NEW j \in 1 .. Len(wire'), i < j
        PROVE  Before(wire'[i], wire'[j].frame)
    <3>1. i \in 1 .. Len(wire) /\ wire'[i] = wire[i]
      BY <2>1, <2>3
    <3>2. CASE wire'[j] = x
      BY <1>2, <3>1, <3>2, UnderWay
    <3>3. CASE j \in 1 .. Len(wire) /\ wire'[j] = wire[j]
      BY <2>3, <3>1, <3>3 DEF QueueInv
    <3>. QED BY <2>1, <3>2, <3>3
  <2>4. upd' # NoSample' =>
          /\ Before(ddbPrev', upd'.frame)
          /\ \A i \in 1 .. Len(wire') : Before(upd', wire'[i].frame)
    <3>. SUFFICES ASSUME upd # NoSample
                  PROVE  /\ Before(ddbPrev, upd.frame)
                         /\ \A i \in 1 .. Len(wire') :
                              Before(upd, wire'[i].frame)
      BY <1>1 DEF NoSample
    <3>1. Before(upd, frame) /\ Before(ddbPrev, upd.frame)
          /\ \A i \in 1 .. Len(wire) : Before(upd, wire[i].frame)
      BY UnderWay DEF QueueInv
    <3>. QED BY <1>2, <2>1, <3>1
  <2>. QED BY <1>1, <1>4, <2>2, <2>3, <2>4 DEF QueueInv
<1>. QED BY <1>1, <1>5, <1>6

(* The steps of the receiver keep the order of what is queued.              *)
LEMMA QueueReceiver ==
  ASSUME WInv, QueueInv, Receiver
  PROVE  QueueInv'
<1>. USE DEF sender
<1>1. CASE Receive
  <2>1. /\ wire # << >> /\ wire' = Tail(wire)
        /\ upd' = IF life = "live" THEN Head(wire) ELSE NoSample
        /\ UNCHANGED <<ddbPrev, frame>>
    BY <1>1 DEF Receive
  <2>2. /\ Head(wire) = wire[1] /\ 1 \in 1 .. Len(wire)
        /\ \A i \in 1 .. Len(wire') : /\ wire'[i] = wire[i + 1]
                                      /\ i + 1 \in 1 .. Len(wire)
    BY <2>1, UnderWay, TailOf
  <2>3. \A i \in 1 .. Len(wire') : /\ Before(ddbPrev, wire'[i].frame)
                                   /\ Before(wire[1], wire'[i].frame)
    <3>. SUFFICES ASSUME NEW i \in 1 .. Len(wire')
                  PROVE  /\ Before(ddbPrev, wire'[i].frame)
                         /\ Before(wire[1], wire'[i].frame)
      OBVIOUS
    <3>1. wire'[i] = wire[i + 1] /\ i + 1 \in 1 .. Len(wire) /\ 1 < i + 1
      BY <2>2
    <3>. QED BY <2>2, <3>1 DEF QueueInv
  <2>4. ASSUME NEW i \in 1 .. Len(wire'), NEW j \in 1 .. Len(wire'), i < j
        PROVE  Before(wire'[i], wire'[j].frame)
    <3>1. i + 1 < j + 1 /\ i + 1 \in 1 .. Len(wire) /\ j + 1 \in 1 .. Len(wire)
      BY <2>2, <2>4
    <3>. QED BY <2>2, <3>1 DEF QueueInv
  <2>5. Before(ddbPrev, wire[1].frame)
    BY <2>2 DEF QueueInv
  <2>6. upd' # NoSample' => upd' = wire[1]
    BY <2>1, <2>2 DEF NoSample
  <2>. QED BY <2>1, <2>3, <2>4, <2>5, <2>6 DEF QueueInv
<1>2. CASE MissedSync
  <2>1. /\ upd # NoSample /\ upd.frame > ddbPrev.frame
        /\ ddbPrev' = [ddbPrev EXCEPT !.sync = TRUE]
        /\ UNCHANGED <<wire, upd, frame>>
    BY <1>2 DEF MissedSync
  <2>2. ddbPrev'.frame = ddbPrev.frame /\ ddbPrev.frame \in Nat
    BY <2>1, UnderWay DEF Msg
  <2>3. upd.frame \in Nat /\ frame \in Nat /\ upd.frame <= frame
    BY <2>1, UnderWay DEF Before, Msg
  <2>4. \A i \in 1 .. Len(wire) : wire[i].frame \in Nat /\ upd.frame <= wire[i].frame
    <3>. SUFFICES ASSUME NEW i \in 1 .. Len(wire)
                  PROVE  wire[i].frame \in Nat /\ upd.frame <= wire[i].frame
      OBVIOUS
    <3>1. wire[i].frame \in Nat
      BY UnderWay DEF Msg
    <3>2. Before(upd, wire[i].frame)
      BY <2>1 DEF QueueInv
    <3>. QED BY <2>3, <3>1, <3>2 DEF Before
  <2>5. Before(ddbPrev', frame) /\ Before(ddbPrev', upd.frame)
        /\ \A i \in 1 .. Len(wire) : Before(ddbPrev', wire[i].frame)
    BY <2>1, <2>2, <2>3, <2>4 DEF Before
  <2>. QED BY <2>1, <2>5 DEF QueueInv, NoSample
<1>3. CASE Update
  <2>1. /\ upd # NoSample /\ ddbPrev' = upd /\ upd' = NoSample
        /\ UNCHANGED <<wire, frame>>
    BY <1>3 DEF Update
  <2>. QED BY <2>1, UnderWay DEF QueueInv, NoSample
<1>. QED BY <1>1, <1>2, <1>3 DEF Receiver

(* The order of the samples under way is kept by every step.                *)
LEMMA QueueStep ==
  ASSUME WInv, QueueInv, [Next]_vars, Together
  PROVE  QueueInv'
<1>. USE DEF sender, adapter, buffers, thread, bounds
<1>1. CASE UNCHANGED <<frame, wire, upd, ddbPrev>>
  BY <1>1, QueueSame
<1>2. ASSUME NEW sync \in BOOLEAN, NEW arrives \in BOOLEAN,
             SendNow(sync, arrives)
      PROVE  QueueInv'
  BY <1>2, QueueSend
<1>3. CASE ConfigureSampleCounter
  <2>1. wire' = << >> /\ upd' = NoSample /\ ddbPrev' = NoPrev /\ frame' = 1
    BY <1>3 DEF ConfigureSampleCounter
  <2>. QED BY <2>1, NoPrevFirst DEF QueueInv, NoSample
<1>4. CASE Receiver
  BY <1>4, QueueReceiver
<1>5. CASE Thread
  BY <1>1, <1>5 DEF Thread, FrameReady, SwitchReadBuffer, ProcessDDBSync
<1>6. ASSUME NEW r \in Readers, LockData(r) \/ UnlockData(r) PROVE QueueInv'
  BY <1>1, <1>6 DEF LockData, UnlockData
<1>7. CASE ResetData
  <2>1. wire' = << >> /\ upd' = NoSample /\ ddbPrev' = NoPrev /\ frame' = frame
    BY <1>7 DEF ResetData
  <2>. QED BY <2>1, UnderWay, NoPrevFirst DEF QueueInv, NoSample
<1>8. CASE Destroy \/ Destruction
  BY <1>1, <1>8 DEF Destroy, Destruction, Wake, DeleteMemory
<1>9. CASE UNCHANGED vars
  BY <1>1, <1>9 DEF vars
<1>. QED BY <1>2, <1>3, <1>4, <1>5, <1>6, <1>7, <1>8, <1>9 DEF Next, Finished

(* What is behind stays behind.                                             *)
LEMMA BehindStep ==
  ASSUME WInv, QueueInv, [Next]_vars, Together
  PROVE  \A s \in Msg : Past(s, run, frame, wire, upd, ddbPrev) =>
                        Past(s, run', frame', wire', upd', ddbPrev')
<1>. SUFFICES ASSUME NEW s \in Msg, Past(s, run, frame, wire, upd, ddbPrev)
              PROVE  Past(s, run', frame', wire', upd', ddbPrev')
  OBVIOUS
<1>. USE DEF sender, adapter, buffers, thread, bounds
<1>0. s.run \in Nat /\ s.frame \in Nat /\ run \in Nat /\ frame \in Nat
  BY UnderWay DEF Msg
<1>1. CASE UNCHANGED <<run, frame, wire, upd, ddbPrev>>
  BY <1>1
<1>2. ASSUME NEW sync \in BOOLEAN, NEW arrives \in BOOLEAN,
             SendNow(sync, arrives)
      PROVE  Past(s, run', frame', wire', upd', ddbPrev')
  <2>. DEFINE x == Sample(run, frame, no, sync)
  <2>1. /\ UNCHANGED <<run, upd, ddbPrev>>
        /\ wire' = Append(wire, x) \/ wire' = wire
        /\ frame' = frame + 1 \/ frame' = frame
    BY <1>2 DEF SendNow
  <2>2. x \in Msg /\ x.frame = frame
    BY DEF WInv, SentInv, GoodSent, Sample, Msg
  <2>. HIDE DEF x
  <2>3. CASE s.run < run
    BY <2>1, <2>3 DEF Past
  <2>4. CASE ~(s.run < run)
    <3>1. /\ s.run = run /\ s.frame < frame
          /\ \A i \in 1 .. Len(wire) : s.frame < wire[i].frame
          /\ upd # NoSample => s.frame < upd.frame
          /\ ~ddbPrev.sync => s.frame < ddbPrev.frame
      BY <2>4 DEF Past
    <3>2. \A i \in 1 .. Len(wire') : s.frame < wire'[i].frame
      <4>1. CASE wire' = wire
        BY <3>1, <4>1
      <4>2. CASE wire' = Append(wire, x)
        <5>1. /\ Len(wire') = Len(wire) + 1
              /\ \A i \in 1 .. Len(wire) + 1 :
                   \/ i \in 1 .. Len(wire) /\ wire'[i] = wire[i]
                   \/ i = Len(wire) + 1 /\ wire'[i] = x
          BY <2>2, <4>2, UnderWay, AppendOf
        <5>. QED BY <2>2, <3>1, <5>1
      <4>. QED BY <2>1, <4>1, <4>2
    <3>3. s.frame < frame'
      BY <1>0, <2>1, <3>1
    <3>. QED BY <2>1, <3>1, <3>2, <3>3 DEF Past
  <2>. QED BY <2>3, <2>4
<1>3. CASE ConfigureSampleCounter
  <2>1. run' = run + 1
    BY <1>3 DEF ConfigureSampleCounter
  <2>. QED BY <1>0, <2>1 DEF Past
<1>4. CASE Receive
  <2>1. /\ wire # << >> /\ wire' = Tail(wire)
        /\ upd' = IF life = "live" THEN Head(wire) ELSE NoSample
        /\ UNCHANGED <<ddbPrev, run, frame>>
    BY <1>4 DEF Receive
  <2>2. /\ Head(wire) = wire[1] /\ 1 \in 1 .. Len(wire)
        /\ \A i \in 1 .. Len(wire') : /\ wire'[i] = wire[i + 1]
                                      /\ i + 1 \in 1 .. Len(wire)
    BY <2>1, UnderWay, TailOf
  <2>3. upd' # NoSample => upd' = wire[1]
    BY <2>1, <2>2
  <2>. QED BY <2>1, <2>2, <2>3 DEF Past
<1>5. CASE MissedSync
  <2>1. /\ ddbPrev' = [ddbPrev EXCEPT !.sync = TRUE]
        /\ UNCHANGED <<wire, upd, run, frame>>
    BY <1>5 DEF MissedSync
  <2>2. ddbPrev'.sync
    BY <2>1, UnderWay DEF Msg
  <2>. QED BY <2>1, <2>2 DEF Past
<1>6. CASE Update
  <2>1. /\ upd # NoSample /\ ddbPrev' = upd /\ upd' = NoSample
        /\ UNCHANGED <<wire, run, frame>>
    BY <1>6 DEF Update
  <2>. QED BY <2>1 DEF Past
<1>7. CASE Thread
  BY <1>1, <1>7 DEF Thread, FrameReady, SwitchReadBuffer, ProcessDDBSync
<1>8. ASSUME NEW r \in Readers, LockData(r) \/ UnlockData(r)
      PROVE  Past(s, run', frame', wire', upd', ddbPrev')
  BY <1>1, <1>8 DEF LockData, UnlockData
<1>9. CASE ResetData
  <2>1. wire' = << >> /\ upd' = NoSample /\ ddbPrev' = NoPrev
        /\ UNCHANGED <<run, frame>>
    BY <1>9 DEF ResetData
  <2>. QED BY <2>1, NoPrevFirst DEF Past
<1>10. CASE Destroy \/ Destruction
  BY <1>1, <1>10 DEF Destroy, Destruction, Wake, DeleteMemory
<1>11. CASE UNCHANGED vars
  BY <1>1, <1>11 DEF vars
<1>. QED BY <1>2, <1>3, <1>4, <1>5, <1>6, <1>7, <1>8, <1>9, <1>10, <1>11
         DEF Next, Finished, Receiver

-----------------------------------------------------------------------------
(* The analysis finds the frame F if it is the newest one in the slots.     *)
LEMMA NewestFrame ==
  ASSUME NEW ss, ss \subseteq Msg, NEW r, NEW b, GoodFrame(b, ss, r),
         NEW F \in Nat, F # 0, \A i \in Slots : b.slot[i].frame <= F,
         NEW k \in Slots, b.slot[k].frame = F
  PROVE  \A i \in AnalyseFrame(b).valid :
           /\ AnalyseFrame(b).slot[i] \in Msg
           /\ AnalyseFrame(b).slot[i].run = r
           /\ AnalyseFrame(b).slot[i].frame = F
<1>1. b \in Frm /\ b.slot \in [Slots -> Msg]
  BY DEF GoodFrame, Frm
<1>2. /\ AnalyseFrame(b).slot = b.slot
      /\ AnalyseFrame(b).valid
           = {i \in Slots : /\ b.slot[i].frame # 0
                            /\ \A j \in Slots :
                                 b.slot[j].frame <= b.slot[i].frame}
  BY <1>1, AnalyseFinds
<1>3. ASSUME NEW i \in Slots, b.slot[i].frame # 0,
             \A j \in Slots : b.slot[j].frame <= b.slot[i].frame
      PROVE  b.slot[i] \in Msg /\ b.slot[i].run = r /\ b.slot[i].frame = F
  <2>1. b.slot[i] \in Msg /\ b.slot[i].frame \in Nat
    BY <1>1 DEF Msg
  <2>2. b.slot[i].frame <= F /\ F <= b.slot[i].frame
    BY <1>3
  <2>3. b.slot[i] # Blank
    BY <1>3 DEF Blank, Sample
  <2>4. b.slot[i].run = r
    BY <2>3 DEF GoodFrame, GoodSample
  <2>. QED BY <2>1, <2>2, <2>4
<1>. QED BY <1>2, <1>3

(* Everything in the frames has its type.                                   *)
LEMMA InFrames ==
  ASSUME WInv
  PROVE  /\ read \in Frm /\ stock \in Frm /\ write \in Frm
         /\ \A i \in Slots : /\ read.slot[i] \in Msg /\ stock.slot[i] \in Msg
                             /\ write.slot[i] \in Msg
         /\ read.valid \subseteq Slots /\ stock.valid \subseteq Slots
BY DEF WInv, FrameInv, GoodFrame, Frm

(* No slot gets ahead of the last sample.                                   *)
LEMMA SlotSwitch ==
  ASSUME SlotInv, NEW b, SwitchWriteBuffer(b), read' = read, ddbPrev'.sync,
         \A i \in Slots : /\ read.slot[i].frame <= ddbPrev'.frame
                          /\ stock.slot[i].frame <= ddbPrev'.frame
                          /\ b.slot[i].frame <= ddbPrev'.frame
  PROVE  SlotInv'
BY DEF SlotInv, SwitchWriteBuffer

(* The steps of the receiver keep what is said of the slots.                *)
LEMMA SlotReceiver ==
  ASSUME WInv, QueueInv, FramesFit, SlotInv, Receiver
  PROVE  SlotInv'
<1>. USE DEF sender, adapter, buffers, thread, bounds
<1>1. CASE Receive
  BY <1>1 DEF Receive, SlotInv
<1>2. CASE MissedSync
  <2>1. /\ SwitchWriteBuffer(AnalyseFrame(write)) /\ read' = read
        /\ ddbPrev' = [ddbPrev EXCEPT !.sync = TRUE]
    BY <1>2 DEF MissedSync
  <2>2. ddbPrev'.sync /\ ddbPrev'.frame = ddbPrev.frame
    BY <2>1, UnderWay DEF Msg
  <2>3. AnalyseFrame(write).slot = write.slot
    BY InFrames, AnalyseFinds
  <2>. QED BY <2>1, <2>2, <2>3, SlotSwitch DEF SlotInv
<1>3. CASE Update
  <2>1. upd # NoSample /\ ddbPrev' = upd /\ read' = read /\ life' = life
    BY <1>3 DEF Update
  <2>2. /\ upd \in Msg /\ GoodSample(upd, sent, run) /\ upd.no < Depth
        /\ upd.frame \in Nat /\ upd.no \in Nat /\ Before(ddbPrev, upd.frame)
    BY <2>1, UnderWay DEF GoodSample, FramesFit, QueueInv, Msg
  <2>3. ddbPrev.frame \in Nat /\ ddbPrev.frame <= upd.frame
    BY <2>2, UnderWay DEF Before, Msg
  <2>. DEFINE c == SetSample(write, upd)
  <2>4. /\ GoodFrame(c, sent, run) /\ c.slot[upd.no] = upd
        /\ \A i \in Slots : c.slot[i] = write.slot[i] \/ c.slot[i] = upd
    <3>1. sent \subseteq Msg /\ GoodFrame(write, sent, run)
      BY UnderWay DEF WInv, FrameInv
    <3>2. GoodSample(upd, sent, run) /\ upd.no < Depth
      BY <2>2
    <3>. QED BY ONLY <3>1, <3>2, SetGood
  <2>5. \A i \in Slots : /\ read.slot[i].frame <= upd.frame
                         /\ stock.slot[i].frame <= upd.frame
                         /\ write.slot[i].frame <= upd.frame
    <3>. SUFFICES ASSUME NEW i \in Slots
                  PROVE  /\ read.slot[i].frame <= upd.frame
                         /\ stock.slot[i].frame <= upd.frame
                         /\ write.slot[i].frame <= upd.frame
      OBVIOUS
    <3>1. /\ read.slot[i].frame \in Nat /\ stock.slot[i].frame \in Nat
          /\ write.slot[i].frame \in Nat
      BY InFrames DEF Msg
    <3>2. /\ read.slot[i].frame <= ddbPrev.frame
          /\ stock.slot[i].frame <= ddbPrev.frame
          /\ write.slot[i].frame <= ddbPrev.frame
      BY DEF SlotInv
    <3>. QED BY <2>2, <2>3, <3>1, <3>2
  <2>. HIDE DEF c
  <2>6. \A i \in Slots : c.slot[i].frame <= upd.frame
    BY <2>2, <2>4, <2>5
  <2>7. CASE upd.sync
    <3>1. SwitchWriteBuffer(AnalyseFrame(c))
      BY <1>3, <2>7 DEF Update, c
    <3>2. AnalyseFrame(c).slot = c.slot
      BY <2>4, AnalyseFinds DEF GoodFrame
    <3>. QED BY <2>1, <2>5, <2>6, <2>7, <3>1, <3>2, SlotSwitch
  <2>8. CASE ~upd.sync
    <3>1. write' = c /\ stock' = stock
      BY <1>3, <2>8 DEF Update, c
    <3>2. upd.no \in Slots
      BY <2>2, DdbAssumption DEF Slots
    <3>. QED BY <2>1, <2>4, <2>5, <2>6, <3>1, <3>2 DEF SlotInv
  <2>. QED BY <2>7, <2>8
<1>. QED BY <1>1, <1>2, <1>3 DEF Receiver

(* The slots of an invalidated buffer are those of no frame.                *)
LEMMA BlankSlots ==
  /\ \A i \in Slots : InvalidateData.slot[i].frame = 0
  /\ InvalidateData.valid = {}
BY DEF InvalidateData, Blank, Sample

(* Every step keeps what is said of the slots.                              *)
LEMMA SlotStep ==
  ASSUME WInv, QueueInv, FramesFit, SlotInv, [Next]_vars, Together
  PROVE  SlotInv'
<1>. USE DEF sender, adapter, buffers, thread, bounds
<1>1. CASE UNCHANGED <<ddbPrev, read, stock, write>> /\ (life' = "live" => life = "live")
  BY <1>1 DEF SlotInv
<1>2. ASSUME NEW sync \in BOOLEAN, NEW arrives \in BOOLEAN,
             SendNow(sync, arrives)
      PROVE  SlotInv'
  BY <1>1, <1>2 DEF SendNow
<1>3. CASE ConfigureSampleCounter
  BY <1>1, <1>3 DEF ConfigureSampleCounter
<1>4. CASE Receiver
  BY <1>4, SlotReceiver
<1>5. CASE FrameReady \/ ProcessDDBSync
  BY <1>1, <1>5 DEF FrameReady, ProcessDDBSync
<1>6. CASE SwitchReadBuffer
  <2>1. /\ UNCHANGED <<ddbPrev, write, life>>
        /\ (stock' = read /\ read' = stock) \/ UNCHANGED <<stock, read>>
    BY <1>6 DEF SwitchReadBuffer
  <2>. QED BY <2>1 DEF SlotInv
<1>7. ASSUME NEW r \in Readers, LockData(r) \/ UnlockData(r) PROVE SlotInv'
  BY <1>1, <1>7 DEF LockData, UnlockData
<1>8. CASE ResetData
  <2>1. /\ read' = InvalidateData /\ stock' = InvalidateData
        /\ write' = InvalidateData /\ ddbPrev' = NoPrev
    BY <1>8 DEF ResetData
  <2>. QED BY <2>1, BlankSlots, NoPrevFirst DEF SlotInv
<1>9. CASE DeleteMemory
  <2>1. /\ read' = InvalidateData /\ stock' = InvalidateData
        /\ write' = InvalidateData /\ ddbPrev' = ddbPrev /\ life' # "live"
    BY <1>9 DEF DeleteMemory
  <2>2. ddbPrev.frame \in Nat
    BY UnderWay DEF Msg
  <2>. QED BY <2>1, <2>2, BlankSlots DEF SlotInv
<1>10. CASE Destroy \/ Wake
  BY <1>1, <1>10 DEF Destroy, Wake
<1>11. CASE UNCHANGED vars
  BY <1>1, <1>11 DEF vars
<1>. QED BY <1>2, <1>3, <1>4, <1>5, <1>6, <1>7, <1>8, <1>9, <1>10, <1>11
         DEF Next, Finished, Thread, Destruction

-----------------------------------------------------------------------------
(* What is passed on is later than what is behind, and is itself behind     *)
(* from then on.                                                            *)
LEMMA PassOn ==
  ASSUME WInv, QueueInv, FramesFit, SlotInv, NEW b,
         \/ MissedSync /\ b = AnalyseFrame(write)
         \/ Update /\ upd.sync /\ b = AnalyseFrame(SetSample(write, upd))
  PROVE  \A i \in b.valid :
           /\ Past(b.slot[i], run', frame', wire', upd', ddbPrev')
           /\ \A s \in Msg : Past(s, run, frame, wire, upd, ddbPrev) =>
                               Earlier(s, b.slot[i])
<1>. USE DEF sender, adapter, buffers, thread, bounds
<1>0. upd # NoSample /\ UNCHANGED <<run, frame, wire>>
  BY DEF MissedSync, Update
<1>1. /\ upd \in Msg /\ GoodSample(upd, sent, run) /\ upd.no < Depth
      /\ upd.no \in Nat /\ upd.frame \in Nat /\ upd.frame # 0
      /\ Before(upd, frame) /\ frame \in Nat /\ life = "live"
      /\ sent \subseteq Msg /\ Before(ddbPrev, upd.frame)
      /\ ddbPrev.frame \in Nat /\ ddbPrev \in Msg
  BY <1>0, UnderWay DEF GoodSample, FramesFit, QueueInv, WInv, WireInv, Msg
<1>2. \A i \in 1 .. Len(wire) : wire[i].frame \in Nat /\ Before(upd, wire[i].frame)
  BY <1>0, UnderWay DEF QueueInv, Msg
<1>3. CASE MissedSync /\ b = AnalyseFrame(write)
  <2>1. /\ upd.frame > ddbPrev.frame /\ ~ddbPrev.sync /\ upd' = upd
        /\ ddbPrev' = [ddbPrev EXCEPT !.sync = TRUE]
    BY <1>3 DEF MissedSync
  <2>2. ddbPrev'.sync
    BY <1>1, <2>1 DEF Msg
  <2>3. ddbPrev.frame # 0
    BY <2>1 DEF WInv, PrevInv, NoPrev, Sample
  <2>4. ddbPrev.no \in Slots /\ write.slot[ddbPrev.no].frame = ddbPrev.frame
        /\ \A i \in Slots : write.slot[i].frame <= ddbPrev.frame
    BY <1>1, <2>1 DEF SlotInv
  <2>5. \A i \in b.valid : /\ b.slot[i] \in Msg /\ b.slot[i].run = run
                           /\ b.slot[i].frame = ddbPrev.frame
    <3>1. sent \subseteq Msg /\ GoodFrame(write, sent, run)
      BY <1>1 DEF WInv, FrameInv
    <3>2. PICK F \in Nat : F = ddbPrev.frame /\ F # 0
      BY <1>1, <2>3
    <3>3. PICK k \in Slots : write.slot[k].frame = F
      BY <2>4, <3>2
    <3>4. \A i \in Slots : write.slot[i].frame <= F
      BY <2>4, <3>2
    <3>5. \A i \in AnalyseFrame(write).valid :
            /\ AnalyseFrame(write).slot[i] \in Msg
            /\ AnalyseFrame(write).slot[i].run = run
            /\ AnalyseFrame(write).slot[i].frame = F
      BY ONLY <3>1, <3>2, <3>3, <3>4, NewestFrame
    <3>. QED BY <1>3, <3>2, <3>5
  <2>6. ddbPrev.frame < frame /\ \A i \in 1 .. Len(wire) : ddbPrev.frame < wire[i].frame
    BY <1>1, <1>2, <2>1 DEF Before
  <2>. QED BY <1>0, <1>1, <2>1, <2>2, <2>5, <2>6 DEF Past, Earlier
<1>4. CASE Update /\ upd.sync /\ b = AnalyseFrame(SetSample(write, upd))
  <2>. DEFINE c == SetSample(write, upd)
  <2>1. upd' = NoSample /\ ddbPrev' = upd /\ upd.sync
    BY <1>4 DEF Update
  <2>2. /\ GoodFrame(c, sent, run) /\ c.slot[upd.no] = upd
        /\ \A i \in Slots : c.slot[i] = write.slot[i] \/ c.slot[i] = upd
    <3>1. sent \subseteq Msg /\ GoodFrame(write, sent, run)
      BY <1>1 DEF WInv, FrameInv
    <3>2. GoodSample(upd, sent, run) /\ upd.no < Depth
      BY <1>1
    <3>. QED BY ONLY <3>1, <3>2, SetGood
  <2>3. upd.no \in Slots
    BY <1>1, DdbAssumption DEF Slots
  <2>4. \A i \in Slots : write.slot[i].frame <= upd.frame
    <3>. SUFFICES ASSUME NEW i \in Slots PROVE write.slot[i].frame <= upd.frame
      OBVIOUS
    <3>1. write.slot[i].frame \in Nat /\ write.slot[i].frame <= ddbPrev.frame
      BY InFrames DEF Msg, SlotInv
    <3>2. ddbPrev.frame <= upd.frame
      BY <1>1 DEF Before
    <3>. QED BY <1>1, <3>1, <3>2
  <2>5. \A i \in Slots : c.slot[i].frame <= upd.frame
    BY <1>1, <2>2, <2>4
  <2>. HIDE DEF c
  <2>6. \A i \in AnalyseFrame(c).valid :
          /\ AnalyseFrame(c).slot[i] \in Msg /\ AnalyseFrame(c).slot[i].run = run
          /\ AnalyseFrame(c).slot[i].frame = upd.frame
    <3>1. sent \subseteq Msg /\ upd.frame \in Nat /\ upd.frame # 0
      BY <1>1
    <3>2. GoodFrame(c, sent, run) /\ c.slot[upd.no].frame = upd.frame
      BY <2>2
    <3>. QED BY ONLY <2>3, <2>5, <3>1, <3>2, NewestFrame
  <2>7. \A i \in b.valid : /\ b.slot[i] \in Msg /\ b.slot[i].run = run
                           /\ b.slot[i].frame = upd.frame
    BY <1>4, <2>6 DEF c
  <2>8. upd.frame < frame /\ \A i \in 1 .. Len(wire) : upd.frame < wire[i].frame
    BY <1>1, <1>2, <2>1 DEF Before
  <2>. QED BY <1>0, <1>1, <2>1, <2>7, <2>8 DEF Past, Earlier
<1>. QED BY <1>3, <1>4

(* Steps that pass nothing on.                                              *)
LEMMA PassSame ==
  ASSUME WInv, PassInv, UNCHANGED <<last, stock, read>>, full' => full,
         pc' = "notify" => pc = "notify",
         \A s \in Msg : Past(s, run, frame, wire, upd, ddbPrev) =>
                        Past(s, run', frame', wire', upd', ddbPrev')
  PROVE  PassInv'
<1>1. /\ \A i \in stock.valid : stock.slot[i] \in Msg
      /\ \A i \in read.valid : read.slot[i] \in Msg
  BY InFrames
<1>2. last' \in Msg /\ Past(last', run', frame', wire', upd', ddbPrev')
  BY DEF PassInv, Behind
<1>3. full' => \A i \in stock'.valid :
                 /\ Past(stock'.slot[i], run', frame', wire', upd', ddbPrev')
                 /\ Earlier(last', stock'.slot[i])
  BY <1>1 DEF PassInv, Behind
<1>4. pc' = "notify" =>
        \A i \in read'.valid :
          /\ Past(read'.slot[i], run', frame', wire', upd', ddbPrev')
          /\ full' => \A j \in stock'.valid :
                        Earlier(read'.slot[i], stock'.slot[j])
  BY <1>1 DEF PassInv, Behind
<1>. QED BY <1>2, <1>3, <1>4 DEF PassInv, Behind

(* Steps that leave nothing to deliver.                                     *)
LEMMA PassBlank ==
  ASSUME WInv, PassInv, last' = last, read'.valid = {}, stock'.valid = {},
         \A s \in Msg : Past(s, run, frame, wire, upd, ddbPrev) =>
                        Past(s, run', frame', wire', upd', ddbPrev')
  PROVE  PassInv'
BY DEF PassInv, Behind

(* A frame is put into the stock buffer.                                    *)
LEMMA PassSwitch ==
  ASSUME WInv, PassInv, UNCHANGED <<last, read, pc>>, NEW b,
         SwitchWriteBuffer(b),
         \A s \in Msg : Past(s, run, frame, wire, upd, ddbPrev) =>
                        Past(s, run', frame', wire', upd', ddbPrev'),
         \A i \in b.valid :
           /\ Past(b.slot[i], run', frame', wire', upd', ddbPrev')
           /\ \A s \in Msg : Past(s, run, frame, wire, upd, ddbPrev) =>
                               Earlier(s, b.slot[i])
  PROVE  PassInv'
<1>1. CASE UNCHANGED <<stock, full>>
  <2>1. full' => full
    BY <1>1
  <2>2. UNCHANGED <<last, stock, read>>
    BY <1>1
  <2>. QED BY <2>1, <2>2, PassSame
<1>2. CASE stock' = b
  <2>1. \A i \in read.valid : read.slot[i] \in Msg
    BY InFrames
  <2>2. last' \in Msg /\ Past(last', run', frame', wire', upd', ddbPrev')
    BY DEF PassInv, Behind
  <2>3. \A i \in stock'.valid :
          /\ Past(stock'.slot[i], run', frame', wire', upd', ddbPrev')
          /\ Earlier(last', stock'.slot[i])
    BY <1>2 DEF PassInv, Behind
  <2>4. pc' = "notify" =>
          \A i \in read'.valid :
            /\ Past(read'.slot[i], run', frame', wire', upd', ddbPrev')
            /\ \A j \in stock'.valid : Earlier(read'.slot[i], stock'.slot[j])
    BY <1>2, <2>1 DEF PassInv, Behind
  <2>. QED BY <2>2, <2>3, <2>4 DEF PassInv, Behind
<1>. QED BY <1>1, <1>2 DEF SwitchWriteBuffer

(* The thread switches the buffers, and notes what was delivered.           *)
LEMMA PassThread ==
  ASSUME WInv, PassInv, SwitchReadBuffer \/ ProcessDDBSync
  PROVE  PassInv'
<1>. USE DEF sender, adapter, buffers, thread, bounds
<1>1. UNCHANGED <<run, frame, wire, upd, ddbPrev, life>>
  BY DEF SwitchReadBuffer, ProcessDDBSync
<1>2. CASE SwitchReadBuffer
  <2>1. CASE full
    <3>1. /\ read' = stock /\ stock' = read /\ last' = last
          /\ full' = FALSE
      BY <1>2, <2>1 DEF SwitchReadBuffer
    <3>2. ~full'
      BY <3>1, Zenon
    <3>. QED BY <1>1, <2>1, <3>1, <3>2 DEF PassInv, Behind
  <2>2. CASE ~full
    <3>1. UNCHANGED <<stock, read, last, full>> /\ pc' # "notify"
      BY <1>2, <2>2 DEF SwitchReadBuffer, LoopHead
    <3>. QED BY <1>1, <3>1, PassSame
  <2>. QED BY <2>1, <2>2
<1>3. CASE ProcessDDBSync
  <2>1. /\ pc = "notify" /\ pc' # "notify" /\ UNCHANGED <<stock, read, full>>
        /\ last' = IF read.valid # {} THEN FrameOf(read) ELSE last
    BY <1>3 DEF ProcessDDBSync, LoopHead
  <2>2. CASE read.valid = {}
    <3>1. last' = last
      BY <2>1, <2>2
    <3>. QED BY <1>1, <2>1, <3>1, PassSame
  <2>3. CASE read.valid # {}
    <3>1. PICK k \in read.valid : last' = read.slot[k]
      BY <2>1, <2>3 DEF FrameOf
    <3>2. read.slot[k] \in Msg
      BY InFrames
    <3>3. /\ Past(read.slot[k], run, frame, wire, upd, ddbPrev)
          /\ full => \A j \in stock.valid : Earlier(read.slot[k], stock.slot[j])
      BY <2>1 DEF PassInv, Behind
    <3>. QED BY <1>1, <2>1, <3>1, <3>2, <3>3 DEF PassInv, Behind
  <2>. QED BY <2>2, <2>3
<1>. QED BY <1>2, <1>3

(* Every step delivers in order.                                            *)
LEMMA PassStep ==
  ASSUME WInv, QueueInv, FramesFit, SlotInv, PassInv, [Next]_vars, Together
  PROVE  PassInv'
<1>. USE DEF sender, adapter, buffers, thread, bounds
<1>0. \A s \in Msg : Past(s, run, frame, wire, upd, ddbPrev) =>
                     Past(s, run', frame', wire', upd', ddbPrev')
  BY BehindStep
<1>1. CASE /\ UNCHANGED <<last, stock, read>> /\ (full' => full)
           /\ pc' = "notify" => pc = "notify"
  BY <1>0, <1>1, PassSame
<1>2. ASSUME NEW sync \in BOOLEAN, NEW arrives \in BOOLEAN,
             SendNow(sync, arrives)
      PROVE  PassInv'
  BY <1>1, <1>2 DEF SendNow
<1>3. CASE ConfigureSampleCounter
  BY <1>1, <1>3 DEF ConfigureSampleCounter
<1>4. CASE Receive
  BY <1>1, <1>4 DEF Receive
<1>5. CASE MissedSync
  <2>1. UNCHANGED <<last, read, pc>> /\ SwitchWriteBuffer(AnalyseFrame(write))
    BY <1>5 DEF MissedSync
  <2>. QED BY <1>0, <1>5, <2>1, PassOn, PassSwitch
<1>6. CASE Update
  <2>1. UNCHANGED <<last, read, pc>>
    BY <1>6 DEF Update
  <2>2. CASE upd.sync
    <3>1. SwitchWriteBuffer(AnalyseFrame(SetSample(write, upd)))
      BY <1>6, <2>2 DEF Update
    <3>. QED BY <1>0, <1>6, <2>1, <2>2, <3>1, PassOn, PassSwitch
  <2>3. CASE ~upd.sync
    <3>1. UNCHANGED <<stock, full>>
      BY <1>6, <2>3 DEF Update
    <3>. QED BY <1>1, <2>1, <3>1
  <2>. QED BY <2>2, <2>3
<1>7. CASE FrameReady
  <2>1. UNCHANGED <<last, stock, read, full>> /\ pc' # "notify"
    BY <1>7 DEF FrameReady
  <2>. QED BY <1>1, <2>1
<1>8. CASE SwitchReadBuffer \/ ProcessDDBSync
  BY <1>8, PassThread
<1>9. ASSUME NEW r \in Readers, LockData(r) \/ UnlockData(r) PROVE PassInv'
  BY <1>1, <1>9 DEF LockData, UnlockData
<1>10. CASE ResetData \/ DeleteMemory
  <2>1. read' = InvalidateData /\ stock' = InvalidateData /\ last' = last
    BY <1>10 DEF ResetData, DeleteMemory
  <2>. QED BY <1>0, <2>1, BlankSlots, PassBlank
<1>11. CASE Destroy
  BY <1>1, <1>11 DEF Destroy
<1>12. CASE Wake
  <2>1. UNCHANGED <<last, stock, read, pc>> /\ full' = FALSE
    BY <1>12 DEF Wake
  <2>2. ~full'
    BY <2>1, Zenon
  <2>. QED BY <1>1, <2>1, <2>2
<1>13. CASE UNCHANGED vars
  BY <1>1, <1>13 DEF vars
<1>. QED BY <1>2, <1>3, <1>4, <1>5, <1>6, <1>7, <1>8, <1>9, <1>10, <1>11,
            <1>12, <1>13
         DEF Next, Finished, Receiver, Thread, Destruction

-----------------------------------------------------------------------------
(* Samples that were sent stay sent.                                        *)
LEMMA SentGrows == [Next]_vars => sent \subseteq sent'
BY DEF Next, vars, sender, SendNow, ConfigureSampleCounter, Receiver, Receive,
       MissedSync, Update, Thread, FrameReady, SwitchReadBuffer,
       ProcessDDBSync, LockData, UnlockData, ResetData, Destroy, Destruction,
       Wake, DeleteMemory, Finished

(* Every step keeps the invariant of delivery.                              *)
LEMMA OStep ==
  ASSUME OInv, [Next]_vars, Together
  PROVE  OInv'
<1>1. FramesFit' => FramesFit
  BY SentGrows DEF FramesFit
<1>2. WInv' /\ QueueInv'
  BY WStep, QueueStep DEF OInv
<1>3. FramesFit' => SlotInv' /\ PassInv'
  BY <1>1, SlotStep, PassStep DEF OInv
<1>. QED BY <1>2, <1>3 DEF OInv

(* The initial states satisfy the invariant of delivery.                    *)
LEMMA OStart == Init => OInv
<1>. SUFFICES ASSUME Init PROVE OInv
  OBVIOUS
<1>1. /\ run = 1 /\ frame = 1 /\ wire = << >> /\ upd = NoSample
      /\ ddbPrev = NoPrev /\ last = NoPrev /\ pc = "wait" /\ full = FALSE
      /\ read = InvalidateData /\ stock = InvalidateData
      /\ write = InvalidateData
  BY DEF Init
<1>2. WInv
  BY WStart
<1>3. QueueInv
  BY <1>1, NoPrevFirst DEF QueueInv
<1>4. SlotInv
  BY <1>1, BlankSlots, NoPrevFirst DEF SlotInv
<1>5. NoPrev.run = 0
  BY DEF NoPrev, Sample
<1>6. Behind(last)
  BY <1>1, <1>5 DEF Behind, Past
<1>7. PassInv
  BY <1>1, <1>6, BlankSlots, NoPrevFirst DEF PassInv
<1>. QED BY <1>2, <1>3, <1>4, <1>7 DEF OInv

(* Frames that fit into the buffers reach the sync listeners in the order   *)
(* in which they were sent and never twice, for buffers of any depth and    *)
(* whatever is lost, dropped, reset or read in between.                     *)
THEOREM FramesDeliveredOnce == Together => (Spec => DeliveredOnce)
<1>1. SUFFICES ASSUME Together PROVE Spec => DeliveredOnce
  OBVIOUS
<1>. DEFINE Kept == pc = "lock" /\ pc' = "notify" /\ read'.valid # {} /\ FramesFit
                      => Earlier(last, FrameOf(read'))
<1>2. OInv /\ [Next]_vars => OInv'
  BY <1>1, OStep
<1>3. OInv /\ [Next]_vars => [Kept]_vars
  <2>. SUFFICES ASSUME OInv, Next, pc = "lock", pc' = "notify",
                       read'.valid # {}, FramesFit
                PROVE  Earlier(last, FrameOf(read'))
    BY DEF vars
  <2>. USE DEF thread
  <2>1. SwitchReadBuffer
    BY DEF Next, SendNow, ConfigureSampleCounter, Receiver, Receive,
       MissedSync, Update, Thread, FrameReady, ProcessDDBSync, LockData,
       UnlockData, ResetData, Destroy, Destruction, Wake, DeleteMemory,
       Finished, vars
  <2>2. full /\ read' = stock
    BY <2>1 DEF SwitchReadBuffer, LoopHead
  <2>3. \A i \in stock.valid : Earlier(last, stock.slot[i])
    BY <2>2 DEF OInv, PassInv
  <2>. QED BY <2>2, <2>3 DEF FrameOf
<1>. QED BY <1>2, <1>3, OStart, PTL DEF Spec, DeliveredOnce

-----------------------------------------------------------------------------
(* What the adapter of a listener reports, whether or not the sender starts *)
(* anew together with the receiver.                                         *)

(* The order in which a sender, in all its runs, sends.                     *)
Lt(s, t) ==
  \/ s.run < t.run
  \/ s.run = t.run /\ s.frame < t.frame
  \/ s.run = t.run /\ s.frame = t.frame /\ s.no < t.no

(* Before a sample that was sent, or is the next to be sent, its            *)
(* predecessors were sent: in its frame, and the end of the frame before.   *)
Preceded(ss, r, f, n) ==
  /\ n # 0 => \E q \in ss : q.run = r /\ q.frame = f /\ q.no = n - 1
  /\ f > 1 => \E q \in ss : q.run = r /\ q.frame = f - 1 /\ q.sync

GaplessInv ==
  /\ Preceded(sent, run, frame, no)
  /\ \A s \in sent : Preceded(sent, s.run, s.frame, s.no)

(* Samples arrive in order; what was sent is lost, has arrived or will.     *)
ArrivalInv ==
  /\ wire \in Seq(Msg) /\ prev \in Msg
  /\ \A i \in 1 .. Len(wire) : /\ wire[i] \in sent /\ wire[i] \notin lost
                               /\ Lt(prev, wire[i])
  /\ \A i, j \in 1 .. Len(wire) : i < j => Lt(wire[i], wire[j])
  /\ prev = NoPrev \/ (prev \in sent /\ prev \notin lost)
  /\ \A s \in sent : s \in lost \/ s = prev \/ Lt(s, prev)
                     \/ \E i \in 1 .. Len(wire) : s = wire[i]

(* The losses that lie behind the adapter account for its reports.          *)
LostBefore == {l \in lost : Lt(l, prev)}

CountInv ==
  /\ lost \subseteq sent /\ IsFiniteSet(lost)
  /\ missed \in Nat /\ missed <= Cardinality(LostBefore)

(* The inductive invariant of LossesReported.                               *)
LInv == SentInv /\ GaplessInv /\ ArrivalInv /\ CountInv

(* Lt is a strict order of the samples.                                     *)
LEMMA LtOrder ==
  /\ \A s, t, u \in Msg : Lt(s, t) /\ Lt(t, u) => Lt(s, u)
  /\ \A s, t \in Msg : Lt(s, t) => ~Lt(t, s) /\ s # t
<1>1. \A s \in Msg : s.run \in Nat /\ s.frame \in Nat /\ s.no \in Nat
  BY DEF Msg
<1>2. ASSUME NEW s \in Msg, NEW t \in Msg, NEW u \in Msg, Lt(s, t), Lt(t, u)
      PROVE  Lt(s, u)
  BY <1>1, <1>2 DEF Lt
<1>3. ASSUME NEW s \in Msg, NEW t \in Msg, Lt(s, t)
      PROVE  ~Lt(t, s) /\ s # t
  BY <1>1, <1>3 DEF Lt
<1>. QED BY <1>2, <1>3

(* The next sample comes after all that were sent.                          *)
LEMMA NextIsLast ==
  ASSUME SentInv, NEW sync \in BOOLEAN
  PROVE  LET x == Sample(run, frame, no, sync) IN
         /\ x \in Msg /\ x.run = run /\ x.frame = frame /\ x.no = no
         /\ x.sync = sync /\ \A s \in sent : Lt(s, x)
<1>. DEFINE x == Sample(run, frame, no, sync)
<1>1. run \in Nat /\ frame \in Nat /\ no \in Nat /\ sent \subseteq Msg
  BY DEF SentInv, GoodSent
<1>2. /\ x \in Msg /\ x.run = run /\ x.frame = frame /\ x.no = no
      /\ x.sync = sync
  BY <1>1 DEF Sample, Msg
<1>3. ASSUME NEW s \in sent PROVE Lt(s, x)
  <2>1. s.run \in Nat /\ s.frame \in Nat /\ s.no \in Nat
    BY <1>1 DEF Msg
  <2>2. /\ s.run <= run /\ (s.run = run => s.frame <= frame)
        /\ (s.run = run /\ s.frame = frame => s.no < no)
    BY DEF SentInv, GoodSent
  <2>. QED BY <1>1, <1>2, <2>1, <2>2 DEF Lt
<1>. HIDE DEF x
<1>4. /\ x \in Msg /\ x.run = run /\ x.frame = frame /\ x.no = no
      /\ x.sync = sync /\ \A s \in sent : Lt(s, x)
  BY <1>2, <1>3
<1>. QED BY <1>4 DEF x

(* A sample that was preceded stays so when more is sent.                   *)
LEMMA PrecededGrows ==
  ASSUME NEW ss, NEW tt, ss \subseteq tt, NEW r, NEW f, NEW n,
         Preceded(ss, r, f, n)
  PROVE  Preceded(tt, r, f, n)
BY DEF Preceded

(* The sender: its numbers have no gaps.                                    *)
LEMMA SentStep ==
  ASSUME SentInv, GaplessInv, [Next]_vars
  PROVE  SentInv' /\ GaplessInv'
<1>. USE DEF sender
<1>1. CASE UNCHANGED <<run, frame, no, sent>>
  BY <1>1 DEF SentInv, GaplessInv
<1>2. ASSUME NEW sync \in BOOLEAN, NEW arrives \in BOOLEAN,
             SendNow(sync, arrives)
      PROVE  SentInv' /\ GaplessInv'
  <2>. DEFINE x == Sample(run, frame, no, sync)
  <2>1. /\ sent' = sent \cup {x} /\ run' = run
        /\ frame' = IF sync THEN frame + 1 ELSE frame
        /\ no' = IF sync THEN 0 ELSE no + 1
    BY <1>2 DEF SendNow
  <2>2. SentInv'
    BY <2>1, SendGood DEF SentInv
  <2>3. /\ x.run = run /\ x.frame = frame /\ x.no = no /\ x.sync = sync
    BY NextIsLast
  <2>4. run \in Nat /\ frame \in Nat /\ no \in Nat
    BY DEF SentInv, GoodSent
  <2>. HIDE DEF x
  <2>5. sent \subseteq sent' /\ x \in sent'
    BY <2>1
  <2>6. Preceded(sent', run, frame, no)
    BY <2>5, PrecededGrows DEF GaplessInv
  <2>7. \A s \in sent' : Preceded(sent', s.run, s.frame, s.no)
    BY <2>1, <2>3, <2>5, <2>6, PrecededGrows DEF GaplessInv
  <2>8. Preceded(sent', run', frame', no')
    <3>1. CASE sync
      <4>1. frame' = frame + 1 /\ no' = 0 /\ frame' - 1 = frame /\ x.sync
        BY <2>1, <2>3, <2>4, <3>1
      <4>. QED BY <2>1, <2>3, <2>5, <4>1 DEF Preceded
    <3>2. CASE ~sync
      <4>1. frame' = frame /\ no' = no + 1 /\ no' - 1 = no
        BY <2>1, <2>4, <3>2
      <4>. QED BY <2>1, <2>3, <2>5, <2>6, <4>1 DEF Preceded
    <3>. QED BY <3>1, <3>2
  <2>. QED BY <2>2, <2>7, <2>8 DEF GaplessInv
<1>3. CASE ConfigureSampleCounter
  <2>1. run' = run + 1 /\ frame' = 1 /\ no' = 0 /\ sent' = sent
    BY <1>3 DEF ConfigureSampleCounter
  <2>2. SentInv'
    BY <2>1, RunGood DEF SentInv
  <2>3. Preceded(sent', run', frame', no')
    BY <2>1 DEF Preceded
  <2>. QED BY <2>1, <2>2, <2>3 DEF GaplessInv
<1>4. CASE Receiver
  BY <1>1, <1>4 DEF Receiver, Receive, MissedSync, Update
<1>5. CASE Thread
  BY <1>1, <1>5 DEF Thread, FrameReady, SwitchReadBuffer, ProcessDDBSync
<1>6. ASSUME NEW r \in Readers, LockData(r) \/ UnlockData(r)
      PROVE  SentInv' /\ GaplessInv'
  BY <1>1, <1>6 DEF LockData, UnlockData
<1>7. CASE ResetData \/ Destroy \/ Destruction
  BY <1>1, <1>7 DEF ResetData, Destroy, Destruction, Wake, DeleteMemory
<1>8. CASE UNCHANGED vars
  BY <1>1, <1>8 DEF vars
<1>. QED BY <1>2, <1>3, <1>4, <1>5, <1>6, <1>7, <1>8 DEF Next, Finished

(* The adapter reports a loss only if one lies between two samples that     *)
(* arrive one after the other.                                              *)
LEMMA ReportIsLoss ==
  ASSUME LInv, wire # << >>, Missing(Head(wire))
  PROVE  \E q \in lost : Lt(prev, q) /\ Lt(q, Head(wire))
<1>. DEFINE s == Head(wire)
<1>1. /\ wire \in Seq(Msg) /\ prev \in Msg /\ sent \subseteq Msg
      /\ \A t \in sent : t.frame # 0
  BY DEF LInv, ArrivalInv, SentInv, GoodSent
<1>2. s = wire[1] /\ 1 \in 1 .. Len(wire) /\ \A i \in 1 .. Len(wire) : i = 1 \/ 1 < i
  BY <1>1, TailOf
<1>3. /\ s \in sent /\ s \in Msg /\ Lt(prev, s) /\ s.frame # 0
      /\ Preceded(sent, s.run, s.frame, s.no)
  BY <1>1, <1>2 DEF LInv, ArrivalInv, GaplessInv
<1>. HIDE DEF s
<1>4. ASSUME NEW q \in sent, Lt(prev, q), Lt(q, s)
      PROVE  q \in lost
  <2>1. q \in Msg
    BY <1>1
  <2>2. ~Lt(q, prev) /\ q # prev
    BY <1>1, <1>4, <2>1, LtOrder
  <2>3. ASSUME NEW i \in 1 .. Len(wire), q = wire[i] PROVE FALSE
    <3>1. wire[i] \in Msg
      BY <2>1, <2>3
    <3>2. wire[i] = s \/ Lt(s, wire[i])
      BY <1>2 DEF LInv, ArrivalInv
    <3>. QED BY <1>3, <1>4, <2>1, <2>3, <3>2, LtOrder
  <2>. QED BY <2>2, <2>3 DEF LInv, ArrivalInv
<1>5. /\ s.run \in Nat /\ s.frame \in Nat /\ s.no \in Nat /\ prev.run \in Nat
      /\ prev.frame \in Nat /\ prev.no \in Nat /\ s.frame > 0
      /\ \A q \in sent : q.run \in Nat /\ q.frame \in Nat /\ q.no \in Nat
  BY SMTT(30), <1>1, <1>3 DEF Msg
<1>6. CASE s.no > prev.no + 1
  <2>1. PICK q \in sent : q.run = s.run /\ q.frame = s.frame /\ q.no = s.no - 1
    BY <1>3, <1>5, <1>6 DEF Preceded
  <2>2. Lt(q, s) /\ Lt(prev, q)
    BY <1>3, <1>5, <1>6, <2>1 DEF Lt
  <2>. QED BY <1>4, <2>2 DEF s
<1>7. ASSUME s.frame > 1, prev.run < s.run \/ s.frame > prev.frame + 1
      PROVE  \E q \in lost : Lt(prev, q) /\ Lt(q, s)
  <2>1. PICK q \in sent : q.run = s.run /\ q.frame = s.frame - 1 /\ q.sync
    BY <1>3, <1>7 DEF Preceded
  <2>2. Lt(q, s)
    BY <1>5, <2>1 DEF Lt
  <2>3. Lt(prev, q)
    BY <1>3, <1>5, <1>7, <2>1 DEF Lt
  <2>. QED BY <1>4, <2>2, <2>3
<1>8. CASE s.frame > prev.frame + 1
  BY <1>5, <1>7, <1>8 DEF s
<1>9. CASE s.frame > prev.frame /\ ~prev.sync /\ ~(s.frame > prev.frame + 1)
  <2>1. prev \in sent /\ prev.frame # 0
    BY <1>1, <1>9 DEF LInv, ArrivalInv, NoPrev, Sample
  <2>2. s.frame > 1 /\ s.frame - 1 = prev.frame
    BY <1>5, <1>9, <2>1
  <2>3. CASE prev.run < s.run
    BY <1>7, <2>2, <2>3 DEF s
  <2>4. CASE ~(prev.run < s.run)
    <3>1. prev.run = s.run
      BY <1>3, <1>5, <2>4 DEF Lt
    <3>2. PICK q \in sent : q.run = s.run /\ q.frame = prev.frame /\ q.sync
      BY <1>3, <2>2 DEF Preceded
    <3>3. prev.no <= q.no /\ q # prev /\ (prev.no = q.no => prev = q)
      BY <1>9, <2>1, <3>1, <3>2 DEF LInv, SentInv, GoodSent
    <3>4. Lt(prev, q)
      BY <1>5, <3>1, <3>2, <3>3 DEF Lt
    <3>5. Lt(q, s)
      BY <1>5, <1>9, <3>2 DEF Lt
    <3>. QED BY <1>4, <3>4, <3>5 DEF s
  <2>. QED BY <2>3, <2>4
<1>. QED BY <1>6, <1>8, <1>9 DEF Missing, s

-----------------------------------------------------------------------------
(* A sample arrives at the adapter.                                         *)
LEMMA ReceiveLosses ==
  ASSUME LInv, Receive
  PROVE  ArrivalInv' /\ CountInv'
<1>. DEFINE s == Head(wire)
<1>0. /\ wire # << >> /\ wire' = Tail(wire) /\ prev' = s
      /\ UNCHANGED <<sent, lost>>
      /\ missed' = missed + (IF Missing(s) THEN 1 ELSE 0)
  BY DEF Receive, sender
<1>1. /\ wire \in Seq(Msg) /\ prev \in Msg /\ sent \subseteq Msg
  BY DEF LInv, ArrivalInv, SentInv, GoodSent
<1>2. /\ wire' \in Seq(Msg) /\ s = wire[1] /\ 1 \in 1 .. Len(wire)
      /\ \A i \in 1 .. Len(wire') : /\ wire'[i] = wire[i + 1]
                                    /\ i + 1 \in 1 .. Len(wire)
  BY <1>0, <1>1, TailOf
<1>3. s \in sent /\ s \in Msg /\ s \notin lost /\ Lt(prev, s)
  BY <1>1, <1>2 DEF LInv, ArrivalInv
<1>4. \A i \in 1 .. Len(wire) : i = 1 \/ (i - 1 \in 1 .. Len(wire') /\ wire[i] = wire'[i - 1])
  <2>1. Len(wire') = Len(wire) - 1 /\ Len(wire) \in Nat
    BY <1>0, <1>1
  <2>2. \A i \in 1 .. Len(wire) : i = 1 \/ (i - 1 \in 1 .. Len(wire') /\ i - 1 + 1 = i)
    BY <2>1
  <2>. QED BY <1>2, <2>2
<1>. HIDE DEF s
<1>5. ArrivalInv'
  <2>1. \A i \in 1 .. Len(wire') : /\ wire'[i] \in sent /\ wire'[i] \notin lost
                                   /\ Lt(s, wire'[i])
    <3>. SUFFICES ASSUME NEW i \in 1 .. Len(wire')
                  PROVE  /\ wire'[i] \in sent /\ wire'[i] \notin lost
                         /\ Lt(s, wire'[i])
      OBVIOUS
    <3>1. 1 < i + 1 /\ i + 1 \in 1 .. Len(wire) /\ wire'[i] = wire[i + 1]
      BY <1>2
    <3>. QED BY <1>2, <3>1 DEF LInv, ArrivalInv
  <2>2. ASSUME NEW i \in 1 .. Len(wire'), NEW j \in 1 .. Len(wire'), i < j
        PROVE  Lt(wire'[i], wire'[j])
    <3>1. i + 1 < j + 1 /\ i + 1 \in 1 .. Len(wire) /\ j + 1 \in 1 .. Len(wire)
      BY <1>2, <2>2
    <3>. QED BY <1>2, <3>1 DEF LInv, ArrivalInv
  <2>3. ASSUME NEW t \in sent
        PROVE  t \in lost \/ t = s \/ Lt(t, s)
               \/ \E i \in 1 .. Len(wire') : t = wire'[i]
    <3>1. t \in Msg
      BY <1>1
    <3>2. CASE t = prev \/ Lt(t, prev)
      BY <1>1, <1>3, <3>1, <3>2, LtOrder
    <3>3. CASE \E i \in 1 .. Len(wire) : t = wire[i]
      BY <1>2, <1>4, <3>3
    <3>. QED BY <3>2, <3>3 DEF LInv, ArrivalInv
  <2>. QED BY <1>0, <1>2, <1>3, <2>1, <2>2, <2>3 DEF ArrivalInv
<1>6. lost \subseteq Msg /\ IsFiniteSet(lost) /\ missed \in Nat
      /\ missed <= Cardinality(LostBefore)
  BY <1>1 DEF LInv, CountInv
<1>7. LostBefore \subseteq LostBefore' /\ LostBefore' \subseteq lost
  BY <1>0, <1>1, <1>3, <1>6, LtOrder DEF LostBefore
<1>8. /\ IsFiniteSet(LostBefore) /\ IsFiniteSet(LostBefore')
      /\ Cardinality(LostBefore) \in Nat /\ Cardinality(LostBefore') \in Nat
      /\ Cardinality(LostBefore) <= Cardinality(LostBefore')
  BY <1>6, <1>7, FS_Subset, FS_CardinalityType
<1>9. CASE ~Missing(s)
  <2>1. missed' = missed
    BY <1>0, <1>6, <1>9
  <2>. QED BY <1>0, <1>6, <1>5, <1>8, <2>1 DEF LInv, CountInv
<1>10. CASE Missing(s)
  <2>1. PICK q \in lost : Lt(prev, q) /\ Lt(q, s)
    BY <1>0, <1>10, ReportIsLoss DEF s
  <2>2. q \in LostBefore' /\ q \notin LostBefore
    BY <1>0, <1>1, <1>6, <2>1, LtOrder DEF LostBefore
  <2>3. Cardinality(LostBefore) # Cardinality(LostBefore')
    BY <1>7, <1>8, <2>2, FS_Subset
  <2>4. missed' = missed + 1
    BY <1>0, <1>10
  <2>5. missed' <= Cardinality(LostBefore') /\ missed' \in Nat
    BY <1>6, <1>8, <2>3, <2>4
  <2>. QED BY <1>0, <1>5, <2>5 DEF LInv, CountInv
<1>. QED BY <1>9, <1>10

(* A sample is sent, and maybe lost.                                        *)
LEMMA SendLosses ==
  ASSUME LInv, NEW sync \in BOOLEAN, NEW arrives \in BOOLEAN,
         SendNow(sync, arrives)
  PROVE  ArrivalInv' /\ CountInv'
<1>. DEFINE x == Sample(run, frame, no, sync)
<1>1. /\ sent' = sent \cup {x} /\ UNCHANGED <<prev, missed>>
      /\ \/ wire' = Append(wire, x) /\ lost' = lost
         \/ wire' = wire /\ lost' = lost \cup {x}
  BY DEF SendNow, adapter
<1>2. x \in Msg /\ \A s \in sent : Lt(s, x)
  BY NextIsLast DEF LInv
<1>3. /\ wire \in Seq(Msg) /\ prev \in Msg /\ sent \subseteq Msg
      /\ lost \subseteq sent /\ IsFiniteSet(lost) /\ missed \in Nat
      /\ missed <= Cardinality(LostBefore) /\ run \in Nat /\ run # 0
  BY DEF LInv, ArrivalInv, SentInv, GoodSent, CountInv
<1>4. Lt(prev, x)
  <2>1. CASE prev \in sent
    BY <1>2, <2>1
  <2>2. CASE prev = NoPrev
    BY <1>3, <2>2 DEF Lt, NoPrev, Sample
  <2>. QED BY <2>1, <2>2 DEF LInv, ArrivalInv
<1>5. x \notin sent /\ x # prev /\ ~Lt(x, prev)
  BY <1>2, <1>3, <1>4, LtOrder
<1>. HIDE DEF x
<1>6. LostBefore' = LostBefore
  BY <1>1, <1>5 DEF LostBefore
<1>7. IsFiniteSet(lost') /\ lost' \subseteq sent'
  BY <1>1, <1>3, FS_AddElement
<1>8. CountInv'
  BY <1>1, <1>3, <1>6, <1>7 DEF CountInv
<1>9. CASE wire' = wire /\ lost' = lost \cup {x}
  <2>1. \A i \in 1 .. Len(wire) : wire[i] # x
    BY <1>5 DEF LInv, ArrivalInv
  <2>2. ArrivalInv'
    BY <1>1, <1>5, <1>9, <2>1 DEF LInv, ArrivalInv
  <2>. QED BY <1>8, <2>2
<1>10. CASE wire' = Append(wire, x) /\ lost' = lost
  <2>1. /\ Len(wire') = Len(wire) + 1 /\ Len(wire) \in Nat /\ wire' \in Seq(Msg)
        /\ \A i \in 1 .. Len(wire) + 1 :
             \/ i \in 1 .. Len(wire) /\ wire'[i] = wire[i]
             \/ i = Len(wire) + 1 /\ wire'[i] = x
    BY <1>2, <1>3, <1>10, AppendOf
  <2>2. \A i \in 1 .. Len(wire') :
          wire'[i] \in sent' /\ wire'[i] \notin lost' /\ Lt(prev, wire'[i])
    BY <1>1, <1>3, <1>4, <1>5, <1>10, <2>1 DEF LInv, ArrivalInv
  <2>3. ASSUME NEW i \in 1 .. Len(wire'), NEW j \in 1 .. Len(wire'), i < j
        PROVE  Lt(wire'[i], wire'[j])
    <3>1. i \in 1 .. Len(wire) /\ wire'[i] = wire[i] /\ wire[i] \in sent
      BY <2>1, <2>3 DEF LInv, ArrivalInv
    <3>2. CASE wire'[j] = x
      BY <1>2, <3>1, <3>2
    <3>3. CASE j \in 1 .. Len(wire) /\ wire'[j] = wire[j]
      BY <2>3, <3>1, <3>3 DEF LInv, ArrivalInv
    <3>. QED BY <2>1, <3>2, <3>3
  <2>4. ASSUME NEW s \in sent'
        PROVE  s \in lost \/ s = prev \/ Lt(s, prev)
               \/ \E i \in 1 .. Len(wire') : s = wire'[i]
    <3>1. CASE s = x
      <4>1. Len(wire) + 1 \in 1 .. Len(wire') /\ wire'[Len(wire) + 1] = x
        BY <2>1
      <4>. QED BY <3>1, <4>1
    <3>2. CASE s \in sent
      <4>1. \A i \in 1 .. Len(wire) : i \in 1 .. Len(wire') /\ wire'[i] = wire[i]
        BY <2>1
      <4>. QED BY <3>2, <4>1 DEF LInv, ArrivalInv
    <3>. QED BY <1>1, <3>1, <3>2
  <2>5. prev' \in Msg /\ (prev' = NoPrev' \/ (prev' \in sent' /\ prev' \notin lost'))
    BY <1>1, <1>10 DEF LInv, ArrivalInv, NoPrev, Sample
  <2>. QED BY <1>1, <1>8, <1>10, <2>1, <2>2, <2>3, <2>4, <2>5 DEF ArrivalInv
<1>. QED BY <1>1, <1>9, <1>10

(* A reset of the receiver loses what is under way.                         *)
LEMMA ResetLosses ==
  ASSUME LInv, ResetData
  PROVE  ArrivalInv' /\ CountInv'
<1>. DEFINE W == {wire[i] : i \in DOMAIN wire}
<1>1. /\ lost' = lost \cup W /\ wire' = << >> /\ UNCHANGED <<sent, prev, missed>>
  BY DEF ResetData, sender, adapter
<1>2. /\ wire \in Seq(Msg) /\ prev \in Msg /\ sent \subseteq Msg
      /\ lost \subseteq sent /\ IsFiniteSet(lost) /\ missed \in Nat
      /\ missed <= Cardinality(LostBefore)
  BY DEF LInv, ArrivalInv, SentInv, GoodSent, CountInv
<1>3. DOMAIN wire = 1 .. Len(wire) /\ Len(wire) \in Nat
  BY <1>2
<1>4. \A w \in W : w \in sent /\ w \in Msg /\ Lt(prev, w)
  BY <1>2, <1>3 DEF LInv, ArrivalInv
<1>5. \A w \in W : w # prev /\ ~Lt(w, prev)
  BY <1>2, <1>4, LtOrder
<1>6. IsFiniteSet(W)
  <2>1. IsFiniteSet(1 .. Len(wire))
    BY <1>3, FS_Interval
  <2>2. wire = [i \in DOMAIN wire |-> wire[i]]
    BY <1>2
  <2>3. wire \in Surjection(DOMAIN wire, W)
    BY <2>2 DEF Surjection
  <2>. QED BY <1>3, <2>1, <2>3, FS_Surjection
<1>7. \A i \in 1 .. Len(wire) : wire[i] \in W
  BY <1>3
<1>. HIDE DEF W
<1>8. IsFiniteSet(lost') /\ lost' \subseteq sent'
  BY <1>1, <1>2, <1>4, <1>6, FS_Union
<1>9. LostBefore' = LostBefore
  BY <1>1, <1>5 DEF LostBefore
<1>10. CountInv'
  BY <1>1, <1>2, <1>8, <1>9 DEF CountInv
<1>11. Len(wire') = 0 /\ wire' \in Seq(Msg)
  BY <1>1
<1>12. ASSUME NEW s \in sent PROVE s \in lost' \/ s = prev \/ Lt(s, prev)
  BY <1>1, <1>7 DEF LInv, ArrivalInv
<1>13. prev = NoPrev \/ (prev \in sent /\ prev \notin lost')
  BY <1>1, <1>5 DEF LInv, ArrivalInv
<1>14. ArrivalInv'
  BY <1>1, <1>2, <1>11, <1>12, <1>13 DEF ArrivalInv, NoPrev, Sample
<1>. QED BY <1>10, <1>14

(* Every step preserves the invariant.                                      *)
LEMMA LStep == LInv /\ [Next]_vars => LInv'
<1>. SUFFICES ASSUME LInv, [Next]_vars PROVE LInv'
  OBVIOUS
<1>. USE DEF sender, adapter, buffers, thread, bounds
<1>0. SentInv' /\ GaplessInv'
  BY SentStep DEF LInv
<1>. SUFFICES ArrivalInv' /\ CountInv'
  BY <1>0 DEF LInv
<1>1. CASE UNCHANGED <<sent, lost, wire, prev, missed>>
  <2>1. LostBefore' = LostBefore
    BY <1>1 DEF LostBefore
  <2>2. CountInv'
    BY <1>1, <2>1 DEF LInv, CountInv
  <2>3. ArrivalInv'
    BY <1>1 DEF LInv, ArrivalInv, NoPrev, Sample
  <2>. QED BY <2>2, <2>3
<1>2. ASSUME NEW sync \in BOOLEAN, NEW arrives \in BOOLEAN,
             SendNow(sync, arrives)
      PROVE  ArrivalInv' /\ CountInv'
  BY <1>2, SendLosses
<1>3. CASE ConfigureSampleCounter
  BY <1>1, <1>3 DEF ConfigureSampleCounter
<1>4. CASE Receive
  BY <1>4, ReceiveLosses
<1>5. CASE MissedSync \/ Update
  BY <1>1, <1>5 DEF MissedSync, Update
<1>6. CASE Thread
  BY <1>1, <1>6 DEF Thread, FrameReady, SwitchReadBuffer, ProcessDDBSync
<1>7. ASSUME NEW r \in Readers, LockData(r) \/ UnlockData(r)
      PROVE  ArrivalInv' /\ CountInv'
  BY <1>1, <1>7 DEF LockData, UnlockData
<1>8. CASE ResetData
  BY <1>8, ResetLosses
<1>9. CASE Destroy \/ Destruction
  BY <1>1, <1>9 DEF Destroy, Destruction, Wake, DeleteMemory
<1>10. CASE UNCHANGED vars
  BY <1>1, <1>10 DEF vars
<1>. QED BY <1>2, <1>3, <1>4, <1>5, <1>6, <1>7, <1>8, <1>9, <1>10
         DEF Next, Finished, Receiver

(* The initial states satisfy the invariant of the losses.                  *)
LEMMA LStart == Init => LInv
<1>. SUFFICES ASSUME Init PROVE LInv
  OBVIOUS
<1>1. /\ run = 1 /\ frame = 1 /\ no = 0 /\ sent = {} /\ lost = {}
      /\ wire = << >> /\ prev = NoPrev /\ missed = 0
  BY DEF Init
<1>2. SentInv
  BY <1>1 DEF SentInv, GoodSent
<1>3. GaplessInv
  BY <1>1 DEF GaplessInv, Preceded
<1>4. ArrivalInv
  BY <1>1, NoPrevFirst DEF ArrivalInv
<1>5. LostBefore = {}
  BY <1>1 DEF LostBefore
<1>6. CountInv
  BY <1>1, <1>5, FS_EmptySet DEF CountInv
<1>. QED BY <1>2, <1>3, <1>4, <1>6 DEF LInv

(* The adapter never reports more losses than there were, and reports a     *)
(* lost end of a frame with the next sample of that run of the sender, for  *)
(* frames of any size and any pattern of losses, resets and restarts.       *)
THEOREM LossesAreReported == Spec => LossesReported
<1>. DEFINE Kept == \A s \in lost :
              /\ prev' # prev /\ prev.run = s.run /\ s.run = prev'.run
              /\ s.sync /\ Earlier(s, prev') /\ ~Earlier(s, prev)
              => missed' > missed
<1>1. LInv => NoFalseAlarm
  <2>. SUFFICES ASSUME LInv PROVE NoFalseAlarm
    OBVIOUS
  <2>1. /\ IsFiniteSet(lost) /\ missed \in Nat
        /\ missed <= Cardinality(LostBefore) /\ LostBefore \subseteq lost
    BY DEF LInv, CountInv, LostBefore
  <2>2. /\ Cardinality(LostBefore) <= Cardinality(lost)
        /\ Cardinality(LostBefore) \in Nat /\ Cardinality(lost) \in Nat
    BY <2>1, FS_Subset, FS_CardinalityType
  <2>. QED BY <2>1, <2>2 DEF NoFalseAlarm
<1>2. LInv /\ [Next]_vars => [Kept]_vars
  <2>. SUFFICES ASSUME LInv, [Next]_vars, NEW s \in lost, prev' # prev,
                       prev.run = s.run, s.run = prev'.run, s.sync,
                       Earlier(s, prev'), ~Earlier(s, prev)
                PROVE  missed' > missed
    OBVIOUS
  <2>1. Receive
    BY DEF Next, SendNow, ConfigureSampleCounter, Receiver, MissedSync,
       Update, Thread, FrameReady, SwitchReadBuffer, ProcessDDBSync,
       LockData, UnlockData, ResetData, Destroy, Destruction, Wake,
       DeleteMemory, Finished, vars, adapter
  <2>2. /\ wire # << >> /\ prev' = Head(wire)
        /\ missed' = missed + (IF Missing(Head(wire)) THEN 1 ELSE 0)
    BY <2>1 DEF Receive
  <2>3. /\ sent \subseteq Msg /\ s \in sent /\ s \in Msg /\ prev \in Msg
        /\ missed \in Nat /\ wire \in Seq(Msg)
    BY DEF LInv, ArrivalInv, CountInv, SentInv, GoodSent
  <2>4. Head(wire) \in Msg
    BY <2>2, <2>3
  <2>5. /\ s.frame \in Nat /\ prev.frame \in Nat /\ Head(wire).frame \in Nat
        /\ s.run \in Nat
    BY <2>3, <2>4 DEF Msg
  <2>6. s.frame < Head(wire).frame /\ ~(s.frame < prev.frame)
    BY <2>2, <2>5 DEF Earlier
  <2>7. Missing(Head(wire))
    <3>1. CASE prev.frame < s.frame
      BY <2>5, <2>6, <3>1 DEF Missing
    <3>2. CASE prev.frame = s.frame
      <4>1. s.frame # 0
        BY <2>3 DEF LInv, SentInv, GoodSent
      <4>2. prev \in sent /\ prev \notin lost
        BY <3>2, <4>1 DEF LInv, ArrivalInv, NoPrev, Sample
      <4>3. CASE prev.sync
        <5>1. prev.no <= s.no /\ s.no <= prev.no
          BY <2>3, <3>2, <4>2, <4>3 DEF LInv, SentInv, GoodSent
        <5>2. prev.no = s.no
          BY <2>3, <5>1 DEF Msg
        <5>3. prev = s
          BY <2>3, <3>2, <4>2, <5>2 DEF LInv, SentInv, GoodSent
        <5>. QED BY <4>2, <5>3
      <4>4. CASE ~prev.sync
        BY <2>5, <2>6, <3>2, <4>4 DEF Missing
      <4>. QED BY <4>3, <4>4
    <3>. QED BY <2>5, <2>6, <3>1, <3>2
  <2>. QED BY <2>2, <2>3, <2>7
<1>. QED BY <1>1, <1>2, LStart, LStep, PTL DEF Spec, LossesReported,
            LostSyncNoticed
=============================================================================
