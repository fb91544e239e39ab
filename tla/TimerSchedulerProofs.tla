------------------------ MODULE TimerSchedulerProofs ------------------------
(***************************************************************************)
(* Proofs about the clock based scheduler, for any number of jobs with any *)
(* periods and delays, any number of starts and jobs that fail.            *)
(***************************************************************************)
EXTENDS TimerScheduler, FiniteSetTheorems, TLAPS

(* What the proofs need of the types.                                       *)
Entry == [timer : T, next : Int]
DriverState == [at : {"off", "lock", "pick", "wake", "await"}, time : Nat,
                timer : T \cup {Nobody}, instant : Int]
ListType == list \in Seq(Entry)
TimeType == now \in Nat /\ sim \in Nat /\ resetTime \in {-1, 0} /\ runs \in Nat
DriverType == /\ driver \in [Drivers -> DriverState]
              /\ promised \in [Drivers -> BOOLEAN]
ThreadType ==
  /\ thread \in [T -> {"none", "loop", "wait", "run", "exited"}]
  /\ occurred \in [T -> BOOLEAN] /\ canceled \in [T -> BOOLEAN]
  /\ wakeTime \in [T -> Int] /\ lastCall \in [T -> Int]
  /\ finished \in [T -> Drivers \cup {Nobody}]
Types == ListType /\ TimeType /\ DriverType /\ ThreadType

(* Who drives when: the clock thread within its step, Control within        *)
(* start(); a timer that is woken up to be joined has been canceled.        *)
PhaseInv ==
  /\ \A p \in Drivers : driver[p].at = "off" => driver[p] = Off
  /\ driver[Clock].at # "off" => clock = "update"
  /\ driver[Control].at # "off" => ctl = "firstStep"
  /\ ctl = "ready" => clock = "none"
  /\ ctl = "stopped" => clock = "ended"
  /\ turn \in Nat /\ (ctl = "remove" => turn # 0)
  /\ ctl \in {"cancel", "wake", "join"} => turn \in 1..Len(Timers)
  /\ ctl \in {"wake", "join"} => canceled[Turn]

(* The locks are held where the code holds them.                            *)
LockInv ==
  \A p \in Drivers : /\ procLock = p <=> driver[p].at \in {"pick", "wake", "await"}
                     /\ listLock = p <=> driver[p].at = "wake"

(* A driver processes a time that has come, and calls for instants that     *)
(* have.                                                                    *)
TimeInv ==
  /\ now <= sim
  /\ \A p \in Drivers :
       /\ driver[p].time <= now
       /\ driver[p].at \in {"wake", "await"} =>
            driver[p].timer \in T /\ driver[p].instant <= driver[p].time
       /\ driver[p].at = "wake" => ~promised[p]

(* The promise that a timer has is the one of the driver that waits for it. *)
FinishedInv ==
  \A t \in T, p \in Drivers : finished[t] = p =>
    /\ driver[p].at = "await" /\ driver[p].timer = t /\ ~promised[p]
    /\ wakeTime[t] = driver[p].instant

(* A timer is woken up, and runs, with a promise, unless it is canceled.    *)
CallInv ==
  \A t \in T :
    /\ thread[t] = "run" => finished[t] \in Drivers /\ ~occurred[t]
    /\ occurred[t] /\ ~canceled[t] => finished[t] \in Drivers

(* The inductive invariant of ClockWaitsForJob.                             *)
WaitInv == Types /\ PhaseInv /\ LockInv /\ TimeInv /\ FinishedInv /\ CallInv

(* While a time step is processed, the timers that are due come first.      *)
DueFirst(l, time) ==
  \A i, j \in 1..Len(l) : i < j /\ l[j].next <= time => l[i].next <= time

OrderInv ==
  \A p \in Drivers : driver[p].at \in {"pick", "wake", "await"} =>
                       DueFirst(list, driver[p].time)

(* x is the instant after the one the job was called for last.              *)
Follows(t, x) ==
  /\ IF lastCall[t] = -1 THEN runs = 1 => x = Delay[t]
                         ELSE x = lastCall[t] + Period[t]
  /\ Period[t] = 0 => lastCall[t] = -1

(* The job that a driver calls has not been run yet.                        *)
Pending(p) == driver[p].at \in {"wake", "await"} /\ ~promised[p]

(* No timer is twice in the list.                                           *)
Distinct(l) == \A i, j \in 1..Len(l) : l[i].timer = l[j].timer => i = j

(* The list, or the call that is under way, has the next instant of each    *)
(* timer.                                                                   *)
PendingInv ==
  \A p \in Drivers : Pending(p) =>
    /\ Follows(driver[p].timer, driver[p].instant)
    /\ \A i \in 1..Len(list) : list[i].timer = driver[p].timer =>
         /\ list[i].next = driver[p].instant + Period[driver[p].timer]
         /\ Period[driver[p].timer] # 0

ListInv ==
  /\ Distinct(list)
  /\ \A i \in 1..Len(list) :
       \/ \E p \in Drivers : Pending(p) /\ driver[p].timer = list[i].timer
       \/ Follows(list[i].timer, list[i].next)

(* The first run begins at 0.                                               *)
FirstRunInv ==
  /\ runs # 0
  /\ runs = 1 => \A t \in T : lastCall[t] >= -1
  /\ ctl = "ready" => \A t \in T : lastCall[t] = -1
  /\ ctl = "ready" /\ runs = 1 => now = 0

(* The inductive invariant of NothingOverdue and NoInstantLeftOut.          *)
QueueInv == WaitInv /\ OrderInv /\ PendingInv /\ ListInv /\ FirstRunInv

-----------------------------------------------------------------------------
(* The list of timers: what the operations on it do.                        *)

(* The entries of v are entries of w, each once.                            *)
FromOnce(v, w) ==
  \E f \in [1..Len(v) -> 1..Len(w)] :
    /\ \A i, j \in 1..Len(v) : f[i] = f[j] => i = j
    /\ \A k \in 1..Len(v) : v[k] = w[f[k]]

(* A list that takes its entries from a distinct one, each once, is         *)
(* distinct.                                                                *)
LEMMA DistinctFromOnce ==
  ASSUME NEW v, NEW w, FromOnce(v, w), Distinct(w)
  PROVE  /\ Distinct(v)
         /\ \A k \in 1..Len(v) : \E i \in 1..Len(w) : v[k] = w[i]
<1>1. PICK f \in [1..Len(v) -> 1..Len(w)] :
        /\ \A i, j \in 1..Len(v) : f[i] = f[j] => i = j
        /\ \A k \in 1..Len(v) : v[k] = w[f[k]]
  BY DEF FromOnce
<1>2. \A k \in 1..Len(v) : f[k] \in 1..Len(w)
  OBVIOUS
<1>3. Distinct(v)
  BY <1>1, <1>2 DEF Distinct
<1>. QED BY <1>1, <1>2, <1>3

(* The entries that precede the entry i in the sorted list.                 *)
Preceding(l, i) ==
  {j \in 1..Len(l) : \/ l[j].next < l[i].next
                     \/ l[j].next = l[i].next /\ j < i}

(* Every entry has a rank of its own, and the ranks follow the times.       *)
LEMMA Ranks ==
  ASSUME NEW l \in Seq(Entry), NEW R,
         R = [i \in 1..Len(l) |-> Cardinality(Preceding(l, i)) + 1]
  PROVE  /\ R \in Surjection(1..Len(l), 1..Len(l))
         /\ \A i, j \in 1..Len(l) : R[i] < R[j] => l[i].next <= l[j].next
<1>. DEFINE N == 1..Len(l)
<1>0. /\ Len(l) \in Nat /\ IsFiniteSet(N) /\ Cardinality(N) = Len(l)
      /\ \A i \in N : l[i].next \in Int
  <2>1. Len(l) \in Nat
    OBVIOUS
  <2>2. IsFiniteSet(N) /\ Cardinality(N) = Len(l)
    <3>1. /\ IsFiniteSet(N)
          /\ Cardinality(N) = IF 1 > Len(l) THEN 0 ELSE Len(l) - 1 + 1
      BY <2>1, FS_Interval, 1 \in Int, Len(l) \in Int
    <3>. QED BY <2>1, <3>1
  <2>3. ASSUME NEW i \in N PROVE l[i].next \in Int
    <3>1. l[i] \in Entry
      OBVIOUS
    <3>. QED BY <3>1 DEF Entry
  <2>. QED BY <2>1, <2>2, <2>3
<1>1. ASSUME NEW i \in N
      PROVE  /\ IsFiniteSet(Preceding(l, i))
             /\ Cardinality(Preceding(l, i)) \in Nat
             /\ Cardinality(Preceding(l, i)) < Len(l)
  <2>1. Preceding(l, i) \in SUBSET N /\ i \notin Preceding(l, i)
    BY <1>0 DEF Preceding
  <2>2. /\ IsFiniteSet(Preceding(l, i))
        /\ Cardinality(Preceding(l, i)) <= Len(l)
        /\ Len(l) = Cardinality(Preceding(l, i)) => N = Preceding(l, i)
    BY <1>0, <2>1, FS_Subset
  <2>3. Cardinality(Preceding(l, i)) \in Nat
    BY <2>2, FS_CardinalityType
  <2>. QED BY <1>0, <2>1, <2>2, <2>3
<1>2. ASSUME NEW i \in N, NEW j \in N, i \in Preceding(l, j)
      PROVE  R[i] < R[j]
  <2>1. /\ Preceding(l, i) \in SUBSET Preceding(l, j)
        /\ i \notin Preceding(l, i)
    BY <1>0, <1>2 DEF Preceding
  <2>2. /\ Cardinality(Preceding(l, i)) <= Cardinality(Preceding(l, j))
        /\ Cardinality(Preceding(l, j)) = Cardinality(Preceding(l, i)) =>
             Preceding(l, j) = Preceding(l, i)
    BY <1>1, <2>1, FS_Subset
  <2>3. Cardinality(Preceding(l, i)) < Cardinality(Preceding(l, j))
    BY <1>1, <1>2, <2>1, <2>2
  <2>. QED BY <1>1, <2>3
<1>3. ASSUME NEW i \in N, NEW j \in N, i # j
      PROVE  i \in Preceding(l, j) \/ j \in Preceding(l, i)
  BY <1>0, <1>3 DEF Preceding
<1>4. ASSUME NEW i \in N PROVE R[i] \in N
  BY <1>0, <1>1
<1>5. R \in Injection(N, N)
  <2>1. R \in [N -> N]
    BY <1>4
  <2>2. ASSUME NEW a \in N, NEW b \in N, R[a] = R[b] PROVE a = b
    BY <1>0, <1>2, <1>3, <1>4, <2>2
  <2>. QED BY <2>1, <2>2 DEF Injection, IsInjective
<1>6. R \in Surjection(N, N)
  BY <1>0, <1>5, FS_Injection
<1>7. ASSUME NEW i \in N, NEW j \in N, R[i] < R[j]
      PROVE  l[i].next <= l[j].next
  <2>1. i # j /\ j \notin Preceding(l, i)
    BY <1>0, <1>2, <1>4, <1>7
  <2>2. i \in Preceding(l, j)
    BY <1>3, <2>1
  <2>. QED BY <1>0, <2>2 DEF Preceding
<1>. QED BY <1>6, <1>7

(* list::sort: the same entries, in the order of their instants.            *)
LEMMA SortedIs ==
  ASSUME NEW l \in Seq(Entry), NEW v, v = Sorted(l)
  PROVE  /\ v \in Seq(Entry) /\ FromOnce(v, l)
         /\ \A i, j \in 1..Len(v) : i < j => v[i].next <= v[j].next
<1>. DEFINE N == 1..Len(l)
            R == [i \in N |-> Cardinality(Preceding(l, i)) + 1]
            f == [k \in N |-> CHOOSE i \in N : R[i] = k]
<1>1. /\ R \in Surjection(N, N)
      /\ \A i, j \in N : R[i] < R[j] => l[i].next <= l[j].next
  BY Ranks
<1>2. v = [k \in N |-> l[f[k]]]
  <2>1. ASSUME NEW k \in N
        PROVE  v[k] = l[CHOOSE i \in N : Cardinality(Preceding(l, i)) + 1 = k]
    BY DEF Sorted, Preceding
  <2>2. ASSUME NEW k \in N
        PROVE  f[k] = CHOOSE i \in N : Cardinality(Preceding(l, i)) + 1 = k
    OBVIOUS
  <2>3. v = [k \in N |-> v[k]]
    BY DEF Sorted
  <2>. HIDE DEF f
  <2>. QED BY <2>1, <2>2, <2>3
<1>. HIDE DEF R
<1>3. ASSUME NEW k \in N PROVE f[k] \in N /\ R[f[k]] = k
  <2>1. \E i \in N : R[i] = k
    BY <1>1 DEF Surjection
  <2>. QED BY <2>1
<1>. HIDE DEF f
<1>4. Len(l) \in Nat /\ v \in [N -> Entry]
  <2>1. ASSUME NEW k \in N PROVE l[f[k]] \in Entry
    BY <1>3
  <2>. QED BY <1>2, <2>1
<1>5. v \in Seq(Entry) /\ Len(v) = Len(l)
  BY <1>4
<1>6. FromOnce(v, l)
  <2>1. f \in [N -> N]
    <3>1. f = [k \in N |-> f[k]]
      BY DEF f
    <3>. QED BY <1>3, <3>1
  <2>2. \A i, j \in N : f[i] = f[j] => i = j
    BY <1>3
  <2>. QED BY <1>2, <1>5, <2>1, <2>2 DEF FromOnce
<1>7. ASSUME NEW i \in N, NEW j \in N, i < j PROVE v[i].next <= v[j].next
  BY <1>1, <1>2, <1>3, <1>7
<1>. QED BY <1>5, <1>6, <1>7

(* A set of numbers has a least one.                                        *)
LEMMA MinOf ==
  ASSUME NEW S \in SUBSET Nat, S # {}
  PROVE  Min(S) \in S /\ \A y \in S : Min(S) <= y
<1>. DEFINE R == OpToRel(<, Nat)
<1>1. PICK x \in S : \A y \in S : ~(<<y, x>> \in R)
  BY WFMin, NatLessThanWellFounded
<1>2. \A y \in S : ~(y < x)
  BY <1>1 DEF OpToRel
<1>3. \A y \in S : x <= y
  BY <1>2
<1>. QED BY <1>3 DEF Min

IsInserted(v, s, i, e) ==
  /\ v \in Seq(Entry)
  /\ Len(v) = Len(s) + 1
  /\ \A k \in 1..Len(v) : v[k] = IF k < i THEN s[k]
                                ELSE IF k = i THEN e ELSE s[k - 1]

(* What InsertAt of the community modules does to the list.                 *)
LEMMA InsertAtIs ==
  ASSUME NEW s \in Seq(Entry), NEW i \in 1..Len(s) + 1, NEW e \in Entry,
         NEW v, v = InsertAt(s, i, e)
  PROVE  IsInserted(v, s, i, e)
<1>. DEFINE a == SubSeq(s, 1, i - 1)
            b == SubSeq(s, i, Len(s))
<1>1. /\ a \in Seq(Entry) /\ Len(a) = i - 1
      /\ \A k \in 1..i - 1 : a[k] = s[k]
  OBVIOUS
<1>2. /\ b \in Seq(Entry) /\ Len(b) = Len(s) - i + 1
      /\ \A k \in 1..Len(b) : b[k] = s[i + k - 1]
  OBVIOUS
<1>3. v = (a \o <<e>>) \o b
  BY DEF InsertAt
<1>. HIDE DEF a, b
<1>4. PICK c : c = a \o <<e>>
  OBVIOUS
<1>5. /\ c \in Seq(Entry) /\ Len(c) = i
      /\ \A k \in 1..i : c[k] = IF k < i THEN s[k] ELSE e
  BY <1>1, <1>4
<1>6. v \in Seq(Entry) /\ Len(v) = Len(s) + 1
  <2>1. v = c \o b /\ c \in Seq(Entry) /\ b \in Seq(Entry)
    BY <1>2, <1>3, <1>4, <1>5
  <2>2. v \in Seq(Entry) /\ Len(v) = Len(c) + Len(b)
    BY <2>1
  <2>3. Len(s) \in Nat /\ i \in Int
    OBVIOUS
  <2>. QED BY <1>2, <1>5, <2>2, <2>3
<1>7. ASSUME NEW k \in 1..Len(v)
      PROVE  v[k] = IF k < i THEN s[k] ELSE IF k = i THEN e ELSE s[k - 1]
  <2>1. CASE k <= i
    BY <1>2, <1>3, <1>4, <1>5, <2>1
  <2>2. CASE i < k
    <3>1. k - i \in 1..Len(b) /\ i + (k - i) - 1 = k - 1
      BY <1>2, <1>6, <2>2
    <3>2. v[k] = b[k - i]
      BY <1>2, <1>3, <1>4, <1>5, <1>6, <2>2
    <3>. QED BY <1>2, <2>2, <3>1, <3>2
  <2>. QED BY <2>1, <2>2
<1>. QED BY <1>6, <1>7 DEF IsInserted

(* What RemoveAt of the community modules does to the list.                 *)
LEMMA RemoveAtIs ==
  ASSUME NEW s \in Seq(Entry), NEW i \in 1..Len(s), NEW v,
         v = RemoveAt(s, i)
  PROVE  /\ v \in Seq(Entry) /\ Len(v) = Len(s) - 1
         /\ \A k \in 1..Len(v) : v[k] = IF k < i THEN s[k] ELSE s[k + 1]
<1>. DEFINE a == SubSeq(s, 1, i - 1)
            b == SubSeq(s, i + 1, Len(s))
<1>1. /\ a \in Seq(Entry) /\ Len(a) = i - 1
      /\ \A k \in 1..i - 1 : a[k] = s[k]
  OBVIOUS
<1>2. /\ b \in Seq(Entry) /\ Len(b) = Len(s) - i
      /\ \A k \in 1..Len(b) : b[k] = s[i + k]
  OBVIOUS
<1>3. v = a \o b
  BY DEF RemoveAt
<1>. HIDE DEF a, b
<1>4. v \in Seq(Entry) /\ Len(v) = Len(s) - 1
  <2>0. a \in Seq(Entry) /\ b \in Seq(Entry)
    BY <1>1, <1>2
  <2>1. v \in Seq(Entry) /\ Len(v) = Len(a) + Len(b)
    BY <1>3, <2>0
  <2>2. Len(s) \in Nat /\ i \in Int
    OBVIOUS
  <2>. QED BY <1>1, <1>2, <2>1, <2>2
<1>5. ASSUME NEW k \in 1..Len(v)
      PROVE  v[k] = IF k < i THEN s[k] ELSE s[k + 1]
  <2>1. CASE k < i
    BY <1>1, <1>2, <1>3, <2>1
  <2>2. CASE i <= k
    <3>1. k - i + 1 \in 1..Len(b) /\ i + (k - i + 1) = k + 1
      BY <1>2, <1>4, <2>2
    <3>2. v[k] = b[k - i + 1]
      BY <1>1, <1>2, <1>3, <1>4, <2>2
    <3>. QED BY <1>2, <2>2, <3>1, <3>2
  <2>. QED BY <2>1, <2>2
<1>. QED BY <1>4, <1>5

(* RemoveTimer: the list without one entry, or as it was.                   *)
LEMMA RemovedIs ==
  ASSUME NEW w \in Seq(Entry), NEW t, NEW v,
         v = Without(w, t)
  PROVE  /\ v \in Seq(Entry) /\ FromOnce(v, w)
         /\ \A time \in Int : DueFirst(w, time) => DueFirst(v, time)
<1>. DEFINE I == {k \in 1..Len(w) : w[k].timer = t}
<1>1. CASE I # {}
  <2>1. Min(I) \in I
    <3>1. I \in SUBSET Nat
      OBVIOUS
    <3>. HIDE DEF I
    <3>. QED BY <1>1, <3>1, MinOf
  <2>2. PICK m \in 1..Len(w) : m = Min(I)
    BY <2>1
  <2>3. v = RemoveAt(w, m)
    BY <1>1, <2>2 DEF Without, RemoveFirstMatch, SelectInSeq
  <2>4. /\ v \in Seq(Entry) /\ Len(v) = Len(w) - 1 /\ Len(w) \in Nat
        /\ \A k \in 1..Len(v) : v[k] = IF k < m THEN w[k] ELSE w[k + 1]
    <3>1. Len(w) \in Nat
      OBVIOUS
    <3>2. /\ v \in Seq(Entry) /\ Len(v) = Len(w) - 1
          /\ \A k \in 1..Len(v) : v[k] = IF k < m THEN w[k] ELSE w[k + 1]
      <4>. HIDE DEF I
      <4>. QED BY <2>3, RemoveAtIs
    <3>. QED BY <3>1, <3>2
  <2>5. FromOnce(v, w)
    <3>. DEFINE f == [k \in 1..Len(v) |-> IF k < m THEN k ELSE k + 1]
    <3>0. \A k \in 1..Len(v) : k \in 1..Len(w) /\ k + 1 \in 1..Len(w)
      BY <2>4
    <3>1. f \in [1..Len(v) -> 1..Len(w)]
      BY <3>0
    <3>2. \A i, j \in 1..Len(v) : f[i] = f[j] => i = j
      BY <2>4
    <3>3. \A k \in 1..Len(v) : v[k] = w[f[k]]
      BY <2>4
    <3>. HIDE DEF f
    <3>. QED BY <3>1, <3>2, <3>3 DEF FromOnce
  <2>6. ASSUME NEW time \in Int, DueFirst(w, time),
               NEW i \in 1..Len(v), NEW j \in 1..Len(v), i < j,
               v[j].next <= time
        PROVE  v[i].next <= time
    <3>1. PICK a \in 1..Len(w) : v[i] = w[a] /\ a = IF i < m THEN i ELSE i + 1
      <4>1. i \in 1..Len(w) /\ i + 1 \in 1..Len(w)
        BY <2>4
      <4>. QED BY <2>4, <4>1
    <3>2. PICK b \in 1..Len(w) : v[j] = w[b] /\ b = IF j < m THEN j ELSE j + 1
      <4>1. j \in 1..Len(w) /\ j + 1 \in 1..Len(w)
        BY <2>4
      <4>. QED BY <2>4, <4>1
    <3>3. a < b
      BY <2>6, <3>1, <3>2
    <3>. QED BY <2>6, <3>1, <3>2, <3>3 DEF DueFirst
  <2>. QED BY <2>4, <2>5, <2>6 DEF DueFirst
<1>2. CASE I = {}
  <2>1. v = w
    BY <1>2 DEF Without, RemoveFirstMatch
  <2>2. FromOnce(w, w)
    <3>. DEFINE f == [k \in 1..Len(w) |-> k]
    <3>1. /\ f \in [1..Len(w) -> 1..Len(w)]
          /\ \A i, j \in 1..Len(w) : f[i] = f[j] => i = j
          /\ \A k \in 1..Len(w) : w[k] = w[f[k]]
      OBVIOUS
    <3>. HIDE DEF f
    <3>. QED BY <3>1 DEF FromOnce
  <2>. QED BY <2>1, <2>2
<1>. QED BY <1>1, <1>2

(* What the list is after the first timer was called: a one shot timer is   *)
(* gone, a periodic one is at the position m, with its next instant.        *)
Moved(w, v, m) ==
  /\ Len(v) = Len(w) /\ m \in 1..Len(w)
  /\ \A k \in 1..Len(v) : k < m => v[k] = w[k + 1]
  /\ v[m].timer = w[1].timer
  /\ v[m].next = w[1].next + Period[w[1].timer]
  /\ \A k \in 1..Len(v) : k > m => v[k] = w[k]

(* The head of the list is dropped, or moved in front of the first entry    *)
(* that is later than both the time and the head.                           *)
LEMMA ReinsertedIs ==
  ASSUME list \in Seq(Entry), list # << >>, NEW time \in Int,
         NEW v, v = Reinserted(time)
  PROVE  /\ v \in Seq(Entry)
         /\ Period[list[1].timer] = 0 => v = Tail(list)
         /\ Period[list[1].timer] # 0 => \E m \in 1..Len(list) :
              /\ Moved(list, v, m)
              /\ \A k \in 1..Len(v) : k < m =>
                   v[k].next <= time \/ v[k].next <= v[m].next
              /\ m < Len(v) => v[m + 1].next > time
<1>. DEFINE head == [list[1] EXCEPT !.next = list[1].next + Period[list[1].timer]]
            rest == Tail(list)
            later == {k \in 1..Len(rest) : rest[k].next > time
                                             /\ head.next < rest[k].next}
            at == IF later = {} THEN Len(rest) + 1 ELSE Min(later)
<1>1. v = IF Period[list[1].timer] = 0 THEN rest ELSE InsertAt(rest, at, head)
  BY DEF Reinserted
<1>2. /\ rest \in Seq(Entry) /\ Len(rest) = Len(list) - 1 /\ Len(list) \in Nat
      /\ \A k \in 1..Len(rest) : rest[k] = list[k + 1]
      /\ list[1] \in Entry
  OBVIOUS
<1>3. /\ head = [timer |-> list[1].timer,
                 next |-> list[1].next + Period[list[1].timer]]
      /\ head \in Entry
  <2>1. Period[list[1].timer] \in Nat /\ list[1].next \in Int
    BY <1>2, TimersAssumption DEF Entry
  <2>. QED BY <1>2, <2>1 DEF Entry
<1>. HIDE DEF head, rest
<1>4. /\ at \in 1..Len(rest) + 1
      /\ \A k \in later : at <= k
      /\ at <= Len(rest) => at \in later
  <2>1. CASE later = {}
    BY <1>2, <2>1
  <2>2. CASE later # {}
    <3>1. later \in SUBSET Nat
      OBVIOUS
    <3>2. Min(later) \in later /\ \A y \in later : Min(later) <= y
      <4>. HIDE DEF later
      <4>. QED BY <2>2, <3>1, MinOf
    <3>3. at = Min(later)
      BY <2>2
    <3>4. at \in later /\ \A y \in later : at <= y
      BY <3>2, <3>3
    <3>5. at \in 1..Len(rest)
      BY <3>4
    <3>. HIDE DEF at, later
    <3>. QED BY <1>2, <3>4, <3>5
  <2>. QED BY <2>1, <2>2
<1>. HIDE DEF at
<1>5. CASE Period[list[1].timer] = 0
  BY <1>1, <1>2, <1>5 DEF rest
<1>6. CASE Period[list[1].timer] # 0
  <2>1. /\ v \in Seq(Entry) /\ Len(v) = Len(rest) + 1
        /\ \A k \in 1..Len(v) : v[k] = IF k < at THEN rest[k]
                                       ELSE IF k = at THEN head ELSE rest[k - 1]
    <3>1. v = InsertAt(rest, at, head) /\ at \in 1..Len(rest) + 1
      BY <1>1, <1>4, <1>6
    <3>2. rest \in Seq(Entry) /\ head \in Entry
      BY <1>2, <1>3
    <3>3. PICK r \in Seq(Entry), i \in 1..Len(rest) + 1, e \in Entry :
            r = rest /\ i = at /\ e = head
      BY <3>1, <3>2
    <3>4. v = InsertAt(r, i, e) /\ i \in 1..Len(r) + 1
      BY <3>1, <3>3
    <3>5. IsInserted(v, r, i, e)
      BY ONLY <3>3, <3>4, InsertAtIs
    <3>. QED BY <3>3, <3>5 DEF IsInserted
  <2>2. at \in 1..Len(list) /\ Len(v) = Len(list)
    BY <1>2, <1>4, <2>1
  <2>3. Moved(list, v, at)
    <3>1. ASSUME NEW k \in 1..Len(v), k < at PROVE v[k] = list[k + 1]
      BY <1>2, <1>4, <2>1, <2>2, <3>1
    <3>2. ASSUME NEW k \in 1..Len(v), k > at PROVE v[k] = list[k]
      <4>1. k - 1 \in 1..Len(rest) /\ (k - 1) + 1 = k
        BY <1>2, <1>4, <2>1, <2>2, <3>2
      <4>2. v[k] = rest[k - 1]
        BY <2>1, <1>4, <3>2
      <4>. QED BY <1>2, <4>1, <4>2
    <3>3. v[at] = head
      BY <2>1, <2>2
    <3>. QED BY <1>3, <2>2, <3>1, <3>2, <3>3 DEF Moved
  <2>4. ASSUME NEW k \in 1..Len(v), k < at
        PROVE  v[k].next <= time \/ v[k].next <= v[at].next
    <3>1. k \in 1..Len(rest) /\ k \notin later /\ v[k] = rest[k]
      BY <1>2, <1>4, <2>1, <2>2, <2>4
    <3>2. v[at] = head
      BY <2>1, <2>2
    <3>3. rest[k].next \in Int /\ head.next \in Int
      <4>1. rest[k] \in Entry
        BY <1>2, <3>1
      <4>. QED BY <1>3, <4>1 DEF Entry
    <3>. QED BY <3>1, <3>2, <3>3
  <2>5. ASSUME at < Len(v) PROVE v[at + 1].next > time
    <3>1. at \in later
      BY <1>2, <1>4, <2>1, <2>5
    <3>2. v[at + 1] = rest[at]
      BY <1>4, <2>1, <2>5
    <3>. QED BY <3>1, <3>2
  <2>. QED BY <1>6, <2>1, <2>2, <2>3, <2>4, <2>5
<1>. QED BY <1>5, <1>6

(* What the list has after a call: the timers that were not called, and the *)
(* one that was, with its next instant.                                     *)
Called(l, v) ==
  \A k \in 1..Len(v) :
    \/ \E i \in 1..Len(l) : i # 1 /\ v[k] = l[i]
    \/ /\ v[k].timer = l[1].timer /\ Period[l[1].timer] # 0
       /\ v[k].next = l[1].next + Period[l[1].timer]

(* The list after a call keeps its order, and no timer is in it twice.      *)
LEMMA CalledList ==
  ASSUME list \in Seq(Entry), list # << >>, NEW time \in Int,
         NEW v, v = Reinserted(time)
  PROVE  /\ v \in Seq(Entry) /\ Called(list, v)
         /\ DueFirst(list, time) => DueFirst(v, time)
         /\ Distinct(list) => Distinct(v)
<1>0. /\ v \in Seq(Entry)
      /\ Period[list[1].timer] = 0 => v = Tail(list)
      /\ Period[list[1].timer] # 0 => \E m \in 1..Len(list) :
           /\ Moved(list, v, m)
           /\ \A k \in 1..Len(v) : k < m =>
                v[k].next <= time \/ v[k].next <= v[m].next
           /\ m < Len(v) => v[m + 1].next > time
  <2>1. v \in Seq(Entry)
    BY ReinsertedIs
  <2>2. Period[list[1].timer] = 0 => v = Tail(list)
    BY ReinsertedIs
  <2>3. Period[list[1].timer] # 0 => \E m \in 1..Len(list) :
           /\ Moved(list, v, m)
           /\ \A k \in 1..Len(v) : k < m =>
                v[k].next <= time \/ v[k].next <= v[m].next
           /\ m < Len(v) => v[m + 1].next > time
    BY ReinsertedIs
  <2>. QED BY <2>1, <2>2, <2>3
<1>1. CASE Period[list[1].timer] = 0
  <2>1. /\ Len(list) \in Nat /\ Len(v) = Len(list) - 1
        /\ \A k \in 1..Len(v) : v[k] = list[k + 1]
    BY <1>0, <1>1
  <2>2. ASSUME NEW k \in 1..Len(v)
        PROVE  k + 1 \in 1..Len(list) /\ k + 1 # 1 /\ v[k] = list[k + 1]
    BY <2>1
  <2>3. ASSUME DueFirst(list, time) PROVE DueFirst(v, time)
    BY <2>2, <2>3 DEF DueFirst
  <2>4. ASSUME Distinct(list), NEW i \in 1..Len(v), NEW j \in 1..Len(v),
               v[i].timer = v[j].timer
        PROVE  i = j
    <3>1. i + 1 = j + 1
      BY <2>2, <2>4 DEF Distinct
    <3>. QED BY <3>1
  <2>. QED BY <1>0, <2>2, <2>3, <2>4 DEF Distinct, Called
<1>2. CASE Period[list[1].timer] # 0
  <2>0. PICK m \in 1..Len(list) :
           /\ Moved(list, v, m)
           /\ \A k \in 1..Len(v) : k < m =>
                v[k].next <= time \/ v[k].next <= v[m].next
           /\ m < Len(v) => v[m + 1].next > time
    BY <1>0, <1>2
  <2>1. /\ Len(list) \in Nat /\ Len(v) = Len(list) /\ 1 \in 1..Len(list)
        /\ \A k \in 1..Len(v) : v[k].next \in Int
    <3>1. Len(list) \in Nat /\ Len(v) = Len(list) /\ 1 \in 1..Len(list)
      BY <2>0 DEF Moved
    <3>2. ASSUME NEW k \in 1..Len(v) PROVE v[k].next \in Int
      <4>1. v[k] \in Entry
        BY <1>0
      <4>. QED BY <4>1 DEF Entry
    <3>. QED BY <3>1, <3>2
  <2>2. ASSUME NEW k \in 1..Len(v), k < m
        PROVE  k + 1 \in 1..Len(list) /\ k + 1 # 1 /\ v[k] = list[k + 1]
    BY <2>0, <2>1, <2>2 DEF Moved
  <2>3. ASSUME NEW k \in 1..Len(v), k > m
        PROVE  k \in 1..Len(list) /\ k # 1 /\ v[k] = list[k]
    BY <2>0, <2>1, <2>3 DEF Moved
  <2>4. /\ m \in 1..Len(v) /\ v[m].timer = list[1].timer
        /\ v[m].next = list[1].next + Period[list[1].timer]
    BY <2>0, <2>1 DEF Moved
  <2>5. ASSUME DueFirst(list, time), NEW i \in 1..Len(v), NEW j \in 1..Len(v),
               i < j, v[j].next <= time
        PROVE  v[i].next <= time
    <3>1. CASE j < m
      <4>1. i + 1 < j + 1
        BY <2>5
      <4>. QED BY <2>2, <2>5, <3>1, <4>1 DEF DueFirst
    <3>2. CASE j = m
      BY <2>0, <2>1, <2>5, <3>2
    <3>3. CASE j > m
      <4>1. m + 1 \in 1..Len(v) /\ m + 1 > m /\ m + 1 <= j
        BY <2>1, <3>3
      <4>2. v[m + 1].next > time
        BY <2>0, <2>1, <3>3
      <4>3. m + 1 < j
        BY <2>1, <2>5, <4>1, <4>2
      <4>4. list[m + 1].next <= time
        BY <2>3, <2>5, <3>3, <4>1, <4>3 DEF DueFirst
      <4>. QED BY <2>1, <2>3, <4>1, <4>2, <4>4
    <3>. QED BY <2>1, <3>1, <3>2, <3>3
  <2>6. ASSUME Distinct(list), NEW i \in 1..Len(v), NEW j \in 1..Len(v), i < j
        PROVE  v[i].timer # v[j].timer
    <3>1. CASE j < m
      <4>1. i + 1 # j + 1
        BY <2>6
      <4>. QED BY SMTT(30), <2>2, <2>6, <3>1, <4>1 DEF Distinct
    <3>2. CASE j = m
      BY <2>1, <2>2, <2>4, <2>6, <3>2 DEF Distinct
    <3>3. CASE j > m /\ i = m
      BY <2>1, <2>3, <2>4, <2>6, <3>3 DEF Distinct
    <3>4. CASE j > m /\ i > m
      BY SMTT(30), <2>1, <2>3, <2>6, <3>4 DEF Distinct
    <3>5. CASE j > m /\ i < m
      <4>1. i + 1 # j
        BY <3>5
      <4>. QED BY <2>2, <2>3, <2>6, <3>5, <4>1 DEF Distinct
    <3>. QED BY <2>1, <3>1, <3>2, <3>3, <3>4, <3>5
  <2>7. Distinct(list) => Distinct(v)
    BY <2>1, <2>6 DEF Distinct
  <2>8. ASSUME NEW k \in 1..Len(v)
        PROVE  \/ \E i \in 1..Len(list) : i # 1 /\ v[k] = list[i]
               \/ /\ v[k].timer = list[1].timer
                  /\ v[k].next = list[1].next + Period[list[1].timer]
    <3>1. k < m \/ k = m \/ k > m
      BY <2>1
    <3>. QED BY <2>2, <2>3, <2>4, <3>1
  <2>. QED BY <1>0, <1>2, <2>5, <2>7, <2>8 DEF DueFirst, Called
<1>. QED BY <1>0, <1>1, <1>2, TimersAssumption

(* In a sorted list what is due comes first.                                *)
LEMMA SortedDue ==
  ASSUME NEW l \in Seq(Entry), NEW v, v = Sorted(l)
  PROVE  \A time \in Int : DueFirst(v, time)
<1>1. v \in Seq(Entry) /\ \A i, j \in 1..Len(v) : i < j => v[i].next <= v[j].next
  BY SortedIs
<1>2. ASSUME NEW i \in 1..Len(v) PROVE v[i].next \in Int
  <2>1. v[i] \in Entry
    BY <1>1
  <2>. QED BY <2>1 DEF Entry
<1>. QED BY <1>1, <1>2 DEF DueFirst

-----------------------------------------------------------------------------
(* A driver goes on to another place.                                       *)
LEMMA DriverAt ==
  ASSUME DriverType, NEW p \in Drivers,
         NEW a \in {"off", "lock", "pick", "wake", "await"},
         driver' = [driver EXCEPT ![p].at = a]
  PROVE  /\ driver' \in [Drivers -> DriverState]
         /\ driver'[p].at = a /\ driver'[p].time = driver[p].time
         /\ driver'[p].timer = driver[p].timer
         /\ driver'[p].instant = driver[p].instant
         /\ \A q \in Drivers : q # p => driver'[q] = driver[q]
<1>1. driver[p] \in DriverState
  BY DEF DriverType
<1>2. driver'[p] = [driver[p] EXCEPT !.at = a]
  BY DEF DriverType
<1>3. driver'[p] = [at |-> a, time |-> driver[p].time,
                    timer |-> driver[p].timer, instant |-> driver[p].instant]
  BY <1>1, <1>2 DEF DriverState
<1>4. driver'[p] \in DriverState
  BY <1>1, <1>3 DEF DriverState
<1>5. \A q \in Drivers : q # p => driver'[q] = driver[q]
  BY DEF DriverType
<1>6. driver' \in [Drivers -> DriverState]
  BY <1>4, <1>5 DEF DriverType
<1>. QED BY <1>3, <1>5, <1>6

(* A driver that is called goes for the lock with the time it was given.    *)
LEMMA Started ==
  ASSUME DriverType, NEW p \in Drivers, NEW time \in Nat, Drive(p, time)
  PROVE  /\ driver' \in [Drivers -> DriverState]
         /\ driver'[p].at = "lock" /\ driver'[p].time = time
         /\ \A q \in Drivers : q # p => driver'[q] = driver[q]
<1>1. driver'[p] = [at |-> "lock", time |-> time, timer |-> Nobody,
                    instant |-> 0]
  BY DEF Drive, Off, DriverType
<1>2. driver'[p] \in DriverState
  BY <1>1 DEF DriverState
<1>3. \A q \in Drivers : q # p => driver'[q] = driver[q]
  BY DEF Drive, DriverType
<1>4. driver' \in [Drivers -> DriverState]
  <2>1. driver' = [q \in Drivers |-> driver'[q]]
    BY DEF Drive, DriverType
  <2>2. \A q \in Drivers : driver'[q] \in DriverState
    BY <1>2, <1>3 DEF DriverType
  <2>. QED BY <2>1, <2>2
<1>. QED BY <1>1, <1>3, <1>4

(* The driver p begins to process the list.                                 *)
LEMMA EnterWaits ==
  ASSUME WaitInv, NEW p \in Drivers, Enter(p)
  PROVE  WaitInv'
<1>. USE DEF WaitInv, Types
<1>1. /\ driver[p].at = "lock" /\ procLock = Nobody /\ listLock = Nobody
      /\ procLock' = p /\ list' = Sorted(list)
      /\ driver' = [driver EXCEPT ![p].at = "pick"]
      /\ UNCHANGED <<now, sim, clock, resetTime, listLock, promised, thread,
                     occurred, wakeTime, lastCall, finished, canceled, ctl,
                     turn, runs>>
  BY DEF Enter, clockVar, timerVar, control
<1>2. /\ driver' \in [Drivers -> DriverState]
      /\ driver'[p].at = "pick" /\ driver'[p].time = driver[p].time
      /\ \A q \in Drivers : q # p => driver'[q] = driver[q]
  BY <1>1, DriverAt
<1>3. Types'
  <2>1. list' \in Seq(Entry)
    BY <1>1, SortedIs DEF ListType
  <2>. QED BY <1>1, <1>2, <2>1 DEF ListType, TimeType, DriverType, ThreadType
<1>4. PhaseInv'
  BY <1>1, <1>2 DEF PhaseInv, Turn, Drivers, Clock, Control
<1>5. LockInv'
  BY <1>1, <1>2 DEF LockInv, Drivers, Clock, Control, Nobody
<1>6. TimeInv' /\ FinishedInv' /\ CallInv'
  BY <1>1, <1>2 DEF TimeInv, FinishedInv, CallInv
<1>. QED BY <1>3, <1>4, <1>5, <1>6

(* It takes the first timer that is due.                                    *)
LEMMA PickWaits ==
  ASSUME WaitInv, NEW p \in Drivers, Pick(p)
  PROVE  /\ WaitInv' /\ list # << >> /\ list[1] \in Entry
         /\ driver'[p].at = "wake" /\ driver'[p].time = driver[p].time
         /\ driver'[p].timer = list[1].timer
         /\ driver'[p].instant = list[1].next
         /\ \A q \in Drivers : q # p => driver'[q] = driver[q]
<1>. USE DEF WaitInv, Types
<1>1. /\ driver[p].at = "pick" /\ listLock = Nobody /\ Due(driver[p].time)
      /\ listLock' = p /\ list' = Reinserted(driver[p].time)
      /\ driver' = [driver EXCEPT ![p] = [driver[p] EXCEPT
                      !.at = "wake", !.timer = list[1].timer,
                      !.instant = list[1].next]]
      /\ promised' = [promised EXCEPT ![p] = FALSE]
      /\ UNCHANGED <<now, sim, clock, resetTime, procLock, thread,
                     occurred, wakeTime, lastCall, finished, canceled, ctl,
                     turn, runs>>
  BY DEF Pick, clockVar, timerVar, control
<1>2. /\ list # << >> /\ list[1] \in Entry /\ driver[p] \in DriverState
      /\ list[1].next = 0 \/ list[1].next <= driver[p].time
  BY <1>1 DEF Due, ListType, DriverType
<1>3. /\ list[1].timer \in T /\ list[1].next \in Int /\ driver[p].time \in Nat
      /\ list[1].next <= driver[p].time
  BY <1>2 DEF Entry, DriverState
<1>4. driver'[p] = [at |-> "wake", time |-> driver[p].time,
                    timer |-> list[1].timer, instant |-> list[1].next]
  <2>1. driver'[p] = [driver[p] EXCEPT !.at = "wake",
                        !.timer = list[1].timer, !.instant = list[1].next]
    BY <1>1 DEF DriverType
  <2>. QED BY <1>2, <2>1 DEF DriverState
<1>5. /\ driver' \in [Drivers -> DriverState]
      /\ \A q \in Drivers : q # p => driver'[q] = driver[q]
  <2>1. driver'[p] \in DriverState
    BY <1>3, <1>4 DEF DriverState
  <2>2. \A q \in Drivers : q # p => driver'[q] = driver[q]
    BY <1>1 DEF DriverType
  <2>. QED BY <1>1, <2>1, <2>2 DEF DriverType
<1>6. /\ promised' \in [Drivers -> BOOLEAN] /\ promised'[p] = FALSE
      /\ \A q \in Drivers : q # p => promised'[q] = promised[q]
  BY <1>1 DEF DriverType
<1>7. ~promised'[p]
  BY <1>6, Zenon
<1>8. Types'
  <2>1. list' \in Seq(Entry)
    BY <1>1, <1>2, <1>3, CalledList DEF ListType
  <2>. QED BY <1>1, <1>5, <1>6, <2>1 DEF ListType, TimeType, DriverType,
       ThreadType
<1>9. PhaseInv'
  BY <1>1, <1>4, <1>5 DEF PhaseInv, Turn, Drivers, Clock, Control
<1>10. LockInv'
  BY <1>1, <1>4, <1>5 DEF LockInv, Drivers, Clock, Control, Nobody
<1>11. TimeInv'
  BY <1>1, <1>3, <1>4, <1>5, <1>6, <1>7 DEF TimeInv
<1>12. FinishedInv' /\ CallInv'
  BY <1>1, <1>4, <1>5, <1>6 DEF FinishedInv, CallInv
<1>. QED BY <1>2, <1>4, <1>5, <1>8, <1>9, <1>10, <1>11, <1>12

(* No timer is due.                                                         *)
LEMMA LeaveWaits ==
  ASSUME WaitInv, NEW p \in Drivers, Leave(p)
  PROVE  WaitInv'
<1>. USE DEF WaitInv, Types
<1>1. /\ driver[p].at = "pick" /\ listLock = Nobody /\ procLock' = Nobody
      /\ driver' = [driver EXCEPT ![p] = Off]
      /\ UNCHANGED <<now, sim, clock, list, resetTime, listLock, promised,
                     thread, occurred, wakeTime, lastCall, finished, canceled,
                     ctl, turn, runs>>
  BY DEF Leave, clockVar, timerVar, control, sched
<1>2. /\ driver' \in [Drivers -> DriverState]
      /\ driver'[p] = Off /\ Off.at = "off" /\ Off.time = 0
      /\ \A q \in Drivers : q # p => driver'[q] = driver[q]
  BY <1>1 DEF DriverType, DriverState, Off
<1>3. Types'
  BY <1>1, <1>2 DEF ListType, TimeType, DriverType, ThreadType
<1>4. PhaseInv'
  BY <1>1, <1>2 DEF PhaseInv, Turn, Drivers, Clock, Control
<1>5. LockInv'
  <2>1. procLock = p
    BY <1>1 DEF LockInv
  <2>. QED BY <1>1, <1>2, <2>1 DEF LockInv, Drivers, Clock, Control, Nobody
<1>6. TimeInv' /\ FinishedInv' /\ CallInv'
  BY <1>1, <1>2 DEF TimeInv, FinishedInv, CallInv, TimeType
<1>. QED BY <1>3, <1>4, <1>5, <1>6

(* The timer is woken up with a promise.  Nobody else can have given it one.*)
LEMMA WakeWaits ==
  ASSUME WaitInv, NEW p \in Drivers, Wake(p)
  PROVE  WaitInv'
<1>. USE DEF WaitInv, Types
<1>1. PICK t : t = driver[p].timer
  OBVIOUS
<1>2. /\ driver[p].at = "wake" /\ thread[t] # "run"
      /\ finished' = [finished EXCEPT ![t] = p]
      /\ wakeTime' = [wakeTime EXCEPT ![t] = driver[p].instant]
      /\ occurred' = [occurred EXCEPT ![t] = TRUE]
      /\ listLock' = Nobody
      /\ driver' = [driver EXCEPT ![p].at = "await"]
      /\ UNCHANGED <<now, sim, clock, list, resetTime, procLock, promised,
                     thread, lastCall, canceled, ctl, turn, runs>>
  BY <1>1 DEF Wake, WakeUp, clockVar, control, sched
<1>3. /\ driver' \in [Drivers -> DriverState]
      /\ driver'[p].at = "await" /\ driver'[p].time = driver[p].time
      /\ driver'[p].timer = driver[p].timer
      /\ driver'[p].instant = driver[p].instant
      /\ \A q \in Drivers : q # p => driver'[q] = driver[q]
  BY <1>2, DriverAt
<1>4. /\ t \in T /\ driver[p].instant \in Int /\ procLock = p /\ listLock = p
      /\ ~promised[p] /\ driver[p].instant <= driver[p].time
  <2>1. driver[p] \in DriverState
    BY DEF DriverType
  <2>. QED BY <1>1, <1>2, <2>1 DEF TimeInv, LockInv, DriverState
<1>5. /\ finished' \in [T -> Drivers \cup {Nobody}] /\ finished'[t] = p
      /\ wakeTime' \in [T -> Int] /\ wakeTime'[t] = driver[p].instant
      /\ occurred' \in [T -> BOOLEAN]
      /\ \A u \in T : u # t => /\ finished'[u] = finished[u]
                               /\ wakeTime'[u] = wakeTime[u]
                               /\ occurred'[u] = occurred[u]
  BY <1>2, <1>4 DEF ThreadType
<1>6. Types'
  BY <1>2, <1>3, <1>5 DEF ListType, TimeType, DriverType, ThreadType
<1>7. PhaseInv'
  BY <1>2, <1>3 DEF PhaseInv, Turn, Drivers, Clock, Control
<1>8. LockInv'
  BY <1>2, <1>3, <1>4 DEF LockInv, Drivers, Clock, Control, Nobody
<1>9. TimeInv'
  BY <1>1, <1>2, <1>3, <1>4 DEF TimeInv
<1>10. FinishedInv'
  BY <1>1, <1>2, <1>3, <1>4, <1>5 DEF FinishedInv
<1>11. CallInv'
  BY <1>2, <1>5 DEF CallInv
<1>. QED BY <1>6, <1>7, <1>8, <1>9, <1>10, <1>11

(* The promise is fulfilled.                                                *)
LEMMA AwaitWaits ==
  ASSUME WaitInv, NEW p \in Drivers, Await(p)
  PROVE  WaitInv'
<1>. USE DEF WaitInv, Types
<1>1. /\ driver[p].at = "await" /\ promised[p]
      /\ driver' = [driver EXCEPT ![p].at = "pick"]
      /\ UNCHANGED <<now, sim, clock, list, resetTime, procLock, listLock,
                     promised, thread, occurred, wakeTime, lastCall, finished,
                     canceled, ctl, turn, runs>>
  BY DEF Await, clockVar, timerVar, control, sched, locks
<1>2. /\ driver' \in [Drivers -> DriverState]
      /\ driver'[p].at = "pick" /\ driver'[p].time = driver[p].time
      /\ \A q \in Drivers : q # p => driver'[q] = driver[q]
  BY <1>1, DriverAt
<1>3. Types'
  BY <1>1, <1>2 DEF ListType, TimeType, DriverType, ThreadType
<1>4. PhaseInv'
  BY <1>1, <1>2 DEF PhaseInv, Turn, Drivers, Clock, Control
<1>5. LockInv'
  BY <1>1, <1>2 DEF LockInv
<1>6. TimeInv' /\ FinishedInv' /\ CallInv'
  BY <1>1, <1>2 DEF TimeInv, FinishedInv, CallInv
<1>. QED BY <1>3, <1>4, <1>5, <1>6

(* Steps that leave the drivers, the locks and the promises as they are.    *)
LEMMA DriversStay ==
  ASSUME WaitInv, Types', PhaseInv', CallInv', now' = now, sim' = sim,
         UNCHANGED <<driver, promised, procLock, listLock, finished>>,
         \A t \in T : finished[t] \in Drivers => wakeTime'[t] = wakeTime[t]
  PROVE  WaitInv'
<1>1. LockInv' /\ TimeInv' /\ FinishedInv'
  BY DEF WaitInv, LockInv, TimeInv, FinishedInv
<1>. QED BY <1>1 DEF WaitInv

(* The timer threads.                                                       *)
LEMMA LoopWaits ==
  ASSUME WaitInv, NEW t \in T, Loop(t) \/ Awake(t) \/ RunFails(t)
  PROVE  WaitInv'
<1>1. /\ UNCHANGED <<now, sim, clock, list, resetTime, procLock, listLock,
                     driver, promised, wakeTime, lastCall, finished,
                     canceled, ctl, turn, runs>>
  BY DEF Loop, Awake, RunFails, clockVar, control, sched, locks, driving
<1>2. /\ thread' \in [T -> {"none", "loop", "wait", "run", "exited"}]
      /\ occurred' \in [T -> BOOLEAN]
      /\ \A u \in T : u # t => /\ thread'[u] = thread[u]
                               /\ occurred'[u] = occurred[u]
      /\ thread'[t] = "run" => occurred[t] /\ ~canceled[t] /\ ~occurred'[t]
      /\ occurred'[t] => occurred[t]
  <2>0. /\ thread \in [T -> {"none", "loop", "wait", "run", "exited"}]
        /\ occurred \in [T -> BOOLEAN]
    BY DEF WaitInv, Types, ThreadType
  <2>1. CASE Loop(t)
    BY <2>0, <2>1 DEF Loop
  <2>2. CASE Awake(t)
    <3>1. /\ occurred[t] /\ occurred' = [occurred EXCEPT ![t] = FALSE]
          /\ thread' = [thread EXCEPT ![t] = IF canceled[t] THEN "exited"
                                             ELSE "run"]
      BY <2>2 DEF Awake
    <3>2. occurred' \in [T -> BOOLEAN] /\ occurred'[t] = FALSE
      BY <2>0, <3>1
    <3>3. ~occurred'[t]
      BY <3>2, Zenon
    <3>. QED BY <2>0, <3>1, <3>2, <3>3
  <2>3. CASE RunFails(t)
    BY <2>0, <2>3 DEF RunFails
  <2>. QED BY <2>1, <2>2, <2>3
<1>3. Types' /\ PhaseInv'
  BY <1>1, <1>2 DEF WaitInv, Types, ListType, TimeType, DriverType,
     ThreadType, PhaseInv, Turn
<1>4. CallInv'
  BY <1>1, <1>2 DEF WaitInv, CallInv
<1>. QED BY <1>1, <1>3, <1>4, DriversStay

(* The run of a job keeps the invariant.                                    *)
LEMMA RunWaits ==
  ASSUME WaitInv, NEW t \in T, Run(t)
  PROVE  WaitInv'
<1>. USE DEF WaitInv, Types
<1>1. /\ thread[t] = "run"
      /\ lastCall' = [lastCall EXCEPT ![t] = IF IsNew(t) THEN wakeTime[t]
                                             ELSE lastCall[t]]
      /\ promised' = [p \in Drivers |-> promised[p] \/ finished[t] = p]
      /\ finished' = [finished EXCEPT ![t] = Nobody]
      /\ thread' = [thread EXCEPT ![t] = "loop"]
      /\ UNCHANGED <<now, sim, clock, list, resetTime, procLock, listLock,
                     driver, occurred, wakeTime, canceled, ctl, turn, runs>>
  BY DEF Run, clockVar, control, sched, locks
<1>2. /\ lastCall' \in [T -> Int]
      /\ promised' \in [Drivers -> BOOLEAN]
      /\ finished' \in [T -> Drivers \cup {Nobody}] /\ finished'[t] = Nobody
      /\ thread' \in [T -> {"none", "loop", "wait", "run", "exited"}]
      /\ thread'[t] = "loop"
      /\ \A u \in T : u # t => thread'[u] = thread[u] /\ finished'[u] = finished[u]
  BY <1>1 DEF ThreadType, DriverType
<1>3. Types' /\ PhaseInv'
  BY <1>1, <1>2 DEF ListType, TimeType, DriverType, ThreadType, PhaseInv, Turn
<1>4. LockInv'
  BY <1>1 DEF LockInv
<1>5. finished[t] \in Drivers /\ ~occurred[t]
  BY <1>1 DEF CallInv
<1>6. /\ driver[finished[t]].at = "await" /\ driver[finished[t]].timer = t
      /\ \A p \in Drivers : p # finished[t] => (promised'[p] <=> promised[p])
  BY <1>1, <1>5 DEF FinishedInv
<1>7. TimeInv'
  BY <1>1, <1>6 DEF TimeInv
<1>8. FinishedInv'
  <2>. SUFFICES ASSUME NEW u \in T, NEW p \in Drivers, finished'[u] = p
                PROVE  /\ driver[p].at = "await" /\ driver[p].timer = u
                       /\ ~promised'[p] /\ wakeTime[u] = driver[p].instant
    BY <1>1 DEF FinishedInv
  <2>1. u # t
    BY <1>2 DEF Drivers, Clock, Control, Nobody
  <2>2. finished[u] = p
    BY <1>2, <2>1
  <2>3. p # finished[t]
    BY <1>6, <2>1, <2>2 DEF FinishedInv
  <2>. QED BY <1>6, <2>2, <2>3 DEF FinishedInv
<1>9. CallInv'
  BY <1>1, <1>2, <1>5 DEF CallInv
<1>. QED BY <1>3, <1>4, <1>7, <1>8, <1>9

(* The clock thread.                                                        *)
LEMMA TickWaits ==
  ASSUME WaitInv, Tick
  PROVE  WaitInv'
<1>. USE DEF WaitInv, Types
<1>1. /\ clock = "loop" /\ now' = sim /\ sim' = sim + 1 /\ clock' = "update"
      /\ Drive(Clock, sim) \/ driver' = driver
      /\ UNCHANGED <<list, resetTime, procLock, listLock, promised, thread,
                     occurred, wakeTime, lastCall, finished, canceled, ctl,
                     turn, runs>>
  BY DEF Tick, sched, locks, timerVar, control
<1>2. now \in Nat /\ sim \in Nat /\ now <= sim
  BY DEF TimeType, TimeInv
<1>3. /\ driver' \in [Drivers -> DriverState]
      /\ driver'[Control] = driver[Control]
      /\ \/ driver' = driver
         \/ driver'[Clock].at = "lock" /\ driver'[Clock].time = sim
  <2>1. CASE Drive(Clock, sim)
    BY <1>2, <2>1, Started DEF Drivers, Clock, Control
  <2>. QED BY <1>1, <2>1 DEF DriverType
<1>4. driver[Clock].at = "off"
  BY <1>1 DEF PhaseInv
<1>5. Types'
  BY <1>1, <1>2, <1>3 DEF ListType, TimeType, DriverType, ThreadType
<1>6. PhaseInv'
  <2>1. ctl # "ready" /\ ctl # "stopped"
    BY <1>1 DEF PhaseInv
  <2>. QED BY <1>1, <1>3, <2>1 DEF PhaseInv, Turn, Drivers, Clock, Control
<1>7. LockInv'
  BY <1>1, <1>3, <1>4 DEF LockInv, Drivers, Clock, Control
<1>8. TimeInv'
  <2>1. \A p \in Drivers : driver[p].time \in Nat
    BY DEF DriverType, DriverState
  <2>2. \A p \in Drivers : driver[p].time <= now'
    BY <1>1, <1>2, <2>1 DEF TimeInv
  <2>3. driver'[Clock].at # "off" => driver'[Clock].at = "lock"
    BY <1>3, <1>4
  <2>. QED BY <1>1, <1>2, <1>3, <1>4, <2>2, <2>3 DEF TimeInv, Drivers, Clock,
       Control
<1>9. FinishedInv'
  <2>1. \A t \in T : finished[t] # Clock
    BY <1>4 DEF FinishedInv, Drivers, Clock, Control
  <2>. QED BY <1>1, <1>3, <2>1 DEF FinishedInv, Drivers, Clock, Control
<1>10. CallInv'
  BY <1>1 DEF CallInv
<1>. QED BY <1>5, <1>6, <1>7, <1>8, <1>9, <1>10

(* The end of a tick, and of the clock thread, keep the invariant.          *)
LEMMA TockWaits ==
  ASSUME WaitInv, Tock \/ ClockEnd
  PROVE  WaitInv'
<1>1. /\ UNCHANGED <<now, sim, list, resetTime, procLock, listLock,
                     driver, promised, thread, occurred, wakeTime, lastCall,
                     finished, canceled, ctl, turn, runs>>
      /\ clock \in {"loop", "update"} /\ driver[Clock].at = "off"
  BY DEF Tock, ClockEnd, control, sched, locks, driving, timerVar, Off,
     WaitInv, PhaseInv
<1>2. Types' /\ PhaseInv' /\ CallInv'
  BY <1>1 DEF WaitInv, Types, ListType, TimeType, DriverType, ThreadType,
     PhaseInv, Turn, CallInv
<1>. QED BY <1>1, <1>2, DriversStay

(* The list of a new run.                                                   *)
LEMMA AddTimersIs ==
  /\ AddTimers \in Seq(Entry) /\ Len(AddTimers) = Len(Timers)
  /\ \A i \in 1..Len(Timers) : /\ AddTimers[i].timer = Timers[i]
                               /\ AddTimers[i].next = Delay[Timers[i]]
  /\ Distinct(AddTimers)
<1>1. /\ Timers \in Seq(T) /\ Len(Timers) \in Nat /\ Delay \in [T -> Nat]
      /\ \A i, j \in 1..Len(Timers) : Timers[i] = Timers[j] => i = j
  BY TimersAssumption DEF IsInjective
<1>2. ASSUME NEW i \in 1..Len(Timers)
      PROVE  /\ [timer |-> Timers[i], next |-> Delay[Timers[i]]] \in Entry
             /\ AddTimers[i] = [timer |-> Timers[i], next |-> Delay[Timers[i]]]
  <2>1. Timers[i] \in T
    BY <1>1
  <2>. QED BY <1>1, <2>1 DEF Entry, AddTimers
<1>3. AddTimers \in [1..Len(Timers) -> Entry]
  BY <1>2 DEF AddTimers
<1>4. AddTimers \in Seq(Entry) /\ Len(AddTimers) = Len(Timers)
  BY <1>1, <1>3
<1>5. \A i \in 1..Len(Timers) : /\ AddTimers[i].timer = Timers[i]
                                /\ AddTimers[i].next = Delay[Timers[i]]
  <2>1. ASSUME NEW i \in 1..Len(Timers)
        PROVE  /\ AddTimers[i].timer = Timers[i]
               /\ AddTimers[i].next = Delay[Timers[i]]
    <3>1. AddTimers[i] = [timer |-> Timers[i], next |-> Delay[Timers[i]]]
      BY <1>2
    <3>. QED BY <3>1
  <2>. QED BY <2>1
<1>6. Distinct(AddTimers)
  BY <1>1, <1>4, <1>5 DEF Distinct
<1>. QED BY <1>4, <1>5, <1>6

(* timeResetBegin.                                                          *)
LEMMA ShiftedIs ==
  ASSUME list \in Seq(Entry), NEW d \in Int, NEW v, v = Shifted(d)
  PROVE  /\ v \in Seq(Entry) /\ Len(v) = Len(list)
         /\ \A i \in 1..Len(list) : /\ v[i].timer = list[i].timer
                                    /\ v[i].next = list[i].next - d
<1>1. Len(list) \in Nat
  OBVIOUS
<1>2. ASSUME NEW i \in 1..Len(list)
      PROVE  /\ v[i] = [timer |-> list[i].timer, next |-> list[i].next - d]
             /\ v[i] \in Entry
  <2>1. list[i] \in Entry
    OBVIOUS
  <2>2. v[i] = [list[i] EXCEPT !.next = list[i].next - d]
    BY DEF Shifted
  <2>. QED BY SMTT(30), <2>1, <2>2 DEF Entry
<1>3. v \in [1..Len(list) -> Entry]
  BY <1>2 DEF Shifted
<1>. QED BY <1>1, <1>2, <1>3

(* Nobody drives before the clock is started, nor after it has ended.       *)
LEMMA NobodyDrives ==
  ASSUME WaitInv, ctl \in {"ready", "stopped"}
  PROVE  /\ \A p \in Drivers : driver[p] = Off /\ driver[p].at = "off"
         /\ \A t \in T : finished[t] \notin Drivers
<1>1. clock # "update" /\ ctl # "firstStep"
  BY DEF WaitInv, PhaseInv
<1>2. \A p \in Drivers : driver[p].at = "off"
  BY <1>1 DEF WaitInv, PhaseInv, Drivers
<1>. QED BY <1>2 DEF WaitInv, PhaseInv, FinishedInv

(* The start of the clock and the renewal of the timers keep the invariant. *)
LEMMA ResetWaits ==
  ASSUME WaitInv, ClockStart \/ ReadyAgain
  PROVE  WaitInv'
<1>. USE DEF WaitInv, Types
<1>1. /\ ctl \in {"ready", "stopped"}
      /\ wakeTime' = [t \in T |-> -1] /\ lastCall' = [t \in T |-> -1]
      /\ ctl' \in {"starting", "ready"}
      /\ UNCHANGED <<procLock, listLock, driver, promised>>
  BY DEF ClockStart, ReadyAgain, locks, driving
<1>2. /\ \A p \in Drivers : driver[p] = Off /\ driver[p].at = "off"
      /\ \A t \in T : finished[t] \notin Drivers
  BY <1>1, NobodyDrives
<1>3. /\ now' \in Nat /\ sim' \in Nat /\ resetTime' \in {-1, 0}
      /\ runs' \in Nat /\ now' <= sim' /\ turn' \in Nat
      /\ ctl' = "ready" => clock' = "none"
  BY DEF ClockStart, ReadyAgain, TimeType, TimeInv, PhaseInv
<1>4. list' \in Seq(Entry)
  <2>1. CASE ClockStart
    BY <2>1, ShiftedIs DEF ClockStart, ListType, TimeType
  <2>2. CASE ReadyAgain
    BY <2>2, AddTimersIs DEF ReadyAgain
  <2>. QED BY <2>1, <2>2
<1>5. /\ thread' \in [T -> {"none", "loop", "wait", "run", "exited"}]
      /\ occurred' \in [T -> BOOLEAN] /\ canceled' \in [T -> BOOLEAN]
      /\ finished' \in [T -> Drivers \cup {Nobody}]
      /\ \A t \in T : /\ finished'[t] \notin Drivers
                      /\ thread'[t] # "run"
                      /\ ~(occurred'[t] /\ ~canceled'[t])
  <2>1. CASE ClockStart
    <3>1. UNCHANGED <<thread, occurred, finished, canceled>>
      BY <2>1 DEF ClockStart
    <3>. QED BY <1>2, <3>1 DEF ThreadType, CallInv
  <2>2. CASE ReadyAgain
    <3>1. /\ thread' = [t \in T |-> "none"]
          /\ occurred' = [t \in T |-> FALSE]
          /\ finished' = [t \in T |-> Nobody]
          /\ canceled' = [t \in T |-> FALSE]
      BY <2>2 DEF ReadyAgain
    <3>2. \A t \in T : thread'[t] = "none" /\ occurred'[t] = FALSE
                       /\ finished'[t] = Nobody
      BY <3>1
    <3>3. \A t \in T : ~occurred'[t]
      BY <3>2, Zenon
    <3>. QED BY <3>1, <3>2, <3>3 DEF Drivers, Clock, Control, Nobody
  <2>. QED BY <2>1, <2>2
<1>6. Types'
  BY <1>1, <1>3, <1>4, <1>5 DEF ListType, TimeType, DriverType, ThreadType
<1>7. PhaseInv'
  BY <1>1, <1>2, <1>3 DEF PhaseInv, Drivers
<1>8. LockInv'
  BY <1>1 DEF LockInv
<1>9. TimeInv'
  BY <1>1, <1>2, <1>3 DEF TimeInv, Off
<1>10. FinishedInv' /\ CallInv'
  BY <1>1, <1>5 DEF FinishedInv, CallInv
<1>. QED BY <1>6, <1>7, <1>8, <1>9, <1>10

(* The start of the scheduler keeps the invariant.                          *)
LEMMA StartWaits ==
  ASSUME WaitInv, SchedulerStart
  PROVE  WaitInv'
<1>. USE DEF WaitInv, Types
<1>1. /\ ctl = "starting" /\ thread' = [t \in T |-> "loop"]
      /\ ctl' = "firstStep"
      /\ (resetTime = 0 /\ Drive(Control, 0)) \/ driver' = driver
      /\ UNCHANGED <<now, sim, clock, list, resetTime, procLock, listLock,
                     promised, occurred, wakeTime, lastCall, finished,
                     canceled, turn, runs>>
  BY DEF SchedulerStart, clockVar, sched, locks, TimeType
<1>2. /\ driver' \in [Drivers -> DriverState]
      /\ driver'[Clock] = driver[Clock]
      /\ \/ driver' = driver
         \/ driver'[Control].at = "lock" /\ driver'[Control].time = 0
  <2>1. CASE Drive(Control, 0)
    BY <2>1, Started DEF Drivers, Clock, Control
  <2>. QED BY <1>1, <2>1 DEF DriverType
<1>3. driver[Control].at = "off"
  BY <1>1 DEF PhaseInv
<1>4. /\ thread' \in [T -> {"none", "loop", "wait", "run", "exited"}]
      /\ \A t \in T : thread'[t] = "loop"
  BY <1>1
<1>5. Types'
  BY <1>1, <1>2, <1>4 DEF ListType, TimeType, DriverType, ThreadType
<1>6. PhaseInv'
  BY <1>1, <1>2 DEF PhaseInv, Turn, Drivers, Clock, Control
<1>7. LockInv'
  BY <1>1, <1>2, <1>3 DEF LockInv, Drivers, Clock, Control
<1>8. TimeInv'
  <2>1. driver'[Control].at # "off" => driver'[Control].at = "lock"
    BY <1>2, <1>3
  <2>. QED BY <1>1, <1>2, <1>3, <2>1 DEF TimeInv, TimeType, Drivers, Clock,
       Control
<1>9. FinishedInv'
  <2>1. \A t \in T : finished[t] # Control
    BY <1>3 DEF FinishedInv, Drivers, Clock, Control
  <2>. QED BY <1>1, <1>2, <2>1 DEF FinishedInv, Drivers, Clock, Control
<1>10. CallInv'
  BY <1>1, <1>4 DEF CallInv
<1>. QED BY <1>5, <1>6, <1>7, <1>8, <1>9, <1>10

(* Control goes on.                                                         *)
LEMMA ControlWaits ==
  ASSUME WaitInv, \/ SchedulerStarted \/ SchedulerStop \/ RemoveTimer
                  \/ Join \/ ClockStop \/ ClockJoin
  PROVE  WaitInv'
<1>1. /\ UNCHANGED <<now, sim, clock, procLock, listLock, driver, promised,
                     thread, occurred, wakeTime, lastCall, finished, canceled,
                     runs>>
      /\ resetTime' \in {-1, 0}
      /\ list' = list \/ list' = Without(list, Turn)
  BY DEF SchedulerStarted, SchedulerStop, RemoveTimer, Join, ClockStop,
     ClockJoin, clockVar, sched, locks, driving, timerVar, WaitInv, Types,
     TimeType
<1>2. list' \in Seq(Entry)
  <2>1. list \in Seq(Entry)
    BY DEF WaitInv, Types, ListType
  <2>2. CASE list' = Without(list, Turn)
    BY <2>1, <2>2, RemovedIs
  <2>. QED BY <1>1, <2>1, <2>2
<1>3. PhaseInv'
  <2>0. Len(Timers) \in Nat /\ turn \in Nat /\ (ctl = "remove" => turn # 0)
    BY TimersAssumption DEF WaitInv, PhaseInv
  <2>1. CASE SchedulerStarted
    BY <1>1, <2>1 DEF SchedulerStarted, WaitInv, PhaseInv, Off
  <2>2. CASE SchedulerStop
    BY <1>1, <2>2 DEF SchedulerStop, WaitInv, PhaseInv
  <2>3. CASE RemoveTimer
    BY <1>1, <2>0, <2>3 DEF RemoveTimer, WaitInv, PhaseInv
  <2>4. CASE Join
    BY <1>1, <2>0, <2>4 DEF Join, WaitInv, PhaseInv
  <2>5. CASE ClockStop \/ ClockJoin
    BY <1>1, <2>5 DEF ClockStop, ClockJoin, WaitInv, PhaseInv
  <2>. QED BY <2>1, <2>2, <2>3, <2>4, <2>5
<1>4. Types' /\ CallInv'
  BY <1>1, <1>2 DEF WaitInv, Types, ListType, TimeType, DriverType,
     ThreadType, CallInv
<1>. QED BY <1>1, <1>3, <1>4, DriversStay

(* The cancelling of a timer thread keeps the invariant.                    *)
LEMMA CancelWaits ==
  ASSUME WaitInv, Cancel
  PROVE  WaitInv'
<1>1. /\ ctl = "cancel" /\ canceled' = [canceled EXCEPT ![Turn] = TRUE]
      /\ ctl' = "wake"
      /\ UNCHANGED <<now, sim, clock, list, resetTime, procLock, listLock,
                     driver, promised, thread, occurred, wakeTime, lastCall,
                     finished, turn, runs>>
  BY DEF Cancel, clockVar, sched, locks, driving
<1>2. turn \in 1..Len(Timers) /\ Turn \in T
  <2>1. turn \in 1..Len(Timers)
    BY <1>1 DEF WaitInv, PhaseInv
  <2>. QED BY <2>1, TimersAssumption DEF Turn
<1>3. /\ canceled' \in [T -> BOOLEAN] /\ canceled'[Turn] = TRUE
      /\ \A t \in T : t # Turn => canceled'[t] = canceled[t]
  BY <1>1, <1>2 DEF WaitInv, Types, ThreadType
<1>4. canceled'[Turn] /\ \A t \in T : canceled[t] => canceled'[t]
  BY <1>3, Zenon
<1>5. Turn' = Turn
  BY <1>1 DEF Turn
<1>6. Types' /\ CallInv'
  BY <1>1, <1>3, <1>4 DEF WaitInv, Types, ListType, TimeType, DriverType,
     ThreadType, CallInv
<1>7. PhaseInv'
  BY <1>1, <1>2, <1>4, <1>5 DEF WaitInv, PhaseInv
<1>. QED BY <1>1, <1>6, <1>7, DriversStay

(* Waking up a cancelled timer thread keeps the invariant.                  *)
LEMMA WakeCanceledWaits ==
  ASSUME WaitInv, WakeCanceled
  PROVE  WaitInv'
<1>. USE DEF WaitInv, Types
<1>1. PICK t : t = Turn
  OBVIOUS
<1>2. /\ ctl = "wake" /\ thread[t] # "run" /\ ctl' = "join"
      /\ finished' = [finished EXCEPT ![t] = Nobody]
      /\ wakeTime' = [wakeTime EXCEPT ![t] = now]
      /\ occurred' = [occurred EXCEPT ![t] = TRUE]
      /\ UNCHANGED <<now, sim, clock, list, resetTime, procLock, listLock,
                     driver, promised, thread, lastCall, canceled, turn, runs>>
  BY <1>1 DEF WakeCanceled, WakeUp, clockVar, sched, locks, driving
<1>3. turn \in 1..Len(Timers) /\ t \in T /\ canceled[t]
  <2>1. turn \in 1..Len(Timers) /\ canceled[Turn]
    BY <1>2 DEF PhaseInv
  <2>. QED BY <1>1, <2>1, TimersAssumption DEF Turn
<1>4. /\ finished' \in [T -> Drivers \cup {Nobody}] /\ finished'[t] = Nobody
      /\ wakeTime' \in [T -> Int] /\ occurred' \in [T -> BOOLEAN]
      /\ \A u \in T : u # t => /\ finished'[u] = finished[u]
                               /\ wakeTime'[u] = wakeTime[u]
                               /\ occurred'[u] = occurred[u]
  BY <1>2, <1>3 DEF ThreadType, TimeType
<1>5. Types'
  BY <1>2, <1>4 DEF ListType, TimeType, DriverType, ThreadType
<1>6. PhaseInv'
  BY <1>2 DEF PhaseInv, Turn
<1>7. LockInv' /\ TimeInv'
  BY <1>2 DEF LockInv, TimeInv
<1>8. FinishedInv'
  BY <1>2, <1>4 DEF FinishedInv, Drivers, Clock, Control, Nobody
<1>9. CallInv'
  BY <1>2, <1>3, <1>4 DEF CallInv
<1>. QED BY <1>5, <1>6, <1>7, <1>8, <1>9

(* Every step preserves the invariant.                                      *)
LEMMA WaitStep == WaitInv /\ [Next]_vars => WaitInv'
<1>. SUFFICES ASSUME WaitInv, [Next]_vars PROVE WaitInv'
  OBVIOUS
<1>1. ASSUME NEW p \in Drivers, Process(p) PROVE WaitInv'
  BY <1>1, EnterWaits, PickWaits, LeaveWaits, WakeWaits, AwaitWaits DEF Process
<1>2. ASSUME NEW t \in T, TimerStep(t) PROVE WaitInv'
  BY <1>2, LoopWaits, RunWaits DEF TimerStep
<1>3. CASE Tick \/ Tock \/ ClockEnd
  BY <1>3, TickWaits, TockWaits
<1>4. CASE ClockStart \/ ReadyAgain
  BY <1>4, ResetWaits
<1>5. CASE Starting \/ SchedulerStop \/ Stopping
  BY <1>5, StartWaits, ControlWaits, CancelWaits, WakeCanceledWaits
     DEF Starting, Stopping
<1>6. CASE UNCHANGED vars
  BY <1>6 DEF vars, clockVar, sched, locks, driving, timerVar, control,
     WaitInv, Types, ListType, TimeType, DriverType, ThreadType, PhaseInv,
     Turn, LockInv, TimeInv, FinishedInv, CallInv
<1>. QED BY <1>1, <1>2, <1>3, <1>4, <1>5, <1>6 DEF Next, Terminated

(* The initial states satisfy the invariant of waiting.                     *)
LEMMA WaitStart == Init => WaitInv
<1>. SUFFICES ASSUME Init PROVE WaitInv
  OBVIOUS
<1>0. /\ driver \in [Drivers -> DriverState]
      /\ \A p \in Drivers : /\ driver[p] = Off /\ driver[p].at = "off"
                            /\ driver[p].time = 0
  BY DEF Init, Off, DriverState
<1>1. Types
  BY <1>0, AddTimersIs DEF Init, Types, ListType, TimeType, DriverType,
     ThreadType
<1>2. PhaseInv /\ LockInv /\ TimeInv
  BY <1>0 DEF Init, PhaseInv, LockInv, TimeInv, Drivers, Clock, Control, Nobody
<1>3. FinishedInv
  BY DEF Init, FinishedInv, Drivers, Clock, Control, Nobody
<1>4. CallInv
  <2>1. \A t \in T : thread[t] = "none" /\ occurred[t] = FALSE
    BY DEF Init
  <2>2. \A t \in T : ~occurred[t]
    BY <2>1, Zenon
  <2>. QED BY <2>1, <2>2 DEF CallInv
<1>. QED BY <1>1, <1>2, <1>3, <1>4 DEF WaitInv

(* Jobs run one at a time while the clock stands still: whoever processes a *)
(* time step has the lock for it, and waits for the promise of the one job  *)
(* that runs, for an instant that has come.                                 *)
THEOREM JobsAreWaitedFor == Spec => []ClockWaitsForJob
<1>1. WaitInv => ClockWaitsForJob
  <2>. SUFFICES ASSUME WaitInv, NEW t \in T, thread[t] = "run"
                PROVE  /\ wakeTime[t] <= now
                       /\ \E p \in Drivers :
                            /\ driver[p].at = "await" /\ driver[p].timer = t
                            /\ procLock = p /\ finished[t] = p
    BY DEF ClockWaitsForJob
  <2>1. PICK p \in Drivers : p = finished[t]
    BY DEF WaitInv, CallInv
  <2>2. /\ driver[p].at = "await" /\ driver[p].timer = t
        /\ wakeTime[t] = driver[p].instant
    BY <2>1 DEF WaitInv, FinishedInv
  <2>3. procLock = p
    BY <2>2 DEF WaitInv, LockInv
  <2>4. driver[p] \in DriverState /\ now \in Nat
    BY DEF WaitInv, Types, DriverType, TimeType
  <2>5. wakeTime[t] <= now
    BY <2>2, <2>4 DEF WaitInv, TimeInv, DriverState
  <2>. QED BY <2>1, <2>2, <2>3, <2>5
<1>. QED BY <1>1, WaitStart, WaitStep, PTL DEF Spec

-----------------------------------------------------------------------------
(* The order of the list.                                                   *)

(* Whoever holds the lock for the processing is alone with it.              *)
LEMMA OneDriver ==
  ASSUME LockInv, NEW p \in Drivers, NEW q \in Drivers, p # q,
         driver[p].at \in {"pick", "wake", "await"}
  PROVE  driver[q].at \notin {"pick", "wake", "await"}
BY DEF LockInv

(* A list and drivers that stay as they are, but for one that is done with  *)
(* the list, has not begun with it or goes on with it.                      *)
LEMMA OrderStays ==
  ASSUME OrderInv, list' = list,
         \A p \in Drivers :
           driver'[p].at \in {"pick", "wake", "await"} =>
             /\ driver[p].at \in {"pick", "wake", "await"}
             /\ driver'[p].time = driver[p].time
  PROVE  OrderInv'
BY DEF OrderInv, DueFirst

(* The steps of a driver keep what is due in front.                         *)
LEMMA OrderProcess ==
  ASSUME WaitInv, OrderInv, NEW p \in Drivers, Process(p)
  PROVE  OrderInv'
<1>0. /\ list \in Seq(Entry) /\ DriverType /\ LockInv
      /\ \A q \in Drivers : driver[q] \in DriverState /\ driver[q].time \in Int
  BY DEF WaitInv, Types, ListType, DriverType, DriverState
<1>1. CASE Enter(p)
  <2>1. /\ procLock = Nobody /\ list' = Sorted(list)
        /\ driver' = [driver EXCEPT ![p].at = "pick"]
    BY <1>1 DEF Enter
  <2>2. /\ driver'[p].time = driver[p].time
        /\ \A q \in Drivers : q # p => driver'[q] = driver[q]
    BY <1>0, <2>1, DriverAt
  <2>3. \A q \in Drivers : driver[q].at \notin {"pick", "wake", "await"}
    BY <1>0, <2>1 DEF LockInv, Drivers, Clock, Control, Nobody
  <2>4. \A time \in Int : DueFirst(list', time)
    BY <1>0, <2>1, SortedDue
  <2>5. DueFirst(list', driver'[p].time)
    BY <1>0, <2>2, <2>4
  <2>. QED BY <2>2, <2>3, <2>5 DEF OrderInv
<1>2. CASE Pick(p)
  <2>1. /\ driver[p].at = "pick" /\ list' = Reinserted(driver[p].time)
    BY <1>2 DEF Pick
  <2>2. /\ list # << >> /\ driver'[p].time = driver[p].time
        /\ \A q \in Drivers : q # p => driver'[q] = driver[q]
    BY <1>2, PickWaits
  <2>3. DueFirst(list, driver[p].time)
    BY <2>1 DEF OrderInv
  <2>4. PICK time \in Int : time = driver[p].time
    BY <1>0
  <2>5. list' = Reinserted(time)
    BY <2>1, <2>4
  <2>6. DueFirst(list, time) => DueFirst(list', time)
    BY <1>0, <2>2, <2>5, CalledList
  <2>7. DueFirst(list', driver'[p].time)
    BY <2>2, <2>3, <2>4, <2>6
  <2>8. \A q \in Drivers : q # p =>
          driver'[q].at \notin {"pick", "wake", "await"}
    BY <1>0, <2>1, <2>2, OneDriver
  <2>. QED BY <2>7, <2>8 DEF OrderInv
<1>3. CASE Leave(p)
  <2>1. list' = list /\ driver' = [driver EXCEPT ![p] = Off]
    BY <1>3 DEF Leave, sched
  <2>2. \A q \in Drivers : driver'[q] = IF q = p THEN Off ELSE driver[q]
    BY <1>0, <2>1 DEF DriverType
  <2>3. \A q \in Drivers : driver'[q].at \in {"pick", "wake", "await"} =>
          driver'[q] = driver[q]
    BY <2>2 DEF Off
  <2>. QED BY <2>1, <2>3, OrderStays
<1>4. CASE Wake(p) \/ Await(p)
  <2>1. /\ list' = list /\ driver[p].at \in {"wake", "await"}
        /\ \/ driver' = [driver EXCEPT ![p].at = "await"]
           \/ driver' = [driver EXCEPT ![p].at = "pick"]
    BY <1>4 DEF Wake, Await, sched
  <2>2. /\ driver'[p].time = driver[p].time
        /\ \A q \in Drivers : q # p => driver'[q] = driver[q]
    BY <1>0, <2>1, DriverAt
  <2>. QED BY <2>1, <2>2, OrderStays
<1>. QED BY <1>1, <1>2, <1>3, <1>4 DEF Process

(* A driver that begins.                                                    *)
LEMMA OrderDrive ==
  ASSUME WaitInv, OrderInv, Tick \/ SchedulerStart
  PROVE  OrderInv'
<1>0. DriverType /\ sim \in Nat /\ resetTime \in {-1, 0}
  BY DEF WaitInv, Types, TimeType
<1>. list' = list
  BY DEF Tick, SchedulerStart, sched
<1>1. CASE UNCHANGED driver
  BY <1>0, <1>1, OrderStays
<1>2. CASE \E p \in Drivers, time \in Nat : Drive(p, time)
  <2>1. PICK p \in Drivers, time \in Nat : Drive(p, time)
    BY <1>2
  <2>2. /\ driver'[p].at = "lock"
        /\ \A q \in Drivers : q # p => driver'[q] = driver[q]
    BY <1>0, <2>1, Started
  <2>. QED BY <1>0, <2>2, OrderStays
<1>3. \/ UNCHANGED driver \/ Drive(Clock, sim)
      \/ Drive(Control, resetTime) /\ resetTime > -1
  BY DEF Tick, SchedulerStart
<1>. QED BY <1>0, <1>1, <1>2, <1>3 DEF Drivers

(* Every step keeps what is due in front.                                   *)
LEMMA OrderStep ==
  ASSUME WaitInv, OrderInv, [Next]_vars
  PROVE  OrderInv'
<1>1. ASSUME NEW p \in Drivers, Process(p) PROVE OrderInv'
  BY <1>1, OrderProcess
<1>2. CASE Tick \/ SchedulerStart
  BY <1>2, OrderDrive
<1>3. CASE ClockStart \/ ReadyAgain
  <2>1. ctl \in {"ready", "stopped"} /\ driver' = driver
    BY <1>3 DEF ClockStart, ReadyAgain, driving
  <2>2. \A p \in Drivers : driver[p].at = "off"
    BY <2>1, NobodyDrives
  <2>. QED BY <2>1, <2>2 DEF OrderInv
<1>4. CASE RemoveTimer
  <2>1. list' = Without(list, Turn) /\ driver' = driver
    BY <1>4 DEF RemoveTimer, driving
  <2>2. /\ list \in Seq(Entry)
        /\ \A p \in Drivers : driver[p].time \in Int
    BY DEF WaitInv, Types, ListType, DriverType, DriverState
  <2>3. \A time \in Int : DueFirst(list, time) => DueFirst(list', time)
    BY <2>1, <2>2, RemovedIs
  <2>. QED BY <2>1, <2>2, <2>3 DEF OrderInv
<1>5. CASE list' = list /\ driver' = driver
  BY <1>5, OrderStays
<1>6. ASSUME NEW t \in T, TimerStep(t) PROVE list' = list /\ driver' = driver
  BY <1>6 DEF TimerStep, Loop, Awake, Run, RunFails, sched, driving
<1>7. CASE \/ Tock \/ ClockEnd \/ SchedulerStarted \/ SchedulerStop \/ Cancel
           \/ WakeCanceled \/ Join \/ ClockStop \/ ClockJoin \/ UNCHANGED vars
  <2>1. list' = list /\ driver' = driver
    BY <1>7 DEF Tock, ClockEnd, SchedulerStarted, SchedulerStop, Cancel,
       WakeCanceled, Join, ClockStop, ClockJoin, vars, sched, driving
  <2>. QED BY <1>5, <2>1
<1>. QED BY <1>1, <1>2, <1>3, <1>4, <1>5, <1>6, <1>7
         DEF Next, Terminated, Starting, Stopping

(* Only Leave ends a step, and then the first timer of the list is not due; *)
(* nor are the others, since those that are due come first.                 *)
LEMMA LeftWithNothingDue ==
  ASSUME WaitInv, OrderInv, [Next]_vars, NEW p \in Drivers,
         driver[p].at = "pick", driver'[p] = Off
  PROVE  \A i \in 1..Len(list') : list'[i].next > driver[p].time
<1>0. /\ list \in Seq(Entry) /\ DriverType /\ driver[p].time \in Nat
      /\ driver'[p].at = "off" /\ sim \in Nat /\ resetTime \in {-1, 0}
      /\ DueFirst(list, driver[p].time)
  BY DEF WaitInv, Types, ListType, DriverType, DriverState, TimeType, Off,
     OrderInv
<1>1. CASE Leave(p)
  <2>1. list' = list /\ ~Due(driver[p].time)
    BY <1>1 DEF Leave, sched
  <2>2. ASSUME NEW i \in 1..Len(list) PROVE list[i].next > driver[p].time
    <3>1. /\ Len(list) \in Nat /\ list # << >> /\ 1 \in 1..Len(list)
          /\ list[1] \in Entry /\ list[i] \in Entry
      BY <1>0
    <3>2. ~(list[1].next <= driver[p].time)
      BY <2>1, <3>1 DEF Due
    <3>3. i # 1 => 1 < i
      BY <3>1
    <3>4. ~(list[i].next <= driver[p].time)
      BY <1>0, <3>1, <3>2, <3>3 DEF DueFirst
    <3>. QED BY <1>0, <3>1, <3>4 DEF Entry
  <2>. QED BY <2>1, <2>2
<1>2. ASSUME NEW q \in Drivers, Process(q), ~Leave(p) PROVE FALSE
  <2>1. CASE q = p
    <3>1. Pick(p)
      BY <1>2, <2>1 DEF Process, Enter, Wake, Await
    <3>. QED BY <1>0, <3>1, PickWaits
  <2>2. CASE q # p
    <3>1. \E r : driver' = [driver EXCEPT ![q] = r]
      BY <1>2 DEF Process, Enter, Pick, Leave, Wake, Await
    <3>2. driver'[p] = driver[p]
      BY <1>0, <2>2, <3>1 DEF DriverType
    <3>. QED BY <1>0, <3>2
  <2>. QED BY <2>1, <2>2
<1>3. ASSUME NEW q \in Drivers, NEW time \in Nat, Drive(q, time) PROVE FALSE
  <2>1. /\ driver'[q].at = "lock"
        /\ \A r \in Drivers : r # q => driver'[r] = driver[r]
    BY <1>0, <1>3, Started
  <2>. QED BY <1>0, <2>1
<1>4. CASE Tick \/ SchedulerStart
  <2>1. \/ UNCHANGED driver \/ Drive(Clock, sim)
        \/ Drive(Control, resetTime) /\ resetTime > -1
    BY <1>4 DEF Tick, SchedulerStart
  <2>. QED BY <1>0, <1>3, <2>1 DEF Drivers
<1>5. ASSUME NEW t \in T, TimerStep(t) PROVE driver' = driver
  BY <1>5 DEF TimerStep, Loop, Awake, Run, RunFails, driving
<1>6. CASE \/ Tock \/ ClockEnd \/ SchedulerStarted \/ SchedulerStop \/ Cancel
           \/ WakeCanceled \/ Join \/ ClockStop \/ ClockJoin \/ UNCHANGED vars
           \/ ClockStart \/ ReadyAgain \/ RemoveTimer
  <2>1. driver' = driver
    BY <1>6 DEF Tock, ClockEnd, SchedulerStarted, SchedulerStop, Cancel,
       WakeCanceled, Join, ClockStop, ClockJoin, vars, driving, ClockStart,
       ReadyAgain, RemoveTimer
  <2>. QED BY <1>0, <2>1
<1>. QED BY <1>0, <1>1, <1>2, <1>4, <1>5, <1>6
         DEF Next, Terminated, Starting, Stopping

(* A time step ends only when no timer of the list is due, however many are *)
(* overdue and wherever a periodic timer is moved to.                       *)
THEOREM StepsLeaveNothingDue == Spec => NothingOverdue
<1>1. Init => WaitInv /\ OrderInv
  <2>1. Init => \A p \in Drivers : driver[p].at = "off"
    BY DEF Init, Off
  <2>. QED BY <2>1, WaitStart DEF OrderInv
<1>2. WaitInv /\ OrderInv /\ [Next]_vars => WaitInv' /\ OrderInv'
  BY WaitStep, OrderStep
<1>3. WaitInv /\ OrderInv /\ [Next]_vars =>
        [\A p \in Drivers : driver[p].at = "pick" /\ driver'[p] = Off =>
           \A i \in 1..Len(list') : list'[i].next > driver[p].time]_vars
  BY LeftWithNothingDue
<1>. QED BY <1>1, <1>2, <1>3, PTL DEF Spec, NothingOverdue

-----------------------------------------------------------------------------
(* The instants of the jobs.                                                *)

(* Pending calls, last calls and the entries that are left stay.            *)
LEMMA QueueStays ==
  ASSUME PendingInv, ListInv, UNCHANGED <<lastCall, runs>>, Distinct(list'),
         \A k \in 1..Len(list') : \E i \in 1..Len(list) : list'[k] = list[i],
         \A p \in Drivers : /\ Pending(p)' <=> Pending(p)
                            /\ Pending(p) =>
                                 /\ driver'[p].timer = driver[p].timer
                                 /\ driver'[p].instant = driver[p].instant
  PROVE  PendingInv' /\ ListInv'
<1>1. ASSUME NEW p \in Drivers, Pending(p)'
      PROVE  /\ Follows(driver[p].timer, driver[p].instant)'
             /\ \A k \in 1..Len(list') : list'[k].timer = driver'[p].timer =>
                  /\ list'[k].next = driver'[p].instant + Period[driver'[p].timer]
                  /\ Period[driver'[p].timer] # 0
  <2>1. /\ Pending(p) /\ driver'[p].timer = driver[p].timer
        /\ driver'[p].instant = driver[p].instant
    BY <1>1
  <2>2. /\ Follows(driver[p].timer, driver[p].instant)
        /\ \A i \in 1..Len(list) : list[i].timer = driver[p].timer =>
             /\ list[i].next = driver[p].instant + Period[driver[p].timer]
             /\ Period[driver[p].timer] # 0
    BY <2>1 DEF PendingInv
  <2>3. Follows(driver[p].timer, driver[p].instant)'
    BY <2>1, <2>2 DEF Follows
  <2>. QED BY <2>1, <2>2, <2>3
<1>2. ASSUME NEW k \in 1..Len(list')
      PROVE  \/ \E p \in Drivers : Pending(p)' /\ driver'[p].timer = list'[k].timer
             \/ Follows(list[k].timer, list[k].next)'
  <2>1. PICK i \in 1..Len(list) : list'[k] = list[i]
    OBVIOUS
  <2>2. \/ \E p \in Drivers : Pending(p) /\ driver[p].timer = list[i].timer
        \/ Follows(list[i].timer, list[i].next)
    BY DEF ListInv
  <2>3. CASE Follows(list[i].timer, list[i].next)
    BY <2>1, <2>3 DEF Follows
  <2>4. CASE \E p \in Drivers : Pending(p) /\ driver[p].timer = list[i].timer
    BY <2>1, <2>4
  <2>. QED BY <2>2, <2>3, <2>4
<1>. QED BY <1>1, <1>2 DEF PendingInv, ListInv

(* Picking the timer that is due keeps what is said of the instants.        *)
LEMMA QueuePick ==
  ASSUME QueueInv, NEW p \in Drivers, Pick(p)
  PROVE  PendingInv' /\ ListInv' /\ FirstRunInv'
<1>0. /\ list \in Seq(Entry) /\ DriverType /\ LockInv /\ 1 \in 1..Len(list)
      /\ driver[p].time \in Int
  <2>1. list \in Seq(Entry) /\ DriverType /\ LockInv /\ driver[p].time \in Int
    BY DEF QueueInv, WaitInv, Types, ListType, DriverType, DriverState
  <2>2. list # << >>
    BY PickWaits DEF QueueInv
  <2>. QED BY <2>1, <2>2
<1>1. /\ driver[p].at = "pick" /\ list' = Reinserted(driver[p].time)
      /\ promised' = [promised EXCEPT ![p] = FALSE]
      /\ UNCHANGED <<lastCall, runs, ctl, now>>
  BY DEF Pick, timerVar, control, clockVar
<1>2. /\ list # << >> /\ driver'[p].at = "wake"
      /\ driver'[p].timer = list[1].timer /\ driver'[p].instant = list[1].next
      /\ \A q \in Drivers : q # p => driver'[q] = driver[q]
  BY PickWaits DEF QueueInv
<1>3. \A q \in Drivers : ~Pending(q)
  BY <1>0, <1>1, OneDriver DEF Pending
<1>4. \A i \in 1..Len(list) : Follows(list[i].timer, list[i].next)
  BY <1>3 DEF QueueInv, ListInv
<1>5. /\ Distinct(list) => Distinct(list')
      /\ \A k \in 1..Len(list') :
           \/ \E i \in 1..Len(list) : i # 1 /\ list'[k] = list[i]
           \/ /\ list'[k].timer = list[1].timer /\ Period[list[1].timer] # 0
              /\ list'[k].next = list[1].next + Period[list[1].timer]
  <2>1. PICK time \in Int : time = driver[p].time
    BY <1>0
  <2>2. list' = Reinserted(time)
    BY <1>1, <2>1
  <2>3. Distinct(list) => Distinct(list')
    BY ONLY <1>0, <1>2, <2>2, CalledList
  <2>4. Called(list, list')
    BY ONLY <1>0, <1>2, <2>2, CalledList
  <2>. QED BY <2>3, <2>4 DEF Called
<1>6. Distinct(list) /\ Distinct(list')
  BY <1>5 DEF QueueInv, ListInv
<1>7. Pending(p)' /\ \A q \in Drivers : q # p => ~Pending(q)'
  <2>1. promised'[p] = FALSE
    BY <1>0, <1>1 DEF DriverType
  <2>2. ~promised'[p]
    BY <2>1, Zenon
  <2>3. \A q \in Drivers : q # p =>
          driver'[q].at \notin {"pick", "wake", "await"}
    BY <1>0, <1>1, <1>2, OneDriver
  <2>. QED BY <1>2, <2>2, <2>3 DEF Pending
<1>8. PendingInv'
  <2>1. Follows(driver[p].timer, driver[p].instant)'
    <3>1. Follows(list[1].timer, list[1].next)
      BY <1>0, <1>4
    <3>. QED BY <1>1, <1>2, <3>1 DEF Follows
  <2>2. ASSUME NEW k \in 1..Len(list'), list'[k].timer = list[1].timer
        PROVE  /\ list'[k].next = list[1].next + Period[list[1].timer]
               /\ Period[list[1].timer] # 0
    <3>1. ~ \E i \in 1..Len(list) : i # 1 /\ list'[k] = list[i]
      BY <1>0, <1>6, <2>2 DEF Distinct
    <3>. QED BY <1>5, <3>1
  <2>. QED BY <1>2, <1>7, <2>1, <2>2 DEF PendingInv
<1>9. ListInv'
  <2>1. ASSUME NEW k \in 1..Len(list')
        PROVE  \/ Pending(p)' /\ driver'[p].timer = list'[k].timer
               \/ Follows(list[k].timer, list[k].next)'
    <3>1. CASE list'[k].timer = list[1].timer
      BY <1>2, <1>7, <3>1
    <3>2. CASE \E i \in 1..Len(list) : list'[k] = list[i]
      <4>1. PICK i \in 1..Len(list) : list'[k] = list[i]
        BY <3>2
      <4>. QED BY <1>1, <1>4, <4>1 DEF Follows
    <3>. QED BY <1>5, <3>1, <3>2
  <2>. QED BY <1>6, <2>1 DEF ListInv
<1>10. FirstRunInv'
  BY <1>1 DEF QueueInv, FirstRunInv
<1>. QED BY <1>8, <1>9, <1>10

(* A driver that does not pick a timer leaves the pending calls as they are.*)
LEMMA PendingProcess ==
  ASSUME WaitInv, NEW p \in Drivers,
         Enter(p) \/ Leave(p) \/ Wake(p) \/ Await(p)
  PROVE  \A q \in Drivers : /\ Pending(q)' <=> Pending(q)
                            /\ Pending(q) =>
                                 /\ driver'[q].timer = driver[q].timer
                                 /\ driver'[q].instant = driver[q].instant
<1>0. DriverType /\ promised' = promised
  BY DEF WaitInv, Types, Enter, Leave, Wake, Await
<1>1. CASE Leave(p)
  <2>1. driver[p].at = "pick" /\ driver' = [driver EXCEPT ![p] = Off]
    BY <1>1 DEF Leave
  <2>2. \A q \in Drivers : driver'[q] = IF q = p THEN Off ELSE driver[q]
    BY <1>0, <2>1 DEF DriverType
  <2>. QED BY <1>0, <2>1, <2>2 DEF Pending, Off
<1>2. CASE Enter(p) \/ Wake(p) \/ Await(p)
  <2>1. \/ driver[p].at = "lock" /\ driver' = [driver EXCEPT ![p].at = "pick"]
        \/ driver[p].at = "wake" /\ driver' = [driver EXCEPT ![p].at = "await"]
        \/ /\ driver[p].at = "await" /\ driver' = [driver EXCEPT ![p].at = "pick"]
           /\ promised[p]
    BY <1>2 DEF Enter, Wake, Await
  <2>2. /\ driver'[p].timer = driver[p].timer
        /\ driver'[p].instant = driver[p].instant
        /\ \A q \in Drivers : q # p => driver'[q] = driver[q]
    BY <1>0, <2>1, DriverAt
  <2>3. \/ driver[p].at = "lock" /\ driver'[p].at = "pick"
        \/ driver[p].at = "wake" /\ driver'[p].at = "await"
        \/ driver[p].at = "await" /\ driver'[p].at = "pick" /\ promised[p]
    BY <1>0, <2>1, DriverAt
  <2>. QED BY <1>0, <2>2, <2>3 DEF Pending
<1>. QED BY <1>1, <1>2

(* A job that has run: it was called, for the instant that follows.         *)
LEMMA RunCalls ==
  ASSUME QueueInv, NEW t \in T, Run(t)
  PROVE  \E p \in Drivers :
           /\ Pending(p) /\ driver[p].timer = t /\ finished[t] = p
           /\ Follows(t, driver[p].instant) /\ driver[p].instant \in Int
           /\ lastCall' = [lastCall EXCEPT ![t] = driver[p].instant]
<1>0. /\ thread[t] = "run" /\ lastCall[t] \in Int /\ Period[t] \in Nat
      /\ lastCall' = [lastCall EXCEPT ![t] = IF IsNew(t) THEN wakeTime[t]
                                             ELSE lastCall[t]]
  BY TimersAssumption DEF Run, QueueInv, WaitInv, Types, ThreadType
<1>1. PICK p \in Drivers : finished[t] = p
  BY <1>0 DEF QueueInv, WaitInv, CallInv
<1>2. /\ driver[p].at = "await" /\ driver[p].timer = t /\ ~promised[p]
      /\ wakeTime[t] = driver[p].instant
  BY <1>1 DEF QueueInv, WaitInv, FinishedInv
<1>3. Pending(p) /\ Follows(t, driver[p].instant)
  BY <1>2 DEF Pending, QueueInv, PendingInv
<1>4. driver[p].instant \in Int
  BY DEF QueueInv, WaitInv, Types, DriverType, DriverState
<1>5. IsNew(t)
  BY <1>0, <1>2, <1>3, <1>4 DEF IsNew, Follows
<1>6. lastCall' = [lastCall EXCEPT ![t] = driver[p].instant]
  BY <1>0, <1>2, <1>5
<1>. QED BY <1>1, <1>2, <1>3, <1>4, <1>6

(* The run of a job keeps what is said of the instants.                     *)
LEMMA QueueRun ==
  ASSUME QueueInv, NEW t \in T, Run(t)
  PROVE  PendingInv' /\ ListInv' /\ FirstRunInv'
<1>1. PICK p \in Drivers :
        /\ Pending(p) /\ driver[p].timer = t /\ finished[t] = p
        /\ Follows(t, driver[p].instant) /\ driver[p].instant \in Int
        /\ lastCall' = [lastCall EXCEPT ![t] = driver[p].instant]
  BY RunCalls
<1>2. /\ promised' = [q \in Drivers |-> promised[q] \/ finished[t] = q]
      /\ UNCHANGED <<list, driver, runs, ctl, now>>
  BY DEF Run, sched, control, clockVar
<1>3. /\ lastCall \in [T -> Int] /\ Period[t] \in Nat /\ Delay[t] \in Nat
      /\ list \in Seq(Entry)
  BY TimersAssumption DEF QueueInv, WaitInv, Types, ThreadType, ListType
<1>4. /\ lastCall'[t] = driver[p].instant
      /\ \A u \in T : u # t => lastCall'[u] = lastCall[u]
  BY <1>1, <1>3
<1>5. \A q \in Drivers : ~Pending(q)'
  <2>1. promised'[p]
    BY <1>1, <1>2, Zenon
  <2>2. \A q \in Drivers : q # p => driver[q].at \notin {"wake", "await"}
    BY <1>1, OneDriver DEF Pending, QueueInv, WaitInv
  <2>. QED BY <1>2, <2>1, <2>2 DEF Pending
<1>6. runs = 1 => driver[p].instant >= 0
  BY <1>1, <1>3 DEF Follows, QueueInv, FirstRunInv
<1>7. ASSUME NEW i \in 1..Len(list)
      PROVE  Follows(list[i].timer, list[i].next)'
  <2>0. list[i].timer \in T
    <3>1. list[i] \in Entry
      BY <1>3
    <3>. QED BY <3>1 DEF Entry
  <2>1. CASE list[i].timer = t
    <3>1. list[i].next = driver[p].instant + Period[t] /\ Period[t] # 0
      BY <1>1, <2>1 DEF QueueInv, PendingInv
    <3>. QED BY <1>2, <1>4, <1>6, <2>1, <3>1 DEF Follows
  <2>2. CASE list[i].timer # t
    <3>1. ~ \E q \in Drivers : Pending(q) /\ driver[q].timer = list[i].timer
      <4>1. \A q \in Drivers : q # p => ~Pending(q)
        BY <1>1, OneDriver DEF Pending, QueueInv, WaitInv
      <4>. QED BY <1>1, <2>2, <4>1
    <3>2. Follows(list[i].timer, list[i].next)
      BY <3>1 DEF QueueInv, ListInv
    <3>. QED BY <1>2, <1>4, <2>0, <2>2, <3>2 DEF Follows
  <2>. QED BY <2>1, <2>2
<1>8. PendingInv' /\ ListInv'
  <2>1. Distinct(list')
    BY <1>2 DEF QueueInv, ListInv
  <2>. QED BY <1>2, <1>5, <1>7, <2>1 DEF PendingInv, ListInv
<1>9. FirstRunInv'
  <2>1. ctl # "ready"
    BY <1>1, NobodyDrives DEF QueueInv
  <2>2. runs = 1 => \A u \in T : lastCall'[u] >= -1
    BY <1>1, <1>3, <1>4, <1>6 DEF QueueInv, FirstRunInv
  <2>. QED BY <1>2, <2>1, <2>2 DEF QueueInv, FirstRunInv
<1>. QED BY <1>8, <1>9

(* The list of a new run, and the reset of the time when it starts.         *)
LEMMA QueueReset ==
  ASSUME QueueInv, ClockStart \/ ReadyAgain
  PROVE  PendingInv' /\ ListInv' /\ FirstRunInv'
<1>1. /\ \A p \in Drivers : driver[p].at = "off"
      /\ driver' = driver /\ lastCall' = [t \in T |-> -1]
      /\ list \in Seq(Entry) /\ now \in Nat /\ runs \in Nat
  <2>1. ctl \in {"ready", "stopped"} /\ WaitInv
    BY DEF ClockStart, ReadyAgain, QueueInv
  <2>2. \A p \in Drivers : driver[p].at = "off"
    BY <2>1, NobodyDrives
  <2>. QED BY <2>1, <2>2 DEF ClockStart, ReadyAgain, driving, WaitInv, Types,
           ListType, TimeType
<1>2. \A p \in Drivers : ~Pending(p) /\ ~Pending(p)'
  BY <1>1 DEF Pending
<1>3. PendingInv'
  BY <1>2 DEF PendingInv
<1>4. CASE ClockStart
  <2>1. /\ ctl = "ready" /\ list' = Shifted(now) /\ runs' = runs /\ now' = 0
        /\ ctl' = "starting"
    BY <1>4 DEF ClockStart
  <2>2. /\ Len(list') = Len(list)
        /\ \A i \in 1..Len(list) : /\ list'[i].timer = list[i].timer
                                   /\ list'[i].next = list[i].next - now
    <3>1. PICK d \in Int : d = now
      BY <1>1
    <3>2. list' = Shifted(d)
      BY <2>1, <3>1
    <3>3. Len(list') = Len(list)
      BY ONLY <1>1, <3>2, ShiftedIs
    <3>4. \A i \in 1..Len(list) : /\ list'[i].timer = list[i].timer
                                  /\ list'[i].next = list[i].next - d
      BY ONLY <1>1, <3>2, ShiftedIs
    <3>. QED BY <3>1, <3>3, <3>4
  <2>3. Distinct(list')
    BY <2>2 DEF QueueInv, ListInv, Distinct
  <2>4. ASSUME NEW i \in 1..Len(list')
        PROVE  Follows(list[i].timer, list[i].next)'
    <3>1. list[i] \in Entry /\ i \in 1..Len(list)
      BY <1>1, <2>2
    <3>2. Follows(list[i].timer, list[i].next)
      BY <1>2, <3>1 DEF QueueInv, ListInv
    <3>3. /\ lastCall[list[i].timer] = -1 /\ lastCall'[list[i].timer] = -1
          /\ runs = 1 => now = 0
      BY <1>1, <2>1, <3>1 DEF QueueInv, FirstRunInv, Entry
    <3>4. runs = 1 => list'[i].next = list[i].next
      BY <2>2, <3>1, <3>3 DEF Entry
    <3>. QED BY <2>1, <2>2, <3>1, <3>2, <3>3, <3>4 DEF Follows
  <2>5. FirstRunInv'
    BY <1>1, <2>1 DEF QueueInv, FirstRunInv
  <2>. QED BY <1>3, <2>3, <2>4, <2>5 DEF ListInv
<1>5. CASE ReadyAgain
  <2>1. list' = AddTimers /\ runs' = runs + 1
    BY <1>5 DEF ReadyAgain
  <2>2. Distinct(list')
    BY <2>1, AddTimersIs
  <2>3. ASSUME NEW i \in 1..Len(list')
        PROVE  Follows(list[i].timer, list[i].next)'
    <3>1. /\ i \in 1..Len(Timers) /\ list'[i].timer = Timers[i]
          /\ list'[i].next = Delay[Timers[i]]
      BY <2>1, AddTimersIs
    <3>2. Timers[i] \in T
      BY <3>1, TimersAssumption
    <3>. QED BY <1>1, <3>1, <3>2 DEF Follows
  <2>4. FirstRunInv'
    BY <1>1, <2>1 DEF QueueInv, FirstRunInv
  <2>. QED BY <1>3, <2>2, <2>3, <2>4 DEF ListInv
<1>. QED BY <1>4, <1>5

(* Every step preserves the invariant.                                      *)
LEMMA QueueStep == QueueInv /\ [Next]_vars => QueueInv'
<1>. SUFFICES ASSUME QueueInv, [Next]_vars
              PROVE  PendingInv' /\ ListInv' /\ FirstRunInv'
  BY WaitStep, OrderStep DEF QueueInv
<1>0. /\ WaitInv /\ PendingInv /\ ListInv /\ FirstRunInv /\ DriverType
      /\ list \in Seq(Entry) /\ Distinct(list)
  BY DEF QueueInv, WaitInv, Types, ListType, ListInv
<1>1. ASSUME UNCHANGED <<lastCall, runs>>, list' = list,
             ctl' # "ready" \/ UNCHANGED <<ctl, now>>,
             \A p \in Drivers : /\ Pending(p)' <=> Pending(p)
                                /\ Pending(p) =>
                                     /\ driver'[p].timer = driver[p].timer
                                     /\ driver'[p].instant = driver[p].instant
      PROVE  PendingInv' /\ ListInv' /\ FirstRunInv'
  <2>1. Distinct(list')
    BY <1>0, <1>1
  <2>2. \A k \in 1..Len(list') : \E i \in 1..Len(list) : list'[k] = list[i]
    BY <1>1
  <2>3. PendingInv' /\ ListInv'
    BY ONLY <1>0, <1>1, <2>1, <2>2, QueueStays
  <2>. QED BY <1>0, <1>1, <2>3 DEF FirstRunInv
<1>2. ASSUME NEW p \in Drivers, Process(p)
      PROVE  PendingInv' /\ ListInv' /\ FirstRunInv'
  <2>1. CASE Pick(p)
    BY <2>1, QueuePick
  <2>2. CASE Enter(p)
    <3>1. /\ UNCHANGED <<lastCall, runs, ctl, now>> /\ list' = Sorted(list)
      BY <2>2 DEF Enter, timerVar, control, clockVar
    <3>2. FromOnce(list', list)
      BY <1>0, <3>1, SortedIs
    <3>3. Distinct(list')
      BY <1>0, <3>2, DistinctFromOnce
    <3>4. \A k \in 1..Len(list') : \E i \in 1..Len(list) : list'[k] = list[i]
      BY <3>2 DEF FromOnce
    <3>5. \A q \in Drivers : /\ Pending(q)' <=> Pending(q)
                             /\ Pending(q) =>
                                  /\ driver'[q].timer = driver[q].timer
                                  /\ driver'[q].instant = driver[q].instant
      BY <1>0, <2>2, PendingProcess
    <3>6. PendingInv' /\ ListInv'
      BY ONLY <1>0, <3>1, <3>3, <3>4, <3>5, QueueStays
    <3>. QED BY <1>0, <3>1, <3>6 DEF FirstRunInv
  <2>3. CASE Leave(p) \/ Wake(p) \/ Await(p)
    <3>1. UNCHANGED <<lastCall, runs, ctl, now, list>>
      BY <2>3 DEF Leave, Wake, WakeUp, Await, timerVar, control, clockVar, sched
    <3>2. \A q \in Drivers : /\ Pending(q)' <=> Pending(q)
                             /\ Pending(q) =>
                                  /\ driver'[q].timer = driver[q].timer
                                  /\ driver'[q].instant = driver[q].instant
      BY <1>0, <2>3, PendingProcess
    <3>. QED BY <1>1, <3>1, <3>2
  <2>. QED BY <1>2, <2>1, <2>2, <2>3 DEF Process
<1>3. ASSUME NEW t \in T, TimerStep(t)
      PROVE  PendingInv' /\ ListInv' /\ FirstRunInv'
  <2>1. CASE Run(t)
    BY <2>1, QueueRun
  <2>2. CASE Loop(t) \/ Awake(t) \/ RunFails(t)
    <3>1. UNCHANGED <<lastCall, runs, ctl, now, list, driver, promised>>
      BY <2>2 DEF Loop, Awake, RunFails, sched, driving, control, clockVar
    <3>. QED BY <1>1, <3>1 DEF Pending
  <2>. QED BY <1>3, <2>1, <2>2 DEF TimerStep
<1>4. CASE ClockStart \/ ReadyAgain
  BY <1>4, QueueReset
<1>5. CASE Tick \/ SchedulerStart
  <2>1. /\ UNCHANGED <<lastCall, runs, list, promised>> /\ ctl' # "ready"
        /\ Tick => driver[Clock].at = "off" /\ ctl # "ready"
        /\ SchedulerStart => driver[Control].at = "off"
    BY <1>0, <1>5 DEF Tick, SchedulerStart, timerVar, control, sched, WaitInv,
       PhaseInv
  <2>2. \/ UNCHANGED driver
        \/ \E p \in Drivers, time \in Nat :
             Drive(p, time) /\ driver[p].at = "off"
    <3>1. sim \in Nat /\ resetTime \in {-1, 0}
      BY <1>0 DEF WaitInv, Types, TimeType
    <3>. QED BY <1>5, <2>1, <3>1 DEF Tick, SchedulerStart, Drivers
  <2>3. CASE UNCHANGED driver
    BY <1>1, <2>1, <2>3 DEF Pending
  <2>4. ASSUME NEW p \in Drivers, NEW time \in Nat, Drive(p, time),
               driver[p].at = "off"
        PROVE  PendingInv' /\ ListInv' /\ FirstRunInv'
    <3>1. /\ driver'[p].at = "lock"
          /\ \A q \in Drivers : q # p => driver'[q] = driver[q]
      BY <1>0, <2>4, Started
    <3>2. \A q \in Drivers : /\ Pending(q)' <=> Pending(q)
                             /\ Pending(q) => driver'[q] = driver[q]
      BY <2>1, <2>4, <3>1 DEF Pending
    <3>. QED BY <1>1, <2>1, <3>2
  <2>. QED BY <2>2, <2>3, <2>4
<1>6. CASE RemoveTimer
  <2>1. /\ UNCHANGED <<lastCall, runs, driver, promised>> /\ ctl' # "ready"
        /\ list' = Without(list, Turn)
    BY <1>6 DEF RemoveTimer, timerVar, driving
  <2>2. FromOnce(list', list)
    BY <1>0, <2>1, RemovedIs
  <2>3. Distinct(list')
    BY <1>0, <2>2, DistinctFromOnce
  <2>4. \A k \in 1..Len(list') : \E i \in 1..Len(list) : list'[k] = list[i]
    BY <2>2 DEF FromOnce
  <2>5. \A q \in Drivers : (Pending(q)' <=> Pending(q)) /\ driver'[q] = driver[q]
    BY <2>1 DEF Pending
  <2>6. PendingInv' /\ ListInv'
    BY ONLY <1>0, <2>1, <2>3, <2>4, <2>5, QueueStays
  <2>. QED BY <1>0, <2>1, <2>6 DEF FirstRunInv
<1>7. CASE \/ Tock \/ ClockEnd \/ SchedulerStarted \/ SchedulerStop \/ Cancel
           \/ WakeCanceled \/ Join \/ ClockStop \/ ClockJoin \/ UNCHANGED vars
  <2>1. /\ UNCHANGED <<lastCall, runs, list, driver, promised>>
        /\ ctl' # "ready" \/ UNCHANGED <<ctl, now>>
    BY <1>7 DEF Tock, ClockEnd, SchedulerStarted, SchedulerStop, Cancel,
       WakeCanceled, WakeUp, Join, ClockStop, ClockJoin, vars, sched, driving,
       timerVar, control, clockVar
  <2>. QED BY <1>1, <2>1 DEF Pending
<1>. QED BY <1>2, <1>3, <1>4, <1>5, <1>6, <1>7
         DEF Next, Terminated, Starting, Stopping

(* The initial states satisfy the invariant of the instants.                *)
LEMMA QueueStart == Init => QueueInv
<1>. SUFFICES ASSUME Init PROVE QueueInv
  OBVIOUS
<1>1. \A p \in Drivers : driver[p].at = "off"
  BY DEF Init, Off
<1>2. OrderInv /\ PendingInv
  BY <1>1 DEF OrderInv, PendingInv, Pending
<1>3. /\ list = AddTimers /\ runs = 1 /\ now = 0
      /\ \A t \in T : lastCall[t] = -1
  BY DEF Init
<1>4. ASSUME NEW i \in 1..Len(list) PROVE Follows(list[i].timer, list[i].next)
  <2>1. /\ i \in 1..Len(Timers) /\ list[i].timer = Timers[i]
        /\ list[i].next = Delay[Timers[i]]
    BY <1>3, AddTimersIs
  <2>2. Timers[i] \in T
    BY <2>1, TimersAssumption
  <2>. QED BY <1>3, <2>1, <2>2 DEF Follows
<1>5. ListInv
  BY <1>3, <1>4, AddTimersIs DEF ListInv
<1>6. FirstRunInv
  BY <1>3 DEF FirstRunInv
<1>. QED BY WaitStart, <1>2, <1>5, <1>6 DEF QueueInv

(* A job is called for every one of its instants, in their order: the list, *)
(* or the call that is under way, has the instant that follows the last     *)
(* one, whatever is sorted, moved, removed or shifted.                      *)
THEOREM EveryInstantCalled == Spec => NoInstantLeftOut
<1>. DEFINE InOrder ==
       \A t \in T : lastCall'[t] \notin {lastCall[t], -1} =>
         IF lastCall[t] = -1 THEN runs = 1 => lastCall'[t] = Delay[t]
                             ELSE lastCall'[t] = lastCall[t] + Period[t]
<1>1. QueueInv /\ [Next]_vars => [InOrder]_vars
  <2>. SUFFICES ASSUME QueueInv, [Next]_vars PROVE InOrder
    OBVIOUS
  <2>0. lastCall \in [T -> Int]
    BY DEF QueueInv, WaitInv, Types, ThreadType
  <2>1. ASSUME NEW t \in T, Run(t) PROVE InOrder
    <3>1. PICK p \in Drivers :
            /\ Follows(t, driver[p].instant)
            /\ lastCall' = [lastCall EXCEPT ![t] = driver[p].instant]
      BY <2>1, RunCalls
    <3>2. /\ lastCall'[t] = driver[p].instant
          /\ \A u \in T : u # t => lastCall'[u] = lastCall[u]
      BY <2>0, <3>1
    <3>. QED BY <3>1, <3>2 DEF Follows
  <2>2. CASE lastCall' = lastCall
    BY <2>2
  <2>3. CASE ClockStart \/ ReadyAgain
    <3>1. \A t \in T : lastCall'[t] = -1
      BY <2>3 DEF ClockStart, ReadyAgain
    <3>. QED BY <3>1
  <2>4. ASSUME NEW p \in Drivers, Process(p) PROVE lastCall' = lastCall
    BY <2>4 DEF Process, Enter, Pick, Leave, Wake, WakeUp, Await, timerVar
  <2>5. ASSUME NEW t \in T, TimerStep(t), ~Run(t) PROVE lastCall' = lastCall
    BY <2>5 DEF TimerStep, Loop, Awake, RunFails
  <2>6. CASE \/ Tick \/ Tock \/ ClockEnd \/ Starting \/ SchedulerStop
             \/ Stopping \/ UNCHANGED vars
    <3>1. lastCall' = lastCall
      BY <2>6 DEF Tick, Tock, ClockEnd, Starting, SchedulerStart,
         SchedulerStarted, SchedulerStop, Stopping, RemoveTimer, Cancel,
         WakeCanceled, WakeUp, Join, ClockStop, ClockJoin, vars, timerVar
    <3>. QED BY <2>2, <3>1
  <2>. HIDE DEF InOrder
  <2>. QED BY <2>1, <2>2, <2>3, <2>4, <2>5, <2>6 DEF Next, Terminated
<1>. QED BY <1>1, QueueStart, QueueStep, PTL DEF Spec, NoInstantLeftOut
=============================================================================
