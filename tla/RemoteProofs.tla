---------------------------- MODULE RemoteProofs ----------------------------
(***************************************************************************)
(* Theorems about remote procedure calls and about the remote access to a  *)
(* property: both send a request, wait under a time limit, and must not    *)
(* take the answer to one request for the answer to another.               *)
(*                                                                         *)
(* Rpc, for any number of threads, requests and lives of the component:    *)
(* references are given out only while m_bStopped is not set, and          *)
(* StopAllConnections sets it before it waits for them (LifeInv).  A       *)
(* thread is never given an id twice, and one that waits has made its      *)
(* request (IdInv), so that taking an item out of the queue and putting    *)
(* the others back (TakeKeeps) takes from no other thread what it waits    *)
(* for, but from one that was given the same id.                           *)
(*                                                                         *)
(* PropertyMirror, for any values and any number of changes, calls and     *)
(* commands and notifications on their way: what an answer was made from   *)
(* (FreshInv), what is under way for a consumer that is subscribed, is not *)
(* and waits (SubInv), the count of the proxy (TokenInv), and the value    *)
(* that every change under way will leave (FollowInv).                     *)
(***************************************************************************)
EXTENDS Rpc, PropertyMirror, FiniteSetTheorems, SequenceTheorems, TLAPS,
        WellFoundedInduction

(***************************************************************************)
(* Remote procedure calls.                                                 *)
(***************************************************************************)
(* Threads whose response is to come, or to be taken out of the queue.      *)
Waiting == {t \in Threads : pc[t] \in {"wait", "pop"}}

(* When the queue and the command access exist, and who may refer to them.  *)
LifeInv ==
  /\ command <=> ctl # "down"
  /\ queue => ctl \in {"up", "busy", "clear"}
  /\ stopped <=> ctl \in {"busy", "clear"}
  /\ InUse => queue
  /\ ctl = "clear" => ~InUse

(* A thread that is about to send is given an id it never had.  What waits  *)
(* and what is on its way was sent.                                         *)
IdInv ==
  /\ \A t \in Threads, n \in Nat : <<t, n>> \in made =>
       /\ n <= counter
       /\ pc[t] = "send" => n < counter
  /\ \A t \in Waiting : Own(t) \in made
  /\ bus # Nothing => bus \in made
  /\ asked \cup replies \cup arrived \subseteq made

(* The inductive invariant.                                                 *)
RInv == TypeOK /\ LifeInv /\ IdInv /\ StopStays /\ NothingLost

In(x, s) == \E i \in 1..Len(s) : s[i] = x

-----------------------------------------------------------------------------
(* The count of a queue is in its range.                                    *)
LEMMA CountType ==
  /\ CountRange \in Nat /\ 0 \in 0..CountRange - 1
  /\ \A n \in Int : Count(n) \in 0..CountRange - 1
<1>1. CountRange \in Nat /\ CountRange > 0
  BY DEF CountRange
<1>2. \A r \in Nat, n \in Int : r > 0 => n % r \in 0..r - 1
  OBVIOUS
<1>. QED BY <1>1, <1>2 DEF Count

(* A set of positions has a first one.                                      *)
LEMMA FirstExists ==
  ASSUME NEW S \in SUBSET Nat, S # {}
  PROVE  Min(S) \in S /\ \A y \in S : Min(S) <= y
<1>. DEFINE R == OpToRel(<, Nat)
<1>1. PICK x \in S : \A y \in S : ~ (<<y, x>> \in R)
  BY WFMin, NatLessThanWellFounded
<1>2. \A y \in S : ~ (y < x)
  BY <1>1 DEF OpToRel
<1>3. \A y \in S : x <= y
  BY <1>2
<1>. QED BY <1>3, Zenon DEF Min

(* PopItemMatchesRequestId stops at the first item that it looks for.       *)
LEMMA PoppedFirst ==
  ASSUME TypeOK, NEW t \in Threads
  PROVE  /\ Popped(t) \in 0..Len(items)
         /\ Found(t) => Popped(t) \in Matches(t)
         /\ \A i \in Matches(t) : Popped(t) <= i
<1>1. Len(items) \in Nat
  BY DEF TypeOK
<1>2. Matches(t) \in SUBSET Nat /\ \A i \in Matches(t) : i \in 1..Len(items)
  BY <1>1 DEF Matches
<1>3. CASE Found(t)
  BY <1>1, <1>2, <1>3, FirstExists DEF Found, Popped
<1>4. CASE ~Found(t)
  BY <1>1, <1>2, <1>4 DEF Found, Popped
<1>. QED BY <1>3, <1>4

(* Taking an item and putting the others back loses no stop item and none   *)
(* of another thread.                                                       *)
LEMMA TakeKeeps ==
  ASSUME TypeOK, NEW t \in Threads, Take(t), NEW x, In(x, items),
         x = Stop \/ Id(x) # req[t]
  PROVE  In(x, items')
<1>. DEFINE p    == Popped(t)
            rest == SubSeq(items, p + 1, Len(items))
            back == Backup(t)
            T    == Requests \cup {Stop}
<1>1. items \in Seq(T) /\ Len(items) \in Nat /\ p \in 0..Len(items)
  BY PoppedFirst DEF TypeOK
<1>2. \A i \in 1..Len(items) : items[i] \in T
  BY <1>1
<1>3. PICK i \in 1..Len(items) : items[i] = x
  BY DEF In
<1>4. items' = rest \o back
  BY DEF Take
<1>5. /\ rest \in Seq(T) /\ Len(rest) = Len(items) - p
      /\ \A j \in 1..Len(items) - p : rest[j] = items[p + j]
  BY <1>1, <1>2, SubSeqProperties
<1>6. /\ SubSeq(items, 1, p) \in Seq(T) /\ Len(SubSeq(items, 1, p)) = p
      /\ \A j \in 1..p : SubSeq(items, 1, p)[j] = items[j]
  BY <1>1, <1>2, SubSeqProperties
<1>7. p > 0 => /\ SubSeq(items, 1, p - 1) \in Seq(T)
               /\ Len(SubSeq(items, 1, p - 1)) = p - 1
               /\ \A j \in 1..p - 1 : SubSeq(items, 1, p - 1)[j] = items[j]
  BY <1>1, <1>2, SubSeqProperties
<1>8. /\ back \in Seq(T) /\ Len(back) \in Nat
      /\ i <= p => i <= Len(back) /\ back[i] = x
  <2>1. CASE Found(t) /\ items[p] # Stop
    <3>1. p \in Matches(t)
      BY <2>1, PoppedFirst
    <3>2. Id(items[p]) = req[t] /\ p > 0
      BY <3>1, <2>1, <1>1 DEF Matches, Looked
    <3>3. back = SubSeq(items, 1, p - 1)
      BY <2>1 DEF Backup
    <3>4. i # p
      BY <3>2, <2>1, <1>3
    <3>. QED BY <3>2, <3>3, <3>4, <1>1, <1>3, <1>7
  <2>2. CASE ~(Found(t) /\ items[p] # Stop)
    <3>1. back = SubSeq(items, 1, p)
      BY <2>2 DEF Backup
    <3>. QED BY <3>1, <1>1, <1>3, <1>6
  <2>. QED BY <2>1, <2>2
<1>. HIDE DEF p, rest, back, T
<1>9. /\ Len(rest \o back) = Len(rest) + Len(back)
      /\ \A j \in 1..Len(rest) + Len(back) : (rest \o back)[j] =
           IF j <= Len(rest) THEN rest[j] ELSE back[j - Len(rest)]
  BY <1>5, <1>8, ConcatProperties
<1>10. CASE i <= p
  <2>1. Len(rest) + i \in 1..Len(items')
    BY <1>1, <1>4, <1>5, <1>8, <1>9, <1>10
  <2>2. items'[Len(rest) + i] = x
    BY <1>1, <1>4, <1>5, <1>8, <1>9, <1>10
  <2>. QED BY <2>1, <2>2 DEF In
<1>11. CASE i > p
  <2>1. i - p \in 1..Len(items')
    BY <1>1, <1>4, <1>5, <1>8, <1>9, <1>11
  <2>2. items'[i - p] = x
    BY <1>1, <1>3, <1>4, <1>5, <1>8, <1>9, <1>11
  <2>. QED BY <2>1, <2>2 DEF In
<1>. QED BY <1>1, <1>10, <1>11

-----------------------------------------------------------------------------
(* The initial states satisfy the invariant.                                *)
LEMMA InitRInv == Init => RInv
<1>. SUFFICES ASSUME Init PROVE RInv
  OBVIOUS
<1>1. TypeOK
  <2>1. 0 \in 0..CountRange - 1 /\ <<>> \in Seq(Requests \cup {Stop})
    BY CountType
  <2>2. 0 \in Nat
    OBVIOUS
  <2>. QED BY <2>1, <2>2, Zenon DEF Init, TypeOK, NoId
<1>2. LifeInv
  BY DEF Init, LifeInv, InUse, Callers
<1>3. IdInv
  BY DEF Init, IdInv, Waiting
<1>4. StopStays /\ NothingLost
  BY DEF Init, StopStays, NothingLost
<1>. QED BY <1>1, <1>2, <1>3, <1>4 DEF RInv

(* Every step leaves the variables in their types.                          *)
LEMMA TypeStep == TypeOK /\ [Next]_vars => TypeOK'
<1>. SUFFICES ASSUME TypeOK, [Next]_vars PROVE TypeOK'
  OBVIOUS
<1>. USE DEF TypeOK, component, contents, callers, ids, network, history
<1>1. Stop \in Requests \cup {Stop} /\ Len(items) \in Nat
         /\ size \in Int /\ size + 1 \in Int
  BY CountType
<1>2. CASE Initialize
  BY <1>2 DEF Initialize
<1>3. CASE Connect
  BY <1>3 DEF Connect
<1>4. CASE StopConnections
  <2>1. Append(items, Stop) \in Seq(Requests \cup {Stop})
    BY <1>1, AppendProperties
  <2>2. Count(size + 1) \in 0..CountRange - 1
    BY ONLY <1>1, CountType
  <2>. QED BY <1>4, <2>1, <2>2 DEF StopConnections
<1>5. CASE BusyWait
  BY <1>5 DEF BusyWait
<1>6. CASE ClearConnections
  <2>1. 0 \in 0..CountRange - 1 /\ <<>> \in Seq(Requests \cup {Stop})
    BY CountType
  <2>. QED BY <1>6, <2>1 DEF ClearConnections
<1>7. CASE Close
  BY <1>7 DEF Close
<1>8. ASSUME NEW t \in Threads, Thread(t) PROVE TypeOK'
  <2>1. CASE Call(t)
    BY <2>1 DEF Call, Move
  <2>2. CASE Enter(t)
    BY <2>2 DEF Enter, Move
  <2>3. CASE CountRequest(t)
    BY <2>3 DEF CountRequest, Move
  <2>8. CASE Transmit(t)
    <3>1. <<t, counter>> \in Requests
      BY DEF Requests
    <3>. QED BY <2>8, <3>1 DEF Transmit, Move
  <2>4. CASE TransmitFails(t)
    BY <2>4 DEF TransmitFails, Move
  <2>5. CASE See(t)
    BY <2>5 DEF See, Move
  <2>6. CASE Take(t)
    <3>1. Popped(t) \in 0..Len(items)
      BY PoppedFirst
    <3>2. \A m, n \in Int : 1 <= m /\ n <= Len(items) =>
            /\ SubSeq(items, m, n) \in Seq(Requests \cup {Stop})
            /\ Len(SubSeq(items, m, n)) \in Nat
      BY <1>1, SubSeqProperties
    <3>3. Backup(t) \in Seq(Requests \cup {Stop}) /\ Len(Backup(t)) \in Nat
      BY <1>1, <3>1, <3>2 DEF Backup
    <3>4. items' \in Seq(Requests \cup {Stop})
      <4>1. SubSeq(items, Popped(t) + 1, Len(items)) \in Seq(Requests \cup {Stop})
        BY <1>1, <3>1, <3>2
      <4>. QED BY <2>6, <3>3, <4>1, ConcatProperties DEF Take
    <3>5. size' \in 0..CountRange - 1
      <4>. DEFINE rest0 == Count(size - Popped(t))
      <4>1. size - Popped(t) \in Int
        BY <1>1, <3>1 DEF TypeOK
      <4>2. rest0 \in 0..CountRange - 1
        BY ONLY <4>1, CountType
      <4>3. Count(rest0 + Len(Backup(t))) \in 0..CountRange - 1
        <5>. HIDE DEF rest0
        <5>1. rest0 + Len(Backup(t)) \in Int
          BY <4>2, <3>3
        <5>. QED BY <5>1, CountType
      <4>4. 0 \in 0..CountRange - 1
        BY CountType
      <4>. QED BY <2>6, <4>3, <4>4 DEF Take
    <3>. QED BY <2>6, <3>4, <3>5 DEF Take, Move
  <2>7. CASE Timeout(t)
    BY <2>7 DEF Timeout, Move
  <2>. QED BY <1>8, <2>1, <2>2, <2>3, <2>4, <2>5, <2>6, <2>7, <2>8
         DEF Thread
<1>9. ASSUME NEW r, Respond(r) PROVE TypeOK'
  BY <1>9 DEF Respond
<1>10. ASSUME NEW r, Receive(r) PROVE TypeOK'
  BY <1>10 DEF Receive
<1>11. CASE Push
  <2>1. bus \in Requests
    BY <1>11 DEF Push
  <2>2. Append(items, bus) \in Seq(Requests \cup {Stop})
    BY <2>1, AppendProperties
  <2>3. Count(size + 1) \in 0..CountRange - 1
    BY ONLY <1>1, CountType
  <2>. QED BY <1>11, <2>1, <2>2, <2>3 DEF Push
<1>12. CASE UNCHANGED vars
  BY <1>12 DEF vars
<1>. QED BY <1>2, <1>3, <1>4, <1>5, <1>6, <1>7, <1>8, <1>9, <1>10, <1>11,
            <1>12 DEF Next, Lifecycle

(* No reference outlives the queue, and none is given out meanwhile.        *)
LEMMA LifeStep == TypeOK /\ LifeInv /\ [Next]_vars => LifeInv'
<1>. SUFFICES ASSUME TypeOK, LifeInv, [Next]_vars PROVE LifeInv'
  OBVIOUS
<1>. USE DEF LifeInv, component, callers, ids, InUse, Callers
<1>1. CASE Initialize
  BY <1>1 DEF Initialize
<1>2. CASE Connect
  BY <1>2 DEF Connect
<1>3. CASE StopConnections
  BY <1>3 DEF StopConnections
<1>4. CASE BusyWait
  BY <1>4 DEF BusyWait
<1>5. CASE ClearConnections
  BY <1>5 DEF ClearConnections
<1>6. CASE Close
  BY <1>6 DEF Close
<1>7. ASSUME NEW t \in Threads, Thread(t) PROVE LifeInv'
  <2>. USE DEF TypeOK, Move
  <2>1. CASE Call(t)
    BY <2>1 DEF Call
  <2>2. CASE Enter(t)
    BY <2>2 DEF Enter, Get
  <2>3. CASE CountRequest(t)
    BY <2>3 DEF CountRequest
  <2>8. CASE Transmit(t)
    BY <2>8 DEF Transmit
  <2>4. CASE TransmitFails(t)
    BY <2>4 DEF TransmitFails
  <2>5. CASE See(t)
    BY <2>5 DEF See
  <2>6. CASE Take(t)
    BY <2>6 DEF Take
  <2>7. CASE Timeout(t)
    BY <2>7 DEF Timeout
  <2>. QED BY <1>7, <2>1, <2>2, <2>3, <2>4, <2>5, <2>6, <2>7, <2>8
         DEF Thread
<1>8. ASSUME NEW r, Respond(r) PROVE LifeInv'
  BY <1>8 DEF Respond
<1>9. ASSUME NEW r, Receive(r) PROVE LifeInv'
  BY <1>9 DEF Receive, Get
<1>10. CASE Push
  BY <1>10 DEF Push
<1>11. CASE UNCHANGED vars
  BY <1>11 DEF vars
<1>. QED BY <1>1, <1>2, <1>3, <1>4, <1>5, <1>6, <1>7, <1>8, <1>9, <1>10,
            <1>11 DEF Next, Lifecycle

(* A thread is never given an id twice.                                     *)
LEMMA IdStep == TypeOK /\ IdInv /\ [Next]_vars => IdInv'
<1>. SUFFICES ASSUME TypeOK, IdInv, [Next]_vars PROVE IdInv'
  OBVIOUS
<1>. USE DEF IdInv, component, contents, callers, ids, network, history,
             Waiting, Own
<1>1. CASE Lifecycle
  BY <1>1 DEF Lifecycle, Initialize, Connect, StopConnections, BusyWait,
     ClearConnections, Close
<1>2. ASSUME NEW t \in Threads, Thread(t) PROVE IdInv'
  <2>. USE DEF TypeOK, Move
  <2>1. CASE Call(t)
    BY <2>1 DEF Call
  <2>2. CASE Enter(t)
    BY <2>2 DEF Enter
  <2>3. CASE CountRequest(t)
    BY <2>3 DEF CountRequest
  <2>8. CASE Transmit(t)
    BY <2>8 DEF Transmit
  <2>4. CASE TransmitFails(t)
    BY <2>4 DEF TransmitFails
  <2>5. CASE See(t)
    BY <2>5 DEF See
  <2>6. CASE Take(t)
    BY <2>6 DEF Take
  <2>7. CASE Timeout(t)
    BY <2>7 DEF Timeout
  <2>. QED BY <1>2, <2>1, <2>2, <2>3, <2>4, <2>5, <2>6, <2>7, <2>8
         DEF Thread
<1>3. ASSUME NEW r, Respond(r) PROVE IdInv'
  BY <1>3 DEF Respond
<1>4. ASSUME NEW r, Receive(r) PROVE IdInv'
  BY <1>4 DEF Receive
<1>5. CASE Push
  BY <1>5 DEF Push
<1>6. CASE UNCHANGED vars
  BY <1>6 DEF vars
<1>. QED BY <1>1, <1>2, <1>3, <1>4, <1>5, <1>6 DEF Next

(* What is in the queue, and the new item, is in it after a Push.           *)
LEMMA AppendKeeps ==
  ASSUME TypeOK, NEW y, items' = Append(items, y)
  PROVE  /\ In(y, items')
         /\ \A x : In(x, items) => In(x, items')
<1>. DEFINE T == Requests \cup {Stop, y}
<1>1. items \in Seq(T) /\ y \in T
  <2>1. Requests \cup {Stop} \subseteq T
    OBVIOUS
  <2>2. items \in Seq(Requests \cup {Stop})
    BY DEF TypeOK
  <2>. QED BY <2>1, <2>2, SeqMonotonic
<1>2. /\ Len(items') = Len(items) + 1 /\ Len(items) \in Nat
      /\ \A i \in 1..Len(items) : items'[i] = items[i]
      /\ items'[Len(items) + 1] = y
  BY <1>1, AppendProperties
<1>. QED BY <1>2 DEF In

(* The stop item stays in the queue.                                        *)
LEMMA StopStep == RInv /\ [Next]_vars => StopStays'
<1>. SUFFICES ASSUME RInv, [Next]_vars PROVE StopStays'
  OBVIOUS
<1>. USE DEF RInv
<1>1. StopStays <=> (ctl = "busy" /\ queue => In(Stop, items))
  BY DEF StopStays, In
<1>2. StopStays' <=> (ctl' = "busy" /\ queue' => In(Stop, items'))
  BY DEF StopStays, In
<1>3. CASE UNCHANGED <<ctl, queue, items>>
  BY <1>1, <1>2, <1>3 DEF In
<1>4. CASE Lifecycle
  <2>1. CASE StopConnections
    BY <1>2, <2>1, AppendKeeps DEF StopConnections
  <2>2. CASE Initialize \/ Connect \/ BusyWait \/ ClearConnections \/ Close
    BY <1>2, <2>2 DEF Initialize, Connect, BusyWait, ClearConnections, Close
  <2>. QED BY <1>4, <2>1, <2>2 DEF Lifecycle
<1>5. ASSUME NEW t \in Threads, Thread(t) PROVE StopStays'
  <2>1. CASE Take(t)
    <3>1. UNCHANGED <<ctl, queue>>
      BY <2>1 DEF Take, component
    <3>2. In(Stop, items) => In(Stop, items')
      BY <2>1, TakeKeeps
    <3>. QED BY <1>1, <1>2, <3>1, <3>2
  <2>2. CASE ~Take(t)
    BY <1>3, <1>5, <2>2 DEF Thread, Call, Enter, CountRequest, Transmit,
       TransmitFails, See, Timeout, component, contents
  <2>. QED BY <2>1, <2>2
<1>6. ASSUME NEW r, Respond(r) \/ Receive(r) PROVE StopStays'
  BY <1>3, <1>6 DEF Respond, Receive, component, contents
<1>7. CASE Push
  BY <1>1, <1>2, <1>7, AppendKeeps DEF Push, component
<1>8. CASE UNCHANGED vars
  BY <1>3, <1>8 DEF vars, component, contents
<1>. QED BY <1>4, <1>5, <1>6, <1>7, <1>8 DEF Next

(* No response is lost.                                                     *)
LEMMA LostStep == RInv /\ [Next]_vars => NothingLost'
<1>. SUFFICES ASSUME RInv, [Next]_vars PROVE NothingLost'
  OBVIOUS
<1>. USE DEF RInv
<1>1. \A u \in Waiting : Own(u) \in arrived /\ ~Twin(u) => In(Own(u), items)
  BY DEF NothingLost, Waiting, In
<1>2. SUFFICES ASSUME NEW u \in Threads, pc'[u] \in {"wait", "pop"},
                      Own(u)' \in arrived', ~Twin(u)'
               PROVE  In(Own(u)', items')
  BY DEF NothingLost, In
<1>3. CASE UNCHANGED <<pc, req, history, items>>
  BY <1>1, <1>2, <1>3 DEF Waiting, In, Own, Twin, history
<1>4. CASE Lifecycle
  <2>1. CASE StopConnections
    <3>1. UNCHANGED <<pc, req, history>>
      BY <2>1 DEF StopConnections, callers, ids
    <3>2. Own(u)' = Own(u) /\ In(Own(u), items)
      BY <1>1, <1>2, <3>1 DEF Waiting, Own, Twin, history
    <3>3. items' = Append(items, Stop) \/ items' = items
      BY <2>1 DEF StopConnections, contents
    <3>. QED BY <3>2, <3>3, AppendKeeps DEF In
  <2>2. CASE ClearConnections
    <3>1. pc' = pc /\ ~InUse
      BY <2>2 DEF ClearConnections, callers, LifeInv
    <3>. QED BY <1>2, <3>1 DEF InUse, Callers
  <2>3. CASE Initialize \/ Connect \/ BusyWait \/ Close
    BY <1>3, <2>3 DEF Initialize, Connect, BusyWait, Close, callers, ids,
       contents
  <2>. QED BY <1>4, <2>1, <2>2, <2>3 DEF Lifecycle
<1>5. ASSUME NEW t \in Threads, Thread(t) PROVE In(Own(u)', items')
  <2>1. CASE Take(t)
    <3>1. UNCHANGED <<req, history>> /\ u \in Waiting /\ t \in Waiting
      BY <1>2, <2>1 DEF Take, Move, Waiting, TypeOK, ids
    <3>2. Own(u)' = Own(u) /\ ~Twin(u) /\ In(Own(u), items)
      BY <1>1, <1>2, <3>1 DEF Own, Twin, history
    <3>3. CASE u # t
      <4>1. Own(t) \in made
        BY <3>1 DEF IdInv
      <4>2. req[t] # req[u]
        BY <3>2, <3>3, <4>1 DEF Own, Twin
      <4>3. Id(Own(u)) # req[t]
        BY <4>2 DEF Id, Own
      <4>. QED BY <2>1, <3>2, <4>3, TakeKeeps
    <3>4. CASE u = t
      <4>1. ~Found(t)
        BY <1>2, <2>1, <3>4 DEF Take, Move, TypeOK
      <4>2. Id(Own(t)) = req[t]
        BY DEF Id, Own
      <4>. QED BY <3>2, <3>4, <4>1, <4>2 DEF Found, Matches, Looked, In
    <3>. QED BY <3>3, <3>4
  <2>2. CASE Transmit(t)
    <3>1. /\ UNCHANGED <<arrived, items>> /\ made \subseteq made'
          /\ counter \in Nat
      BY <2>2 DEF Transmit, contents, TypeOK
    <3>2. u # t
      <4>1. pc[t] = "send" /\ Own(t)' = <<t, counter>>
        BY <2>2 DEF Transmit, TypeOK, Own
      <4>2. <<t, counter>> \notin made
        BY <3>1, <4>1 DEF IdInv
      <4>. QED BY <1>2, <3>1, <4>1, <4>2 DEF IdInv
    <3>3. u \in Waiting /\ Own(u)' = Own(u) /\ req'[u] = req[u]
      BY <1>2, <2>2, <3>2 DEF Transmit, Move, Waiting, TypeOK, Own
    <3>4. ~Twin(u)
      BY <1>2, <3>1, <3>3 DEF Twin
    <3>. QED BY <1>1, <1>2, <3>1, <3>3, <3>4 DEF In
  <2>3. CASE ~Take(t) /\ ~Transmit(t)
    <3>1. UNCHANGED <<req, history, items>>
      BY <1>5, <2>3 DEF Thread, Call, Enter, CountRequest, TransmitFails, See,
         Timeout, contents, ids
    <3>2. u \in Waiting
      BY <1>2, <1>5, <2>3 DEF Thread, Call, Enter, CountRequest, TransmitFails,
         See, Timeout, Move, Waiting, TypeOK
    <3>. QED BY <1>1, <1>2, <3>1, <3>2 DEF In, Own, Twin, history
  <2>. QED BY <2>1, <2>2, <2>3
<1>6. ASSUME NEW r, Respond(r) \/ Receive(r) PROVE In(Own(u)', items')
  BY <1>3, <1>6 DEF Respond, Receive, callers, ids, contents
<1>7. CASE Push
  <2>1. /\ UNCHANGED <<pc, req, made>> /\ arrived' = arrived \cup {bus}
    BY <1>7 DEF Push, callers, ids
  <2>2. In(bus, items') /\ \A x : In(x, items) => In(x, items')
    BY <1>7, AppendKeeps DEF Push
  <2>3. Own(u)' = Own(u) /\ u \in Waiting /\ ~Twin(u)
    BY <1>2, <2>1 DEF Own, Twin, Waiting
  <2>4. CASE Own(u) = bus
    BY <2>2, <2>3, <2>4
  <2>5. CASE Own(u) # bus
    BY <1>1, <1>2, <2>1, <2>2, <2>3, <2>5
  <2>. QED BY <2>4, <2>5
<1>8. CASE UNCHANGED vars
  BY <1>3, <1>8 DEF vars, callers, ids, contents
<1>. QED BY <1>4, <1>5, <1>6, <1>7, <1>8 DEF Next

-----------------------------------------------------------------------------
(* The invariant holds in every reachable state.                            *)
THEOREM RpcInvariant == Spec => []RInv
<1>1. RInv /\ [Next]_vars => RInv'
  BY TypeStep, LifeStep, IdStep, StopStep, LostStep DEF RInv
<1>. QED BY InitRInv, <1>1, PTL DEF Spec

(* Every variable has its type, for any number of threads and requests; in  *)
(* particular the count of responses, which is decremented below 0, stays   *)
(* in the range of its unsigned type.                                       *)
THEOREM RpcTypes == Spec => []TypeOK
BY RpcInvariant, PTL DEF RInv

(* The queue and the command access exist while anybody refers to them:     *)
(* StopAllConnections waits for all references, Get gives out no new one.   *)
THEOREM AliveWhileUsed == Spec => []UsedWhileAlive
<1>1. RInv => UsedWhileAlive
  BY DEF RInv, LifeInv, UsedWhileAlive
<1>. QED BY RpcInvariant, <1>1, PTL

(* The item that cancels stays for every thread that waits.                 *)
THEOREM CancelReachesAll == Spec => []StopStays
BY RpcInvariant, PTL DEF RInv

(* PopItemMatchesRequestId and PushBackup of one thread lose no response    *)
(* of another one, unless get_request_id gave both the same id.             *)
THEOREM ResponsesKept == Spec => []NothingLost
BY RpcInvariant, PTL DEF RInv

-----------------------------------------------------------------------------
(***************************************************************************)
(* The remote access to a property.                                        *)
(***************************************************************************)
(* What the proofs need of the types.                                       *)
Val == Values \cup {None}
MsgTypes == {"get", "set", "delete", "reg", "unreg", "property", "changed",
             "deleted", "registered", "unregistered"}
Msg == [type : MsgTypes, v : Val]
JobState == [at : {"wait", "answer", "register", "acknowledge"}, copy : Val]
WriteState == [at : {"rest", "assign", "notify"}, new : Val, note : BOOLEAN]
Access == [at : {"idle", "get", "set"}, ev : BOOLEAN, got : Val, want : Val,
         clean : BOOLEAN, seen : SUBSET Val]
SubCall == [at : {"idle", "mirror", "unmirror"}, ev : BOOLEAN, got : Val]
Types ==
  /\ value \in Val /\ local \in Val /\ refs \in Nat /\ job \in JobState
  /\ writing \in [Writers -> WriteState]
  /\ cmds \in Seq(Msg) /\ notes \in Seq(Msg)
  /\ access \in Access /\ mirror \in SubCall

(* No message of type a is in s; none of type b comes after one of type a.  *)
Lacks(s, a) == \A i \in 1..Len(s) : s[i].type # a
After(s, a, b) ==
  \A i, j \in 1..Len(s) : i < j /\ s[i].type = a => s[j].type # b

(* The provider: commands that set have a value; only a property that       *)
(* exists has a proxy listener; the message thread answers a set when it    *)
(* has set the value.                                                       *)
ProvInv ==
  /\ \A i \in 1..Len(cmds) : cmds[i].type = "set" => cmds[i].v # None
  /\ \A t \in Writers : writing[t].at = "rest" => writing[t] = Resting
  /\ \A t \in Writers : writing[t].at = "assign" => writing[t].new # None
  /\ writing["handler"].at # "rest" => job.at = "answer"
  /\ job.at = "register" => value # None
  /\ refs > 0 => value # None

(* While a call waits: the values since it began have been noted, and as    *)
(* long as it began with no answer outstanding, every answer is one to this *)
(* very call.                                                               *)
GetInv ==
  /\ Lacks(cmds, "set") /\ job.at # "answer"
  /\ \A i \in 1..Len(notes) :
       notes[i].type = "property" => notes[i].v \in access.seen
  /\ access.ev => access.got \in access.seen

SetInv ==
  /\ Lacks(cmds, "get")
  /\ \A i \in 1..Len(cmds) : cmds[i].type = "set" => cmds[i].v = access.want
  /\ ~ Lacks(notes, "property") \/ access.ev => access.want \in access.seen
  /\ job.at = "answer" =>
       \/ access.want \in access.seen
       \/ /\ writing["handler"].at = "assign"
          /\ writing["handler"].new = access.want

FreshInv ==
  /\ access.at = "idle" => ~ access.ev
  /\ access.at # "idle" /\ value # None => value \in access.seen
  /\ access.at = "get" /\ access.clean => GetInv
  /\ access.at = "set" /\ access.clean => SetInv

(* The consumer has an acknowledgement for the subscription it has, or is   *)
(* about to have.                                                           *)
Live == sub \/ (mirror.at = "mirror" /\ mirror.ev)
Registering == job.at \in {"register", "acknowledge"}

(* As long as every subscription that is given up is withdrawn, there is at *)
(* most one, and what is on its way belongs to it.                          *)
LiveInv ==
  /\ Lacks(cmds, "reg") /\ Lacks(cmds, "unreg") /\ ~ Registering
  /\ Lacks(notes, "registered")
  /\ Lacks(notes, "deleted") \/ refs = 0

GoneInv ==
  /\ Lacks(cmds, "reg") /\ ~ Registering /\ Lacks(notes, "registered")
  /\ refs = 0 \/ ~ Lacks(cmds, "unreg")

WaitInv ==
  /\ After(cmds, "reg", "reg") /\ After(cmds, "reg", "unreg")
  /\ ~ Lacks(cmds, "reg") => /\ ~ Registering /\ Lacks(notes, "registered")
                             /\ refs = 0 \/ ~ Lacks(cmds, "unreg")
  /\ Lacks(cmds, "reg") => Lacks(cmds, "unreg")
  /\ job.at = "register" => refs = 0
  /\ Registering => Lacks(notes, "registered")
  /\ After(notes, "registered", "registered")
  /\ refs = 0 \/ After(notes, "registered", "deleted")

SubInv ==
  /\ sub => mirror = NoSub
  /\ ~ leaked =>
       /\ refs <= 1
       /\ Live => LiveInv
       /\ ~ sub /\ mirror.at # "mirror" => GoneInv
       /\ mirror.at = "mirror" /\ ~ mirror.ev => WaitInv

(* As long as the property is not deleted, the proxy listener counts what   *)
(* has been acknowledged and has not been withdrawn: it is there for every  *)
(* acknowledgement that may still be taken, and for every withdrawal that   *)
(* is still to come.                                                        *)
Num(s, a) == Cardinality({i \in 1..Len(s) : s[i].type = a})
One(b) == IF b THEN 1 ELSE 0
TokenInv ==
  ~ deleted => refs >= Num(cmds, "unreg") + Num(notes, "registered")
                         + One(job.at = "acknowledge") + One(Live)

(* As long as no two writes overlap, the listeners are told if and only if  *)
(* the value is replaced by another.                                        *)
WriteInv ==
  ~ raced =>
    /\ \A t, u \in Writers :
         writing[t].at # "rest" /\ writing[u].at # "rest" => t = u
    /\ \A t \in Writers : writing[t].at = "assign" =>
         (writing[t].note <=> writing[t].new # value)

(* Whoever takes the notification i has an acknowledgement.                 *)
Alive(i) ==
  Live \/ \E j \in 1..Len(notes) : j < i /\ notes[j].type = "registered"
Later(s, i, a) == \E j \in 1..Len(s) : j > i /\ s[j].type = a
Notifying == \E t \in Writers : writing[t].at = "notify"

(* The last change that is on its way, or has come, has the value, or the   *)
(* next one is about to be sent, unless a deletion is on its way.           *)
HeardInv ==
  /\ refs > 0 \/ ~ Lacks(notes, "deleted")
  /\ Lacks(notes, "changed") /\ Lacks(notes, "deleted") =>
       local = value \/ Notifying

ComingInv(i) ==
  /\ refs > 0 \/ Later(notes, i, "deleted")
  /\ ~ Later(notes, i, "changed") /\ ~ Later(notes, i, "deleted") =>
       notes[i].v = value \/ Notifying

FollowInv ==
  ~ raced /\ ~ (leaked /\ deleted) =>
    /\ sub /\ heard => HeardInv
    /\ \A i \in 1..Len(notes) :
         notes[i].type = "changed" /\ Alive(i) => ComingInv(i)

-----------------------------------------------------------------------------
(* Messages on their way: what is sent comes last, the first is taken.      *)

LEMMA AppendIs ==
  ASSUME NEW s \in Seq(Msg), NEW m \in Msg, NEW v, v = Append(s, m)
  PROVE  /\ v \in Seq(Msg) /\ Len(v) = Len(s) + 1 /\ Len(s) \in Nat
         /\ v[Len(s) + 1] = m
         /\ \A i \in 1..Len(s) : v[i] = s[i]
OBVIOUS

(* The messages that are left when the first one is taken.                  *)
LEMMA TailIs ==
  ASSUME NEW s \in Seq(Msg), s # << >>, NEW v, v = Tail(s)
  PROVE  /\ v \in Seq(Msg) /\ Len(s) \in Nat \ {0} /\ Len(v) = Len(s) - 1
         /\ s[1] = Head(s) /\ Head(s) \in Msg
         /\ \A i \in 1..Len(v) : v[i] = s[i + 1] /\ i + 1 \in 1..Len(s)
         /\ \A i \in 1..Len(s) : i # 1 => i - 1 \in 1..Len(v) /\ s[i] = v[i - 1]
<1>1. /\ Len(s) \in Nat \ {0} /\ Len(v) = Len(s) - 1 /\ s[1] = Head(s)
      /\ v \in Seq(Msg) /\ Head(s) \in Msg
  OBVIOUS
<1>2. ASSUME NEW i \in 1..Len(v) PROVE v[i] = s[i + 1] /\ i + 1 \in 1..Len(s)
  BY <1>1
<1>3. ASSUME NEW i \in 1..Len(s), i # 1
      PROVE  i - 1 \in 1..Len(v) /\ s[i] = v[i - 1]
  <2>1. i - 1 \in 1..Len(v) /\ (i - 1) + 1 = i
    BY <1>1, <1>3
  <2>. QED BY <1>2, <2>1
<1>. QED BY <1>1, <1>2, <1>3

(* Which messages a queue lacks, and in which order, after one was sent.    *)
LEMMA Sent ==
  ASSUME NEW s \in Seq(Msg), NEW m \in Msg, NEW v, v = Append(s, m)
  PROVE  /\ \A a : Lacks(v, a) <=> Lacks(s, a) /\ m.type # a
         /\ \A a, b : After(v, a, b) <=>
                        After(s, a, b) /\ (Lacks(s, a) \/ m.type # b)
<1>1. /\ v \in Seq(Msg) /\ Len(v) = Len(s) + 1 /\ Len(s) \in Nat
      /\ v[Len(s) + 1] = m
      /\ \A i \in 1..Len(s) : v[i] = s[i]
  BY AppendIs
<1>2. 1..Len(v) = 1..Len(s) \cup {Len(s) + 1}
  BY <1>1
<1>3. ASSUME NEW a PROVE Lacks(v, a) <=> Lacks(s, a) /\ m.type # a
  BY <1>1, <1>2 DEF Lacks
<1>4. ASSUME NEW a, NEW b
      PROVE  After(v, a, b) <=> After(s, a, b) /\ (Lacks(s, a) \/ m.type # b)
  <2>1. ASSUME After(v, a, b) PROVE After(s, a, b)
    BY <1>1, <1>2, <2>1 DEF After
  <2>2. ASSUME After(v, a, b), NEW i \in 1..Len(s), s[i].type = a
        PROVE  m.type # b
    <3>1. i < Len(s) + 1 /\ i \in 1..Len(v) /\ Len(s) + 1 \in 1..Len(v)
      BY <1>1
    <3>. QED BY <1>1, <2>2, <3>1 DEF After
  <2>3. ASSUME After(s, a, b), Lacks(s, a) \/ m.type # b,
               NEW i \in 1..Len(v), NEW j \in 1..Len(v), i < j, v[i].type = a
        PROVE  v[j].type # b
    <3>1. i \in 1..Len(s)
      BY <1>1, <2>3
    <3>2. CASE j \in 1..Len(s)
      BY <1>1, <2>3, <3>1, <3>2 DEF After
    <3>3. CASE j = Len(s) + 1
      BY <1>1, <2>3, <3>1, <3>3 DEF Lacks
    <3>. QED BY <1>2, <3>2, <3>3
  <2>. QED BY <2>1, <2>2, <2>3 DEF After, Lacks
<1>. QED BY <1>3, <1>4

(* Which messages a queue lacks, and in which order, after one was taken.   *)
LEMMA Taken ==
  ASSUME NEW s \in Seq(Msg), s # << >>, NEW v, v = Tail(s)
  PROVE  /\ \A a : Lacks(s, a) <=> Lacks(v, a) /\ Head(s).type # a
         /\ \A a, b : After(s, a, b) =>
              After(v, a, b) /\ (Head(s).type = a => Lacks(v, b))
<1>1. /\ Len(s) \in Nat \ {0} /\ Len(v) = Len(s) - 1
      /\ s[1] = Head(s)
      /\ \A i \in 1..Len(v) : v[i] = s[i + 1] /\ i + 1 \in 1..Len(s)
      /\ \A i \in 1..Len(s) : i # 1 => i - 1 \in 1..Len(v) /\ s[i] = v[i - 1]
  BY TailIs
<1>2. 1 \in 1..Len(s)
  BY <1>1
<1>3. ASSUME NEW a PROVE Lacks(s, a) <=> Lacks(v, a) /\ Head(s).type # a
  <2>1. ASSUME Lacks(s, a) PROVE Lacks(v, a) /\ Head(s).type # a
    BY <1>1, <1>2, <2>1 DEF Lacks
  <2>2. ASSUME Lacks(v, a), Head(s).type # a, NEW i \in 1..Len(s)
        PROVE  s[i].type # a
    BY <1>1, <2>2 DEF Lacks
  <2>. QED BY <2>1, <2>2 DEF Lacks
<1>4. ASSUME NEW a, NEW b, After(s, a, b)
      PROVE  After(v, a, b) /\ (Head(s).type = a => Lacks(v, b))
  <2>1. ASSUME NEW i \in 1..Len(v), NEW j \in 1..Len(v), i < j, v[i].type = a
        PROVE  v[j].type # b
    <3>1. /\ i + 1 < j + 1 /\ i + 1 \in 1..Len(s) /\ j + 1 \in 1..Len(s)
          /\ v[i] = s[i + 1] /\ v[j] = s[j + 1]
      BY <1>1, <2>1
    <3>. QED BY <1>4, <2>1, <3>1 DEF After
  <2>2. ASSUME Head(s).type = a, NEW j \in 1..Len(v) PROVE v[j].type # b
    <3>1. 1 < j + 1 /\ j + 1 \in 1..Len(s) /\ v[j] = s[j + 1]
      BY <1>1
    <3>. QED BY <1>1, <1>2, <1>4, <2>2, <3>1 DEF After
  <2>. QED BY <2>1, <2>2 DEF After, Lacks
<1>. QED BY <1>3, <1>4

-----------------------------------------------------------------------------
(* The types, and the provider.                                             *)

LEMMA Messages ==
  ASSUME NEW type \in MsgTypes, NEW x \in Val
  PROVE  /\ Message(type, x) \in Msg
         /\ Message(type, x).type = type /\ Message(type, x).v = x
BY DEF Message, Msg

(* The comparison of a write leaves the variables in their types.           *)
LEMMA CompareTypes ==
  ASSUME Types, NEW t \in Writers, NEW x \in Val, Compare(t, x)
  PROVE  value' \in Val /\ writing' \in [Writers -> WriteState] /\ access' \in Access
<1>1. CASE value = None
  <2>1. value' = x /\ Watch(x) /\ writing' = writing
    BY <1>1 DEF Compare
  <2>. QED BY <2>1 DEF Types, Watch, Access
<1>2. CASE value # None
  <2>1. /\ value' = value /\ access' = access
        /\ writing' = [writing EXCEPT ![t] =
                         [at |-> "assign", new |-> x, note |-> x # value]]
    BY <1>2 DEF Compare
  <2>2. (x # value) \in BOOLEAN
    OBVIOUS
  <2>3. [at |-> "assign", new |-> x, note |-> x # value] \in WriteState
    BY <2>2 DEF WriteState
  <2>. QED BY <2>1, <2>3 DEF Types
<1>. QED BY <1>1, <1>2

(* The steps of the provider leave the variables in their types.            *)
LEMMA TypesProvider ==
  ASSUME Types, Provider
  PROVE  Types'
<1>. USE DEF Val
<1>1. ASSUME NEW t \in Writers, Assign(t) PROVE Types'
  <2>1. writing[t] \in WriteState /\ writing[t].new \in Val
    BY DEF Types, WriteState
  <2>2. /\ value' = writing[t].new /\ Watch(writing[t].new)
        /\ writing' = [writing EXCEPT ![t] =
             IF writing[t].note THEN [writing[t] EXCEPT !.at = "notify"] ELSE Resting]
        /\ UNCHANGED <<refs, job, cmds, notes, mirror, local>>
    BY <1>1 DEF Assign
  <2>3. [writing[t] EXCEPT !.at = "notify"] \in WriteState /\ Resting \in WriteState
    BY <2>1 DEF WriteState, Resting
  <2>4. writing' \in [Writers -> WriteState]
    BY <2>2, <2>3 DEF Types
  <2>5. access' \in Access
    BY <2>1, <2>2 DEF Types, Watch, Access
  <2>. QED BY <2>1, <2>2, <2>4, <2>5 DEF Types
<1>2. ASSUME NEW t \in Writers, Notify(t) PROVE Types'
  <2>1. Resting \in WriteState /\ Message("changed", value) \in Msg
    BY Messages DEF WriteState, Resting, Types, MsgTypes
  <2>2. /\ writing' = [writing EXCEPT ![t] = Resting]
        /\ notes' = notes \/ notes' = Append(notes, Message("changed", value))
        /\ UNCHANGED <<value, refs, job, cmds, access, mirror, local>>
    BY <1>2 DEF Notify, consumer
  <2>3. notes' \in Seq(Msg)
    BY <2>1, <2>2, AppendIs DEF Types
  <2>. QED BY <2>1, <2>2, <2>3 DEF Types
<1>3. ASSUME NEW x \in Values, Write(x) PROVE Types'
  <2>1. /\ Compare("user", x)
        /\ UNCHANGED <<refs, job, cmds, notes, mirror, local>>
    BY <1>3 DEF Write
  <2>2. value' \in Val /\ writing' \in [Writers -> WriteState] /\ access' \in Access
    BY <2>1, CompareTypes DEF Writers
  <2>. QED BY <2>1, <2>2 DEF Types
<1>4. CASE HandleSet
  <2>1. /\ Compare("handler", Head(cmds).v) /\ cmds # << >>
        /\ cmds' = Tail(cmds) /\ job' = [at |-> "answer", copy |-> None]
        /\ UNCHANGED <<refs, notes, mirror, local>>
    BY <1>4 DEF HandleSet, Command
  <2>2. cmds' \in Seq(Msg) /\ Head(cmds) \in Msg
    BY <2>1, TailIs DEF Types
  <2>3. Head(cmds).v \in Val
    BY <2>2 DEF Msg
  <2>4. value' \in Val /\ writing' \in [Writers -> WriteState] /\ access' \in Access
    BY <2>1, <2>3, CompareTypes DEF Writers
  <2>. QED BY <2>1, <2>2, <2>4 DEF Types, JobState
<1>5. CASE HandleGet \/ AnswerSet
  <2>1. /\ notes' = notes \/ notes' = Append(notes, Message("property", value))
        /\ cmds' = cmds \/ (cmds # << >> /\ cmds' = Tail(cmds))
        /\ job' \in {job, NoJob}
        /\ UNCHANGED <<value, refs, writing, access, mirror, local>>
    BY <1>5 DEF HandleGet, AnswerSet, Command, provider, consumer
  <2>2. Message("property", value) \in Msg
    BY Messages DEF Types, MsgTypes
  <2>3. notes' \in Seq(Msg) /\ cmds' \in Seq(Msg)
    BY <2>1, <2>2, AppendIs, TailIs DEF Types
  <2>. QED BY <2>1, <2>3 DEF Types, NoJob, JobState
<1>6. CASE HandleDelete \/ HandleUnreg
  <2>1. /\ \/ notes' = notes
           \/ notes' = Append(notes, Message("deleted", None))
           \/ notes' = Append(notes, Message("unregistered", None))
        /\ cmds # << >> /\ cmds' = Tail(cmds)
        /\ refs' \in {0, refs} \/ (refs > 0 /\ refs' = refs - 1)
        /\ value' \in {value, None}
        /\ UNCHANGED <<job, writing, access, mirror, local>>
    BY <1>6 DEF HandleDelete, HandleUnreg, Unref, Command, consumer
  <2>2. Message("deleted", None) \in Msg /\ Message("unregistered", None) \in Msg
    BY Messages DEF MsgTypes
  <2>3. notes' \in Seq(Msg) /\ cmds' \in Seq(Msg)
    BY <2>1, <2>2, AppendIs, TailIs DEF Types
  <2>4. refs' \in Nat
    BY <2>1 DEF Types
  <2>. QED BY <2>1, <2>3, <2>4 DEF Types
<1>7. CASE HandleReg
  <2>1. /\ cmds # << >> /\ cmds' = Tail(cmds)
        /\ job' \in {NoJob, [at |-> "register", copy |-> value]}
        /\ UNCHANGED <<value, refs, writing, notes, access, mirror, local>>
    BY <1>7 DEF HandleReg, Command, consumer
  <2>2. cmds' \in Seq(Msg)
    BY <2>1, TailIs DEF Types
  <2>. QED BY <2>1, <2>2 DEF Types, NoJob, JobState
<1>8. CASE Register
  BY <1>8 DEF Register, Types, JobState, consumer
<1>9. CASE Acknowledge
  <2>1. /\ notes' = Append(notes, Message("registered", job.copy))
        /\ job' = NoJob
        /\ UNCHANGED <<value, refs, writing, cmds, access, mirror, local>>
    BY <1>9 DEF Acknowledge, consumer
  <2>2. Message("registered", job.copy) \in Msg
    BY Messages DEF MsgTypes, Types, JobState
  <2>3. notes' \in Seq(Msg)
    BY <2>1, <2>2, AppendIs DEF Types
  <2>. QED BY <2>1, <2>3 DEF Types, NoJob, JobState
<1>. QED BY <1>1, <1>2, <1>3, <1>4, <1>5, <1>6, <1>7, <1>8, <1>9 DEF Provider

(* What every step of the consumer is: a command is sent at most, the first *)
(* notification is taken at most.                                           *)
ConsumerMoves ==
  /\ UNCHANGED provider
  /\ \/ cmds' = cmds
     \/ \E m \in Msg : /\ cmds' = Append(cmds, m)
                       /\ m.type = "set" => m.v # None
  /\ notes' = notes \/ (notes # << >> /\ notes' = Tail(notes))
  /\ access' \in Access /\ mirror' \in SubCall /\ local' \in Val

(* What the steps of the consumer may change.                               *)
LEMMA ConsumerIs ==
  ASSUME Types, Consumer
  PROVE  ConsumerMoves
<1>. USE DEF Val
<1>0. /\ \A type \in MsgTypes : /\ Message(type, None) \in Msg
                                /\ Message(type, None).type = type
      /\ \A x \in Values : /\ Message("set", x) \in Msg
                           /\ Message("set", x).v # None
  <2>1. ASSUME NEW type \in MsgTypes
        PROVE  Message(type, None) \in Msg /\ Message(type, None).type = type
    BY Messages
  <2>2. ASSUME NEW x \in Values
        PROVE  Message("set", x) \in Msg /\ Message("set", x).v # None
    BY Messages, MirrorAssumption DEF MsgTypes
  <2>. QED BY <2>1, <2>2
<1>1. ASSUME NEW at \in {"get", "set"}, NEW x \in Val, Begin(at, x)
      PROVE  access' \in Access
  <2>1. Clean \in BOOLEAN
    BY DEF Clean
  <2>2. access' = [at |-> at, ev |-> FALSE, got |-> None, want |-> x,
                   clean |-> Clean, seen |-> {value} \ {None}]
    BY <1>1 DEF Begin, NoCall
  <2>. QED BY <2>1, <2>2 DEF Access, Types
<1>2. CASE GetRemoteProperty
  <2>1. /\ Begin("get", None) /\ cmds' = Append(cmds, Message("get", None))
        /\ UNCHANGED <<provider, notes, mirror, local>>
    BY <1>2 DEF GetRemoteProperty, Send
  <2>2. access' \in Access
    BY <1>1, <2>1
  <2>. QED BY <1>0, <2>1, <2>2 DEF ConsumerMoves, Types, MsgTypes
<1>3. ASSUME NEW x \in Values, SetRemoteProperty(x) PROVE ConsumerMoves
  <2>1. /\ Begin("set", x)
        /\ cmds' = Append(cmds, Message("set", x)) \/ cmds' = cmds
        /\ UNCHANGED <<provider, notes, mirror, local>>
    BY <1>3 DEF SetRemoteProperty, Send
  <2>2. access' \in Access
    BY <1>1, <2>1
  <2>. QED BY <1>0, <2>1, <2>2 DEF ConsumerMoves, Types
<1>4. CASE SendOnly
  <2>1. /\ \/ cmds' = Append(cmds, Message("delete", None))
           \/ \E x \in Values : cmds' = Append(cmds, Message("set", x))
        /\ UNCHANGED <<provider, notes, access, mirror, local>>
    BY <1>4 DEF SendOnly, Send, consumer
  <2>. QED BY <1>0, <2>1 DEF ConsumerMoves, Types, MsgTypes
<1>5. CASE AccessReturns
  BY <1>5 DEF ConsumerMoves, AccessReturns, NoCall, Access, Types
<1>6. CASE MirrorRemoteProperty
  <2>1. /\ cmds' = Append(cmds, Message("reg", None))
        /\ mirror' = [at |-> "mirror", ev |-> FALSE, got |-> None]
        /\ UNCHANGED <<provider, notes, access, local>>
    BY <1>6 DEF MirrorRemoteProperty, Send, NoSub
  <2>. QED BY <1>0, <2>1 DEF ConsumerMoves, Types, MsgTypes, SubCall
<1>7. CASE Merge \/ MirrorTimeout \/ UnmirrorReturns
  <2>1. NoSub \in SubCall /\ mirror.got \in Val
    BY DEF NoSub, SubCall, Types
  <2>2. /\ mirror' = NoSub /\ local' \in {local, mirror.got}
        /\ UNCHANGED <<provider, cmds, notes, access>>
    BY <1>7 DEF Merge, MirrorTimeout, UnmirrorReturns
  <2>. QED BY <2>1, <2>2 DEF ConsumerMoves, Types
<1>8. CASE UnmirrorRemoteProperty
  <2>0. [NoSub EXCEPT !.at = "unmirror"] \in SubCall
    BY DEF NoSub, SubCall
  <2>1. /\ \/ /\ cmds' = Append(cmds, Message("unreg", None))
              /\ mirror' = [NoSub EXCEPT !.at = "unmirror"]
           \/ cmds' = cmds /\ mirror' = mirror
        /\ UNCHANGED <<provider, notes, access, local>>
    BY <1>8 DEF UnmirrorRemoteProperty, Send
  <2>2. mirror' \in SubCall
    BY <2>0, <2>1 DEF Types
  <2>3. cmds' = cmds \/ cmds' = Append(cmds, Message("unreg", None))
    BY <2>1
  <2>4. /\ Message("unreg", None) \in Msg
        /\ Message("unreg", None).type = "unreg"
    BY <1>0 DEF MsgTypes
  <2>. QED BY <2>1, <2>2, <2>3, <2>4 DEF ConsumerMoves, Types
<1>9. ASSUME NEW type, Notification(type)
      PROVE  /\ UNCHANGED <<provider, cmds>>
             /\ notes # << >> /\ notes' = Tail(notes)
             /\ Head(notes) \in Msg /\ Head(notes).v \in Val
  <2>1. /\ UNCHANGED <<provider, cmds>> /\ notes # << >>
        /\ notes' = Tail(notes)
    BY <1>9 DEF Notification
  <2>2. Head(notes) \in Msg
    BY <2>1, TailIs DEF Types
  <2>. QED BY <2>1, <2>2 DEF Msg
<1>10. CASE TakeAnswer
  <2>1. /\ \/ access' = access
           \/ access' = [access EXCEPT !.ev = TRUE, !.got = Head(notes).v]
        /\ UNCHANGED <<mirror, local>> /\ Notification("property")
    BY <1>10 DEF TakeAnswer, Answer
  <2>2. access' \in Access
    BY <1>9, <2>1 DEF Types, Access
  <2>. QED BY <1>9, <2>1, <2>2 DEF ConsumerMoves, Types
<1>11. ASSUME NEW type, NEW at, TakeAck(type, at)
       PROVE  /\ UNCHANGED <<provider, cmds, access, local>>
              /\ notes # << >> /\ notes' = Tail(notes) /\ mirror' \in SubCall
  <2>1. /\ \/ mirror' = mirror
           \/ mirror' = [mirror EXCEPT !.ev = TRUE, !.got = Head(notes).v]
        /\ UNCHANGED <<access, local>> /\ Notification(type)
    BY <1>11 DEF TakeAck
  <2>2. mirror' \in SubCall
    BY <1>9, <2>1 DEF Types, SubCall
  <2>. QED BY <1>9, <2>1, <2>2
<1>12. CASE TakeChange \/ TakeDelete
  <2>1. /\ local' \in {local, None, Head(notes).v}
        /\ UNCHANGED <<access, mirror>>
        /\ \E type : Notification(type)
    BY <1>12 DEF TakeChange, TakeDelete
  <2>. QED BY <1>9, <2>1 DEF ConsumerMoves, Types
<1>13. CASE \E type, at : TakeAck(type, at)
  <2>1. PICK type, at : TakeAck(type, at)
    BY <1>13
  <2>2. /\ UNCHANGED <<provider, cmds, access, local>>
        /\ notes # << >> /\ notes' = Tail(notes) /\ mirror' \in SubCall
    BY <1>11, <2>1
  <2>. QED BY <2>2 DEF ConsumerMoves, Types
<1>. QED BY <1>2, <1>3, <1>4, <1>5, <1>6, <1>7, <1>8, <1>10, <1>12, <1>13
         DEF Consumer

(* Every step leaves the variables in their types.                          *)
LEMMA TypesStep ==
  ASSUME Types, [MirrorNext]_mirrorVars
  PROVE  Types'
<1>1. CASE Provider
  BY <1>1, TypesProvider
<1>2. CASE Consumer
  <2>1. /\ UNCHANGED <<value, refs, job, writing>>
        /\ access' \in Access /\ mirror' \in SubCall /\ local' \in Val
    BY <1>2, ConsumerIs DEF ConsumerMoves, provider
  <2>2. cmds' \in Seq(Msg)
    <3>1. cmds' = cmds \/ \E m \in Msg : cmds' = Append(cmds, m)
      BY <1>2, ConsumerIs DEF ConsumerMoves
    <3>. QED BY <3>1, AppendIs DEF Types
  <2>3. notes' \in Seq(Msg)
    <3>1. notes' = notes \/ (notes # << >> /\ notes' = Tail(notes))
      BY <1>2, ConsumerIs DEF ConsumerMoves
    <3>. QED BY <3>1, TailIs DEF Types
  <2>. QED BY <2>1, <2>2, <2>3 DEF Types
<1>3. CASE UNCHANGED mirrorVars
  BY <1>3 DEF mirrorVars, provider, consumer, Types
<1>. QED BY <1>1, <1>2, <1>3 DEF MirrorNext

(* The variables start in their types.                                      *)
LEMMA TypesStart == MirrorInit => Types
BY DEF MirrorInit, Types, Val, NoJob, JobState, Resting, WriteState, NoCall, Access,
   NoSub, SubCall

(* Compare, Assign and Notify of a thread of the provider.                  *)
LEMMA CompareIs ==
  ASSUME Types, NEW t \in Writers, NEW x \in Val, Compare(t, x)
  PROVE  /\ writing[t].at = "rest"
         /\ \/ /\ value = None /\ value' = x /\ writing' = writing /\ Watch(x)
            \/ /\ value # None /\ value' = value /\ access' = access
               /\ writing'[t].at = "assign" /\ writing'[t].new = x
               /\ writing'[t].note <=> x # value
         /\ \A u \in Writers : u # t => writing'[u] = writing[u]
<1>1. writing[t] = Resting /\ writing[t].at = "rest"
  BY DEF Compare, Resting
<1>2. CASE value = None
  BY <1>1, <1>2 DEF Compare
<1>3. CASE value # None
  <2>1. /\ value' = value /\ access' = access
        /\ writing' = [writing EXCEPT ![t] =
                         [at |-> "assign", new |-> x, note |-> x # value]]
    BY <1>3 DEF Compare
  <2>2. /\ writing'[t] = [at |-> "assign", new |-> x, note |-> x # value]
        /\ \A u \in Writers : u # t => writing'[u] = writing[u]
    BY <2>1 DEF Types
  <2>3. writing'[t].note = (x # value)
    BY <2>2
  <2>4. writing'[t].note <=> x # value
    BY <2>3, Zenon
  <2>. QED BY <1>1, <1>3, <2>1, <2>2, <2>4
<1>. QED BY <1>2, <1>3

(* What the assignment of a write does.                                     *)
LEMMA AssignIs ==
  ASSUME Types, NEW t \in Writers, Assign(t)
  PROVE  /\ writing[t].at = "assign" /\ value' = writing[t].new
         /\ Watch(writing[t].new)
         /\ \/ writing[t].note /\ writing'[t].at = "notify"
            \/ ~ writing[t].note /\ writing'[t] = Resting
         /\ \A u \in Writers : u # t => writing'[u] = writing[u]
<1>1. /\ writing[t].at = "assign" /\ value' = writing[t].new
      /\ Watch(writing[t].new)
      /\ writing' = [writing EXCEPT ![t] =
           IF writing[t].note THEN [writing[t] EXCEPT !.at = "notify"] ELSE Resting]
  BY DEF Assign
<1>2. /\ writing'[t] = IF writing[t].note
                       THEN [writing[t] EXCEPT !.at = "notify"] ELSE Resting
      /\ \A u \in Writers : u # t => writing'[u] = writing[u]
  BY <1>1 DEF Types
<1>3. [writing[t] EXCEPT !.at = "notify"].at = "notify"
  BY DEF Types, WriteState
<1>. QED BY <1>1, <1>2, <1>3

(* What the notification of a write does.                                   *)
LEMMA NotifyIs ==
  ASSUME Types, NEW t \in Writers, Notify(t)
  PROVE  /\ writing[t].at = "notify" /\ writing'[t] = Resting
         /\ \A u \in Writers : u # t => writing'[u] = writing[u]
         /\ notes' = IF refs > 0 THEN Append(notes, Message("changed", value))
                     ELSE notes
         /\ UNCHANGED <<value, refs, job, cmds, consumer, raced, ends>>
<1>1. /\ writing[t].at = "notify"
      /\ writing' = [writing EXCEPT ![t] = Resting]
  BY DEF Notify
<1>2. /\ writing'[t] = Resting
      /\ \A u \in Writers : u # t => writing'[u] = writing[u]
  BY <1>1 DEF Types
<1>. QED BY <1>1, <1>2 DEF Notify

(* A command that is handled.                                               *)
LEMMA CommandIs ==
  ASSUME Types, NEW type, Command(type)
  PROVE  /\ cmds # << >> /\ cmds' = Tail(cmds) /\ job = NoJob /\ job.at = "wait"
         /\ Head(cmds) \in Msg /\ Head(cmds).type = type /\ Head(cmds).v \in Val
         /\ Head(cmds) = cmds[1] /\ 1 \in 1..Len(cmds)
         /\ \A i \in 1..Len(cmds') :
              cmds'[i] = cmds[i + 1] /\ i + 1 \in 1..Len(cmds)
<1>1. /\ cmds # << >> /\ cmds' = Tail(cmds) /\ job = NoJob /\ job.at = "wait"
      /\ Head(cmds).type = type /\ cmds \in Seq(Msg)
  BY DEF Command, NoJob, Types
<1>2. /\ Head(cmds) \in Msg /\ cmds[1] = Head(cmds) /\ Len(cmds) \in Nat \ {0}
      /\ \A i \in 1..Len(cmds') :
           cmds'[i] = cmds[i + 1] /\ i + 1 \in 1..Len(cmds)
  BY <1>1, TailIs
<1>. QED BY <1>1, <1>2 DEF Msg

(* Every step keeps the invariant of the provider.                          *)
LEMMA ProvStep ==
  ASSUME Types, ProvInv, [MirrorNext]_mirrorVars
  PROVE  ProvInv'
<1>0. None \in Val /\ value \in Val /\ refs \in Nat /\ "handler" \in Writers
  BY DEF Val, Types, Writers
<1>1. ASSUME NEW t \in Writers, Assign(t) PROVE ProvInv'
  <2>1. /\ writing[t].at = "assign" /\ value' = writing[t].new
        /\ writing'[t].at = "notify" \/ writing'[t] = Resting
        /\ \A u \in Writers : u # t => writing'[u] = writing[u]
    BY <1>1, AssignIs
  <2>2. UNCHANGED <<refs, job, cmds>> /\ Resting.at = "rest"
    BY <1>1 DEF Assign, Resting
  <2>. QED BY <1>0, <2>1, <2>2 DEF ProvInv
<1>2. ASSUME NEW t \in Writers, Notify(t) PROVE ProvInv'
  <2>1. /\ writing[t].at = "notify" /\ writing'[t] = Resting
        /\ \A u \in Writers : u # t => writing'[u] = writing[u]
        /\ UNCHANGED <<value, refs, job, cmds>>
    BY <1>2, NotifyIs
  <2>2. Resting.at = "rest"
    BY DEF Resting
  <2>. QED BY <1>0, <2>1, <2>2 DEF ProvInv
<1>3. ASSUME NEW x \in Values, Write(x) PROVE ProvInv'
  <2>1. /\ Compare("user", x) /\ UNCHANGED <<refs, job, cmds>>
        /\ x \in Val /\ x # None /\ "user" \in Writers
    BY <1>3, MirrorAssumption DEF Write, Val, Writers
  <2>2. /\ \/ value' = x /\ writing' = writing
           \/ /\ value # None /\ value' = value
              /\ writing'["user"].at = "assign" /\ writing'["user"].new = x
        /\ \A u \in Writers : u # "user" => writing'[u] = writing[u]
    BY <2>1, CompareIs
  <2>. QED BY <1>0, <2>1, <2>2 DEF ProvInv
<1>4. CASE HandleSet
  <2>1. /\ Command("set") /\ Compare("handler", Head(cmds).v)
        /\ job'.at = "answer" /\ refs' = refs
    BY <1>4 DEF HandleSet
  <2>2. /\ Head(cmds).type = "set" /\ Head(cmds).v \in Val
        /\ Head(cmds) = cmds[1] /\ 1 \in 1..Len(cmds)
        /\ \A i \in 1..Len(cmds') :
             cmds'[i] = cmds[i + 1] /\ i + 1 \in 1..Len(cmds)
    BY <2>1, CommandIs
  <2>3. Head(cmds).v # None
    BY <2>2 DEF ProvInv
  <2>4. PICK x \in Val : x = Head(cmds).v
    BY <2>2
  <2>5. Compare("handler", x)
    BY <2>1, <2>4
  <2>6. /\ \/ value' = x /\ writing' = writing
           \/ /\ value # None /\ value' = value
              /\ writing'["handler"].at = "assign" /\ writing'["handler"].new = x
        /\ \A u \in Writers : u # "handler" => writing'[u] = writing[u]
    BY <1>0, <2>5, CompareIs
  <2>7. \A i \in 1..Len(cmds') : cmds'[i].type = "set" => cmds'[i].v # None
    BY <2>2 DEF ProvInv
  <2>. QED BY <1>0, <2>1, <2>3, <2>4, <2>6, <2>7 DEF ProvInv
<1>5. ASSUME NEW type, Command(type), writing' = writing,
             value' = value \/ (value' = None /\ refs' = 0 /\ job' = job),
             refs' \in {0, refs} \/ (refs > 0 /\ refs' = refs - 1),
             \/ job' = job \/ job'.at = "wait"
             \/ job'.at = "register" /\ value # None /\ value' = value
      PROVE  ProvInv'
  <2>1. /\ job.at = "wait"
        /\ \A i \in 1..Len(cmds') :
             cmds'[i] = cmds[i + 1] /\ i + 1 \in 1..Len(cmds)
    BY <1>5, CommandIs
  <2>2. \A i \in 1..Len(cmds') : cmds'[i].type = "set" => cmds'[i].v # None
    BY <2>1 DEF ProvInv
  <2>3. writing["handler"].at = "rest"
    BY <2>1 DEF ProvInv
  <2>4. refs' > 0 => refs > 0 /\ value' = value
    BY <1>0, <1>5
  <2>. QED BY <1>0, <1>5, <2>1, <2>2, <2>3, <2>4 DEF ProvInv
<1>6. CASE HandleGet
  BY <1>5, <1>6 DEF HandleGet, provider
<1>7. CASE HandleDelete
  BY <1>5, <1>7 DEF HandleDelete
<1>8. CASE HandleReg
  <2>1. job' = IF value = None THEN NoJob ELSE [at |-> "register", copy |-> value]
    BY <1>8 DEF HandleReg
  <2>2. job'.at = "wait" \/ (job'.at = "register" /\ value # None)
    BY <2>1 DEF NoJob
  <2>. QED BY <1>5, <1>8, <2>2 DEF HandleReg
<1>9. CASE HandleUnreg
  BY <1>5, <1>9 DEF HandleUnreg, Unref
<1>10. CASE AnswerSet
  <2>1. /\ job'.at = "wait" /\ writing["handler"] = Resting
        /\ UNCHANGED <<value, refs, writing, cmds>>
    BY <1>10 DEF AnswerSet, NoJob
  <2>2. writing["handler"].at = "rest"
    BY <2>1 DEF Resting
  <2>. QED BY <2>1, <2>2 DEF ProvInv
<1>11. CASE Register
  <2>1. /\ job.at = "register" /\ refs' = refs + 1
        /\ job' = [job EXCEPT !.at = "acknowledge"]
        /\ UNCHANGED <<value, writing, cmds>>
    BY <1>11 DEF Register
  <2>2. job'.at = "acknowledge"
    BY <2>1 DEF Types, JobState
  <2>. QED BY <1>0, <2>1, <2>2 DEF ProvInv
<1>12. CASE Acknowledge
  <2>1. /\ job.at = "acknowledge" /\ job'.at = "wait"
        /\ UNCHANGED <<value, refs, writing, cmds>>
    BY <1>12 DEF Acknowledge, NoJob
  <2>. QED BY <2>1 DEF ProvInv
<1>13. CASE Consumer
  <2>1. /\ UNCHANGED <<value, refs, job, writing>>
        /\ \/ cmds' = cmds
           \/ \E m \in Msg : /\ cmds' = Append(cmds, m)
                             /\ m.type = "set" => m.v # None
    BY <1>13, ConsumerIs DEF ConsumerMoves, provider
  <2>2. ASSUME NEW m \in Msg, cmds' = Append(cmds, m), m.type = "set" => m.v # None
        PROVE  \A i \in 1..Len(cmds') : cmds'[i].type = "set" => cmds'[i].v # None
    <3>1. /\ Len(cmds') = Len(cmds) + 1 /\ Len(cmds) \in Nat
          /\ cmds'[Len(cmds) + 1] = m
          /\ \A i \in 1..Len(cmds) : cmds'[i] = cmds[i]
      BY <2>2, AppendIs DEF Types
    <3>2. \A i \in 1..Len(cmds') : i \in 1..Len(cmds) \/ i = Len(cmds) + 1
      BY <3>1
    <3>. QED BY <2>2, <3>1, <3>2 DEF ProvInv
  <2>3. \A i \in 1..Len(cmds') : cmds'[i].type = "set" => cmds'[i].v # None
    BY <2>1, <2>2 DEF ProvInv
  <2>. QED BY <2>1, <2>3 DEF ProvInv
<1>14. CASE UNCHANGED mirrorVars
  BY <1>14 DEF mirrorVars, provider, ProvInv
<1>. QED BY <1>1, <1>2, <1>3, <1>4, <1>6, <1>7, <1>8, <1>9, <1>10, <1>11, <1>12,
            <1>13, <1>14 DEF MirrorNext, Provider

(* The initial states satisfy the invariant of the provider.                *)
LEMMA ProvStart == MirrorInit => ProvInv
BY DEF MirrorInit, ProvInv, Resting, NoJob, Writers

-----------------------------------------------------------------------------
(* Answers to get and set.                                                  *)

(* Every message of type a in v is in s.                                    *)
From(v, s, a) ==
  \A i \in 1..Len(v) : v[i].type = a => \E j \in 1..Len(s) : v[i] = s[j]

(* Sending a message adds none of another type.                             *)
LEMMA FromSent ==
  ASSUME NEW s \in Seq(Msg), NEW m \in Msg, NEW v, v = Append(s, m)
  PROVE  \A a : m.type # a => From(v, s, a)
<1>1. /\ Len(v) = Len(s) + 1 /\ Len(s) \in Nat /\ v[Len(s) + 1] = m
      /\ \A i \in 1..Len(s) : v[i] = s[i]
  BY AppendIs
<1>2. \A i \in 1..Len(v) : i \in 1..Len(s) \/ i = Len(s) + 1
  BY <1>1
<1>. QED BY <1>1, <1>2 DEF From

(* Taking a message adds none.                                              *)
LEMMA FromTaken ==
  ASSUME NEW s \in Seq(Msg), s # << >>, NEW v, v = Tail(s)
  PROVE  \A a : From(v, s, a)
<1>1. \A i \in 1..Len(v) : v[i] = s[i + 1] /\ i + 1 \in 1..Len(s)
  BY TailIs
<1>. QED BY <1>1 DEF From

(* A queue that stays as it is has no new message.                          *)
LEMMA FromSame ==
  ASSUME NEW s, NEW v, v = s
  PROVE  \A a : From(v, s, a)
BY DEF From

(* A new value is noted.                                                    *)
LEMMA WatchIs ==
  ASSUME Types, NEW x, Watch(x)
  PROVE  /\ access.at = "idle" => access' = access
         /\ access'.at = access.at /\ access'.ev = access.ev
         /\ access'.got = access.got /\ access'.want = access.want
         /\ access'.clean = access.clean
         /\ access.at # "idle" => access'.seen = access.seen \cup {x}
BY DEF Types, Watch, Access

(* The values of messages that are left.                                    *)
LEMMA LacksFrom ==
  ASSUME NEW v, NEW s, NEW a, From(v, s, a), Lacks(s, a)
  PROVE  Lacks(v, a)
BY DEF From, Lacks

(* No answer, command or value is new.                                      *)
LEMMA FreshStays ==
  ASSUME Types, FreshInv, access' = access, value' \in {value, None},
         From(cmds', cmds, "get"), From(cmds', cmds, "set"),
         From(notes', notes, "property"),
         job'.at = "answer" => job.at = "answer",
         \/ writing'["handler"] = writing["handler"]
         \/ writing["handler"].at # "assign"
  PROVE  FreshInv'
<1>1. /\ access.at = "idle" => ~ access.ev
      /\ access.at # "idle" /\ value' # None => value' \in access.seen
  BY DEF FreshInv
<1>2. ASSUME access.at = "get", access.clean PROVE GetInv'
  <2>1. GetInv
    BY <1>2 DEF FreshInv
  <2>2. Lacks(cmds', "set")
    BY <2>1, LacksFrom DEF GetInv
  <2>3. \A i \in 1..Len(notes') :
          notes'[i].type = "property" => notes'[i].v \in access.seen
    BY <2>1 DEF GetInv, From
  <2>. QED BY <2>1, <2>2, <2>3 DEF GetInv
<1>3. ASSUME access.at = "set", access.clean PROVE SetInv'
  <2>1. SetInv
    BY <1>3 DEF FreshInv
  <2>2. /\ Lacks(cmds', "get")
        /\ Lacks(notes, "property") => Lacks(notes', "property")
    BY <2>1, LacksFrom DEF SetInv
  <2>3. \A i \in 1..Len(cmds') : cmds'[i].type = "set" => cmds'[i].v = access.want
    BY <2>1 DEF SetInv, From
  <2>. QED BY <2>1, <2>2, <2>3 DEF SetInv
<1>. QED BY <1>1, <1>2, <1>3 DEF FreshInv

(* The value is replaced by one that is noted.                              *)
LEMMA FreshWatch ==
  ASSUME Types, FreshInv, NEW x \in Val, value' = x, Watch(x),
         UNCHANGED <<cmds, notes, job>>,
         \/ writing'["handler"] = writing["handler"]
         \/ writing["handler"].at = "assign" => writing["handler"].new = x
  PROVE  FreshInv'
<1>1. /\ access.at = "idle" => access' = access
      /\ access'.at = access.at /\ access'.ev = access.ev
      /\ access'.got = access.got /\ access'.want = access.want
      /\ access'.clean = access.clean
      /\ access.at # "idle" => access'.seen = access.seen \cup {x}
  BY WatchIs
<1>2. ASSUME access.at = "get", access.clean PROVE GetInv'
  <2>1. GetInv
    BY <1>2 DEF FreshInv
  <2>. QED BY <1>1, <1>2, <2>1 DEF GetInv
<1>3. ASSUME access.at = "set", access.clean PROVE SetInv'
  <2>1. SetInv
    BY <1>3 DEF FreshInv
  <2>. QED BY <1>1, <1>3, <2>1 DEF SetInv
<1>. QED BY <1>1, <1>2, <1>3 DEF FreshInv

(* The writes of the provider keep the answers fresh.                       *)
LEMMA FreshWrites ==
  ASSUME Types, ProvInv, FreshInv,
         \/ \E t \in Writers : Assign(t) \/ Notify(t)
         \/ \E x \in Values : Write(x)
  PROVE  FreshInv'
<1>0. "handler" \in Writers /\ "user" \in Writers /\ value \in Val
  BY DEF Writers, Types
<1>1. ASSUME NEW t \in Writers, Assign(t) PROVE FreshInv'
  <2>1. PICK x \in Val : x = writing[t].new
    BY DEF Types, WriteState
  <2>2. /\ value' = x /\ Watch(x)
        /\ \A u \in Writers : u # t => writing'[u] = writing[u]
    BY <1>1, <2>1, AssignIs
  <2>3. UNCHANGED <<cmds, notes, job>>
    BY <1>1 DEF Assign
  <2>4. \/ writing'["handler"] = writing["handler"]
        \/ writing["handler"].at = "assign" => writing["handler"].new = x
    BY <1>0, <2>1, <2>2
  <2>. QED BY <2>2, <2>3, <2>4, FreshWatch
<1>2. ASSUME NEW t \in Writers, Notify(t) PROVE FreshInv'
  <2>1. /\ writing[t].at = "notify"
        /\ \A u \in Writers : u # t => writing'[u] = writing[u]
        /\ notes' = notes \/ notes' = Append(notes, Message("changed", value))
        /\ UNCHANGED <<value, job, cmds, access>>
    BY <1>2, NotifyIs DEF consumer
  <2>2. PICK m \in Msg : m = Message("changed", value) /\ m.type = "changed"
    BY <1>0, Messages DEF MsgTypes
  <2>3. From(notes', notes, "property")
    BY <2>1, <2>2, FromSent, FromSame DEF Types
  <2>4. From(cmds', cmds, "get") /\ From(cmds', cmds, "set")
    BY <2>1, FromSame
  <2>. QED BY <1>0, <2>1, <2>3, <2>4, FreshStays
<1>3. ASSUME NEW x \in Values, Write(x) PROVE FreshInv'
  <2>1. /\ Compare("user", x) /\ x \in Val /\ UNCHANGED <<job, cmds, notes>>
    BY <1>3 DEF Write, Val
  <2>2. /\ \/ value' = x /\ Watch(x)
           \/ value' = value /\ access' = access
        /\ \A u \in Writers : u # "user" => writing'[u] = writing[u]
    BY <1>0, <2>1, CompareIs
  <2>3. writing'["handler"] = writing["handler"]
    BY <1>0, <2>2
  <2>4. CASE value' = x /\ Watch(x)
    BY <2>1, <2>3, <2>4, FreshWatch
  <2>5. CASE value' = value /\ access' = access
    <3>1. /\ From(cmds', cmds, "get") /\ From(cmds', cmds, "set")
          /\ From(notes', notes, "property")
      BY <2>1, FromSame
    <3>. QED BY <2>1, <2>3, <2>5, <3>1, FreshStays
  <2>. QED BY <2>2, <2>4, <2>5
<1>. QED BY <1>1, <1>2, <1>3

(* The command handlers of the provider keep the answers fresh.             *)
LEMMA FreshHandlers ==
  ASSUME Types, ProvInv, FreshInv,
         \/ HandleGet \/ HandleSet \/ AnswerSet \/ HandleDelete
         \/ HandleReg \/ Register \/ Acknowledge \/ HandleUnreg
  PROVE  FreshInv'
<1>0. /\ "handler" \in Writers /\ value \in Val /\ None \in Val
      /\ cmds \in Seq(Msg) /\ notes \in Seq(Msg)
  BY DEF Writers, Types, Val
<1>1. ASSUME NEW type, Command(type)
      PROVE  /\ \A a : From(cmds', cmds, a) /\ (Lacks(cmds, a) => Lacks(cmds', a))
             /\ ~ Lacks(cmds, type) /\ job.at = "wait"
             /\ Head(cmds).v \in Val /\ Head(cmds).type = type
             /\ Head(cmds) = cmds[1] /\ 1 \in 1..Len(cmds)
  <2>1. /\ cmds # << >> /\ cmds' = Tail(cmds) /\ job.at = "wait"
        /\ Head(cmds).type = type /\ Head(cmds).v \in Val
        /\ Head(cmds) = cmds[1] /\ 1 \in 1..Len(cmds)
    BY <1>1, CommandIs
  <2>2. \A a : From(cmds', cmds, a)
    BY <1>0, <2>1, FromTaken
  <2>3. \A a : Lacks(cmds, a) <=> Lacks(cmds', a) /\ Head(cmds).type # a
    BY <1>0, <2>1, Taken
  <2>. QED BY <2>1, <2>2, <2>3
<1>2. CASE HandleGet
  <2>1. /\ Command("get") /\ UNCHANGED <<value, job, writing, access>>
        /\ notes' = IF value = None THEN notes
                    ELSE Append(notes, Message("property", value))
    BY <1>2 DEF HandleGet, provider, consumer
  <2>2. CASE value = None
    <3>1. From(notes', notes, "property")
      BY <2>1, <2>2, FromSame
    <3>. QED BY <1>1, <2>1, <3>1, FreshStays
  <2>3. CASE value # None
    <3>1. PICK m \in Msg : /\ m = Message("property", value)
                           /\ m.type = "property" /\ m.v = value
      BY <1>0, Messages DEF MsgTypes
    <3>2. /\ Len(notes') = Len(notes) + 1 /\ Len(notes) \in Nat
          /\ notes'[Len(notes) + 1] = m
          /\ \A i \in 1..Len(notes) : notes'[i] = notes[i]
      BY <1>0, <2>1, <2>3, <3>1, AppendIs
    <3>3. \A i \in 1..Len(notes') : i \in 1..Len(notes) \/ i = Len(notes) + 1
      BY <3>2
    <3>4. access.at # "idle" => value \in access.seen
      BY <2>3 DEF FreshInv
    <3>5. ASSUME access.at = "get", access.clean PROVE GetInv'
      <4>1. GetInv
        BY <3>5 DEF FreshInv
      <4>2. Lacks(cmds', "set")
        BY <1>1, <2>1, <4>1 DEF GetInv
      <4>3. \A i \in 1..Len(notes') :
              notes'[i].type = "property" => notes'[i].v \in access.seen
        BY <3>1, <3>2, <3>3, <3>4, <3>5, <4>1 DEF GetInv
      <4>. QED BY <2>1, <4>1, <4>2, <4>3 DEF GetInv
    <3>6. ~ (access.at = "set" /\ access.clean)
      BY <1>1, <2>1 DEF FreshInv, SetInv
    <3>. QED BY <2>1, <3>5, <3>6 DEF FreshInv
  <2>. QED BY <2>2, <2>3
<1>3. CASE HandleSet
  <2>1. /\ Command("set") /\ Compare("handler", Head(cmds).v)
        /\ job'.at = "answer" /\ notes' = notes
    BY <1>3 DEF HandleSet
  <2>2. PICK x \in Val : x = Head(cmds).v
    BY <1>1, <2>1
  <2>3. \/ value = None /\ value' = x /\ Watch(x)
        \/ /\ value # None /\ value' = value /\ access' = access
           /\ writing'["handler"].at = "assign" /\ writing'["handler"].new = x
    BY <1>0, <2>1, <2>2, CompareIs
  <2>4. /\ Watch(x) => /\ access.at = "idle" => access' = access
                       /\ access'.at = access.at /\ access'.ev = access.ev
                       /\ access'.got = access.got /\ access'.want = access.want
                       /\ access'.clean = access.clean
                       /\ access.at # "idle" => access'.seen = access.seen \cup {x}
    BY WatchIs
  <2>5. ~ (access.at = "get" /\ access.clean)
    BY <1>1, <2>1 DEF FreshInv, GetInv
  <2>6. ASSUME access.at = "set", access.clean PROVE SetInv'
    <3>1. SetInv
      BY <2>6 DEF FreshInv
    <3>2. x = access.want
      BY <1>1, <2>1, <2>2, <3>1 DEF SetInv
    <3>3. Lacks(cmds', "get") /\ From(cmds', cmds, "set")
      BY <1>1, <2>1, <3>1 DEF SetInv
    <3>4. access'.want = access.want /\ access'.ev = access.ev
      BY <2>3, <2>4
    <3>5. \A i \in 1..Len(cmds') : cmds'[i].type = "set" => cmds'[i].v = access'.want
      BY <3>1, <3>3, <3>4 DEF SetInv, From
    <3>6. access.want \in access.seen => access'.want \in access'.seen
      BY <2>3, <2>4, <2>6
    <3>7. \/ access'.want \in access'.seen
          \/ /\ writing'["handler"].at = "assign"
             /\ writing'["handler"].new = access'.want
      BY <2>3, <2>4, <2>6, <3>2
    <3>. QED BY <2>1, <3>1, <3>3, <3>4, <3>5, <3>6, <3>7 DEF SetInv
  <2>7. access'.at = access.at /\ access'.ev = access.ev /\ access'.clean = access.clean
    BY <2>3, <2>4
  <2>8. access.at # "idle" /\ value' # None => value' \in access'.seen
    BY <2>3, <2>4 DEF FreshInv
  <2>9. access.at = "idle" => ~ access.ev
    BY DEF FreshInv
  <2>. QED BY <2>5, <2>6, <2>7, <2>8, <2>9 DEF FreshInv
<1>4. CASE AnswerSet
  <2>1. /\ job.at = "answer" /\ writing["handler"].at = "rest" /\ job'.at = "wait"
        /\ notes' = Append(notes, Message("property", value))
        /\ UNCHANGED <<value, writing, cmds, access>>
    BY <1>4 DEF AnswerSet, consumer, Resting, NoJob
  <2>2. ~ (access.at = "get" /\ access.clean)
    BY <2>1 DEF FreshInv, GetInv
  <2>3. ASSUME access.at = "set", access.clean PROVE SetInv'
    <3>1. SetInv
      BY <2>3 DEF FreshInv
    <3>. QED BY <2>1, <3>1 DEF SetInv
  <2>. QED BY <2>1, <2>2, <2>3 DEF FreshInv
<1>5. CASE HandleDelete \/ HandleReg \/ HandleUnreg
  <2>1. /\ \E type : Command(type)
        /\ \/ notes' = notes
           \/ notes' = Append(notes, Message("deleted", None))
           \/ notes' = Append(notes, Message("unregistered", None))
        /\ value' \in {value, None}
        /\ UNCHANGED <<writing, access>>
        /\ job' \in {job, NoJob, [at |-> "register", copy |-> value]}
    BY <1>5 DEF HandleDelete, HandleReg, HandleUnreg, consumer
  <2>2. From(notes', notes, "property")
    <3>1. PICK m \in Msg : m = Message("deleted", None) /\ m.type = "deleted"
      BY <1>0, Messages DEF MsgTypes
    <3>2. PICK n \in Msg : n = Message("unregistered", None) /\ n.type = "unregistered"
      BY <1>0, Messages DEF MsgTypes
    <3>. QED BY <1>0, <2>1, <3>1, <3>2, FromSent, FromSame
  <2>3. From(cmds', cmds, "get") /\ From(cmds', cmds, "set")
    BY <1>1, <2>1
  <2>4. job'.at = "answer" => job.at = "answer"
    BY <2>1 DEF NoJob
  <2>. QED BY <2>1, <2>2, <2>3, <2>4, FreshStays
<1>6. CASE Register \/ Acknowledge
  <2>1. /\ notes' = notes \/ notes' = Append(notes, Message("registered", job.copy))
        /\ UNCHANGED <<value, writing, cmds, access>>
        /\ job' \in {NoJob, [job EXCEPT !.at = "acknowledge"]}
    BY <1>6 DEF Register, Acknowledge, consumer
  <2>2. PICK m \in Msg : /\ m = Message("registered", job.copy)
                         /\ m.type = "registered"
    BY Messages DEF MsgTypes, Types, JobState
  <2>3. From(notes', notes, "property")
    BY <1>0, <2>1, <2>2, FromSent, FromSame
  <2>4. From(cmds', cmds, "get") /\ From(cmds', cmds, "set")
    BY <2>1, FromSame
  <2>5. job'.at # "answer"
    BY <2>1 DEF NoJob, Types, JobState
  <2>. QED BY <2>1, <2>3, <2>4, <2>5, FreshStays
<1>. QED BY <1>2, <1>3, <1>4, <1>5, <1>6

(* A call begins.                                                           *)
LEMMA FreshBegins ==
  ASSUME Types, FreshInv,
         GetRemoteProperty \/ \E x \in Values : SetRemoteProperty(x)
  PROVE  FreshInv'
<1>0. /\ UNCHANGED <<value, job, writing, notes>> /\ cmds \in Seq(Msg)
      /\ notes \in Seq(Msg)
  BY DEF GetRemoteProperty, SetRemoteProperty, provider, Types
<1>1. ASSUME NEW at \in {"get", "set"}, NEW x, Begin(at, x)
      PROVE  /\ access'.at = at /\ ~ access'.ev /\ access'.want = x
             /\ access'.clean => Clean
             /\ access'.seen = {value} \ {None}
  <2>1. access' = [at |-> at, ev |-> FALSE, got |-> None, want |-> x,
                   clean |-> Clean, seen |-> {value} \ {None}]
    BY <1>1 DEF Begin, NoCall
  <2>2. /\ access'.at = at /\ access'.ev = FALSE /\ access'.want = x
        /\ access'.clean = Clean /\ access'.seen = {value} \ {None}
    BY <2>1
  <2>. QED BY <2>2, Zenon
<1>2. Clean => /\ Lacks(cmds, "get") /\ Lacks(cmds, "set")
               /\ Lacks(notes, "property") /\ job.at # "answer"
  BY DEF Clean, Lacks
<1>3. CASE GetRemoteProperty
  <2>1. Begin("get", None) /\ cmds' = Append(cmds, Message("get", None))
    BY <1>3 DEF GetRemoteProperty, Send
  <2>2. PICK m \in Msg : m = Message("get", None) /\ m.type = "get"
    BY Messages DEF MsgTypes, Val
  <2>3. Lacks(cmds, "set") => Lacks(cmds', "set")
    BY <1>0, <2>1, <2>2, Sent
  <2>4. access'.clean => GetInv'
    BY <1>0, <1>1, <1>2, <2>1, <2>3 DEF GetInv, Lacks
  <2>. QED BY <1>0, <1>1, <2>1, <2>4 DEF FreshInv
<1>4. ASSUME NEW x \in Values, SetRemoteProperty(x) PROVE FreshInv'
  <2>1. /\ Begin("set", x)
        /\ cmds' = cmds \/ cmds' = Append(cmds, Message("set", x))
    BY <1>4 DEF SetRemoteProperty, Send
  <2>2. PICK m \in Msg : m = Message("set", x) /\ m.type = "set" /\ m.v = x
    BY Messages DEF MsgTypes, Val
  <2>3. Lacks(cmds, "get") => Lacks(cmds', "get")
    BY <1>0, <2>1, <2>2, Sent
  <2>4. ASSUME Lacks(cmds, "set"), NEW i \in 1..Len(cmds')
        PROVE  cmds'[i].type = "set" => cmds'[i].v = x
    <3>1. CASE cmds' = cmds
      BY <2>4, <3>1 DEF Lacks
    <3>2. CASE cmds' = Append(cmds, m)
      <4>1. /\ Len(cmds') = Len(cmds) + 1 /\ Len(cmds) \in Nat
            /\ cmds'[Len(cmds) + 1] = m
            /\ \A j \in 1..Len(cmds) : cmds'[j] = cmds[j]
        BY <1>0, <3>2, AppendIs
      <4>2. i \in 1..Len(cmds) \/ i = Len(cmds) + 1
        BY <4>1
      <4>. QED BY <2>2, <2>4, <4>1, <4>2 DEF Lacks
    <3>. QED BY <2>1, <2>2, <3>1, <3>2
  <2>5. access'.clean => SetInv'
    BY <1>0, <1>1, <1>2, <2>1, <2>3, <2>4 DEF SetInv
  <2>. QED BY <1>0, <1>1, <2>1, <2>5 DEF FreshInv
<1>. QED BY <1>3, <1>4

(* Taking an answer keeps the answers fresh.                                *)
LEMMA FreshTakes ==
  ASSUME Types, FreshInv, TakeAnswer
  PROVE  FreshInv'
<1>1. /\ notes # << >> /\ Head(notes).type = "property" /\ notes' = Tail(notes)
      /\ UNCHANGED <<value, job, writing, cmds>>
      /\ \/ (access.at = "idle" \/ access.ev) /\ access' = access
         \/ /\ access.at # "idle" /\ ~ access.ev
            /\ access' = [access EXCEPT !.ev = TRUE, !.got = Head(notes).v]
  BY DEF TakeAnswer, Answer, Notification, provider
<1>2. notes \in Seq(Msg)
  BY DEF Types
<1>3. /\ Head(notes) = notes[1] /\ 1 \in 1..Len(notes)
      /\ \A i \in 1..Len(notes') :
           notes'[i] = notes[i + 1] /\ i + 1 \in 1..Len(notes)
  <2>1. /\ notes[1] = Head(notes) /\ Len(notes) \in Nat \ {0}
        /\ \A i \in 1..Len(notes') :
             notes'[i] = notes[i + 1] /\ i + 1 \in 1..Len(notes)
    BY <1>1, <1>2, TailIs
  <2>. QED BY <2>1
<1>4. From(notes', notes, "property")
  BY <1>1, <1>2, FromTaken
<1>5. CASE access' = access
  <2>1. From(cmds', cmds, "get") /\ From(cmds', cmds, "set")
    BY <1>1, FromSame
  <2>. QED BY <1>1, <1>4, <1>5, <2>1, FreshStays
<1>6. CASE access' = [access EXCEPT !.ev = TRUE, !.got = Head(notes).v]
  <2>1. /\ access'.at = access.at /\ access'.got = Head(notes).v
        /\ access'.want = access.want /\ access'.clean = access.clean
        /\ access'.seen = access.seen
    BY <1>6 DEF Types, Access
  <2>2. ASSUME access.at = "get", access.clean PROVE GetInv'
    <3>1. GetInv
      BY <2>2 DEF FreshInv
    <3>2. Head(notes).v \in access.seen
      BY <1>1, <1>3, <3>1 DEF GetInv
    <3>3. \A i \in 1..Len(notes') :
            notes'[i].type = "property" => notes'[i].v \in access.seen
      BY <1>3, <3>1 DEF GetInv
    <3>. QED BY <1>1, <2>1, <3>1, <3>2, <3>3 DEF GetInv
  <2>3. ASSUME access.at = "set", access.clean PROVE SetInv'
    <3>1. SetInv
      BY <2>3 DEF FreshInv
    <3>2. access.want \in access.seen
      BY <1>1, <1>3, <3>1 DEF SetInv, Lacks
    <3>. QED BY <1>1, <2>1, <3>1, <3>2 DEF SetInv
  <2>4. access.at = "idle" => access' = access
    BY <1>1
  <2>5. access.at # "idle" /\ value # None => value \in access.seen
    BY DEF FreshInv
  <2>6. access.at = "idle" => ~ access'.ev
    BY <2>4 DEF FreshInv
  <2>. QED BY <1>1, <2>1, <2>2, <2>3, <2>5, <2>6 DEF FreshInv
<1>. QED BY <1>1, <1>5, <1>6

(* Every step keeps the answers fresh.                                      *)
LEMMA FreshStep ==
  ASSUME Types, ProvInv, FreshInv, [MirrorNext]_mirrorVars
  PROVE  FreshInv'
<1>0. cmds \in Seq(Msg) /\ notes \in Seq(Msg)
  BY DEF Types
<1>1. CASE Provider
  BY <1>1, FreshWrites, FreshHandlers DEF Provider
<1>2. CASE GetRemoteProperty \/ \E x \in Values : SetRemoteProperty(x)
  BY <1>2, FreshBegins
<1>3. CASE TakeAnswer
  BY <1>3, FreshTakes
<1>4. CASE SendOnly \/ AccessReturns
  <2>1. access' = NoCall
    BY <1>4 DEF SendOnly, AccessReturns, consumer
  <2>2. access'.at = "idle" /\ access'.ev = FALSE
    BY <2>1 DEF NoCall
  <2>3. ~ access'.ev
    BY <2>2, Zenon
  <2>. QED BY <2>2, <2>3 DEF FreshInv
<1>5. ASSUME UNCHANGED <<provider, access>>,
             \/ cmds' = cmds
             \/ cmds' = Append(cmds, Message("reg", None))
             \/ cmds' = Append(cmds, Message("unreg", None)),
             notes' = notes \/ (notes # << >> /\ notes' = Tail(notes))
      PROVE  FreshInv'
  <2>1. PICK m \in Msg : m = Message("reg", None) /\ m.type = "reg"
    BY Messages DEF MsgTypes, Val
  <2>2. PICK n \in Msg : n = Message("unreg", None) /\ n.type = "unreg"
    BY Messages DEF MsgTypes, Val
  <2>3. From(cmds', cmds, "get") /\ From(cmds', cmds, "set")
    BY <1>0, <1>5, <2>1, <2>2, FromSent, FromSame
  <2>4. From(notes', notes, "property")
    BY <1>0, <1>5, FromTaken, FromSame
  <2>5. UNCHANGED <<value, job, writing, access>>
    BY <1>5 DEF provider
  <2>. QED BY <2>3, <2>4, <2>5, FreshStays
<1>6. CASE \/ MirrorRemoteProperty \/ Merge \/ MirrorTimeout
           \/ UnmirrorRemoteProperty \/ UnmirrorReturns \/ UNCHANGED mirrorVars
  BY <1>5, <1>6 DEF MirrorRemoteProperty, Merge, MirrorTimeout,
     UnmirrorRemoteProperty, UnmirrorReturns, Send, mirrorVars, consumer
<1>7. CASE \/ TakeAck("registered", "mirror")
           \/ TakeAck("unregistered", "unmirror") \/ TakeChange \/ TakeDelete
  BY <1>5, <1>7 DEF TakeAck, TakeChange, TakeDelete, Notification
<1>. QED BY <1>1, <1>2, <1>3, <1>4, <1>6, <1>7 DEF MirrorNext, Consumer

(* A get answers with a value the property had since the call began, and an *)
(* acknowledged set has been carried out, unless the answer to an earlier   *)
(* call was outstanding when it began.                                      *)
THEOREM AnswersAreFresh == MirrorSpec => []AnswersFresh
<1>. DEFINE Inv == Types /\ ProvInv /\ FreshInv
<1>1. MirrorInit => Inv
  <2>1. MirrorInit => FreshInv
    BY DEF MirrorInit, FreshInv, NoCall
  <2>. QED BY <2>1, TypesStart, ProvStart
<1>2. Inv /\ [MirrorNext]_mirrorVars => Inv'
  BY TypesStep, ProvStep, FreshStep
<1>3. Inv => AnswersFresh
  <2>. SUFFICES ASSUME Types, FreshInv, access.ev, access.clean
                PROVE  AnswersFresh
    BY DEF AnswersFresh
  <2>1. access.at \in {"idle", "get", "set"} /\ access.at # "idle"
    BY DEF Types, Access, FreshInv
  <2>2. CASE access.at = "get"
    BY <2>2 DEF AnswersFresh, FreshInv, GetInv
  <2>3. CASE access.at = "set"
    BY <2>3 DEF AnswersFresh, FreshInv, SetInv
  <2>. QED BY <2>1, <2>2, <2>3
<1>. QED BY <1>1, <1>2, <1>3, PTL DEF MirrorSpec

-----------------------------------------------------------------------------
(* Subscriptions.                                                           *)

(* What SubInv says of the commands and notifications stays.                *)
SameOps ==
  /\ Lacks(cmds', "reg") <=> Lacks(cmds, "reg")
  /\ Lacks(cmds', "unreg") <=> Lacks(cmds, "unreg")
  /\ After(cmds, "reg", "reg") => After(cmds', "reg", "reg")
  /\ After(cmds, "reg", "unreg") => After(cmds', "reg", "unreg")
SameNotes ==
  /\ Lacks(notes', "registered") <=> Lacks(notes, "registered")
  /\ Lacks(notes', "deleted") <=> Lacks(notes, "deleted")
  /\ After(notes, "registered", "registered") =>
       After(notes', "registered", "registered")
  /\ After(notes, "registered", "deleted") =>
       After(notes', "registered", "deleted")

(* Other commands leave those that subscribe as they are.                   *)
LEMMA OpsStay ==
  ASSUME Types,
         \/ cmds' = cmds
         \/ \E m \in Msg : m.type \notin {"reg", "unreg"} /\ cmds' = Append(cmds, m)
         \/ /\ cmds # << >> /\ Head(cmds).type \notin {"reg", "unreg"}
            /\ cmds' = Tail(cmds)
  PROVE  SameOps
<1>0. cmds \in Seq(Msg)
  BY DEF Types
<1>1. CASE cmds' = cmds
  BY <1>1 DEF SameOps
<1>2. ASSUME NEW m \in Msg, m.type \notin {"reg", "unreg"}, cmds' = Append(cmds, m)
      PROVE  SameOps
  <2>1. /\ \A a : Lacks(cmds', a) <=> Lacks(cmds, a) /\ m.type # a
        /\ \A a, b : After(cmds', a, b) <=>
             After(cmds, a, b) /\ (Lacks(cmds, a) \/ m.type # b)
    BY <1>0, <1>2, Sent
  <2>. QED BY <1>2, <2>1 DEF SameOps
<1>3. CASE /\ cmds # << >> /\ Head(cmds).type \notin {"reg", "unreg"}
           /\ cmds' = Tail(cmds)
  <2>1. /\ \A a : Lacks(cmds, a) <=> Lacks(cmds', a) /\ Head(cmds).type # a
        /\ \A a, b : After(cmds, a, b) => After(cmds', a, b)
    BY <1>0, <1>3, Taken
  <2>. QED BY <1>3, <2>1 DEF SameOps
<1>. QED BY <1>1, <1>2, <1>3

(* Other notifications leave those about the subscription as they are.      *)
LEMMA NotesStay ==
  ASSUME Types,
         \/ notes' = notes
         \/ \E m \in Msg : /\ m.type \notin {"registered", "deleted"}
                           /\ notes' = Append(notes, m)
         \/ /\ notes # << >> /\ Head(notes).type \notin {"registered", "deleted"}
            /\ notes' = Tail(notes)
  PROVE  SameNotes
<1>0. notes \in Seq(Msg)
  BY DEF Types
<1>1. CASE notes' = notes
  BY <1>1 DEF SameNotes
<1>2. ASSUME NEW m \in Msg, m.type \notin {"registered", "deleted"},
             notes' = Append(notes, m)
      PROVE  SameNotes
  <2>1. /\ \A a : Lacks(notes', a) <=> Lacks(notes, a) /\ m.type # a
        /\ \A a, b : After(notes', a, b) <=>
             After(notes, a, b) /\ (Lacks(notes, a) \/ m.type # b)
    BY <1>0, <1>2, Sent
  <2>. QED BY <1>2, <2>1 DEF SameNotes
<1>3. CASE /\ notes # << >> /\ Head(notes).type \notin {"registered", "deleted"}
           /\ notes' = Tail(notes)
  <2>1. /\ \A a : Lacks(notes, a) <=> Lacks(notes', a) /\ Head(notes).type # a
        /\ \A a, b : After(notes, a, b) => After(notes', a, b)
    BY <1>0, <1>3, Taken
  <2>. QED BY <1>3, <2>1 DEF SameNotes
<1>. QED BY <1>1, <1>2, <1>3

(* A step that leaves the subscription alone keeps its invariant.           *)
LEMMA SubStays ==
  ASSUME SubInv, SameOps, SameNotes, UNCHANGED <<sub, leaked, refs>>,
         \/ mirror' = mirror
         \/ ~ sub /\ mirror.at # "mirror" /\ mirror'.at # "mirror",
         \/ job'.at = job.at
         \/ ~ Registering /\ job'.at \notin {"register", "acknowledge"}
  PROVE  SubInv'
<1>1. LiveInv => LiveInv'
  BY DEF LiveInv, SameOps, SameNotes, Registering
<1>2. GoneInv => GoneInv'
  BY DEF GoneInv, SameOps, SameNotes, Registering
<1>3. WaitInv => WaitInv'
  BY DEF WaitInv, SameOps, SameNotes, Registering
<1>. QED BY <1>1, <1>2, <1>3 DEF SubInv, Live

(* Steps that have to do with no subscription.                              *)
OtherStep ==
  \/ \E t \in Writers : Assign(t) \/ Notify(t)
  \/ \E x \in Values : Write(x)
  \/ HandleGet \/ HandleSet \/ AnswerSet
  \/ GetRemoteProperty \/ (\E x \in Values : SetRemoteProperty(x))
  \/ SendOnly \/ AccessReturns \/ UnmirrorReturns
  \/ TakeAnswer \/ TakeAck("unregistered", "unmirror") \/ TakeChange
  \/ UNCHANGED mirrorVars

(* ... and what they do to the state of the subscriptions.                  *)
OtherMoves ==
  /\ \/ cmds' = cmds
     \/ \E m \in Msg : m.type \notin {"reg", "unreg"} /\ cmds' = Append(cmds, m)
     \/ /\ cmds # << >> /\ Head(cmds).type \notin {"reg", "unreg"}
        /\ cmds' = Tail(cmds)
  /\ \/ notes' = notes
     \/ \E m \in Msg : /\ m.type \notin {"registered", "deleted"}
                       /\ notes' = Append(notes, m)
     \/ /\ notes # << >> /\ Head(notes).type \notin {"registered", "deleted"}
        /\ notes' = Tail(notes)
  /\ UNCHANGED <<sub, leaked, deleted, refs>>
  /\ mirror' = mirror \/ (mirror.at = "unmirror" /\ mirror'.at # "mirror")
  /\ \/ job' = job
     \/ ~ Registering /\ job'.at \notin {"register", "acknowledge"}

(* What a step that is not about the subscription may change.               *)
LEMMA OthersMove ==
  ASSUME Types, OtherStep PROVE OtherMoves
<1>. USE DEF OtherStep
<1>1. \/ cmds' = cmds
      \/ \E m \in Msg : m.type \notin {"reg", "unreg"} /\ cmds' = Append(cmds, m)
      \/ /\ cmds # << >> /\ Head(cmds).type \notin {"reg", "unreg"}
         /\ cmds' = Tail(cmds)
  <2>1. \A type \in {"get", "delete"} :
          Message(type, None) \in Msg /\ Message(type, None).type = type
    BY Messages DEF MsgTypes, Val
  <2>2. \A x \in Values : Message("set", x) \in Msg /\ Message("set", x).type = "set"
    BY Messages DEF MsgTypes, Val
  <2>3. \/ cmds' = cmds
        \/ \E type \in {"get", "delete"} : cmds' = Append(cmds, Message(type, None))
        \/ \E x \in Values : cmds' = Append(cmds, Message("set", x))
        \/ /\ cmds # << >> /\ Head(cmds).type \in {"get", "set"}
           /\ cmds' = Tail(cmds)
    BY DEF Assign, Notify, Write, HandleGet, HandleSet, AnswerSet,
       GetRemoteProperty, SetRemoteProperty, SendOnly, Send, AccessReturns,
       UnmirrorReturns, TakeAnswer, Answer, TakeAck, TakeChange, Notification,
       Command, mirrorVars
  <2>. QED BY <2>1, <2>2, <2>3
<1>2. \/ notes' = notes
      \/ \E m \in Msg : /\ m.type \notin {"registered", "deleted"}
                        /\ notes' = Append(notes, m)
      \/ /\ notes # << >> /\ Head(notes).type \notin {"registered", "deleted"}
         /\ notes' = Tail(notes)
  <2>1. \A type \in {"property", "changed"} :
          Message(type, value) \in Msg /\ Message(type, value).type = type
    BY Messages DEF MsgTypes, Types
  <2>2. \/ notes' = notes
        \/ \E type \in {"property", "changed"} :
             notes' = Append(notes, Message(type, value))
        \/ /\ notes # << >> /\ notes' = Tail(notes)
           /\ Head(notes).type \in {"property", "unregistered", "changed"}
    BY DEF Assign, Notify, Write, HandleGet, HandleSet, AnswerSet,
       GetRemoteProperty, SetRemoteProperty, SendOnly, Send, AccessReturns,
       UnmirrorReturns, TakeAnswer, Answer, TakeAck, TakeChange, Notification,
       mirrorVars
  <2>. QED BY <2>1, <2>2
<1>3. UNCHANGED <<sub, leaked, deleted, refs>>
  BY DEF Assign, Notify, Write, HandleGet, HandleSet, AnswerSet,
     GetRemoteProperty, SetRemoteProperty, SendOnly, AccessReturns,
     UnmirrorReturns, TakeAnswer, Answer, TakeAck, TakeChange, Notification,
     mirrorVars, provider, consumer, ends
<1>4. \/ mirror' = mirror
      \/ mirror.at = "unmirror" /\ mirror'.at # "mirror"
  <2>1. CASE UnmirrorReturns
    BY <2>1 DEF UnmirrorReturns, NoSub
  <2>2. CASE TakeAck("unregistered", "unmirror")
    <3>1. \/ mirror' = mirror
          \/ /\ mirror.at = "unmirror"
             /\ mirror' = [mirror EXCEPT !.ev = TRUE, !.got = Head(notes).v]
      BY <2>2 DEF TakeAck
    <3>2. [mirror EXCEPT !.ev = TRUE, !.got = Head(notes).v].at = mirror.at
      BY DEF Types, SubCall
    <3>. QED BY <3>1, <3>2
  <2>3. CASE ~ UnmirrorReturns /\ ~ TakeAck("unregistered", "unmirror")
    BY <2>3 DEF Assign, Notify, Write, HandleGet, HandleSet, AnswerSet,
       GetRemoteProperty, SetRemoteProperty, SendOnly, AccessReturns,
       TakeAnswer, TakeChange, mirrorVars, consumer
  <2>. QED BY <2>1, <2>2, <2>3
<1>5. \/ job' = job
      \/ ~ Registering /\ job'.at \notin {"register", "acknowledge"}
  <2>1. \/ job' = job
        \/ job.at \in {"wait", "answer"} /\ job'.at \in {"wait", "answer"}
    BY DEF Assign, Notify, Write, HandleGet, HandleSet, AnswerSet,
       GetRemoteProperty, SetRemoteProperty, SendOnly, AccessReturns,
       UnmirrorReturns, TakeAnswer, Answer, TakeAck, TakeChange, Notification,
       Command, NoJob, mirrorVars, provider
  <2>. QED BY <2>1 DEF Registering
<1>. QED BY <1>1, <1>2, <1>3, <1>4, <1>5 DEF OtherMoves

(* Such a step keeps the invariant of the subscription.                     *)
LEMMA SubOthers ==
  ASSUME Types, SubInv, OtherStep
  PROVE  SubInv'
<1>1. OtherMoves
  BY OthersMove
<1>2. SameOps
  BY <1>1, OpsStay DEF OtherMoves
<1>3. SameNotes
  BY <1>1, NotesStay DEF OtherMoves
<1>4. sub => mirror.at = "idle"
  BY DEF SubInv, NoSub
<1>. QED BY <1>1, <1>2, <1>3, <1>4, SubStays DEF OtherMoves

(* The provider registers, withdraws and deletes.                           *)
LEMMA SubProvider ==
  ASSUME Types, ProvInv, SubInv,
         HandleDelete \/ HandleReg \/ Register \/ Acknowledge \/ HandleUnreg
  PROVE  SubInv'
<1>0. /\ UNCHANGED <<sub, mirror, leaked>> /\ refs \in Nat
      /\ cmds \in Seq(Msg) /\ notes \in Seq(Msg) /\ None \in Val
  BY DEF HandleDelete, HandleReg, Register, Acknowledge, HandleUnreg, consumer,
     ends, Types, Val
<1>. SUFFICES ASSUME ~ leaked
              PROVE  /\ refs' <= 1
                     /\ Live => LiveInv'
                     /\ ~ sub /\ mirror.at # "mirror" => GoneInv'
                     /\ mirror.at = "mirror" /\ ~ mirror.ev => WaitInv'
  BY <1>0 DEF SubInv, Live
<1>1. /\ refs <= 1
      /\ Live => LiveInv
      /\ ~ sub /\ mirror.at # "mirror" => GoneInv
      /\ mirror.at = "mirror" /\ ~ mirror.ev => WaitInv
  BY DEF SubInv
<1>2. ASSUME NEW type, Command(type)
      PROVE  /\ Head(cmds).type = type /\ ~ Registering
             /\ \A a : Lacks(cmds, a) <=> Lacks(cmds', a) /\ type # a
             /\ \A a, b : After(cmds, a, b) =>
                  After(cmds', a, b) /\ (type = a => Lacks(cmds', b))
  <2>1. /\ cmds # << >> /\ cmds' = Tail(cmds) /\ job.at = "wait"
        /\ Head(cmds).type = type
    BY <1>2, CommandIs
  <2>2. /\ \A a : Lacks(cmds, a) <=> Lacks(cmds', a) /\ Head(cmds).type # a
        /\ \A a, b : After(cmds, a, b) =>
             After(cmds', a, b) /\ (Head(cmds).type = a => Lacks(cmds', b))
    BY <1>0, <2>1, Taken
  <2>. QED BY <2>1, <2>2 DEF Registering
<1>3. ASSUME NEW type \in MsgTypes, NEW x \in Val,
             notes' = Append(notes, Message(type, x))
      PROVE  /\ \A a : Lacks(notes', a) <=> Lacks(notes, a) /\ type # a
             /\ \A a, b : After(notes', a, b) <=>
                  After(notes, a, b) /\ (Lacks(notes, a) \/ type # b)
  <2>1. PICK m \in Msg : m = Message(type, x) /\ m.type = type
    BY Messages
  <2>2. /\ \A a : Lacks(notes', a) <=> Lacks(notes, a) /\ m.type # a
        /\ \A a, b : After(notes', a, b) <=>
             After(notes, a, b) /\ (Lacks(notes, a) \/ m.type # b)
    BY <1>0, <1>3, <2>1, Sent
  <2>. QED BY <2>1, <2>2
<1>4. CASE HandleDelete
  <2>1. /\ Command("delete") /\ refs' = 0 /\ job' = job
        /\ notes' = notes \/ notes' = Append(notes, Message("deleted", None))
    BY <1>4 DEF HandleDelete
  <2>2. /\ ~ Registering /\ ~ Registering'
        /\ \A a : a # "delete" => (Lacks(cmds, a) <=> Lacks(cmds', a))
        /\ \A a, b : After(cmds, a, b) => After(cmds', a, b)
    BY <1>2, <2>1 DEF Registering
  <2>3. /\ Lacks(notes', "registered") <=> Lacks(notes, "registered")
        /\ After(notes, "registered", "registered") =>
             After(notes', "registered", "registered")
    BY <1>0, <1>3, <2>1 DEF MsgTypes
  <2>. QED BY <1>1, <2>1, <2>2, <2>3 DEF LiveInv, GoneInv, WaitInv, Registering
<1>5. CASE HandleReg
  <2>1. /\ Command("reg") /\ UNCHANGED <<refs, notes>>
    BY <1>5 DEF HandleReg
  <2>2. /\ ~ Registering /\ ~ Lacks(cmds, "reg") /\ job'.at # "acknowledge"
        /\ Lacks(cmds', "unreg") <=> Lacks(cmds, "unreg")
        /\ \A a, b : After(cmds, a, b) =>
             After(cmds', a, b) /\ ("reg" = a => Lacks(cmds', b))
    BY <1>2, <1>5, <2>1 DEF HandleReg, NoJob
  <2>3. ~ Live /\ (sub \/ mirror.at = "mirror")
    BY <1>1, <2>2 DEF LiveInv, GoneInv
  <2>4. WaitInv
    BY <1>1, <2>3 DEF Live
  <2>5. Lacks(cmds', "reg") /\ Lacks(cmds', "unreg") /\ refs = 0
    BY <2>2, <2>4 DEF WaitInv
  <2>6. WaitInv'
    BY <2>1, <2>2, <2>4, <2>5 DEF WaitInv, Registering
  <2>. QED BY <1>1, <2>1, <2>3, <2>6 DEF Live
<1>6. CASE Register
  <2>1. /\ job.at = "register" /\ refs' = refs + 1
        /\ job' = [job EXCEPT !.at = "acknowledge"]
        /\ UNCHANGED <<cmds, notes>>
    BY <1>6 DEF Register
  <2>2. job'.at = "acknowledge" /\ Registering
    BY <2>1 DEF Types, JobState, Registering
  <2>3. ~ Live /\ (sub \/ mirror.at = "mirror")
    BY <1>1, <2>2 DEF LiveInv, GoneInv
  <2>4. WaitInv
    BY <1>1, <2>3 DEF Live
  <2>5. refs' = 1
    BY <2>1, <2>4 DEF WaitInv
  <2>6. After(notes, "registered", "deleted")
    BY <2>2, <2>4 DEF WaitInv, After, Lacks
  <2>7. WaitInv'
    BY <2>1, <2>2, <2>4, <2>6 DEF WaitInv, Registering
  <2>. QED BY <2>3, <2>5, <2>7 DEF Live
<1>7. CASE Acknowledge
  <2>1. /\ job.at = "acknowledge" /\ job'.at = "wait"
        /\ notes' = Append(notes, Message("registered", job.copy))
        /\ UNCHANGED <<cmds, refs>> /\ job.copy \in Val
    BY <1>7 DEF Acknowledge, NoJob, Types, JobState
  <2>2. ~ Live /\ (sub \/ mirror.at = "mirror")
    BY <1>1, <2>1 DEF LiveInv, GoneInv, Registering
  <2>3. WaitInv
    BY <1>1, <2>2 DEF Live
  <2>4. \A a, b : After(notes', a, b) <=>
          After(notes, a, b) /\ (Lacks(notes, a) \/ "registered" # b)
    BY <1>3, <2>1 DEF MsgTypes
  <2>5. WaitInv'
    BY <2>1, <2>3, <2>4 DEF WaitInv, Registering
  <2>. QED BY <1>1, <2>1, <2>2, <2>5 DEF Live
<1>8. CASE HandleUnreg
  <2>1. /\ Command("unreg") /\ job' = job
        /\ IF value # None /\ refs > 0
           THEN refs' = refs - 1 /\ notes' = Append(notes, Message("unregistered", None))
           ELSE UNCHANGED <<refs, notes>>
    BY <1>8 DEF HandleUnreg, Unref
  <2>2. /\ ~ Registering /\ ~ Registering' /\ ~ Lacks(cmds, "unreg")
        /\ Lacks(cmds', "reg") <=> Lacks(cmds, "reg")
        /\ Lacks(cmds, "unreg") => Lacks(cmds', "unreg")
        /\ \A a, b : After(cmds, a, b) => After(cmds', a, b)
    BY <1>2, <2>1 DEF Registering
  <2>3. refs' = 0
    BY <1>0, <1>1, <2>1 DEF ProvInv
  <2>4. /\ Lacks(notes', "registered") <=> Lacks(notes, "registered")
        /\ \A a, b : b # "unregistered" =>
             (After(notes', a, b) <=> After(notes, a, b))
    BY <1>0, <1>3, <2>1 DEF MsgTypes
  <2>5. ~ Live
    BY <1>1, <2>2 DEF LiveInv
  <2>6. GoneInv => GoneInv'
    BY <2>2, <2>3, <2>4 DEF GoneInv
  <2>7. WaitInv => WaitInv'
    BY <2>1, <2>2, <2>3, <2>4 DEF WaitInv
  <2>. QED BY <1>1, <2>3, <2>5, <2>6, <2>7
<1>. QED BY <1>4, <1>5, <1>6, <1>7, <1>8

(* The consumer mirrors, unmirrors, is told and gives up.                   *)
LEMMA SubConsumer ==
  ASSUME Types, SubInv,
         \/ MirrorRemoteProperty \/ Merge \/ MirrorTimeout
         \/ UnmirrorRemoteProperty \/ TakeAck("registered", "mirror") \/ TakeDelete
  PROVE  SubInv'
<1>0. /\ UNCHANGED <<refs, job>> /\ refs \in Nat /\ None \in Val
      /\ cmds \in Seq(Msg) /\ notes \in Seq(Msg)
  BY DEF MirrorRemoteProperty, Merge, MirrorTimeout, UnmirrorRemoteProperty,
     TakeAck, TakeDelete, Notification, provider, Types, Val
<1>1. /\ sub => mirror = NoSub
      /\ ~ leaked =>
           /\ refs <= 1
           /\ Live => LiveInv
           /\ ~ sub /\ mirror.at # "mirror" => GoneInv
           /\ mirror.at = "mirror" /\ ~ mirror.ev => WaitInv
  BY DEF SubInv
<1>2. ASSUME NEW type \in {"reg", "unreg"}, Send(type, None)
      PROVE  /\ \A a : Lacks(cmds', a) <=> Lacks(cmds, a) /\ type # a
             /\ \A a, b : After(cmds', a, b) <=>
                  After(cmds, a, b) /\ (Lacks(cmds, a) \/ type # b)
  <2>1. PICK m \in Msg : m = Message(type, None) /\ m.type = type
    BY <1>0, Messages DEF MsgTypes
  <2>2. cmds' = Append(cmds, m)
    BY <1>2, <2>1 DEF Send
  <2>3. /\ \A a : Lacks(cmds', a) <=> Lacks(cmds, a) /\ m.type # a
        /\ \A a, b : After(cmds', a, b) <=>
             After(cmds, a, b) /\ (Lacks(cmds, a) \/ m.type # b)
    BY <1>0, <2>2, Sent
  <2>. QED BY <2>1, <2>3
<1>3. ASSUME NEW type, Notification(type)
      PROVE  /\ \A a : Lacks(notes, a) <=> Lacks(notes', a) /\ type # a
             /\ \A a, b : After(notes, a, b) =>
                  After(notes', a, b) /\ (type = a => Lacks(notes', b))
             /\ UNCHANGED <<cmds, leaked>>
  <2>1. /\ notes # << >> /\ Head(notes).type = type /\ notes' = Tail(notes)
        /\ UNCHANGED <<cmds, leaked>>
    BY <1>3 DEF Notification, ends
  <2>2. \A a : Lacks(notes, a) <=> Lacks(notes', a) /\ Head(notes).type # a
    BY <1>0, <2>1, Taken
  <2>3. \A a, b : After(notes, a, b) =>
          After(notes', a, b) /\ (Head(notes).type = a => Lacks(notes', b))
    <3>1. PICK s, v : /\ s \in Seq(Msg) /\ s # << >> /\ v = Tail(s)
                      /\ s = notes /\ v = notes'
      BY <1>0, <2>1
    <3>2. \A a, b : After(s, a, b) =>
            After(v, a, b) /\ (Head(s).type = a => Lacks(v, b))
      BY ONLY <3>1, Taken
    <3>. QED BY <3>1, <3>2
  <2>. QED BY <2>1, <2>2, <2>3
<1>4. CASE MirrorRemoteProperty
  <2>1. /\ mirror = NoSub /\ Send("reg", None) /\ UNCHANGED notes
        /\ mirror' = [NoSub EXCEPT !.at = "mirror"]
    BY <1>4 DEF MirrorRemoteProperty
  <2>2. mirror'.at = "mirror" /\ mirror.at = "idle" /\ mirror'.ev = FALSE
    BY <2>1 DEF NoSub
  <2>3. ~ sub' /\ ~ mirror'.ev /\ (~ leaked' => ~ leaked /\ ~ sub)
    <3>1. sub' = FALSE /\ leaked' = (leaked \/ sub) /\ mirror'.ev = FALSE
      BY <1>4, <2>2 DEF MirrorRemoteProperty
    <3>. QED BY ONLY <3>1, Zenon
  <2>4. CASE leaked'
    BY <2>3, <2>4 DEF SubInv
  <2>5. CASE ~ leaked'
    <3>1. GoneInv /\ refs <= 1
      BY <1>1, <2>2, <2>3, <2>5
    <3>2. /\ \A a : Lacks(cmds', a) <=> Lacks(cmds, a) /\ "reg" # a
          /\ \A a, b : After(cmds', a, b) <=>
               After(cmds, a, b) /\ (Lacks(cmds, a) \/ "reg" # b)
      BY <1>2, <2>1
    <3>3. After(cmds, "reg", "reg") /\ After(cmds, "reg", "unreg")
      BY <3>1 DEF GoneInv, Lacks, After
    <3>4. After(notes, "registered", "registered") /\ After(notes, "registered", "deleted")
      BY <3>1 DEF GoneInv, Lacks, After
    <3>5. WaitInv'
      BY <1>0, <2>1, <3>1, <3>2, <3>3, <3>4 DEF WaitInv, GoneInv, Registering
    <3>. QED BY <1>0, <2>2, <2>3, <3>1, <3>5 DEF SubInv, Live
  <2>. QED BY <2>4, <2>5
<1>5. CASE Merge
  <2>1. /\ mirror.at = "mirror" /\ mirror.ev /\ mirror' = NoSub
        /\ UNCHANGED <<cmds, notes, leaked>>
    BY <1>5 DEF Merge, ends
  <2>2. sub'
    <3>1. sub' = TRUE
      BY <1>5 DEF Merge
    <3>. QED BY ONLY <3>1, Zenon
  <2>3. mirror'.at = "idle"
    BY <2>1 DEF NoSub
  <2>4. LiveInv => LiveInv'
    BY <1>0, <2>1 DEF LiveInv, Registering
  <2>. QED BY <1>0, <1>1, <2>1, <2>2, <2>3, <2>4 DEF SubInv, Live
<1>6. CASE MirrorTimeout
  <2>1. mirror.at = "mirror" /\ mirror' = NoSub
    BY <1>6 DEF MirrorTimeout
  <2>2. leaked'
    <3>1. leaked' = TRUE
      BY <1>6 DEF MirrorTimeout
    <3>. QED BY ONLY <3>1, Zenon
  <2>. QED BY <2>1, <2>2 DEF SubInv
<1>7. CASE UnmirrorRemoteProperty
  <2>1. /\ mirror = NoSub /\ sub /\ UNCHANGED notes
        /\ \/ /\ Send("unreg", None) /\ mirror' = [NoSub EXCEPT !.at = "unmirror"]
              /\ UNCHANGED leaked
           \/ leaked' = TRUE
    BY <1>7 DEF UnmirrorRemoteProperty
  <2>2. ~ sub'
    <3>1. sub' = FALSE
      BY <1>7 DEF UnmirrorRemoteProperty
    <3>. QED BY ONLY <3>1, Zenon
  <2>3. CASE leaked'
    BY <2>2, <2>3 DEF SubInv
  <2>4. CASE ~ leaked'
    <3>1. leaked' # TRUE
      BY <2>4, Zenon
    <3>2. /\ Send("unreg", None) /\ mirror' = [NoSub EXCEPT !.at = "unmirror"]
          /\ UNCHANGED leaked
      BY <2>1, <3>1
    <3>3. mirror'.at = "unmirror"
      BY <3>2 DEF NoSub
    <3>4. LiveInv /\ refs <= 1
      BY <1>1, <2>1, <2>4, <3>2 DEF Live
    <3>5. \A a : Lacks(cmds', a) <=> Lacks(cmds, a) /\ "unreg" # a
      BY <1>2, <3>2
    <3>6. GoneInv'
      BY <1>0, <2>1, <3>4, <3>5 DEF GoneInv, LiveInv, Registering
    <3>. QED BY <1>0, <2>2, <3>3, <3>4, <3>6 DEF SubInv, Live
  <2>. QED BY <2>3, <2>4
<1>8. CASE TakeAck("registered", "mirror")
  <2>1. /\ Notification("registered") /\ UNCHANGED sub
        /\ mirror' = IF mirror.at # "mirror" \/ mirror.ev THEN mirror
                     ELSE [mirror EXCEPT !.ev = TRUE, !.got = Head(notes).v]
    BY <1>8 DEF TakeAck
  <2>2. /\ \A a : Lacks(notes, a) <=> Lacks(notes', a) /\ "registered" # a
        /\ \A a, b : After(notes, a, b) =>
             After(notes', a, b) /\ ("registered" = a => Lacks(notes', b))
        /\ UNCHANGED <<cmds, leaked>>
    BY <1>3, <2>1
  <2>3. sub' => mirror' = NoSub
    <3>1. NoSub.at # "mirror"
      BY DEF NoSub
    <3>2. CASE sub
      <4>1. mirror' = mirror
        BY <1>1, <2>1, <3>1, <3>2
      <4>. QED BY <1>1, <3>2, <4>1
    <3>. QED BY <2>1, <3>2
  <2>4. CASE ~ leaked
    <3>1. ~ Live /\ mirror.at = "mirror" /\ ~ mirror.ev /\ WaitInv /\ refs <= 1
      BY <1>1, <2>2, <2>4 DEF LiveInv, GoneInv, Live
    <3>2. mirror' = [mirror EXCEPT !.ev = TRUE, !.got = Head(notes).v]
      BY <2>1, <3>1
    <3>3. mirror'.at = "mirror" /\ mirror'.ev = TRUE
      BY <3>1, <3>2 DEF Types, SubCall
    <3>4. mirror'.ev
      BY ONLY <3>3, Zenon
    <3>5. LiveInv'
      BY <1>0, <2>2, <3>1 DEF WaitInv, LiveInv, Registering
    <3>. QED BY <1>0, <2>3, <3>1, <3>3, <3>4, <3>5 DEF SubInv
  <2>. QED BY <2>2, <2>3, <2>4 DEF SubInv
<1>9. CASE TakeDelete
  <2>1. Notification("deleted") /\ UNCHANGED mirror
    BY <1>9 DEF TakeDelete
  <2>2. /\ \A a : Lacks(notes, a) <=> Lacks(notes', a) /\ "deleted" # a
        /\ \A a, b : After(notes, a, b) => After(notes', a, b)
        /\ UNCHANGED <<cmds, leaked>>
    BY <1>3, <2>1
  <2>3. ~ sub'
    <3>1. sub' = (IF sub THEN FALSE ELSE sub)
      BY <1>9 DEF TakeDelete
    <3>. QED BY ONLY <3>1, Zenon
  <2>4. CASE ~ leaked
    <3>1. LiveInv => LiveInv' /\ refs = 0
      BY <1>0, <2>2 DEF LiveInv, Registering
    <3>2. LiveInv => GoneInv'
      BY <1>0, <2>2 DEF LiveInv, GoneInv, Registering
    <3>3. GoneInv => GoneInv'
      BY <1>0, <2>2 DEF GoneInv, Registering
    <3>4. WaitInv => WaitInv'
      BY <1>0, <2>2 DEF WaitInv, Registering
    <3>. QED BY <1>0, <1>1, <2>1, <2>2, <2>3, <2>4, <3>1, <3>2, <3>3, <3>4
         DEF SubInv, Live
  <2>. QED BY <2>2, <2>3, <2>4 DEF SubInv
<1>. QED BY <1>4, <1>5, <1>6, <1>7, <1>8, <1>9

(* Every step keeps the invariant of the subscription.                      *)
LEMMA SubStep ==
  ASSUME Types, ProvInv, SubInv, [MirrorNext]_mirrorVars
  PROVE  SubInv'
BY SubOthers, SubProvider, SubConsumer DEF MirrorNext, Provider, Consumer, OtherStep

(* The initial states satisfy the invariant of the subscription.            *)
LEMMA SubStart ==
  ASSUME MirrorInit PROVE SubInv
<1>1. /\ cmds = << >> /\ notes = << >> /\ job = NoJob /\ mirror = NoSub
      /\ refs = 0 /\ mirror.at = "idle" /\ job.at = "wait"
  BY DEF MirrorInit, NoSub, NoJob
<1>2. ~ sub
  <2>1. sub = FALSE
    BY DEF MirrorInit
  <2>. QED BY ONLY <2>1, Zenon
<1>3. Lacks(cmds, "reg") /\ Lacks(notes, "registered")
  BY <1>1 DEF Lacks
<1>4. GoneInv
  BY <1>1, <1>3 DEF GoneInv, Registering
<1>. QED BY <1>1, <1>2, <1>4 DEF SubInv, Live

(* The provider does not go on sending to a consumer that does not listen,  *)
(* unless that consumer gave up a subscription without withdrawing it.      *)
THEOREM NoProxyIsLeft == MirrorSpec => []NoProxyLeft
<1>. DEFINE Inv == Types /\ ProvInv /\ SubInv
<1>1. MirrorInit => Inv
  BY TypesStart, ProvStart, SubStart
<1>2. Inv /\ [MirrorNext]_mirrorVars => Inv'
  BY TypesStep, ProvStep, SubStep
<1>3. Inv => NoProxyLeft
  <2>. SUFFICES ASSUME SubInv, Quiet, mirror = NoSub, ~ leaked, refs > 0, ~ sub
                PROVE  FALSE
    BY DEF NoProxyLeft
  <2>1. mirror.at # "mirror"
    BY DEF NoSub
  <2>2. GoneInv
    BY <2>1 DEF SubInv
  <2>3. Lacks(cmds, "unreg")
    BY DEF Quiet, Lacks
  <2>. QED BY <2>2, <2>3 DEF GoneInv
<1>. QED BY <1>1, <1>2, <1>3, PTL DEF MirrorSpec

-----------------------------------------------------------------------------
(* Counting acknowledgements and withdrawals.                               *)

LEMMA CountFinite ==
  ASSUME NEW s \in Seq(Msg), NEW a
  PROVE  /\ IsFiniteSet({i \in 1..Len(s) : s[i].type = a})
         /\ Num(s, a) \in Nat
<1>1. Len(s) \in Nat
  OBVIOUS
<1>2. IsFiniteSet(1..Len(s))
  BY <1>1, FS_Interval
<1>3. {i \in 1..Len(s) : s[i].type = a} \in SUBSET (1..Len(s))
  OBVIOUS
<1>4. IsFiniteSet({i \in 1..Len(s) : s[i].type = a})
  BY <1>2, <1>3, FS_Subset
<1>. QED BY <1>4, FS_CardinalityType DEF Num

(* Sending a message counts one more of its type.                           *)
LEMMA CountSent ==
  ASSUME NEW s \in Seq(Msg), NEW m \in Msg, NEW a
  PROVE  Num(Append(s, m), a) = IF m.type = a THEN Num(s, a) + 1 ELSE Num(s, a)
<1>0. PICK v : v = Append(s, m)
  OBVIOUS
<1>. DEFINE S == {i \in 1..Len(s) : s[i].type = a}
            V == {i \in 1..Len(v) : v[i].type = a}
<1>1. /\ Len(v) = Len(s) + 1 /\ Len(s) \in Nat /\ v[Len(s) + 1] = m
      /\ \A i \in 1..Len(s) : v[i] = s[i]
  BY <1>0, AppendIs
<1>2. 1..Len(v) = 1..Len(s) \cup {Len(s) + 1}
  BY <1>1
<1>3. IsFiniteSet(S) /\ Len(s) + 1 \notin S
  <2>1. IsFiniteSet(S)
    BY CountFinite
  <2>2. Len(s) + 1 \notin S
    BY <1>1
  <2>. QED BY <2>1, <2>2
<1>. Num(s, a) = Cardinality(S) /\ Num(v, a) = Cardinality(V) /\ Num(s, a) \in Nat
  BY CountFinite DEF Num
<1>4. CASE m.type = a
  <2>1. V = S \cup {Len(s) + 1}
    BY <1>1, <1>2, <1>4
  <2>2. Cardinality(S \cup {Len(s) + 1}) = Cardinality(S) + 1
    BY <1>3, FS_AddElement
  <2>. QED BY <1>0, <1>4, <2>1, <2>2
<1>5. CASE m.type # a
  <2>1. V = S
    BY <1>1, <1>2, <1>5
  <2>. HIDE DEF S, V
  <2>. QED BY <1>0, <1>5, <2>1
<1>. QED BY <1>0, <1>4, <1>5

(* Taking a message counts one less of its type.                            *)
LEMMA CountTaken ==
  ASSUME NEW s \in Seq(Msg), s # << >>, NEW v, v = Tail(s), NEW a
  PROVE  Num(s, a) = IF Head(s).type = a THEN Num(v, a) + 1 ELSE Num(v, a)
<1>. DEFINE S == {i \in 1..Len(s) : s[i].type = a}
            V == {i \in 1..Len(v) : v[i].type = a}
            R == S \ {1}
            f == [i \in V |-> i + 1]
<1>1. /\ Len(s) \in Nat \ {0} /\ Len(v) = Len(s) - 1 /\ s[1] = Head(s)
      /\ v \in Seq(Msg)
      /\ \A i \in 1..Len(v) : v[i] = s[i + 1] /\ i + 1 \in 1..Len(s)
      /\ \A i \in 1..Len(s) : i # 1 => i - 1 \in 1..Len(v) /\ s[i] = v[i - 1]
  BY TailIs
<1>2. IsFiniteSet(S) /\ IsFiniteSet(V)
  BY <1>1, CountFinite
<1>. Num(s, a) = Cardinality(S) /\ Num(v, a) = Cardinality(V) /\ Num(v, a) \in Nat
  BY <1>1, CountFinite DEF Num
<1>3. \A i \in V : i \in Nat \ {0} /\ i + 1 \in R
  BY <1>1
<1>4. \A i \in R : i \in Int /\ i - 1 \in V /\ (i - 1) + 1 = i
  BY <1>1
<1>5. f \in [V -> R]
  BY <1>3
<1>6. \A i, j \in V : f[i] = f[j] => i = j
  BY <1>3
<1>7. \A r \in R : \E i \in V : f[i] = r
  <2>. SUFFICES ASSUME NEW r \in R PROVE \E i \in V : f[i] = r
    OBVIOUS
  <2>1. r - 1 \in V /\ f[r - 1] = r
    BY <1>4
  <2>. QED BY <2>1
<1>. HIDE DEF f, V, R
<1>8. f \in Bijection(V, R)
  BY <1>5, <1>6, <1>7 DEF Bijection, Injection, IsInjective, Surjection
<1>9. Cardinality(R) = Cardinality(V) /\ IsFiniteSet(R)
  BY <1>2, <1>8, FS_Bijection DEF ExistsBijection
<1>10. CASE Head(s).type = a
  <2>1. S = R \cup {1} /\ 1 \notin R
    BY <1>1, <1>10 DEF R
  <2>2. Cardinality(R \cup {1}) = Cardinality(R) + 1
    BY <1>9, <2>1, FS_AddElement
  <2>. QED BY <1>9, <1>10, <2>1, <2>2
<1>11. CASE Head(s).type # a
  <2>1. S = R
    BY <1>1, <1>11 DEF R
  <2>. HIDE DEF S
  <2>. QED BY <1>9, <1>11, <2>1
<1>. QED BY <1>10, <1>11

(* A message of another type does not count.                                *)
LEMMA CountStays ==
  ASSUME NEW s \in Seq(Msg), NEW v, NEW a,
         \/ v = s
         \/ \E m \in Msg : m.type # a /\ v = Append(s, m)
         \/ s # << >> /\ Head(s).type # a /\ v = Tail(s)
  PROVE  Num(v, a) = Num(s, a)
<1>1. ASSUME NEW m \in Msg, m.type # a, v = Append(s, m)
      PROVE  Num(v, a) = Num(s, a)
  BY <1>1, CountSent
<1>2. CASE s # << >> /\ Head(s).type # a /\ v = Tail(s)
  BY <1>2, CountTaken
<1>. QED BY <1>1, <1>2

(* The proxy listener counts, for every step.                               *)
LEMMA TokenStays ==
  ASSUME Types, TokenInv, ~ deleted' => ~ deleted, refs' >= refs, refs' \in Nat,
         Num(cmds', "unreg") = Num(cmds, "unreg"),
         Num(notes', "registered") = Num(notes, "registered"),
         job'.at = "acknowledge" => job.at = "acknowledge", Live' => Live
  PROVE  TokenInv'
<1>1. Num(cmds, "unreg") \in Nat /\ Num(notes, "registered") \in Nat /\ refs \in Nat
  BY CountFinite DEF Types
<1>. QED BY <1>1 DEF TokenInv, One

(* Every step keeps the balance of the subscriptions.                       *)
LEMMA TokenStep ==
  ASSUME Types, Types', ProvInv, SubInv, TokenInv, [MirrorNext]_mirrorVars
  PROVE  TokenInv'
<1>0. /\ cmds \in Seq(Msg) /\ notes \in Seq(Msg) /\ None \in Val
      /\ cmds' \in Seq(Msg) /\ notes' \in Seq(Msg) /\ refs \in Nat /\ refs' \in Nat
  BY DEF Types, Val
<1>1. /\ Num(cmds, "unreg") \in Nat /\ Num(notes, "registered") \in Nat
      /\ Num(cmds', "unreg") \in Nat /\ Num(notes', "registered") \in Nat
  BY <1>0, CountFinite
<1>2. ASSUME NEW type, Command(type)
      PROVE  /\ job.at = "wait"
             /\ Num(cmds, "unreg") = IF type = "unreg" THEN Num(cmds', "unreg") + 1
                                       ELSE Num(cmds', "unreg")
  <2>1. /\ cmds # << >> /\ cmds' = Tail(cmds) /\ job.at = "wait"
        /\ Head(cmds).type = type
    BY <1>2, CommandIs
  <2>2. Num(cmds, "unreg") = IF Head(cmds).type = "unreg"
                               THEN Num(cmds', "unreg") + 1
                               ELSE Num(cmds', "unreg")
    <3>1. cmds \in Seq(Msg) /\ cmds # << >> /\ cmds' = Tail(cmds)
      BY <1>0, <2>1
    <3>. QED BY ONLY <3>1, CountTaken
  <2>. QED BY ONLY <2>1, <2>2
<1>3. CASE OtherStep
  <2>1. OtherMoves
    BY <1>3, OthersMove
  <2>2. Num(cmds', "unreg") = Num(cmds, "unreg")
    BY <1>0, <2>1, CountStays DEF OtherMoves
  <2>3. Num(notes', "registered") = Num(notes, "registered")
    BY <1>0, <2>1, CountStays DEF OtherMoves
  <2>4. Live' => Live
    BY <2>1 DEF OtherMoves, Live
  <2>. QED BY <1>0, <2>1, <2>2, <2>3, <2>4, TokenStays DEF OtherMoves
<1>4. CASE HandleDelete
  <2>1. deleted' = TRUE
    BY <1>4 DEF HandleDelete
  <2>2. deleted'
    BY ONLY <2>1, Zenon
  <2>. QED BY <2>2 DEF TokenInv
<1>5. CASE HandleReg
  <2>1. /\ Command("reg") /\ job'.at # "acknowledge"
        /\ UNCHANGED <<refs, notes, mirror, sub, deleted>>
    BY <1>5 DEF HandleReg, NoJob, consumer, ends
  <2>2. Num(cmds, "unreg") = Num(cmds', "unreg")
    BY <1>2, <2>1
  <2>. QED BY <1>0, <1>1, <2>1, <2>2, TokenStays DEF Live
<1>6. CASE Register
  <2>1. /\ job.at = "register" /\ refs' = refs + 1
        /\ UNCHANGED <<cmds, notes, mirror, sub, deleted>>
    BY <1>6 DEF Register, consumer, ends
  <2>. QED BY <1>0, <1>1, <2>1 DEF TokenInv, One, Live
<1>7. CASE Acknowledge
  <2>1. /\ job.at = "acknowledge" /\ job'.at = "wait" /\ job.copy \in Val
        /\ notes' = Append(notes, Message("registered", job.copy))
        /\ UNCHANGED <<cmds, refs, mirror, sub, deleted>>
    BY <1>7 DEF Acknowledge, NoJob, consumer, ends, Types, JobState
  <2>2. PICK m \in Msg : notes' = Append(notes, m) /\ m.type = "registered"
    BY <2>1, Messages DEF MsgTypes
  <2>3. Num(notes', "registered") = Num(notes, "registered") + 1
    BY <1>0, <2>2, CountSent
  <2>. QED BY <1>0, <1>1, <2>1, <2>3 DEF TokenInv, One, Live
<1>8. CASE HandleUnreg
  <2>1. /\ Command("unreg") /\ job' = job /\ refs' >= refs - 1
        /\ \/ notes' = notes
           \/ notes' = Append(notes, Message("unregistered", None))
        /\ UNCHANGED <<mirror, sub, deleted>>
    BY <1>0, <1>8 DEF HandleUnreg, Unref, consumer, ends
  <2>2. Num(cmds, "unreg") = Num(cmds', "unreg") + 1
    BY <1>2, <2>1
  <2>3. PICK m \in Msg : /\ m = Message("unregistered", None)
                         /\ m.type # "registered"
    BY <1>0, Messages DEF MsgTypes
  <2>4. Num(notes', "registered") = Num(notes, "registered")
    <3>1. notes' = notes \/ notes' = Append(notes, m)
      BY <2>1, <2>3
    <3>2. CASE notes' = notes
      BY <3>2
    <3>3. CASE notes' = Append(notes, m)
      BY <1>0, <2>3, <3>3, CountSent
    <3>. QED BY <3>1, <3>2, <3>3
  <2>5. PICK j \in Nat, l \in Nat :
          /\ j = One(job.at = "acknowledge") /\ j = One(job.at = "acknowledge")'
          /\ l = One(Live) /\ l = One(Live)'
    BY <2>1 DEF One, Live
  <2>6. ~ deleted' =>
          refs >= Num(cmds, "unreg") + Num(notes, "registered") + j + l
    BY <2>1, <2>5 DEF TokenInv
  <2>7. ~ deleted' =>
          refs' >= Num(cmds', "unreg") + Num(notes', "registered") + j + l
    <3>1. refs' >= refs - 1 /\ j \in Nat /\ l \in Nat
      BY <2>1
    <3>2. ASSUME NEW a \in Nat, NEW b \in Nat, NEW c \in Nat, NEW r \in Nat,
                 NEW q \in Nat, a = b + 1, r >= a + c + j + l, q >= r - 1
          PROVE  q >= b + c + j + l
      BY ONLY <3>1, <3>2
    <3>. QED BY <1>0, <1>1, <2>2, <2>4, <2>6, <3>1, <3>2, Zenon
  <2>. QED BY <2>5, <2>7 DEF TokenInv
<1>9. CASE MirrorRemoteProperty \/ Merge \/ MirrorTimeout \/ TakeDelete
  <2>1. /\ \/ cmds' = cmds
           \/ cmds' = Append(cmds, Message("reg", None))
        /\ \/ notes' = notes
           \/ notes # << >> /\ Head(notes).type = "deleted" /\ notes' = Tail(notes)
        /\ UNCHANGED <<refs, job, deleted>>
    BY <1>9 DEF MirrorRemoteProperty, Merge, MirrorTimeout, TakeDelete, Send,
       Notification, provider, ends
  <2>2. Message("reg", None) \in Msg /\ Message("reg", None).type = "reg"
    BY <1>0, Messages DEF MsgTypes
  <2>3. Num(cmds', "unreg") = Num(cmds, "unreg")
    BY <1>0, <2>1, <2>2, CountStays
  <2>4. Num(notes', "registered") = Num(notes, "registered")
    BY <1>0, <2>1, CountStays
  <2>5. Live' => Live
    <3>1. CASE MirrorRemoteProperty
      <4>1. mirror'.ev = FALSE /\ sub' = FALSE
        BY <3>1 DEF MirrorRemoteProperty, NoSub
      <4>2. ~ mirror'.ev /\ ~ sub'
        BY ONLY <4>1, Zenon
      <4>. QED BY <4>2 DEF Live
    <3>2. CASE Merge
      BY <3>2 DEF Merge, Live
    <3>3. CASE MirrorTimeout
      BY <3>3 DEF MirrorTimeout, NoSub, Live
    <3>4. CASE TakeDelete
      <4>1. sub' = (IF sub THEN FALSE ELSE sub) /\ mirror' = mirror
        BY <3>4 DEF TakeDelete
      <4>2. ~ sub' 
        BY ONLY <4>1, Zenon
      <4>. QED BY <4>1, <4>2 DEF Live
    <3>. QED BY <1>9, <3>1, <3>2, <3>3, <3>4
  <2>. QED BY <1>0, <2>1, <2>3, <2>4, <2>5, TokenStays
<1>10. CASE UnmirrorRemoteProperty
  <2>1. /\ mirror = NoSub /\ sub /\ UNCHANGED <<notes, refs, job, deleted>>
        /\ \/ Send("unreg", None) /\ mirror' = [NoSub EXCEPT !.at = "unmirror"]
           \/ UNCHANGED <<cmds, mirror>>
    BY <1>10 DEF UnmirrorRemoteProperty, provider
  <2>2. ~ Live' /\ Live
    <3>1. sub' = FALSE
      BY <1>10 DEF UnmirrorRemoteProperty
    <3>2. ~ sub'
      BY ONLY <3>1, Zenon
    <3>3. mirror'.at # "mirror"
      BY <2>1 DEF NoSub
    <3>. QED BY <2>1, <3>2, <3>3 DEF Live
  <2>3. PICK m \in Msg : m = Message("unreg", None) /\ m.type = "unreg"
    BY <1>0, Messages DEF MsgTypes
  <2>4. CASE cmds' = Append(cmds, m)
    <3>1. Num(cmds', "unreg") = Num(cmds, "unreg") + 1
      BY <1>0, <2>3, <2>4, CountSent
    <3>. QED BY <1>0, <1>1, <2>1, <2>2, <3>1 DEF TokenInv, One
  <2>5. CASE cmds' = cmds
    BY <1>0, <1>1, <2>1, <2>2, <2>5, TokenStays
  <2>. QED BY <2>1, <2>3, <2>4, <2>5 DEF Send
<1>11. CASE TakeAck("registered", "mirror")
  <2>1. /\ notes # << >> /\ Head(notes).type = "registered" /\ notes' = Tail(notes)
        /\ UNCHANGED <<refs, job, cmds, deleted>>
    BY <1>11 DEF TakeAck, Notification, provider, ends
  <2>2. Num(notes, "registered") = Num(notes', "registered") + 1
    BY <1>0, <2>1, CountTaken
  <2>. QED BY SMTT(30), <1>0, <1>1, <2>1, <2>2 DEF TokenInv, One
<1>. QED BY <1>3, <1>4, <1>5, <1>6, <1>7, <1>8, <1>9, <1>10, <1>11
     DEF MirrorNext, Provider, Consumer, OtherStep

(* The balance of the subscriptions holds initially.                        *)
LEMMA TokenStart ==
  ASSUME MirrorInit PROVE TokenInv
<1>1. /\ cmds = << >> /\ notes = << >> /\ job = NoJob /\ mirror = NoSub
      /\ refs = 0 /\ mirror.at = "idle" /\ job.at = "wait"
  BY DEF MirrorInit, NoSub, NoJob
<1>2. ~ sub
  <2>1. sub = FALSE
    BY DEF MirrorInit
  <2>. QED BY ONLY <2>1, Zenon
<1>3. /\ {i \in 1..Len(cmds) : cmds[i].type = "unreg"} = {}
      /\ {i \in 1..Len(notes) : notes[i].type = "registered"} = {}
  BY <1>1
<1>4. Num(cmds, "unreg") = 0 /\ Num(notes, "registered") = 0
  BY <1>3, FS_EmptySet DEF Num
<1>. QED BY <1>1, <1>2, <1>4 DEF TokenInv, One, Live

-----------------------------------------------------------------------------
(* The copy follows.                                                        *)

(* What has happened stays noted.                                           *)
HistoryStays ==
  (raced => raced') /\ (leaked => leaked') /\ (deleted => deleted')

(* What has happened stays so.                                              *)
LEMMA HistoryStep ==
  ASSUME [MirrorNext]_mirrorVars PROVE HistoryStays
<1>. USE DEF MirrorNext, Provider, Consumer
<1>1. raced => raced'
  <2>1. \/ raced' = raced
        \/ \E t \in Writers : \E x : Compare(t, x)
    BY DEF Assign, Notify, Write, HandleGet, HandleSet, AnswerSet, HandleDelete,
       HandleReg, Register, Acknowledge, HandleUnreg, GetRemoteProperty,
       SetRemoteProperty, SendOnly, AccessReturns, MirrorRemoteProperty, Merge,
       MirrorTimeout, UnmirrorRemoteProperty, UnmirrorReturns, TakeAnswer, Answer,
       TakeAck, TakeChange, TakeDelete, Notification, Writers, mirrorVars
  <2>2. ASSUME NEW t \in Writers, NEW x, Compare(t, x) PROVE raced => raced'
    <3>1. raced' = (raced \/ \E u \in Writers : writing[u] # Resting)
      BY <2>2 DEF Compare
    <3>. QED BY ONLY <3>1, Zenon
  <2>. QED BY <2>1, <2>2
<1>2. leaked => leaked'
  <2>1. \/ leaked' = leaked \/ leaked' = TRUE
        \/ leaked' = (leaked \/ sub)
    BY DEF Assign, Notify, Write, HandleGet, HandleSet, AnswerSet, HandleDelete,
       HandleReg, Register, Acknowledge, HandleUnreg, GetRemoteProperty,
       SetRemoteProperty, SendOnly, AccessReturns, MirrorRemoteProperty, Merge,
       MirrorTimeout, UnmirrorRemoteProperty, UnmirrorReturns, TakeAnswer, Answer,
       TakeAck, TakeChange, TakeDelete, Notification, ends, mirrorVars
  <2>. QED BY ONLY <2>1, Zenon
<1>3. deleted => deleted'
  <2>1. deleted' = deleted \/ deleted' = TRUE
    BY DEF Assign, Notify, Write, HandleGet, HandleSet, AnswerSet, HandleDelete,
       HandleReg, Register, Acknowledge, HandleUnreg, GetRemoteProperty,
       SetRemoteProperty, SendOnly, AccessReturns, MirrorRemoteProperty, Merge,
       MirrorTimeout, UnmirrorRemoteProperty, UnmirrorReturns, TakeAnswer, Answer,
       TakeAck, TakeChange, TakeDelete, Notification, ends, mirrorVars
  <2>. QED BY ONLY <2>1, Zenon
<1>. QED BY <1>1, <1>2, <1>3 DEF HistoryStays

(* Every step keeps the invariant of the writes.                            *)
LEMMA WriteStep ==
  ASSUME Types, ProvInv, WriteInv, [MirrorNext]_mirrorVars
  PROVE  WriteInv'
<1>0. HistoryStays /\ Resting.at = "rest"
  BY HistoryStep DEF Resting
<1>. SUFFICES ASSUME ~ raced'
              PROVE  /\ \A t, u \in Writers :
                          writing'[t].at # "rest" /\ writing'[u].at # "rest" => t = u
                     /\ \A t \in Writers : writing'[t].at = "assign" =>
                          (writing'[t].note <=> writing'[t].new # value')
  BY DEF WriteInv
<1>1. /\ \A t, u \in Writers :
           writing[t].at # "rest" /\ writing[u].at # "rest" => t = u
      /\ \A t \in Writers : writing[t].at = "assign" =>
           (writing[t].note <=> writing[t].new # value)
  BY <1>0 DEF WriteInv, HistoryStays
<1>2. ASSUME NEW t \in Writers, NEW x \in Val, Compare(t, x)
      PROVE  /\ \A u, w \in Writers :
                  writing'[u].at # "rest" /\ writing'[w].at # "rest" => u = w
             /\ \A u \in Writers : writing'[u].at = "assign" =>
                  (writing'[u].note <=> writing'[u].new # value')
  <2>1. \A u \in Writers : writing[u] = Resting
    <3>1. raced' = (raced \/ \E u \in Writers : writing[u] # Resting)
      BY <1>2 DEF Compare
    <3>2. ~ \E u \in Writers : writing[u] # Resting
      BY ONLY <3>1, ~ raced', Zenon
    <3>. QED BY <3>2
  <2>2. /\ \/ value = None /\ writing' = writing
           \/ /\ value' = value /\ writing'[t].new = x
              /\ writing'[t].note <=> x # value
        /\ \A u \in Writers : u # t => writing'[u] = writing[u]
    BY <1>2, CompareIs
  <2>. QED BY <1>0, <2>1, <2>2
<1>3. ASSUME NEW t \in Writers, Assign(t) \/ Notify(t)
      PROVE  /\ \A u, w \in Writers :
                  writing'[u].at # "rest" /\ writing'[w].at # "rest" => u = w
             /\ \A u \in Writers : writing'[u].at # "assign"
  <2>1. /\ writing[t].at \in {"assign", "notify"}
        /\ writing'[t].at = "notify" \/ writing'[t] = Resting
        /\ \A u \in Writers : u # t => writing'[u] = writing[u]
    BY <1>3, AssignIs, NotifyIs
  <2>2. \A u \in Writers : u # t => writing'[u].at = "rest"
    BY <1>1, <2>1
  <2>. QED BY <1>0, <2>1, <2>2
<1>4. CASE HandleDelete
  <2>1. writing' = writing /\ writing["user"] = Resting /\ job = NoJob
    BY <1>4 DEF HandleDelete, Command
  <2>2. writing["handler"].at = "rest"
    BY <2>1 DEF ProvInv, NoJob
  <2>. QED BY <1>0, <2>1, <2>2 DEF Writers
<1>5. ASSUME NEW x \in Values, Write(x)
      PROVE  \E t \in Writers, y \in Val : Compare(t, y)
  BY <1>5 DEF Write, Writers, Val
<1>6. CASE HandleSet
  <2>1. Command("set") /\ Compare("handler", Head(cmds).v)
    BY <1>6 DEF HandleSet
  <2>2. Head(cmds).v \in Val
    BY <2>1, CommandIs
  <2>3. \E t \in Writers, y \in Val : Compare(t, y)
    BY <2>1, <2>2 DEF Writers
  <2>. QED BY <1>2, <2>3
<1>7. CASE UNCHANGED <<value, writing>>
  BY <1>1, <1>7
<1>8. \/ \E t \in Writers : Assign(t) \/ Notify(t)
      \/ \E x \in Values : Write(x)
      \/ HandleSet \/ HandleDelete \/ UNCHANGED <<value, writing>>
  BY DEF MirrorNext, Provider, Consumer, HandleGet, AnswerSet,
     HandleReg, Register, Acknowledge, HandleUnreg, GetRemoteProperty,
     SetRemoteProperty, SendOnly, AccessReturns, MirrorRemoteProperty, Merge,
     MirrorTimeout, UnmirrorRemoteProperty, UnmirrorReturns, TakeAnswer, Answer,
     TakeAck, TakeChange, TakeDelete, Notification, provider, mirrorVars
<1>. QED BY <1>2, <1>3, <1>4, <1>5, <1>6, <1>7, <1>8

(* A step that neither sends nor takes a notification.                      *)
LEMMA FollowStays ==
  ASSUME Types, FollowInv, HistoryStays, notes' = notes,
         value' = value \/ refs = 0 \/ Notifying',
         Notifying => Notifying' \/ refs = 0,
         refs > 0 => refs' > 0, refs \in Nat,
         Live' => Live, sub' /\ heard' => sub /\ heard /\ local' = local
  PROVE  FollowInv'
<1>. SUFFICES ASSUME ~ raced', ~ (leaked' /\ deleted')
              PROVE  /\ sub' /\ heard' => HeardInv'
                     /\ \A i \in 1..Len(notes') :
                          notes'[i].type = "changed" /\ Alive(i)' => ComingInv(i)'
  BY DEF FollowInv
<1>1. /\ sub /\ heard => HeardInv
      /\ \A i \in 1..Len(notes) :
           notes[i].type = "changed" /\ Alive(i) => ComingInv(i)
  BY DEF FollowInv, HistoryStays
<1>2. ASSUME sub', heard' PROVE HeardInv'
  <2>1. HeardInv /\ local' = local
    BY <1>1, <1>2
  <2>. QED BY <2>1 DEF HeardInv
<1>3. ASSUME NEW i \in 1..Len(notes), notes[i].type = "changed", Alive(i)'
      PROVE  ComingInv(i)'
  <2>1. Alive(i)
    BY <1>3 DEF Alive
  <2>2. ComingInv(i)
    BY <1>1, <1>3, <2>1
  <2>. QED BY <2>2 DEF ComingInv
<1>. QED BY <1>2, <1>3

(* A notification is sent: whatever it is, it comes after the others.       *)
LEMMA FollowSends ==
  ASSUME Types, FollowInv, HistoryStays, NEW m \in Msg, notes' = Append(notes, m),
         UNCHANGED <<mirror, sub, local, heard>>,
         \/ m.type = "deleted"
         \/ m.type = "changed" /\ m.v = value' /\ refs' > 0
         \/ /\ m.type \notin {"changed", "deleted"}
            /\ value' = value /\ (Notifying => Notifying')
            /\ \/ refs > 0 => refs' > 0
               \/ ~ Live /\ Lacks(notes, "registered")
  PROVE  FollowInv'
<1>. SUFFICES ASSUME ~ raced', ~ (leaked' /\ deleted')
              PROVE  /\ sub' /\ heard' => HeardInv'
                     /\ \A i \in 1..Len(notes') :
                          notes'[i].type = "changed" /\ Alive(i)' => ComingInv(i)'
  BY DEF FollowInv
<1>1. /\ sub /\ heard => HeardInv
      /\ \A i \in 1..Len(notes) :
           notes[i].type = "changed" /\ Alive(i) => ComingInv(i)
  BY DEF FollowInv, HistoryStays
<1>2. /\ Len(notes') = Len(notes) + 1 /\ Len(notes) \in Nat
      /\ notes'[Len(notes) + 1] = m
      /\ \A i \in 1..Len(notes) : notes'[i] = notes[i]
  BY AppendIs DEF Types
<1>3. \A a : Lacks(notes', a) <=> Lacks(notes, a) /\ m.type # a
  BY Sent DEF Types
<1>4. Live' <=> Live
  BY DEF Live
<1>5. 1..Len(notes') = 1..Len(notes) \cup {Len(notes) + 1}
  BY <1>2
<1>6. ASSUME NEW i \in 1..Len(notes), NEW a
      PROVE  Later(notes', i, a) <=> Later(notes, i, a) \/ m.type = a
  <2>1. Len(notes) + 1 > i
    BY <1>2
  <2>. QED BY <1>2, <1>5, <2>1 DEF Later
<1>7. ASSUME NEW i \in 1..Len(notes), Alive(i)' PROVE Alive(i)
  <2>1. \A j \in 1..Len(notes') : j < i => j \in 1..Len(notes) /\ notes'[j] = notes[j]
    BY <1>2
  <2>. QED BY <1>4, <1>7, <2>1 DEF Alive
<1>8. ASSUME sub', heard' PROVE HeardInv'
  <2>1. HeardInv /\ Live
    BY <1>1, <1>8 DEF Live
  <2>. QED BY <1>3, <2>1 DEF HeardInv
<1>9. ASSUME NEW i \in 1..Len(notes), notes'[i].type = "changed", Alive(i)'
      PROVE  ComingInv(i)'
  <2>1. Alive(i) /\ notes'[i] = notes[i]
    BY <1>2, <1>7, <1>9
  <2>2. ComingInv(i)
    BY <1>1, <1>9, <2>1
  <2>3. Live \/ ~ Lacks(notes, "registered")
    BY <2>1 DEF Alive, Lacks
  <2>4. /\ Later(notes', i, "changed") <=> Later(notes, i, "changed") \/ m.type = "changed"
        /\ Later(notes', i, "deleted") <=> Later(notes, i, "deleted") \/ m.type = "deleted"
    BY <1>6
  <2>. QED BY <2>1, <2>2, <2>3, <2>4 DEF ComingInv
<1>10. ASSUME NEW i \in 1..Len(notes'), i = Len(notes) + 1, notes'[i].type = "changed"
       PROVE  ComingInv(i)'
  <2>1. notes'[i] = m /\ m.v = value' /\ refs' > 0
    BY <1>2, <1>10
  <2>. QED BY <2>1 DEF ComingInv
<1>. QED BY <1>2, <1>5, <1>8, <1>9, <1>10

(* The first notification is taken.                                         *)
LEMMA FollowTakes ==
  ASSUME Types, FollowInv, HistoryStays, notes # << >>, notes' = Tail(notes),
         UNCHANGED <<value, refs, writing>>,
         Live' => Live \/ Head(notes).type = "registered",
         sub' /\ heard' =>
           \/ Head(notes).type = "changed" /\ sub /\ local' = Head(notes).v
           \/ /\ Head(notes).type \notin {"changed", "deleted"}
              /\ sub /\ heard /\ local' = local
  PROVE  FollowInv'
<1>. SUFFICES ASSUME ~ raced', ~ (leaked' /\ deleted')
              PROVE  /\ sub' /\ heard' => HeardInv'
                     /\ \A i \in 1..Len(notes') :
                          notes'[i].type = "changed" /\ Alive(i)' => ComingInv(i)'
  BY DEF FollowInv
<1>1. /\ sub /\ heard => HeardInv
      /\ \A i \in 1..Len(notes) :
           notes[i].type = "changed" /\ Alive(i) => ComingInv(i)
  BY DEF FollowInv, HistoryStays
<1>2. /\ Len(notes) \in Nat \ {0} /\ Len(notes') = Len(notes) - 1
      /\ notes[1] = Head(notes)
      /\ \A i \in 1..Len(notes') : notes'[i] = notes[i + 1] /\ i + 1 \in 1..Len(notes)
      /\ \A i \in 1..Len(notes) :
           i # 1 => i - 1 \in 1..Len(notes') /\ notes[i] = notes'[i - 1]
  BY TailIs DEF Types
<1>3. \A a : Lacks(notes, a) <=> Lacks(notes', a) /\ Head(notes).type # a
  BY Taken DEF Types
<1>4. Notifying' <=> Notifying
  BY DEF Notifying
<1>5. ASSUME NEW i \in 0..Len(notes'), NEW a
      PROVE  Later(notes', i, a) <=> Later(notes, i + 1, a)
  <2>1. ASSUME NEW j \in 1..Len(notes'), j > i
        PROVE  j + 1 \in 1..Len(notes) /\ j + 1 > i + 1 /\ notes[j + 1] = notes'[j]
    BY <1>2, <2>1
  <2>2. ASSUME NEW j \in 1..Len(notes), j > i + 1
        PROVE  j - 1 \in 1..Len(notes') /\ j - 1 > i /\ notes'[j - 1] = notes[j]
    BY <1>2, <2>2
  <2>. QED BY <2>1, <2>2 DEF Later
<1>6. ASSUME NEW i \in 1..Len(notes'), Alive(i)' PROVE Alive(i + 1)
  <2>1. 1 \in 1..Len(notes) /\ 1 < i + 1
    BY <1>2
  <2>2. \A j \in 1..Len(notes') : j < i =>
          j + 1 \in 1..Len(notes) /\ j + 1 < i + 1 /\ notes[j + 1] = notes'[j]
    BY <1>2
  <2>3. CASE Live'
    BY <1>2, <2>1, <2>3 DEF Alive
  <2>4. CASE \E j \in 1..Len(notes') : j < i /\ notes'[j].type = "registered"
    BY <2>2, <2>4 DEF Alive
  <2>. QED BY <1>6, <2>3, <2>4 DEF Alive
<1>7. ASSUME NEW i \in 1..Len(notes'), notes'[i].type = "changed", Alive(i)'
      PROVE  ComingInv(i)'
  <2>1. ComingInv(i + 1)
    BY <1>1, <1>2, <1>6, <1>7
  <2>2. i \in 0..Len(notes')
    BY <1>2
  <2>3. /\ Later(notes', i, "changed") <=> Later(notes, i + 1, "changed")
        /\ Later(notes', i, "deleted") <=> Later(notes, i + 1, "deleted")
    BY <1>5, <2>2
  <2>. QED BY <1>2, <1>4, <2>1, <2>3 DEF ComingInv
<1>8. ASSUME sub', heard' PROVE HeardInv'
  <2>1. CASE Head(notes).type \notin {"changed", "deleted"} 
    <3>1. HeardInv /\ local' = local
      BY <1>1, <1>8, <2>1
    <3>2. /\ Lacks(notes, "changed") <=> Lacks(notes', "changed")
          /\ Lacks(notes, "deleted") <=> Lacks(notes', "deleted")
      BY <1>3, <2>1
    <3>. QED BY <1>4, <3>1, <3>2 DEF HeardInv
  <2>2. CASE Head(notes).type = "changed" /\ sub /\ local' = Head(notes).v
    <3>1. 1 \in 1..Len(notes) /\ Alive(1)
      BY <1>2, <2>2 DEF Alive, Live
    <3>2. ComingInv(1)
      BY <1>1, <1>2, <2>2, <3>1
    <3>3. 0 \in 0..Len(notes') /\ 0 + 1 = 1
      BY <1>2
    <3>4. /\ Later(notes', 0, "changed") <=> Later(notes, 1, "changed")
          /\ Later(notes', 0, "deleted") <=> Later(notes, 1, "deleted")
      BY <1>5, <3>3
    <3>5. /\ Later(notes', 0, "changed") <=> ~ Lacks(notes', "changed")
          /\ Later(notes', 0, "deleted") <=> ~ Lacks(notes', "deleted")
      BY <1>2 DEF Later, Lacks
    <3>. QED BY <1>2, <1>4, <2>2, <3>2, <3>4, <3>5 DEF ComingInv, HeardInv
  <2>. QED BY <1>8, <2>1, <2>2
<1>. QED BY <1>7, <1>8

(* The provider sets the value and tells.                                   *)
LEMMA FollowWrites ==
  ASSUME Types, ProvInv, WriteInv, FollowInv, HistoryStays,
         \/ \E t \in Writers : Assign(t) \/ Notify(t)
         \/ \E x \in Values : Write(x)
         \/ HandleSet
  PROVE  FollowInv'
<1>0. refs \in Nat /\ value \in Val /\ notes \in Seq(Msg)
  BY DEF Types
<1>1. ASSUME NEW t \in Writers, NEW x \in Val, Compare(t, x),
             UNCHANGED <<refs, notes, mirror, sub, local, heard>>
      PROVE  FollowInv'
  <2>1. /\ writing[t].at = "rest" /\ (value' = value \/ value = None)
        /\ \A u \in Writers : u # t => writing'[u] = writing[u]
    BY <1>1, CompareIs
  <2>2. value' = value \/ refs = 0
    BY <1>0, <2>1 DEF ProvInv
  <2>3. Notifying => Notifying'
    BY <2>1 DEF Notifying
  <2>. QED BY <1>0, <1>1, <2>2, <2>3, FollowStays DEF Live
<1>2. ASSUME NEW x \in Values, Write(x) PROVE FollowInv'
  <2>1. "user" \in Writers /\ x \in Val
    BY DEF Writers, Val
  <2>. QED BY <1>1, <1>2, <2>1 DEF Write
<1>3. CASE HandleSet
  <2>1. /\ Command("set") /\ Compare("handler", Head(cmds).v)
        /\ UNCHANGED <<refs, notes, mirror, sub, local, heard>>
    BY <1>3 DEF HandleSet
  <2>2. Head(cmds).v \in Val /\ "handler" \in Writers
    BY <2>1, CommandIs DEF Writers
  <2>. QED BY <1>1, <2>1, <2>2
<1>4. ASSUME NEW t \in Writers, Assign(t) PROVE FollowInv'
  <2>1. /\ writing[t].at = "assign" /\ value' = writing[t].new
        /\ \/ writing[t].note /\ writing'[t].at = "notify"
           \/ ~ writing[t].note
        /\ \A u \in Writers : u # t => writing'[u] = writing[u]
        /\ UNCHANGED <<refs, notes, mirror, sub, local, heard, raced>>
    BY <1>4, AssignIs DEF Assign
  <2>2. CASE raced
    BY <2>1, <2>2 DEF FollowInv
  <2>3. CASE ~ raced
    <3>1. value' = value \/ Notifying'
      BY <2>1, <2>3 DEF WriteInv, Notifying
    <3>2. Notifying => Notifying'
      BY <2>1 DEF Notifying
    <3>. QED BY <1>0, <2>1, <3>1, <3>2, FollowStays DEF Live
  <2>. QED BY <2>2, <2>3
<1>5. ASSUME NEW t \in Writers, Notify(t) PROVE FollowInv'
  <2>1. /\ notes' = IF refs > 0 THEN Append(notes, Message("changed", value))
                    ELSE notes
        /\ UNCHANGED <<value, refs, mirror, sub, local, heard>>
    BY <1>5, NotifyIs DEF consumer
  <2>2. CASE refs > 0
    <3>1. PICK m \in Msg : m = Message("changed", value) /\ m.type = "changed" /\ m.v = value
      BY <1>0, Messages DEF MsgTypes
    <3>. QED BY <2>1, <2>2, <3>1, FollowSends
  <2>3. CASE refs = 0
    BY <1>0, <2>1, <2>3, FollowStays DEF Live
  <2>. QED BY <1>0, <2>2, <2>3
<1>. QED BY <1>2, <1>3, <1>4, <1>5

(* A withdrawal ends no subscription that another acknowledgement stands    *)
(* for.                                                                     *)
LEMMA WithdrawalIsOwn ==
  ASSUME Types, SubInv, TokenInv, ~ (leaked /\ deleted), Command("unreg"),
         Live \/ ~ Lacks(notes, "registered")
  PROVE  refs > 1
<1>0. /\ cmds \in Seq(Msg) /\ notes \in Seq(Msg) /\ refs \in Nat
      /\ cmds # << >> /\ cmds' = Tail(cmds) /\ Head(cmds).type = "unreg"
  BY CommandIs DEF Types
<1>1. ~ Lacks(cmds, "unreg")
  BY CommandIs DEF Lacks
<1>2. ~ (~ leaked)
  <2>. SUFFICES ASSUME ~ leaked PROVE FALSE
    OBVIOUS
  <2>1. ~ Live /\ ~ Lacks(notes, "registered")
    BY <1>1 DEF SubInv, LiveInv
  <2>2. WaitInv
    BY <2>1 DEF SubInv, GoneInv, Live
  <2>. QED BY <1>1, <2>1, <2>2 DEF WaitInv
<1>3. /\ Num(cmds, "unreg") >= 1 /\ Num(cmds, "unreg") \in Nat
      /\ Num(notes, "registered") \in Nat
  <2>1. cmds' \in Seq(Msg)
    BY <1>0, TailIs
  <2>2. Num(cmds, "unreg") = Num(cmds', "unreg") + 1
    BY <1>0, CountTaken
  <2>3. Num(cmds', "unreg") \in Nat /\ Num(notes, "registered") \in Nat
    BY <1>0, <2>1, CountFinite
  <2>. QED BY <2>2, <2>3
<1>4. Lacks(notes, "registered") \/ Num(notes, "registered") >= 1
  <2>. SUFFICES ASSUME Num(notes, "registered") = 0 PROVE Lacks(notes, "registered")
    BY <1>3
  <2>. DEFINE R == {i \in 1..Len(notes) : notes[i].type = "registered"}
  <2>1. IsFiniteSet(R)
    BY <1>0, CountFinite
  <2>2. Cardinality(R) = 0
    BY DEF Num
  <2>. HIDE DEF R
  <2>3. R = {}
    BY <2>1, <2>2, FS_EmptySet
  <2>. QED BY <2>3 DEF R, Lacks
<1>5. refs >= Num(cmds, "unreg") + Num(notes, "registered") + One(Live)
  BY <1>0, <1>2, <1>3 DEF TokenInv, One
<1>. QED BY <1>0, <1>3, <1>4, <1>5 DEF One

(* The provider handles its other commands.                                 *)
LEMMA FollowHandlers ==
  ASSUME Types, ProvInv, SubInv, TokenInv, FollowInv, HistoryStays,
         \/ HandleGet \/ AnswerSet \/ HandleDelete
         \/ HandleReg \/ Register \/ Acknowledge \/ HandleUnreg
  PROVE  FollowInv'
<1>0. /\ refs \in Nat /\ value \in Val /\ None \in Val
      /\ UNCHANGED <<mirror, sub, local, heard, writing>>
      /\ Notifying => Notifying'
  BY DEF Types, Val, HandleGet, AnswerSet, HandleDelete, HandleReg, Register,
     Acknowledge, HandleUnreg, consumer, provider, Notifying
<1>1. CASE HandleGet \/ AnswerSet
  <2>1. /\ notes' = notes \/ notes' = Append(notes, Message("property", value))
        /\ UNCHANGED <<value, refs>>
    BY <1>1 DEF HandleGet, AnswerSet, provider
  <2>2. PICK m \in Msg : m = Message("property", value) /\ m.type = "property"
    BY <1>0, Messages DEF MsgTypes
  <2>3. CASE notes' = notes
    BY <1>0, <2>1, <2>3, FollowStays DEF Live
  <2>4. CASE notes' = Append(notes, m)
    BY <1>0, <2>1, <2>2, <2>4, FollowSends
  <2>. QED BY <2>1, <2>2, <2>3, <2>4
<1>2. CASE HandleDelete
  <2>1. notes' = IF refs > 0 THEN Append(notes, Message("deleted", None)) ELSE notes
    BY <1>2 DEF HandleDelete
  <2>2. PICK m \in Msg : m = Message("deleted", None) /\ m.type = "deleted"
    BY <1>0, Messages DEF MsgTypes
  <2>3. CASE refs > 0
    BY <1>0, <2>1, <2>2, <2>3, FollowSends
  <2>4. CASE refs = 0
    BY <1>0, <2>1, <2>4, FollowStays DEF Live
  <2>. QED BY <1>0, <2>3, <2>4
<1>3. CASE HandleReg \/ Register
  <2>1. notes' = notes /\ value' = value /\ (refs > 0 => refs' > 0)
    BY <1>0, <1>3 DEF HandleReg, Register
  <2>. QED BY <1>0, <2>1, FollowStays DEF Live
<1>4. CASE Acknowledge
  <2>1. /\ notes' = Append(notes, Message("registered", job.copy))
        /\ UNCHANGED <<value, refs>> /\ job.copy \in Val
    BY <1>4 DEF Acknowledge, Types, JobState
  <2>2. PICK m \in Msg : m = Message("registered", job.copy) /\ m.type = "registered"
    BY <2>1, Messages DEF MsgTypes
  <2>. QED BY <1>0, <2>1, <2>2, FollowSends
<1>5. CASE HandleUnreg
  <2>1. /\ Command("unreg") /\ value' = value /\ UNCHANGED ends
        /\ \/ refs' = refs /\ notes' = notes
           \/ /\ refs' = refs - 1
              /\ notes' = Append(notes, Message("unregistered", None))
    BY <1>5 DEF HandleUnreg, Unref
  <2>2. PICK m \in Msg : m = Message("unregistered", None) /\ m.type = "unregistered"
    BY <1>0, Messages DEF MsgTypes
  <2>3. CASE refs' = refs /\ notes' = notes
    BY <1>0, <2>1, <2>3, FollowStays DEF Live
  <2>4. CASE refs' = refs - 1 /\ notes' = Append(notes, m)
    <3>1. CASE leaked /\ deleted
      BY <2>1, <3>1 DEF FollowInv, ends
    <3>2. CASE ~ (leaked /\ deleted)
      <4>1. refs > 1 \/ (~ Live /\ Lacks(notes, "registered"))
        BY <2>1, <3>2, WithdrawalIsOwn
      <4>2. (refs > 0 => refs' > 0) \/ (~ Live /\ Lacks(notes, "registered"))
        BY <1>0, <2>4, <4>1
      <4>. QED BY <1>0, <2>1, <2>2, <2>4, <4>2, FollowSends
    <3>. QED BY <3>1, <3>2
  <2>. QED BY <2>1, <2>2, <2>3, <2>4
<1>. QED BY <1>1, <1>2, <1>3, <1>4, <1>5

(* The consumer calls, or is told.                                          *)
LEMMA FollowConsumer ==
  ASSUME Types, SubInv, FollowInv, HistoryStays, Consumer \/ UNCHANGED mirrorVars
  PROVE  FollowInv'
<1>0. UNCHANGED <<value, refs, writing>> /\ refs \in Nat /\ (Notifying <=> Notifying')
  <2>1. UNCHANGED <<value, refs, writing>>
    <3>1. Consumer => UNCHANGED provider
      BY ConsumerIs DEF ConsumerMoves
    <3>. QED BY <3>1 DEF provider, mirrorVars
  <2>. QED BY <2>1 DEF Types, Notifying
<1>1. CASE \/ GetRemoteProperty \/ (\E x \in Values : SetRemoteProperty(x))
           \/ SendOnly \/ AccessReturns \/ UnmirrorReturns \/ MirrorTimeout
           \/ UNCHANGED mirrorVars
  <2>1. /\ UNCHANGED <<notes, sub, local, heard>>
        /\ mirror' = mirror \/ mirror' = NoSub
    BY <1>1 DEF GetRemoteProperty, SetRemoteProperty, SendOnly, AccessReturns,
       UnmirrorReturns, MirrorTimeout, consumer, mirrorVars
  <2>2. Live' => Live
    BY <2>1 DEF Live, NoSub
  <2>. QED BY <1>0, <2>1, <2>2, FollowStays
<1>2. CASE MirrorRemoteProperty \/ UnmirrorRemoteProperty
  <2>1. notes' = notes /\ sub' = FALSE
    BY <1>2 DEF MirrorRemoteProperty, UnmirrorRemoteProperty
  <2>2. ~ sub'
    BY ONLY <2>1, Zenon
  <2>3. ~ (mirror'.at = "mirror" /\ mirror'.ev)
    <3>1. CASE MirrorRemoteProperty
      <4>1. mirror'.ev = FALSE
        BY <3>1 DEF MirrorRemoteProperty, NoSub
      <4>. QED BY ONLY <4>1, Zenon
    <3>2. CASE UnmirrorRemoteProperty
      BY <3>2 DEF UnmirrorRemoteProperty, NoSub
    <3>. QED BY <1>2, <3>1, <3>2
  <2>. QED BY <1>0, <2>1, <2>2, <2>3, FollowStays DEF Live
<1>3. CASE Merge
  <2>1. notes' = notes /\ heard' = FALSE /\ Live
    BY <1>3 DEF Merge, Live
  <2>2. ~ heard'
    BY ONLY <2>1, Zenon
  <2>. QED BY <1>0, <2>1, <2>2, FollowStays
<1>4. CASE TakeAnswer \/ TakeAck("registered", "mirror") \/ TakeAck("unregistered", "unmirror")
  <2>1. /\ notes # << >> /\ notes' = Tail(notes) /\ UNCHANGED <<sub, local, heard>>
        /\ Head(notes).type \in {"property", "registered", "unregistered"}
    BY <1>4 DEF TakeAnswer, Answer, TakeAck, Notification
  <2>2. Live' => Live \/ Head(notes).type = "registered"
    <3>1. CASE TakeAnswer
      BY <3>1 DEF TakeAnswer, Live
    <3>2. CASE TakeAck("registered", "mirror")
      BY <3>2 DEF TakeAck, Notification
    <3>3. CASE TakeAck("unregistered", "unmirror")
      <4>1. \/ mirror' = mirror
            \/ /\ mirror.at = "unmirror"
               /\ mirror' = [mirror EXCEPT !.ev = TRUE, !.got = Head(notes).v]
        BY <3>3 DEF TakeAck
      <4>2. [mirror EXCEPT !.ev = TRUE, !.got = Head(notes).v].at = mirror.at
        BY DEF Types, SubCall
      <4>. QED BY <2>1, <4>1, <4>2 DEF Live
    <3>. QED BY <1>4, <3>1, <3>2, <3>3
  <2>. QED BY <1>0, <2>1, <2>2, FollowTakes
<1>5. CASE TakeChange
  <2>1. /\ notes # << >> /\ notes' = Tail(notes) /\ Head(notes).type = "changed"
        /\ UNCHANGED <<mirror, sub>>
        /\ sub => local' = Head(notes).v
    BY <1>5 DEF TakeChange, Notification
  <2>. QED BY <1>0, <2>1, FollowTakes DEF Live
<1>6. CASE TakeDelete
  <2>1. /\ notes # << >> /\ notes' = Tail(notes) /\ Head(notes).type = "deleted"
        /\ mirror' = mirror /\ sub' = (IF sub THEN FALSE ELSE sub)
    BY <1>6 DEF TakeDelete, Notification
  <2>2. ~ sub'
    BY ONLY <2>1, Zenon
  <2>. QED BY <1>0, <2>1, <2>2, FollowTakes DEF Live
<1>. QED BY <1>1, <1>2, <1>3, <1>4, <1>5, <1>6 DEF Consumer

(* The copy of a subscribed consumer that has heard of a change is the      *)
(* provider's value once everything has arrived, and the proxy listener is  *)
(* there to send the next, unless two writes overlapped or a subscription   *)
(* was given up and the property deleted.                                   *)
THEOREM MirrorsFollow == MirrorSpec => []MirrorFollows
<1>. DEFINE Inv == /\ Types /\ ProvInv /\ SubInv /\ TokenInv
                   /\ WriteInv /\ FollowInv
<1>1. MirrorInit => Inv
  <2>. SUFFICES ASSUME MirrorInit PROVE WriteInv /\ FollowInv
    BY TypesStart, ProvStart, SubStart, TokenStart
  <2>1. /\ notes = << >> /\ writing = [t \in Writers |-> Resting] /\ heard = FALSE
    BY DEF MirrorInit
  <2>2. ~ heard
    BY ONLY <2>1, Zenon
  <2>3. \A t \in Writers : writing[t].at = "rest"
    BY <2>1 DEF Resting
  <2>4. Len(notes) = 0
    BY <2>1
  <2>. QED BY <2>2, <2>3, <2>4 DEF WriteInv, FollowInv
<1>2. Inv /\ [MirrorNext]_mirrorVars => Inv'
  <2>. SUFFICES ASSUME Inv, [MirrorNext]_mirrorVars PROVE Inv'
    OBVIOUS
  <2>1. Types' /\ ProvInv' /\ SubInv' /\ WriteInv' /\ HistoryStays
    BY TypesStep, ProvStep, SubStep, WriteStep, HistoryStep
  <2>2. TokenInv'
    BY <2>1, TokenStep
  <2>3. FollowInv'
    BY <2>1, FollowWrites, FollowHandlers, FollowConsumer DEF MirrorNext, Provider
  <2>. QED BY <2>1, <2>2, <2>3
<1>3. Inv => MirrorFollows
  <2>. SUFFICES ASSUME FollowInv, Quiet, sub, heard, ~ raced, ~ (leaked /\ deleted)
                PROVE  local = value /\ refs > 0
    BY DEF MirrorFollows
  <2>1. HeardInv
    BY DEF FollowInv
  <2>2. Lacks(notes, "changed") /\ Lacks(notes, "deleted")
    BY DEF Quiet, Lacks
  <2>3. ~ Notifying
    BY DEF Quiet, Notifying, Resting
  <2>. QED BY <2>1, <2>2, <2>3 DEF HeardInv
<1>. QED BY <1>1, <1>2, <1>3, PTL DEF MirrorSpec
=============================================================================
