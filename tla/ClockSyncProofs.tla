-------------------------- MODULE ClockSyncProofs --------------------------
(***************************************************************************)
(* Proofs about the synchronization of a discrete slave with its master,   *)
(* for any number of clock steps, starts and calls that time out.          *)
(***************************************************************************)
EXTENDS ClockSync, TLAPS

(* What the proofs need of the types.                                       *)
FlagType == flag \in BOOLEAN /\ garbage \in BOOLEAN /\ obj \in BOOLEAN

(* A worker runs only under _started.                                       *)
FlagInv == wpc # "none" => flag

(* Without the object server nothing is being reset.                        *)
QuietInv == spc \in {"off", "destroy"} => ~obj /\ hpc = "idle"

(* Before the slave has started its first worker, _started is what it was   *)
(* when the clock was constructed, or FALSE after a reset.                  *)
FirstInv ==
  ~garbage => /\ spc \in {"type", "register", "begin"} =>
                   ~flag /\ hpc # "restart"
              /\ hpc = "restart" => wpc = "none"

(* The inductive invariant of WorkerEndsCleanly.                            *)
CInv == FlagType /\ FlagInv /\ QuietInv /\ FirstInv /\ WorkerEndsCleanly

-----------------------------------------------------------------------------
(* The worker is started, or an old one is overwritten.                     *)
LEMMA BeginKeeps ==
  ASSUME CInv, SlaveBegin
  PROVE  CInv'
<1>1. /\ spc = "begin" /\ lockT = "free" /\ UNCHANGED <<garbage, obj>>
      /\ \/ /\ wpc = "none" /\ flag' = TRUE /\ wpc' = "loop" /\ spc' = "on"
            /\ hpc' = hpc
         \/ wpc # "none" /\ spc' = "dead" /\ UNCHANGED <<flag, wpc, hpc>>
  BY DEF SlaveBegin, StartWorking
<1>2. CASE wpc # "none" /\ spc' = "dead" /\ UNCHANGED <<flag, wpc, hpc>>
  BY <1>1, <1>2 DEF CInv, FlagType, FlagInv, QuietInv, FirstInv,
     WorkerEndsCleanly, WorkerEndsWithClock, TerminatedByGarbage
<1>3. CASE /\ wpc = "none" /\ flag' = TRUE /\ wpc' = "loop" /\ spc' = "on"
           /\ hpc' = hpc
  <2>1. flag' /\ flag' \in BOOLEAN
    BY <1>3, Zenon
  <2>2. wpc' = "loop" /\ spc' = "on" /\ hpc' = hpc
    BY <1>3
  <2>3. ~garbage => hpc # "restart"
    BY <1>1 DEF CInv, FirstInv
  <2>. QED BY <1>1, <2>1, <2>2, <2>3 DEF CInv, FlagType, FlagInv, QuietInv,
       FirstInv, WorkerEndsCleanly, WorkerEndsWithClock, TerminatedByGarbage
<1>. QED BY <1>1, <1>2, <1>3

(* Starting the worker again after a reset keeps the invariant.             *)
LEMMA RestartKeeps ==
  ASSUME CInv, ResetRestart
  PROVE  CInv'
<1>1. /\ hpc = "restart" /\ lockT = "free" /\ UNCHANGED <<garbage, obj>>
      /\ \/ /\ wpc = "none" /\ flag' = TRUE /\ wpc' = "loop" /\ spc' = spc
            /\ hpc' = "answer"
         \/ wpc # "none" /\ spc' = "dead" /\ UNCHANGED <<flag, wpc, hpc>>
  BY DEF ResetRestart, StartWorking
<1>2. CASE wpc # "none" /\ spc' = "dead" /\ UNCHANGED <<flag, wpc, hpc>>
  BY <1>1, <1>2 DEF CInv, FlagType, FlagInv, QuietInv, FirstInv,
     WorkerEndsCleanly, WorkerEndsWithClock, TerminatedByGarbage
<1>3. CASE /\ wpc = "none" /\ flag' = TRUE /\ wpc' = "loop" /\ spc' = spc
           /\ hpc' = "answer"
  <2>1. flag' /\ flag' \in BOOLEAN
    BY <1>3, Zenon
  <2>2. wpc' = "loop" /\ spc' = spc /\ hpc' = "answer"
    BY <1>3
  <2>3. /\ ~garbage => spc \notin {"type", "register", "begin"}
        /\ spc \notin {"off", "destroy"}
    BY <1>1 DEF CInv, FirstInv, QuietInv
  <2>. QED BY <1>1, <2>1, <2>2, <2>3 DEF CInv, FlagType, FlagInv, QuietInv,
       FirstInv, WorkerEndsCleanly, WorkerEndsWithClock, TerminatedByGarbage
<1>. QED BY <1>1, <1>2, <1>3

(* Every step preserves the invariant.                                      *)
LEMMA CStep == CInv /\ [Next]_vars => CInv'
<1>. SUFFICES ASSUME CInv, [Next]_vars PROVE CInv'
  OBVIOUS
<1>. USE DEF master, updater, slave, CInv, FlagType, FlagInv, QuietInv,
             FirstInv, WorkerEndsCleanly, WorkerEndsWithClock,
             TerminatedByGarbage
<1>1. CASE UNCHANGED <<spc, wpc, hpc, flag, garbage, obj>>
  BY <1>1
<1>2. CASE MasterStart \/ Tick \/ MasterStop \/ Master
  BY <1>1, <1>2 DEF MasterStart, Tick, MasterStop, Master, MasterStarted,
     TickDone, MasterStopped, MasterReceive
<1>3. CASE SlaveStart
  <2>1. /\ spc = "off" /\ spc' = "type" /\ obj' = TRUE /\ flag' \in BOOLEAN
        /\ garbage' = flag' /\ UNCHANGED <<hpc, wpc>>
    BY <1>3 DEF SlaveStart
  <2>2. obj' \in BOOLEAN /\ garbage' \in BOOLEAN
    BY <2>1
  <2>3. ~garbage' => ~flag'
    BY <2>1
  <2>. QED BY <2>1, <2>2, <2>3
<1>4. CASE SlaveStop
  BY <1>4 DEF SlaveStop
<1>5. CASE SlaveType \/ SlaveRegister
  <2>1. /\ spc \in {"type", "register"}
        /\ spc' \in {"register", "begin", "on"}
        /\ UNCHANGED <<hpc, wpc, flag, garbage, obj>>
    BY <1>5 DEF SlaveType, SlaveRegister
  <2>. QED BY <2>1
<1>6. CASE SlaveBegin
  BY <1>6, BeginKeeps
<1>7. CASE SlaveJoined
  <2>1. /\ spc = "join" /\ spc' = "unregister" /\ flag' = FALSE
        /\ wpc = "none" /\ UNCHANGED <<hpc, wpc, garbage, obj>>
    BY <1>7 DEF SlaveJoined, Joined
  <2>2. ~flag' /\ flag' \in BOOLEAN
    BY <2>1, Zenon
  <2>. QED BY <2>1, <2>2
<1>8. CASE SlaveUnregistered
  <2>1. /\ spc = "unregister" /\ spc' = "destroy" /\ obj' = FALSE
        /\ hpc = "idle" /\ UNCHANGED <<hpc, wpc, garbage, flag>>
    BY <1>8 DEF SlaveUnregistered
  <2>2. ~obj' /\ obj' \in BOOLEAN
    BY <2>1, Zenon
  <2>. QED BY <2>1, <2>2
<1>9. CASE SlaveDestroyed
  <2>1. /\ spc = "destroy" /\ spc' = "off" /\ flag' = FALSE
        /\ wpc = "none" /\ UNCHANGED <<hpc, wpc, garbage, obj>>
    BY <1>9 DEF SlaveDestroyed, Joined
  <2>2. ~flag' /\ flag' \in BOOLEAN
    BY <2>1, Zenon
  <2>. QED BY <2>1, <2>2
<1>10. CASE Worker
  <2>1. /\ wpc # "none" /\ UNCHANGED <<spc, hpc, flag, garbage, obj>>
    BY <1>10 DEF Worker, WorkerLoop, WorkerType, WorkerRegister
  <2>. QED BY <2>1
<1>11. CASE SlaveReceive
  <2>1. /\ UNCHANGED <<spc, wpc, flag, garbage, obj>> /\ hpc = "idle"
        /\ hpc' = hpc \/ (obj /\ hpc' = "stop")
    BY <1>11 DEF SlaveReceive, SlaveAnswer, SlaveEvent
  <2>. QED BY <2>1
<1>12. CASE ResetStop \/ ResetAnswer
  <2>1. /\ UNCHANGED <<spc, wpc, flag, garbage, obj>> /\ hpc # "idle"
        /\ hpc' \in {"join", "idle"}
    BY <1>12 DEF ResetStop, ResetAnswer
  <2>. QED BY <2>1
<1>13. CASE ResetJoined
  <2>1. /\ hpc = "join" /\ hpc' = (IF flag THEN "restart" ELSE "answer")
        /\ wpc = "none" /\ flag' = FALSE /\ UNCHANGED <<spc, wpc, garbage, obj>>
    BY <1>13 DEF ResetJoined, Joined
  <2>2. ~flag' /\ flag' \in BOOLEAN
    BY <2>1, Zenon
  <2>. QED BY <2>1, <2>2
<1>14. CASE ResetRestart
  BY <1>14, RestartKeeps
<1>15. CASE GiveUpEvent
  BY <1>1, <1>15 DEF GiveUpEvent
<1>16. ASSUME NEW c \in Callers, GiveUpRequest(c) PROVE CInv'
  BY <1>1, <1>16 DEF GiveUpRequest
<1>17. CASE UNCHANGED vars
  BY <1>1, <1>17 DEF vars
<1>. QED BY <1>2, <1>3, <1>4, <1>5, <1>6, <1>7, <1>8, <1>9, <1>10, <1>11,
            <1>12, <1>13, <1>14, <1>15, <1>16, <1>17
         DEF Next, State, Handler

(* The initial states satisfy the invariant of the worker.                  *)
LEMMA CStart == Init => CInv
<1>. SUFFICES ASSUME Init PROVE CInv
  OBVIOUS
<1>1. /\ spc = "off" /\ wpc = "none" /\ hpc = "idle"
  BY DEF Init
<1>2. obj = FALSE /\ flag = FALSE /\ garbage = FALSE
  BY DEF Init
<1>3. ~obj /\ ~flag /\ ~garbage /\ FlagType
  BY <1>2, Zenon DEF FlagType
<1>. QED BY <1>1, <1>3 DEF CInv, FlagInv, QuietInv, FirstInv,
     WorkerEndsCleanly, WorkerEndsWithClock, TerminatedByGarbage

(* However resets of the master, the start and the stop of the slave meet:  *)
(* the worker never outlives the clock it belongs to, and a running one is  *)
(* overwritten only because _started was not initialized.                   *)
THEOREM WorkerEnds == Spec => []WorkerEndsCleanly
<1>1. CInv => WorkerEndsCleanly
  BY DEF CInv
<1>. QED BY <1>1, CStart, CStep, PTL DEF Spec

-----------------------------------------------------------------------------
(* The messages, and the state the argument is about.                       *)
EventMsg   == [kind : {"reset", "update"}, new : Nat, old : Nat,
               awaited : BOOLEAN]
AnswerMsg  == [kind : {"answer"}, to : Callers, awaited : BOOLEAN]
RequestMsg == [kind : {"type", "register", "unregister"}, from : Callers,
               awaited : BOOLEAN]
ReplyMsg   == [kind : {"answer"}, ok : BOOLEAN, awaited : BOOLEAN, life : Nat]
ToSlave    == EventMsg \cup AnswerMsg
ToMaster   == RequestMsg \cup ReplyMsg

MsgType ==
  /\ sin \in Seq(ToSlave) /\ min \in Seq(ToMaster) /\ cur \in EventMsg
  /\ mtime \in Nat /\ sim \in Nat /\ stime \in Nat /\ heard \in Nat
  /\ bound \in [ticks : Nat, mstarts : Nat, sstarts : Nat, timeouts : Nat]

(* What the argument looks at of the messages w for the slave: is an event  *)
(* among them; is one before or after the message i; is one awaited; is the *)
(* first one the reset of a clock that is at 0, which the slave does not    *)
(* execute.                                                                 *)
NoEvent(w)       == \A j \in 1 .. Len(w) : ~IsEvent(w[j])
NoneBefore(w, i) == \A j \in 1 .. Len(w) : j < i => ~IsEvent(w[j])
NoneAfter(w, i)  == \A j \in 1 .. Len(w) : i < j => ~IsEvent(w[j])
NoneAwaited(w)   == \A j \in 1 .. Len(w) : ~(IsEvent(w[j]) /\ w[j].awaited)
IsNoReset(m)     == m.kind = "reset" /\ m.old = 0
FirstNoReset(w)  == \E i \in 1 .. Len(w) : IsNoReset(w[i]) /\ NoneBefore(w, i)

(* The last event brings the time t; only the last one is awaited.          *)
LastBrings(w, t) ==
  \A i \in 1 .. Len(w) : IsEvent(w[i]) /\ NoneAfter(w, i) => w[i].new = t
AwaitedIsLast(w) ==
  \A i \in 1 .. Len(w) : IsEvent(w[i]) /\ w[i].awaited => NoneAfter(w, i)

(* Resets are to 0, and one that is not executed follows an event that      *)
(* brings 0.                                                                *)
Adjacent(w, i, j) ==
  /\ i < j /\ IsEvent(w[i]) /\ IsEvent(w[j])
  /\ \A k \in 1 .. Len(w) : i < k /\ k < j => ~IsEvent(w[k])
ResetsToZero(w) ==
  \A i \in 1 .. Len(w) : w[i].kind = "reset" => w[i].new = 0
NoResetFollowsZero(w) ==
  \A i, j \in 1 .. Len(w) :
    Adjacent(w, i, j) /\ IsNoReset(w[j]) => w[i].new = 0

(* Of the messages w for the master: a reply it waits for, of which there   *)
(* is one at most, by a life of the slave up to s.                          *)
IsReply(m)    == m.kind = "answer" /\ m.awaited
NoReply(w)    == \A j \in 1 .. Len(w) : ~IsReply(w[j])
OneReply(w)   == \A i, j \in 1 .. Len(w) :
                   IsReply(w[i]) /\ IsReply(w[j]) => i = j
Lives(w, s)   == \A i \in 1 .. Len(w) : IsReply(w[i]) => w[i].life <= s
Current(w, s) == \E i \in 1 .. Len(w) :
                   IsReply(w[i]) /\ w[i].ok /\ w[i].life = s

(* The time that the master has told last.                                  *)
Target == IF mpc = "reset" THEN 0 ELSE mtime

(* When the master calls.                                                   *)
PhaseInv ==
  /\ mret = "wait" => mpc = "reset" \/ tick = "call"
  /\ tick = "off" <=> mpc \in {"off", "reset"}

(* The last event that is under way brings the master's time; without one,  *)
(* the slave has it, or has heard of none yet.                              *)
LastInv ==
  /\ LastBrings(sin, Target)
  /\ NoEvent(sin) /\ hpc # "idle" => cur.new = Target
  /\ NoEvent(sin) /\ hpc = "idle" /\ obj => stime \in {0, Target}

(* A reset that the slave does not execute meets a slave that is at 0.      *)
ZeroInv ==
  /\ ResetsToZero(sin) /\ NoResetFollowsZero(sin)
  /\ FirstNoReset(sin) /\ hpc # "idle" => cur.new = 0
  /\ FirstNoReset(sin) /\ hpc = "idle" /\ obj => stime = 0

HandlerInv ==
  /\ hpc # "idle" => obj
  /\ hpc \in {"restart", "answer"} => stime = cur.new
  /\ obj => bound.sstarts # 0
  /\ ~known => NoEvent(sin) /\ hpc = "idle" /\ stime = 0

(* At most one event, or the reply to it, is awaited: the last one.         *)
AwaitInv ==
  /\ AwaitedIsLast(sin)
  /\ NoneAwaited(sin) \/ (mret = "wait" /\ NoReply(min))
  /\ hpc # "idle" /\ cur.awaited =>
       mret = "wait" /\ NoEvent(sin) /\ NoReply(min)
  /\ NoReply(min) \/ (mret = "wait" /\ NoEvent(sin) /\ hpc = "idle")
  /\ OneReply(min) /\ Lives(min, bound.sstarts)
  /\ Current(min, bound.sstarts) /\ obj => stime = Target

(* Once it is answered, nothing is under way that would change the slave.   *)
HeardInv ==
  /\ heard <= bound.sstarts
  /\ heard = bound.sstarts /\ obj =>
       NoEvent(sin) /\ hpc = "idle" /\ stime = Target

(* The inductive invariant of AnsweredMeansSynced.                          *)
SInv == /\ CInv /\ MsgType /\ PhaseInv /\ LastInv /\ ZeroInv /\ HandlerInv
        /\ AwaitInv /\ HeardInv

-----------------------------------------------------------------------------
(* What happens to a queue: a message is appended, the first one is taken,  *)
(* messages of a call that is given up are no longer awaited.               *)
Grows(w, v, m) ==
  /\ Len(w) \in Nat /\ Len(v) = Len(w) + 1
  /\ \A j \in 1 .. Len(w) : v[j] = w[j]
  /\ v[Len(v)] = m
Shifts(w, v) ==
  /\ Len(w) \in Nat /\ Len(w) # 0 /\ Len(v) = Len(w) - 1
  /\ \A j \in 1 .. Len(v) : v[j] = w[j + 1]
Loosens(w, v) ==
  /\ Len(w) \in Nat /\ Len(v) = Len(w)
  /\ \A j \in 1 .. Len(w) :
       /\ v[j].kind = w[j].kind /\ (v[j].awaited => w[j].awaited)
       /\ IsEvent(w[j]) => v[j].new = w[j].new /\ v[j].old = w[j].old
       /\ IsReply(v[j]) => v[j].life = w[j].life /\ v[j].ok = w[j].ok

(* Append adds its message behind all others.                               *)
LEMMA AppendGrows ==
  ASSUME NEW S, NEW w \in Seq(S), NEW m \in S
  PROVE  Append(w, m) \in Seq(S) /\ Grows(w, Append(w, m), m)
BY DEF Grows

(* Tail moves every message one place to the front.                         *)
LEMMA TailShifts ==
  ASSUME NEW S, NEW w \in Seq(S), w # << >>
  PROVE  /\ Tail(w) \in Seq(S) /\ Shifts(w, Tail(w))
         /\ Head(w) = w[1] /\ Head(w) \in S
BY DEF Shifts

(* To the slave nothing changes when an answer is queued or taken.          *)
LEMMA AnswerQueued ==
  ASSUME NEW w, NEW v, NEW m, NEW t, Grows(w, v, m), ~IsEvent(m)
  PROVE  /\ NoEvent(v) <=> NoEvent(w)
         /\ LastBrings(w, t) => LastBrings(v, t)
         /\ ResetsToZero(w) => ResetsToZero(v)
         /\ NoResetFollowsZero(w) => NoResetFollowsZero(v)
         /\ FirstNoReset(v) => FirstNoReset(w)
         /\ NoneAwaited(w) => NoneAwaited(v)
         /\ AwaitedIsLast(w) => AwaitedIsLast(v)
<1>. USE DEF Grows, IsEvent
<1>1. NoEvent(v) <=> NoEvent(w)
  BY DEF NoEvent
<1>2. ASSUME LastBrings(w, t) PROVE LastBrings(v, t)
  <2>. SUFFICES ASSUME NEW i \in 1 .. Len(v), IsEvent(v[i]), NoneAfter(v, i)
                PROVE  v[i].new = t
    BY DEF LastBrings
  <2>1. i \in 1 .. Len(w)
    OBVIOUS
  <2>2. NoneAfter(w, i)
    BY <2>1 DEF NoneAfter
  <2>. QED BY <1>2, <2>1, <2>2 DEF LastBrings
<1>3. ResetsToZero(w) => ResetsToZero(v)
  BY DEF ResetsToZero
<1>4. ASSUME NoResetFollowsZero(w) PROVE NoResetFollowsZero(v)
  <2>. SUFFICES ASSUME NEW i \in 1 .. Len(v), NEW j \in 1 .. Len(v),
                       Adjacent(v, i, j), IsNoReset(v[j])
                PROVE  v[i].new = 0
    BY DEF NoResetFollowsZero
  <2>1. i \in 1 .. Len(w) /\ j \in 1 .. Len(w)
    BY DEF Adjacent
  <2>2. Adjacent(w, i, j)
    BY <2>1 DEF Adjacent
  <2>. QED BY <1>4, <2>1, <2>2 DEF NoResetFollowsZero
<1>5. ASSUME FirstNoReset(v) PROVE FirstNoReset(w)
  <2>1. PICK i \in 1 .. Len(v) : IsNoReset(v[i]) /\ NoneBefore(v, i)
    BY <1>5 DEF FirstNoReset
  <2>2. i \in 1 .. Len(w)
    BY <2>1 DEF IsNoReset
  <2>3. NoneBefore(w, i)
    BY <2>1, <2>2 DEF NoneBefore
  <2>. QED BY <2>1, <2>2, <2>3 DEF FirstNoReset
<1>6. NoneAwaited(w) => NoneAwaited(v)
  BY DEF NoneAwaited
<1>7. ASSUME AwaitedIsLast(w) PROVE AwaitedIsLast(v)
  BY <1>7 DEF AwaitedIsLast, NoneAfter
<1>. QED BY <1>1, <1>2, <1>3, <1>4, <1>5, <1>6, <1>7

(* What the first message leaves behind it.                                 *)
LEMMA QueueShifts ==
  ASSUME NEW w, NEW v, NEW t, Shifts(w, v)
  PROVE  /\ LastBrings(w, t) => LastBrings(v, t)
         /\ ResetsToZero(w) => ResetsToZero(v)
         /\ NoResetFollowsZero(w) => NoResetFollowsZero(v)
         /\ NoneAwaited(w) => NoneAwaited(v)
         /\ AwaitedIsLast(w) => AwaitedIsLast(v)
<1>0. ASSUME NEW i \in 1 .. Len(v)
      PROVE  i + 1 \in 1 .. Len(w) /\ v[i] = w[i + 1]
  BY DEF Shifts
<1>1. ASSUME NEW i \in 1 .. Len(w), i # 1
      PROVE  i - 1 \in 1 .. Len(v) /\ v[i - 1] = w[i]
  <2>1. i - 1 \in 1 .. Len(v) /\ (i - 1) + 1 = i
    BY <1>1 DEF Shifts
  <2>. QED BY <2>1 DEF Shifts
<1>2. ASSUME LastBrings(w, t) PROVE LastBrings(v, t)
  <2>. SUFFICES ASSUME NEW i \in 1 .. Len(v), IsEvent(v[i]), NoneAfter(v, i)
                PROVE  v[i].new = t
    BY DEF LastBrings
  <2>1. ASSUME NEW j \in 1 .. Len(w), i + 1 < j PROVE ~IsEvent(w[j])
    BY <1>1, <2>1 DEF NoneAfter
  <2>. QED BY <1>0, <1>2, <2>1 DEF LastBrings, NoneAfter
<1>3. ResetsToZero(w) => ResetsToZero(v)
  BY <1>0 DEF ResetsToZero
<1>4. ASSUME NoResetFollowsZero(w) PROVE NoResetFollowsZero(v)
  <2>. SUFFICES ASSUME NEW i \in 1 .. Len(v), NEW j \in 1 .. Len(v),
                       Adjacent(v, i, j), IsNoReset(v[j])
                PROVE  v[i].new = 0
    BY DEF NoResetFollowsZero
  <2>1. ASSUME NEW k \in 1 .. Len(w), i + 1 < k, k < j + 1
        PROVE  ~IsEvent(w[k])
    BY <1>1, <2>1 DEF Adjacent
  <2>2. Adjacent(w, i + 1, j + 1)
    BY <1>0, <2>1 DEF Adjacent
  <2>. QED BY <1>0, <1>4, <2>2 DEF NoResetFollowsZero
<1>5. NoneAwaited(w) => NoneAwaited(v)
  BY <1>0 DEF NoneAwaited
<1>6. ASSUME AwaitedIsLast(w) PROVE AwaitedIsLast(v)
  <2>. SUFFICES ASSUME NEW i \in 1 .. Len(v), IsEvent(v[i]), v[i].awaited,
                       NEW j \in 1 .. Len(v), i < j
                PROVE  ~IsEvent(v[j])
    BY DEF AwaitedIsLast, NoneAfter
  <2>1. NoneAfter(w, i + 1)
    BY <1>0, <1>6 DEF AwaitedIsLast
  <2>. QED BY <1>0, <2>1 DEF NoneAfter
<1>. QED BY <1>2, <1>3, <1>4, <1>5, <1>6

(* Taking a message that is no event keeps what is said of the events behind*)
(* it.                                                                      *)
LEMMA AnswerTaken ==
  ASSUME NEW w, NEW v, NEW t, Shifts(w, v), ~IsEvent(w[1])
  PROVE  /\ NoEvent(v) <=> NoEvent(w)
         /\ LastBrings(w, t) => LastBrings(v, t)
         /\ ResetsToZero(w) => ResetsToZero(v)
         /\ NoResetFollowsZero(w) => NoResetFollowsZero(v)
         /\ FirstNoReset(v) => FirstNoReset(w)
         /\ NoneAwaited(w) => NoneAwaited(v)
         /\ AwaitedIsLast(w) => AwaitedIsLast(v)
<1>1. NoEvent(v) <=> NoEvent(w)
  <2>1. ASSUME NoEvent(v), NEW j \in 1 .. Len(w) PROVE ~IsEvent(w[j])
    <3>1. CASE j = 1
      BY <3>1
    <3>2. CASE j # 1
      BY <2>1, <3>2, v[j - 1] = w[j] DEF NoEvent, Shifts
    <3>. QED BY <3>1, <3>2
  <2>. QED BY <2>1 DEF NoEvent, Shifts
<1>2. ASSUME FirstNoReset(v) PROVE FirstNoReset(w)
  <2>1. PICK i \in 1 .. Len(v) : IsNoReset(v[i]) /\ NoneBefore(v, i)
    BY <1>2 DEF FirstNoReset
  <2>2. i + 1 \in 1 .. Len(w) /\ IsNoReset(w[i + 1])
    BY <2>1 DEF Shifts
  <2>3. ASSUME NEW j \in 1 .. Len(w), j < i + 1 PROVE ~IsEvent(w[j])
    <3>1. CASE j = 1
      BY <3>1
    <3>2. CASE j # 1
      BY <2>1, <2>3, <3>2, v[j - 1] = w[j] DEF NoneBefore, Shifts
    <3>. QED BY <3>1, <3>2
  <2>. QED BY <2>2, <2>3 DEF FirstNoReset, NoneBefore
<1>. QED BY <1>1, <1>2, QueueShifts

(* An event is queued when none is awaited.                                 *)
LEMMA EventQueued ==
  ASSUME NEW w, NEW v, NEW e, NEW t, Grows(w, v, e), IsEvent(e)
  PROVE  /\ ~NoEvent(v) /\ LastBrings(v, e.new)
         /\ ResetsToZero(w) /\ (e.kind = "reset" => e.new = 0) =>
              ResetsToZero(v)
         /\ NoResetFollowsZero(w) /\ LastBrings(w, t)
              /\ (IsNoReset(e) => t = 0) => NoResetFollowsZero(v)
         /\ FirstNoReset(v) => FirstNoReset(w) \/ (NoEvent(w) /\ IsNoReset(e))
         /\ NoneAwaited(w) => AwaitedIsLast(v)
<1>0. Len(v) \in 1 .. Len(v) /\ v[Len(v)] = e
  BY DEF Grows
<1>1. ~NoEvent(v)
  BY <1>0 DEF NoEvent
<1>2. LastBrings(v, e.new)
  <2>. SUFFICES ASSUME NEW i \in 1 .. Len(v), IsEvent(v[i]), NoneAfter(v, i)
                PROVE  v[i].new = e.new
    BY DEF LastBrings
  <2>1. i = Len(v)
    BY <1>0 DEF NoneAfter, Grows
  <2>. QED BY <2>1, <1>0
<1>3. ASSUME ResetsToZero(w), e.kind = "reset" => e.new = 0
      PROVE  ResetsToZero(v)
  BY <1>3 DEF ResetsToZero, Grows
<1>4. ASSUME NoResetFollowsZero(w), LastBrings(w, t), IsNoReset(e) => t = 0
      PROVE  NoResetFollowsZero(v)
  <2>. SUFFICES ASSUME NEW i \in 1 .. Len(v), NEW j \in 1 .. Len(v),
                       Adjacent(v, i, j), IsNoReset(v[j])
                PROVE  v[i].new = 0
    BY DEF NoResetFollowsZero
  <2>1. CASE j = Len(v)
    <3>1. i \in 1 .. Len(w) /\ v[i] = w[i] /\ IsEvent(w[i])
      BY <2>1 DEF Adjacent, Grows
    <3>2. NoneAfter(w, i)
      BY <2>1 DEF NoneAfter, Adjacent, Grows
    <3>. QED BY <1>0, <1>4, <2>1, <3>1, <3>2 DEF LastBrings
  <2>2. CASE j # Len(v)
    <3>1. i \in 1 .. Len(w) /\ j \in 1 .. Len(w) /\ v[i] = w[i] /\ v[j] = w[j]
      BY <2>2 DEF Adjacent, Grows
    <3>2. Adjacent(w, i, j)
      BY <3>1 DEF Adjacent, Grows
    <3>. QED BY <1>4, <3>1, <3>2 DEF NoResetFollowsZero
  <2>. QED BY <2>1, <2>2
<1>5. ASSUME FirstNoReset(v)
      PROVE  FirstNoReset(w) \/ (NoEvent(w) /\ IsNoReset(e))
  <2>1. PICK i \in 1 .. Len(v) : IsNoReset(v[i]) /\ NoneBefore(v, i)
    BY <1>5 DEF FirstNoReset
  <2>2. CASE i = Len(v)
    BY <1>0, <2>1, <2>2 DEF NoneBefore, NoEvent, Grows
  <2>3. CASE i # Len(v)
    BY <2>1, <2>3 DEF FirstNoReset, NoneBefore, Grows
  <2>. QED BY <2>2, <2>3
<1>6. ASSUME NoneAwaited(w) PROVE AwaitedIsLast(v)
  BY <1>6 DEF NoneAwaited, AwaitedIsLast, NoneAfter, Grows
<1>. QED BY <1>1, <1>2, <1>3, <1>4, <1>5, <1>6

(* The event that is taken was the last one or brings 0 to a reset that is  *)
(* not executed.                                                            *)
LEMMA EventTaken ==
  ASSUME NEW w, NEW v, NEW t, Shifts(w, v), IsEvent(w[1])
  PROVE  /\ NoEvent(v) /\ LastBrings(w, t) => w[1].new = t
         /\ FirstNoReset(v) /\ NoResetFollowsZero(w) => w[1].new = 0
         /\ IsNoReset(w[1]) => FirstNoReset(w)
         /\ ResetsToZero(w) /\ w[1].kind = "reset" => w[1].new = 0
         /\ AwaitedIsLast(w) /\ w[1].awaited => NoEvent(v)
         /\ ~NoEvent(w) /\ (NoneAwaited(w) => ~w[1].awaited)
<1>0. 1 \in 1 .. Len(w)
  BY DEF Shifts
<1>1. ASSUME NEW i \in 1 .. Len(w), 1 < i
      PROVE  i - 1 \in 1 .. Len(v) /\ v[i - 1] = w[i]
  <2>1. i - 1 \in 1 .. Len(v) /\ (i - 1) + 1 = i
    BY <1>1 DEF Shifts
  <2>. QED BY <2>1 DEF Shifts
<1>2. ASSUME NoEvent(v), LastBrings(w, t) PROVE w[1].new = t
  BY <1>0, <1>1, <1>2 DEF NoEvent, LastBrings, NoneAfter
<1>3. ASSUME FirstNoReset(v), NoResetFollowsZero(w) PROVE w[1].new = 0
  <2>1. PICK i \in 1 .. Len(v) : IsNoReset(v[i]) /\ NoneBefore(v, i)
    BY <1>3 DEF FirstNoReset
  <2>2. i + 1 \in 1 .. Len(w) /\ IsNoReset(w[i + 1]) /\ 1 < i + 1
    BY <2>1 DEF Shifts
  <2>3. ASSUME NEW k \in 1 .. Len(w), 1 < k, k < i + 1 PROVE ~IsEvent(w[k])
    BY <1>1, <2>1, <2>3 DEF NoneBefore
  <2>4. IsEvent(w[i + 1])
    BY <2>2 DEF IsNoReset, IsEvent
  <2>5. Adjacent(w, 1, i + 1)
    BY <2>2, <2>3, <2>4 DEF Adjacent
  <2>. QED BY <1>0, <1>3, <2>2, <2>5 DEF NoResetFollowsZero
<1>4. IsNoReset(w[1]) => FirstNoReset(w)
  BY <1>0 DEF FirstNoReset, NoneBefore
<1>5. ResetsToZero(w) /\ w[1].kind = "reset" => w[1].new = 0
  BY <1>0 DEF ResetsToZero
<1>6. ASSUME AwaitedIsLast(w), w[1].awaited PROVE NoEvent(v)
  <2>1. NoneAfter(w, 1)
    BY <1>0, <1>6 DEF AwaitedIsLast
  <2>2. ASSUME NEW i \in 1 .. Len(v) PROVE ~IsEvent(v[i])
    <3>1. i + 1 \in 1 .. Len(w) /\ 1 < i + 1 /\ v[i] = w[i + 1]
      BY DEF Shifts
    <3>. QED BY <2>1, <3>1 DEF NoneAfter
  <2>. QED BY <2>2 DEF NoEvent
<1>7. ~NoEvent(w) /\ (NoneAwaited(w) => ~w[1].awaited)
  BY <1>0 DEF NoEvent, NoneAwaited
<1>. QED BY <1>2, <1>3, <1>4, <1>5, <1>6, <1>7

(* A call is given up.                                                      *)
LEMMA QueueLoosened ==
  ASSUME NEW w, NEW v, NEW t, Loosens(w, v)
  PROVE  /\ NoEvent(v) <=> NoEvent(w)
         /\ LastBrings(w, t) => LastBrings(v, t)
         /\ ResetsToZero(w) => ResetsToZero(v)
         /\ NoResetFollowsZero(w) => NoResetFollowsZero(v)
         /\ FirstNoReset(v) => FirstNoReset(w)
         /\ NoneAwaited(w) => NoneAwaited(v)
         /\ AwaitedIsLast(w) => AwaitedIsLast(v)
<1>0. ASSUME NEW j \in 1 .. Len(v)
      PROVE  /\ j \in 1 .. Len(w) /\ (IsEvent(v[j]) <=> IsEvent(w[j]))
             /\ v[j].kind = w[j].kind /\ (v[j].awaited => w[j].awaited)
             /\ IsEvent(w[j]) => v[j].new = w[j].new /\ v[j].old = w[j].old
  BY DEF Loosens, IsEvent
<1>1. Len(v) = Len(w)
  BY DEF Loosens
<1>2. NoEvent(v) <=> NoEvent(w)
  BY <1>0, <1>1 DEF NoEvent
<1>3. ASSUME NEW i \in 1 .. Len(v)
      PROVE  /\ NoneAfter(v, i) <=> NoneAfter(w, i)
             /\ NoneBefore(v, i) <=> NoneBefore(w, i)
  BY <1>0, <1>1 DEF NoneAfter, NoneBefore
<1>4. LastBrings(w, t) => LastBrings(v, t)
  BY <1>0, <1>1, <1>3 DEF LastBrings
<1>5. ResetsToZero(w) => ResetsToZero(v)
  BY <1>0, <1>1 DEF ResetsToZero, IsEvent
<1>6. ASSUME NoResetFollowsZero(w) PROVE NoResetFollowsZero(v)
  <2>. SUFFICES ASSUME NEW i \in 1 .. Len(v), NEW j \in 1 .. Len(v),
                       Adjacent(v, i, j), IsNoReset(v[j])
                PROVE  v[i].new = 0
    BY DEF NoResetFollowsZero
  <2>1. Adjacent(w, i, j)
    BY <1>0, <1>1 DEF Adjacent
  <2>2. IsNoReset(w[j])
    BY <1>0, <1>1 DEF IsNoReset, IsEvent
  <2>3. IsEvent(w[i])
    BY <2>1 DEF Adjacent
  <2>. QED BY <1>0, <1>1, <1>6, <2>1, <2>2, <2>3 DEF NoResetFollowsZero
<1>7. ASSUME FirstNoReset(v) PROVE FirstNoReset(w)
  <2>1. PICK i \in 1 .. Len(v) : IsNoReset(v[i]) /\ NoneBefore(v, i)
    BY <1>7 DEF FirstNoReset
  <2>2. IsNoReset(w[i])
    BY <1>0, <2>1 DEF IsNoReset, IsEvent
  <2>. QED BY <1>0, <1>3, <2>1, <2>2 DEF FirstNoReset
<1>8. NoneAwaited(w) => NoneAwaited(v)
  BY <1>0, <1>1 DEF NoneAwaited
<1>9. AwaitedIsLast(w) => AwaitedIsLast(v)
  BY <1>0, <1>1, <1>3 DEF AwaitedIsLast
<1>. QED BY <1>2, <1>4, <1>5, <1>6, <1>7, <1>8, <1>9

(* To the master nothing changes when a request, or a reply that nobody     *)
(* awaits, is queued; a reply that is awaited is then the only one.         *)
LEMMA OtherQueued ==
  ASSUME NEW w, NEW v, NEW m, NEW s, Grows(w, v, m), ~IsReply(m)
  PROVE  /\ NoReply(w) => NoReply(v)
         /\ OneReply(w) => OneReply(v)
         /\ Lives(w, s) => Lives(v, s)
         /\ Current(v, s) => Current(w, s)
<1>0. ASSUME NEW i \in 1 .. Len(v), IsReply(v[i])
      PROVE  i \in 1 .. Len(w) /\ v[i] = w[i]
  BY <1>0 DEF Grows
<1>. QED BY <1>0 DEF NoReply, OneReply, Lives, Current

(* A reply that is queued where none was is the only one, and of this life. *)
LEMMA ReplyQueued ==
  ASSUME NEW w, NEW v, NEW m, NEW s, Grows(w, v, m), NoReply(w),
         m.life = s, s \in Nat
  PROVE  /\ OneReply(v) /\ Lives(v, s)
         /\ Current(v, s) => m.ok
<1>0. ASSUME NEW i \in 1 .. Len(v), IsReply(v[i]) PROVE i = Len(v) /\ v[i] = m
  BY <1>0 DEF Grows, NoReply
<1>. QED BY <1>0 DEF OneReply, Lives, Current

(* What is left of the replies when the first message is taken.             *)
LEMMA ReplyTaken ==
  ASSUME NEW w, NEW v, NEW s, Shifts(w, v)
  PROVE  /\ NoReply(w) => NoReply(v) /\ ~IsReply(w[1])
         /\ OneReply(w) => OneReply(v)
         /\ OneReply(w) /\ IsReply(w[1]) => NoReply(v)
         /\ Lives(w, s) => Lives(v, s) /\ (IsReply(w[1]) => w[1].life <= s)
         /\ Current(v, s) => Current(w, s)
         /\ IsReply(w[1]) /\ w[1].ok /\ w[1].life = s => Current(w, s)
<1>0. 1 \in 1 .. Len(w)
  BY DEF Shifts
<1>1. ASSUME NEW i \in 1 .. Len(v)
      PROVE  i + 1 \in 1 .. Len(w) /\ v[i] = w[i + 1] /\ i + 1 # 1
  BY DEF Shifts
<1>2. NoReply(w) => NoReply(v) /\ ~IsReply(w[1])
  BY <1>0, <1>1 DEF NoReply
<1>3. ASSUME OneReply(w), NEW i \in 1 .. Len(v), NEW j \in 1 .. Len(v),
             IsReply(v[i]), IsReply(v[j])
      PROVE  i = j
  <2>1. i + 1 = j + 1
    BY <1>1, <1>3 DEF OneReply
  <2>. QED BY <2>1
<1>4. OneReply(w) => OneReply(v)
  BY <1>3 DEF OneReply
<1>5. OneReply(w) /\ IsReply(w[1]) => NoReply(v)
  BY <1>0, <1>1 DEF OneReply, NoReply
<1>6. Lives(w, s) => Lives(v, s) /\ (IsReply(w[1]) => w[1].life <= s)
  BY <1>0, <1>1 DEF Lives
<1>7. Current(v, s) => Current(w, s)
  BY <1>1 DEF Current
<1>8. IsReply(w[1]) /\ w[1].ok /\ w[1].life = s => Current(w, s)
  BY <1>0 DEF Current
<1>. QED BY <1>2, <1>4, <1>5, <1>6, <1>7, <1>8

(* A call that is given up leaves the replies in the queue.                 *)
LEMMA RepliesLoosened ==
  ASSUME NEW w, NEW v, NEW s, Loosens(w, v)
  PROVE  /\ NoReply(w) => NoReply(v)
         /\ OneReply(w) => OneReply(v)
         /\ Lives(w, s) => Lives(v, s)
         /\ Current(v, s) => Current(w, s)
<1>0. ASSUME NEW i \in 1 .. Len(v), IsReply(v[i])
      PROVE  /\ i \in 1 .. Len(w) /\ IsReply(w[i])
             /\ v[i].life = w[i].life /\ v[i].ok = w[i].ok
  BY <1>0 DEF Loosens, IsReply
<1>. QED BY <1>0 DEF NoReply, OneReply, Lives, Current

(* A later life of the slave has answered nothing yet.                      *)
LEMMA LaterLife ==
  ASSUME NEW w, NEW s \in Nat, Lives(w, s), w \in Seq(ToMaster)
  PROVE  Lives(w, s + 1) /\ ~Current(w, s + 1)
<1>0. ASSUME NEW i \in 1 .. Len(w), IsReply(w[i]) PROVE w[i].life \in Nat
  <2>1. w[i] \in ToMaster
    OBVIOUS
  <2>. QED BY <1>0, <2>1 DEF ToMaster, RequestMsg, ReplyMsg, IsReply
<1>1. ASSUME NEW i \in 1 .. Len(w), IsReply(w[i])
      PROVE  w[i].life <= s + 1 /\ w[i].life # s + 1
  BY <1>0, <1>1 DEF Lives
<1>. QED BY <1>1 DEF Lives, Current

(* Forget leaves the messages what they are, but not awaited.               *)
LEMMA NotAwaited ==
  ASSUME NEW m \in ToSlave \cup ToMaster, NEW n,
         n = [m EXCEPT !.awaited = FALSE]
  PROVE  /\ n.kind = m.kind /\ ~n.awaited
         /\ IsEvent(m) => n.new = m.new /\ n.old = m.old
         /\ m \in ToSlave => n \in ToSlave
         /\ m \in ToMaster => n \in ToMaster
         /\ m \in EventMsg => n \in EventMsg
<1>1. CASE m \in EventMsg
  <2>1. /\ n = [kind |-> m.kind, new |-> m.new, old |-> m.old,
                awaited |-> FALSE]
        /\ m.kind \in {"reset", "update"} /\ m.new \in Nat /\ m.old \in Nat
    BY <1>1 DEF EventMsg
  <2>2. m \notin ToMaster
    BY <2>1 DEF ToMaster, RequestMsg, ReplyMsg
  <2>3. n.kind = m.kind /\ n.new = m.new /\ n.old = m.old /\ n.awaited = FALSE
    BY <2>1
  <2>4. n \in EventMsg
    BY <2>1 DEF EventMsg
  <2>. QED BY <2>2, <2>3, <2>4, Zenon DEF ToSlave
<1>2. CASE m \in AnswerMsg
  <2>1. /\ n = [kind |-> m.kind, to |-> m.to, awaited |-> FALSE]
        /\ m.kind = "answer" /\ m.to \in Callers
    BY <1>2 DEF AnswerMsg
  <2>2. m \notin EventMsg /\ ~IsEvent(m)
    BY <2>1 DEF EventMsg, IsEvent
  <2>3. m \notin ToMaster
    BY <1>2 DEF ToMaster, RequestMsg, ReplyMsg, AnswerMsg
  <2>4. n.kind = m.kind /\ n.awaited = FALSE /\ n \in AnswerMsg
    BY <2>1 DEF AnswerMsg
  <2>. QED BY <2>2, <2>3, <2>4, Zenon DEF ToSlave
<1>3. CASE m \in RequestMsg
  <2>1. /\ n = [kind |-> m.kind, from |-> m.from, awaited |-> FALSE]
        /\ m.kind \in {"type", "register", "unregister"} /\ m.from \in Callers
    BY <1>3 DEF RequestMsg
  <2>2. m \notin EventMsg /\ ~IsEvent(m) /\ m \notin ToSlave
    BY <2>1 DEF EventMsg, IsEvent, ToSlave, AnswerMsg
  <2>3. n.kind = m.kind /\ n.awaited = FALSE /\ n \in RequestMsg
    BY <2>1 DEF RequestMsg
  <2>. QED BY <2>2, <2>3, Zenon DEF ToMaster
<1>4. CASE m \in ReplyMsg
  <2>1. /\ n = [kind |-> m.kind, ok |-> m.ok, awaited |-> FALSE,
                life |-> m.life]
        /\ m.kind = "answer" /\ m.ok \in BOOLEAN /\ m.life \in Nat
    BY <1>4 DEF ReplyMsg
  <2>2. m \notin EventMsg /\ ~IsEvent(m)
    BY <2>1 DEF EventMsg, IsEvent
  <2>3. m \notin ToSlave
    BY <1>4, <2>2 DEF ToSlave, AnswerMsg, ReplyMsg
  <2>4. n.kind = m.kind /\ n.awaited = FALSE /\ n \in ReplyMsg
    BY <2>1 DEF ReplyMsg
  <2>. QED BY <2>2, <2>3, <2>4, Zenon DEF ToMaster
<1>. QED BY <1>1, <1>2, <1>3, <1>4 DEF ToSlave, ToMaster

(* What Forget does to a queue, whichever messages it looks for.            *)
LEMMA ForgetLoosens ==
  ASSUME NEW S \in {ToSlave, ToMaster}, NEW w \in Seq(S), NEW v,
         v = [i \in DOMAIN w |-> v[i]],
         \A i \in DOMAIN w :
           v[i] = w[i] \/ v[i] = [w[i] EXCEPT !.awaited = FALSE]
  PROVE  v \in Seq(S) /\ Loosens(w, v)
<1>1. Len(w) \in Nat /\ DOMAIN w = 1 .. Len(w)
  OBVIOUS
<1>2. ASSUME NEW i \in 1 .. Len(w)
      PROVE  /\ v[i] \in S
             /\ v[i].kind = w[i].kind /\ (v[i].awaited => w[i].awaited)
             /\ IsEvent(w[i]) => v[i].new = w[i].new /\ v[i].old = w[i].old
             /\ IsReply(v[i]) => v[i].life = w[i].life /\ v[i].ok = w[i].ok
  <2>0. w[i] \in S /\ w[i] \in ToSlave \cup ToMaster
    OBVIOUS
  <2>1. CASE v[i] = w[i]
    BY <2>0, <2>1
  <2>2. CASE v[i] = [w[i] EXCEPT !.awaited = FALSE]
    <3>1. /\ v[i].kind = w[i].kind /\ ~v[i].awaited
          /\ IsEvent(w[i]) => v[i].new = w[i].new /\ v[i].old = w[i].old
          /\ w[i] \in ToSlave => v[i] \in ToSlave
          /\ w[i] \in ToMaster => v[i] \in ToMaster
      BY <2>0, <2>2, NotAwaited
    <3>. QED BY <2>0, <3>1 DEF IsReply
  <2>. QED BY <1>1, <2>1, <2>2
<1>3. v \in [1 .. Len(w) -> S]
  BY <1>1, <1>2
<1>4. v \in Seq(S) /\ Len(v) = Len(w)
  BY <1>1, <1>3
<1>. QED BY <1>1, <1>2, <1>4 DEF Loosens

-----------------------------------------------------------------------------
(* A bound is used up.                                                      *)
LEMMA BoundUsed ==
  ASSUME bound \in [ticks : Nat, mstarts : Nat, sstarts : Nat, timeouts : Nat],
         NEW b \in {"ticks", "mstarts", "sstarts", "timeouts"}, Use(b)
  PROVE  /\ bound' \in [ticks : Nat, mstarts : Nat, sstarts : Nat,
                        timeouts : Nat]
         /\ bound'.sstarts = IF b = "sstarts" THEN bound.sstarts + 1
                             ELSE bound.sstarts
BY DEF Use

(* Steps of the slave that touch neither its time nor the events: it calls  *)
(* the master, or goes on.                                                  *)
LEMMA SlaveGoesOn ==
  ASSUME SInv, CInv',
         UNCHANGED <<mpc, tick, mtime, sim, known, mret, stime, cur, sin,
                     heard, bound>>,
         obj' = obj \/ (~obj' /\ hpc' = "idle"),
         hpc' = "idle" <=> hpc = "idle",
         hpc' \in {"restart", "answer"} => hpc \in {"restart", "answer"},
         min' = min \/ \E k \in {"type", "register", "unregister"},
                          c \in Callers : min' = Append(min, Request(k, c))
  PROVE  SInv'
<1>. DEFINE Kept ==
       /\ min' \in Seq(ToMaster)
       /\ NoReply(min) => NoReply(min')
       /\ OneReply(min) => OneReply(min')
       /\ Lives(min, bound.sstarts) => Lives(min', bound.sstarts)
       /\ Current(min', bound.sstarts) => Current(min, bound.sstarts)
<1>1. Kept
  <2>1. CASE min' = min
    BY <2>1 DEF SInv, MsgType
  <2>2. ASSUME NEW k \in {"type", "register", "unregister"},
               NEW c \in Callers, min' = Append(min, Request(k, c))
        PROVE  Kept
    <3>1. Request(k, c) \in ToMaster /\ ~IsReply(Request(k, c))
      BY DEF Request, ToMaster, RequestMsg, IsReply
    <3>2. min' \in Seq(ToMaster) /\ Grows(min, min', Request(k, c))
      BY <2>2, <3>1, AppendGrows DEF SInv, MsgType
    <3>. QED BY <3>1, <3>2, OtherQueued
  <2>. HIDE DEF Kept
  <2>. QED BY <2>1, <2>2
<1>2. MsgType'
  BY <1>1 DEF SInv, MsgType
<1>3. Target' = Target
  BY DEF Target
<1>4. PhaseInv' /\ LastInv' /\ ZeroInv'
  BY <1>3 DEF SInv, PhaseInv, LastInv, ZeroInv
<1>5. HandlerInv' /\ HeardInv'
  BY <1>3 DEF SInv, HandlerInv, HeardInv
<1>6. AwaitInv'
  BY <1>1, <1>3 DEF SInv, AwaitInv
<1>. QED BY <1>2, <1>4, <1>5, <1>6 DEF SInv

(* Steps of the master that tell nothing.                                   *)
LEMMA MasterGoesOn ==
  ASSUME SInv, CInv', MasterStarted \/ TickDone \/ MasterStop \/ MasterStopped
  PROVE  SInv'
<1>. USE DEF slave, updater
<1>1. /\ UNCHANGED <<known, min, stime, obj, hpc, cur, sin, heard, bound>>
      /\ mtime' \in Nat /\ sim' \in Nat
  BY DEF MasterStarted, TickDone, MasterStop, MasterStopped, SInv, MsgType
<1>2. Target' = Target
  BY DEF MasterStarted, TickDone, MasterStop, MasterStopped, Target
<1>3. mret' = "wait" <=> mret = "wait"
  BY DEF MasterStarted, TickDone, MasterStop, MasterStopped
<1>4. PhaseInv'
  BY DEF MasterStarted, TickDone, MasterStop, MasterStopped, SInv, PhaseInv
<1>5. MsgType'
  BY <1>1 DEF SInv, MsgType
<1>6. LastInv' /\ ZeroInv' /\ HandlerInv' /\ HeardInv'
  BY <1>1, <1>2 DEF SInv, LastInv, ZeroInv, HandlerInv, HeardInv
<1>7. AwaitInv'
  BY <1>1, <1>2, <1>3 DEF SInv, AwaitInv
<1>. QED BY <1>4, <1>5, <1>6, <1>7 DEF SInv

(* The master resets its clock or takes a step, and tells it.               *)
LEMMA MasterTells ==
  ASSUME SInv, CInv', MasterStart \/ Tick
  PROVE  SInv'
<1>. USE DEF slave, updater
<1>1. PICK e : /\ Send(e)
               /\ e = Event("reset", 0, mtime) \/ e = Event("update", sim, 0)
               /\ MasterStart => e = Event("reset", 0, mtime)
               /\ Tick => e = Event("update", sim, 0)
  <2>1. CASE MasterStart
    <3>1. ~Tick
      BY <2>1 DEF MasterStart, Tick
    <3>. QED BY <2>1, <3>1 DEF MasterStart
  <2>2. CASE Tick
    <3>1. ~MasterStart
      BY <2>2 DEF MasterStart, Tick
    <3>. QED BY <2>2, <3>1 DEF Tick
  <2>. QED BY <2>1, <2>2
<1>2. mtime \in Nat /\ sim \in Nat
  BY DEF SInv, MsgType
<1>3. /\ e \in EventMsg /\ IsEvent(e) /\ (e.kind = "reset" => e.new = 0)
      /\ e.awaited
  <2>1. ASSUME NEW k \in {"reset", "update"}, NEW n \in Nat, NEW o \in Nat,
               k = "reset" => n = 0, e = Event(k, n, o)
        PROVE  /\ e \in EventMsg /\ e.kind = k /\ e.new = n
               /\ e.awaited = TRUE /\ IsEvent(e)
    BY <2>1 DEF Event, EventMsg, IsEvent
  <2>2. /\ e \in EventMsg /\ IsEvent(e) /\ (e.kind = "reset" => e.new = 0)
        /\ e.awaited = TRUE
    BY <1>1, <1>2, <2>1
  <2>. QED BY <2>2, Zenon
<1>4. /\ UNCHANGED <<known, min, stime, obj, hpc, cur>>
      /\ mret # "wait" /\ heard' = 0 /\ Target' = e.new /\ PhaseInv'
      /\ mtime' \in Nat /\ sim' \in Nat
      /\ IsNoReset(e) => Target = 0
  <2>1. CASE MasterStart
    <3>1. mpc = "off" /\ tick = "off" /\ tick' = tick /\ mpc' = "reset"
      BY <2>1 DEF MasterStart, SInv, PhaseInv
    <3>2. e = Event("reset", 0, mtime)
      BY <1>1, <2>1
    <3>. QED BY <2>1, <3>1, <3>2, <1>1, <1>2 DEF MasterStart, SInv, PhaseInv,
         Target, Event, IsNoReset, Send
  <2>2. CASE Tick
    <3>1. /\ mpc = "on" /\ tick = "ready" /\ tick' = "call" /\ mpc' = mpc
          /\ mtime' = sim /\ sim' = sim + 1
      BY <2>2 DEF Tick, SInv, PhaseInv
    <3>2. e = Event("update", sim, 0)
      BY <1>1, <2>2
    <3>. QED BY <2>2, <3>1, <3>2, <1>1, <1>2 DEF Tick, SInv, PhaseInv, Target,
         Event, IsNoReset, Send
  <2>. QED BY <2>1, <2>2
<1>5. /\ bound' \in [ticks : Nat, mstarts : Nat, sstarts : Nat,
                     timeouts : Nat]
      /\ bound'.sstarts = bound.sstarts
  <2>1. PICK b \in {"ticks", "mstarts"} : Use(b)
    BY DEF MasterStart, Tick
  <2>. QED BY <2>1, BoundUsed DEF SInv, MsgType
<1>6. NoneAwaited(sin) /\ NoReply(min) /\ ~(hpc # "idle" /\ cur.awaited)
  BY <1>4 DEF SInv, AwaitInv
<1>7. CASE known
  <2>1. sin' = Append(sin, e) /\ mret' = "wait"
    BY <1>1, <1>7 DEF Send
  <2>2. sin' \in Seq(ToSlave) /\ Grows(sin, sin', e)
    BY <1>3, <2>1, AppendGrows DEF SInv, MsgType, ToSlave
  <2>3. /\ ~NoEvent(sin') /\ LastBrings(sin', Target')
        /\ ResetsToZero(sin') /\ NoResetFollowsZero(sin')
        /\ FirstNoReset(sin') =>
             FirstNoReset(sin) \/ (NoEvent(sin) /\ IsNoReset(e))
        /\ AwaitedIsLast(sin')
    <3>1. PICK t : t = Target
      OBVIOUS
    <3>2. /\ LastBrings(sin, t) /\ ResetsToZero(sin) /\ NoResetFollowsZero(sin)
          /\ IsNoReset(e) => t = 0
      BY <1>4, <3>1 DEF SInv, LastInv, ZeroInv
    <3>3. /\ ~NoEvent(sin') /\ LastBrings(sin', e.new)
          /\ ResetsToZero(sin') /\ NoResetFollowsZero(sin')
          /\ FirstNoReset(sin') =>
               FirstNoReset(sin) \/ (NoEvent(sin) /\ IsNoReset(e))
          /\ AwaitedIsLast(sin')
      BY <1>3, <1>6, <2>2, <3>2, EventQueued
    <3>. QED BY <1>4, <3>3
  <2>4. MsgType'
    BY <1>4, <1>5, <2>2 DEF SInv, MsgType
  <2>5. LastInv' /\ HandlerInv'
    BY <1>4, <1>5, <1>7, <2>3 DEF SInv, LastInv, HandlerInv
  <2>6. ZeroInv'
    BY <1>4, <2>3 DEF SInv, ZeroInv, LastInv
  <2>7. HeardInv'
    <3>1. bound.sstarts \in Nat /\ (obj => bound.sstarts # 0)
      BY DEF SInv, MsgType, HandlerInv
    <3>. QED BY <1>4, <1>5, <3>1 DEF HeardInv
  <2>8. AwaitInv'
    <3>1. ~Current(min, bound.sstarts)
      BY <1>6 DEF Current, NoReply
    <3>. QED BY <1>4, <1>5, <1>6, <2>1, <2>3, <3>1 DEF SInv, AwaitInv
  <2>. QED BY <1>4, <2>4, <2>5, <2>6, <2>7, <2>8 DEF SInv
<1>8. CASE ~known
  <2>1. sin' = sin /\ mret' = "none"
    BY <1>1, <1>8 DEF Send
  <2>2. NoEvent(sin) /\ hpc = "idle" /\ stime = 0
    BY <1>8 DEF SInv, HandlerInv
  <2>3. MsgType'
    BY <1>4, <1>5, <2>1 DEF SInv, MsgType
  <2>4. LastInv' /\ HandlerInv'
    <3>1. LastBrings(sin, Target')
      BY <2>2 DEF NoEvent, LastBrings
    <3>. QED BY <1>4, <1>5, <2>1, <2>2, <3>1 DEF SInv, LastInv, HandlerInv
  <2>5. ZeroInv'
    BY <1>4, <2>1, <2>2 DEF SInv, ZeroInv
  <2>6. HeardInv'
    <3>1. bound.sstarts \in Nat /\ (obj => bound.sstarts # 0)
      BY DEF SInv, MsgType, HandlerInv
    <3>. QED BY <1>4, <1>5, <3>1 DEF HeardInv
  <2>7. AwaitInv'
    <3>1. ~Current(min, bound.sstarts)
      BY <1>6 DEF Current, NoReply
    <3>. QED BY <1>4, <1>5, <1>6, <2>1, <2>2, <3>1 DEF SInv, AwaitInv
  <2>. QED BY <1>4, <2>3, <2>4, <2>5, <2>6, <2>7 DEF SInv
<1>. QED BY <1>7, <1>8

(* The master takes a request, which it answers.                            *)
LEMMA MasterTakesRequest ==
  ASSUME SInv, CInv', MasterReceive, Head(min).kind # "answer"
  PROVE  SInv'
<1>. USE DEF slave, updater
<1>1. /\ min # << >> /\ min' = Tail(min)
      /\ sin' = Append(sin, AnswerTo(Head(min)))
      /\ known' = (known \/ Head(min).kind = "register")
      /\ UNCHANGED <<mpc, tick, mtime, sim, mret, stime, obj, hpc, cur, heard,
                     bound>>
  BY DEF MasterReceive
<1>2. /\ min' \in Seq(ToMaster) /\ Shifts(min, min') /\ Head(min) = min[1]
      /\ Head(min) \in ToMaster
  BY <1>1, TailShifts DEF SInv, MsgType
<1>3. Head(min) \in RequestMsg
  BY <1>2 DEF ToMaster, ReplyMsg
<1>4. AnswerTo(Head(min)) \in ToSlave /\ ~IsEvent(AnswerTo(Head(min)))
  BY <1>3 DEF AnswerTo, RequestMsg, ToSlave, AnswerMsg, IsEvent
<1>5. sin' \in Seq(ToSlave) /\ Grows(sin, sin', AnswerTo(Head(min)))
  BY <1>1, <1>4, AppendGrows DEF SInv, MsgType
<1>6. /\ NoEvent(sin') <=> NoEvent(sin)
      /\ LastBrings(sin, Target) => LastBrings(sin', Target)
      /\ ResetsToZero(sin) => ResetsToZero(sin')
      /\ NoResetFollowsZero(sin) => NoResetFollowsZero(sin')
      /\ FirstNoReset(sin') => FirstNoReset(sin)
      /\ NoneAwaited(sin) => NoneAwaited(sin')
      /\ AwaitedIsLast(sin) => AwaitedIsLast(sin')
  BY <1>4, <1>5, AnswerQueued
<1>7. /\ NoReply(min) => NoReply(min')
      /\ OneReply(min) => OneReply(min')
      /\ Lives(min, bound.sstarts) => Lives(min', bound.sstarts)
      /\ Current(min', bound.sstarts) => Current(min, bound.sstarts)
  BY <1>2, ReplyTaken
<1>8. Target' = Target /\ (~known' => ~known)
  BY <1>1 DEF Target
<1>9. MsgType'
  BY <1>1, <1>2, <1>5 DEF SInv, MsgType
<1>10. PhaseInv' /\ LastInv' /\ ZeroInv'
  BY <1>1, <1>6, <1>8 DEF SInv, PhaseInv, LastInv, ZeroInv
<1>11. HandlerInv' /\ HeardInv'
  BY <1>1, <1>6, <1>8 DEF SInv, HandlerInv, HeardInv
<1>12. AwaitInv'
  BY <1>1, <1>6, <1>7, <1>8 DEF SInv, AwaitInv
<1>. QED BY <1>9, <1>10, <1>11, <1>12 DEF SInv

(* The master takes a reply: the one it waits for, or a late one.           *)
LEMMA MasterTakesReply ==
  ASSUME SInv, CInv', MasterReceive, Head(min).kind = "answer"
  PROVE  SInv'
<1>. USE DEF slave, updater
<1>1. /\ min # << >> /\ min' = Tail(min)
      /\ mret' = IF ~Head(min).awaited THEN mret
                 ELSE IF Head(min).ok THEN "ok" ELSE "fail"
      /\ heard' = IF Head(min).awaited /\ Head(min).ok
                  THEN Head(min).life ELSE heard
      /\ UNCHANGED <<mpc, tick, mtime, sim, known, stime, obj, hpc, cur, sin,
                     bound>>
  BY DEF MasterReceive
<1>2. /\ min' \in Seq(ToMaster) /\ Shifts(min, min') /\ Head(min) = min[1]
      /\ Head(min) \in ToMaster
  BY <1>1, TailShifts DEF SInv, MsgType
<1>3. Head(min).life \in Nat
  BY <1>2 DEF ToMaster, RequestMsg, ReplyMsg
<1>4. PICK s : s = bound.sstarts
  OBVIOUS
<1>5. /\ NoReply(min) => NoReply(min') /\ ~IsReply(Head(min))
      /\ OneReply(min')
      /\ IsReply(Head(min)) => NoReply(min') /\ Head(min).life <= s
      /\ Lives(min', s)
      /\ Current(min', s) => Current(min, s)
      /\ IsReply(Head(min)) /\ Head(min).ok /\ Head(min).life = s =>
           Current(min, s)
  <2>1. OneReply(min) /\ Lives(min, s)
    BY <1>4 DEF SInv, AwaitInv
  <2>. QED BY <1>2, <2>1, ReplyTaken
<1>6. Target' = Target
  BY <1>1 DEF Target
<1>7. MsgType'
  BY <1>1, <1>2, <1>3 DEF SInv, MsgType
<1>8. PhaseInv' /\ LastInv' /\ ZeroInv' /\ HandlerInv'
  BY <1>1, <1>6 DEF SInv, PhaseInv, LastInv, ZeroInv, HandlerInv
<1>9. CASE IsReply(Head(min))
  <2>1. NoEvent(sin) /\ hpc = "idle" /\ NoReply(min') /\ mret' # "wait"
    BY <1>1, <1>5, <1>9 DEF SInv, AwaitInv, IsReply
  <2>2. NoneAwaited(sin) /\ ~Current(min', s)
    BY <2>1 DEF NoEvent, NoneAwaited, NoReply, Current
  <2>3. AwaitInv'
    BY <1>1, <1>4, <1>5, <1>6, <2>1, <2>2 DEF SInv, AwaitInv
  <2>4. HeardInv'
    <3>1. CASE Head(min).ok
      <4>1. heard' = Head(min).life
        BY <1>1, <1>9, <3>1 DEF IsReply
      <4>2. heard' = s /\ obj => stime = Target
        BY <1>4, <1>5, <1>9, <3>1, <4>1 DEF SInv, AwaitInv
      <4>3. heard' <= s
        BY <1>5, <1>9, <4>1
      <4>. QED BY <1>1, <1>4, <1>6, <2>1, <4>2, <4>3 DEF HeardInv
    <3>2. CASE ~Head(min).ok
      <4>1. heard' = heard
        BY <1>1, <3>2
      <4>. QED BY <1>1, <1>6, <4>1 DEF SInv, HeardInv
    <3>. QED BY <3>1, <3>2
  <2>. QED BY <1>7, <1>8, <2>3, <2>4 DEF SInv
<1>10. CASE ~IsReply(Head(min))
  <2>1. mret' = mret /\ heard' = heard
    BY <1>1, <1>10 DEF IsReply
  <2>2. HeardInv'
    BY <1>1, <1>6, <2>1 DEF SInv, HeardInv
  <2>3. AwaitInv'
    BY <1>1, <1>4, <1>5, <1>6, <2>1 DEF SInv, AwaitInv
  <2>. QED BY <1>7, <1>8, <2>2, <2>3 DEF SInv
<1>. QED BY <1>9, <1>10

(* A new life of the slave.                                                 *)
LEMMA SlaveStarts ==
  ASSUME SInv, CInv', SlaveStart
  PROVE  SInv'
<1>. USE DEF slave, updater, master
<1>1. /\ spc = "off" /\ stime' = 0 /\ obj' = TRUE
      /\ min' = Append(min, Request("type", "state"))
      /\ UNCHANGED <<mpc, tick, mtime, sim, known, mret, hpc, cur, sin, heard>>
  BY DEF SlaveStart, Call
<1>2. hpc = "idle"
  BY <1>1 DEF SInv, CInv, QuietInv
<1>3. PICK s \in Nat : s = bound.sstarts
  BY DEF SInv, MsgType
<1>4. /\ bound' \in [ticks : Nat, mstarts : Nat, sstarts : Nat,
                     timeouts : Nat]
      /\ bound'.sstarts = s + 1
  BY <1>3, BoundUsed DEF SlaveStart, SInv, MsgType
<1>5. Request("type", "state") \in ToMaster /\ ~IsReply(Request("type", "state"))
  BY DEF Request, ToMaster, RequestMsg, IsReply, Callers
<1>6. min' \in Seq(ToMaster) /\ Grows(min, min', Request("type", "state"))
  BY <1>1, <1>5, AppendGrows DEF SInv, MsgType
<1>7. Lives(min, s + 1) /\ ~Current(min, s + 1)
  BY <1>3, LaterLife DEF SInv, MsgType, AwaitInv
<1>8. /\ NoReply(min) => NoReply(min')
      /\ OneReply(min) => OneReply(min')
      /\ Lives(min', s + 1) /\ ~Current(min', s + 1)
  BY <1>5, <1>6, <1>7, OtherQueued
<1>9. Target' = Target
  BY <1>1 DEF Target
<1>10. MsgType'
  BY <1>1, <1>4, <1>6 DEF SInv, MsgType
<1>11. PhaseInv' /\ LastInv' /\ ZeroInv' /\ HandlerInv'
  BY <1>1, <1>2, <1>3, <1>4, <1>9 DEF SInv, PhaseInv, LastInv, ZeroInv,
     HandlerInv
<1>12. HeardInv'
  BY <1>1, <1>3, <1>4 DEF SInv, HeardInv, MsgType
<1>13. AwaitInv'
  BY <1>1, <1>2, <1>4, <1>8, <1>9 DEF SInv, AwaitInv
<1>. QED BY <1>10, <1>11, <1>12, <1>13 DEF SInv

(* The slave takes an answer to one of its calls.                           *)
LEMMA SlaveTakesAnswer ==
  ASSUME SInv, CInv', SlaveReceive, Head(sin).kind = "answer"
  PROVE  SInv'
<1>. USE DEF master, updater
<1>1. /\ sin # << >> /\ sin' = Tail(sin)
      /\ UNCHANGED <<mpc, tick, mtime, sim, known, mret, min, stime, obj, hpc,
                     cur, heard, bound>>
  BY DEF SlaveReceive, SlaveAnswer
<1>2. /\ sin' \in Seq(ToSlave) /\ Shifts(sin, sin') /\ ~IsEvent(sin[1])
  <2>1. /\ sin' \in Seq(ToSlave) /\ Shifts(sin, sin') /\ Head(sin) = sin[1]
    BY <1>1, TailShifts DEF SInv, MsgType
  <2>. QED BY <2>1 DEF IsEvent
<1>3. /\ NoEvent(sin') <=> NoEvent(sin)
      /\ LastBrings(sin, Target) => LastBrings(sin', Target)
      /\ ResetsToZero(sin) => ResetsToZero(sin')
      /\ NoResetFollowsZero(sin) => NoResetFollowsZero(sin')
      /\ FirstNoReset(sin') => FirstNoReset(sin)
      /\ NoneAwaited(sin) => NoneAwaited(sin')
      /\ AwaitedIsLast(sin) => AwaitedIsLast(sin')
  BY <1>2, AnswerTaken
<1>4. Target' = Target
  BY <1>1 DEF Target
<1>5. MsgType' /\ PhaseInv'
  BY <1>1, <1>2 DEF SInv, MsgType, PhaseInv
<1>6. LastInv' /\ ZeroInv' /\ HandlerInv' /\ HeardInv'
  BY <1>1, <1>3, <1>4 DEF SInv, LastInv, ZeroInv, HandlerInv, HeardInv
<1>7. AwaitInv'
  BY <1>1, <1>3, <1>4 DEF SInv, AwaitInv
<1>. QED BY <1>5, <1>6, <1>7 DEF SInv

(* A reply is sent when the master waits for no other one.                  *)
LEMMA Replies ==
  ASSUME MsgType, NoReply(min), NEW e \in EventMsg, NEW ok \in BOOLEAN,
         min' = Append(min, Reply(e, ok))
  PROVE  /\ min' \in Seq(ToMaster)
         /\ OneReply(min') /\ Lives(min', bound.sstarts)
         /\ Current(min', bound.sstarts) => ok
         /\ ~e.awaited => NoReply(min')
<1>1. PICK r : r = Reply(e, ok)
  OBVIOUS
<1>2. PICK s \in Nat : s = bound.sstarts
  BY DEF MsgType
<1>3. /\ r = [kind |-> "answer", ok |-> ok, awaited |-> e.awaited, life |-> s]
      /\ e.awaited \in BOOLEAN
  BY <1>1, <1>2 DEF Reply, EventMsg
<1>4. /\ r \in ToMaster /\ r.life = s /\ r.awaited = e.awaited /\ r.ok = ok
  BY <1>3 DEF ToMaster, ReplyMsg
<1>5. min' \in Seq(ToMaster) /\ Grows(min, min', r)
  BY <1>1, <1>4, AppendGrows DEF MsgType
<1>6. /\ OneReply(min') /\ Lives(min', s)
      /\ Current(min', s) => r.ok
  BY <1>4, <1>5, ReplyQueued
<1>7. ASSUME ~e.awaited PROVE NoReply(min')
  BY <1>4, <1>5, <1>7, OtherQueued DEF IsReply
<1>. QED BY <1>2, <1>4, <1>5, <1>6, <1>7

(* The slave takes an event.  It is executed at once, or a reset begins.    *)
LEMMA SlaveTakesEvent ==
  ASSUME SInv, CInv', SlaveReceive, Head(sin).kind # "answer"
  PROVE  SInv'
<1>. USE DEF master, updater
<1>1. PICK e : e = Head(sin)
  OBVIOUS
<1>2. /\ sin # << >> /\ sin' = Tail(sin) /\ hpc = "idle" /\ SlaveEvent(e)
      /\ UNCHANGED <<mpc, tick, mtime, sim, known, mret, obj, heard, bound>>
  BY <1>1 DEF SlaveReceive
<1>3. /\ sin' \in Seq(ToSlave) /\ Shifts(sin, sin') /\ e = sin[1]
      /\ e \in EventMsg /\ IsEvent(sin[1])
  <2>1. /\ sin' \in Seq(ToSlave) /\ Shifts(sin, sin') /\ e = sin[1]
        /\ e \in ToSlave
    BY <1>1, <1>2, TailShifts DEF SInv, MsgType
  <2>2. e \in EventMsg
    BY <1>1, <2>1 DEF ToSlave, AnswerMsg
  <2>. QED BY <2>1, <2>2 DEF EventMsg, IsEvent
<1>4. Target' = Target
  BY <1>2 DEF Target
<1>5. /\ LastBrings(sin', Target) /\ ResetsToZero(sin')
      /\ NoResetFollowsZero(sin') /\ AwaitedIsLast(sin')
      /\ NoneAwaited(sin) => NoneAwaited(sin')
  BY <1>3, QueueShifts DEF SInv, LastInv, ZeroInv, AwaitInv
<1>6. /\ NoEvent(sin') => e.new = Target
      /\ FirstNoReset(sin') => e.new = 0
      /\ IsNoReset(e) => FirstNoReset(sin)
      /\ e.kind = "reset" => e.new = 0
      /\ e.awaited => NoEvent(sin')
      /\ ~NoEvent(sin) /\ (NoneAwaited(sin) => ~e.awaited)
  BY <1>3, EventTaken DEF SInv, LastInv, ZeroInv, AwaitInv
<1>7. /\ known /\ NoReply(min) /\ (e.awaited => mret = "wait")
      /\ ~(heard = bound.sstarts /\ obj)
  BY <1>6 DEF SInv, HandlerInv, AwaitInv, HeardInv
<1>8. PhaseInv' /\ HeardInv'
  BY <1>2, <1>7 DEF SInv, PhaseInv, HeardInv
<1>9. CASE obj /\ e.kind = "reset" /\ e.new # e.old
  <2>1. hpc' = "stop" /\ cur' = e /\ UNCHANGED <<min, stime>>
    BY <1>2, <1>9 DEF SlaveEvent
  <2>2. MsgType'
    BY <1>2, <1>3, <2>1 DEF SInv, MsgType
  <2>3. LastInv' /\ ZeroInv' /\ HandlerInv'
    BY <1>2, <1>4, <1>5, <1>6, <1>7, <1>9, <2>1 DEF SInv, LastInv, ZeroInv,
       HandlerInv
  <2>4. ~Current(min, bound.sstarts)
    BY <1>7 DEF NoReply, Current
  <2>5. AwaitInv'
    BY <1>2, <1>5, <1>6, <1>7, <2>1, <2>4 DEF SInv, AwaitInv
  <2>. QED BY <1>8, <2>2, <2>3, <2>5 DEF SInv
<1>10. CASE ~(obj /\ e.kind = "reset" /\ e.new # e.old)
  <2>1. /\ min' = Append(min, Reply(e, obj))
        /\ stime' = IF obj /\ e.kind = "update" THEN e.new ELSE stime
        /\ UNCHANGED <<hpc, cur>>
    BY <1>2, <1>10 DEF SlaveEvent
  <2>2. e.kind \in {"reset", "update"} /\ e.new \in Nat /\ obj \in BOOLEAN
    BY <1>3 DEF EventMsg, SInv, CInv, FlagType
  <2>3. obj => stime' = e.new
    <3>1. ASSUME obj, e.kind = "reset" PROVE stime = 0 /\ e.new = 0
      <4>1. IsNoReset(e)
        BY <1>6, <1>10, <3>1 DEF IsNoReset
      <4>. QED BY <1>2, <1>6, <3>1, <4>1 DEF SInv, ZeroInv
    <3>. QED BY <2>1, <2>2, <3>1
  <2>4. ~obj => stime' = stime
    BY <2>1
  <2>5. /\ min' \in Seq(ToMaster)
        /\ OneReply(min') /\ Lives(min', bound.sstarts)
        /\ ~e.awaited => NoReply(min')
    BY <1>3, <1>7, <2>1, <2>2, Replies DEF SInv
  <2>6. MsgType'
    BY <1>2, <1>3, <2>1, <2>2, <2>5 DEF SInv, MsgType
  <2>7. LastInv' /\ ZeroInv' /\ HandlerInv'
    BY <1>2, <1>4, <1>5, <1>6, <1>7, <2>1, <2>3 DEF SInv, LastInv, ZeroInv,
       HandlerInv
  <2>8. ASSUME e.awaited PROVE AwaitInv'
    <3>1. mret = "wait" /\ NoEvent(sin') /\ e.new = Target
      BY <1>6, <1>7, <2>8
    <3>2. NoneAwaited(sin')
      BY <3>1 DEF NoEvent, NoneAwaited
    <3>. QED BY <1>2, <1>4, <1>5, <2>1, <2>3, <2>5, <3>1, <3>2 DEF SInv,
         AwaitInv
  <2>9. ASSUME ~e.awaited PROVE AwaitInv'
    <3>1. NoReply(min') /\ ~Current(min', bound.sstarts)
      BY <2>5, <2>9 DEF NoReply, Current
    <3>2. NoneAwaited(sin') \/ mret = "wait"
      BY <1>5 DEF SInv, AwaitInv
    <3>. QED BY <1>2, <1>5, <2>1, <2>5, <3>1, <3>2 DEF SInv, AwaitInv
  <2>. QED BY <1>8, <2>6, <2>7, <2>8, <2>9 DEF SInv
<1>. QED BY <1>9, <1>10

(* While an event is being handled, the master has heard nothing yet.       *)
LEMMA NotHeardYet ==
  ASSUME SInv, hpc # "idle"
  PROVE  /\ known /\ obj /\ NoReply(min) /\ ~Current(min, bound.sstarts)
         /\ heard # bound.sstarts
<1>1. known /\ obj /\ NoReply(min)
  BY DEF SInv, HandlerInv, AwaitInv
<1>2. ~Current(min, bound.sstarts)
  BY <1>1 DEF NoReply, Current
<1>3. heard # bound.sstarts
  BY <1>1 DEF SInv, HeardInv
<1>. QED BY <1>1, <1>2, <1>3

(* The clock of the slave is reset, and then the reset is answered.         *)
LEMMA ResetExecuted ==
  ASSUME SInv, CInv', ResetJoined
  PROVE  SInv'
<1>. USE DEF master
<1>1. /\ hpc = "join" /\ hpc' \in {"restart", "answer"} /\ stime' = cur.new
      /\ UNCHANGED <<mpc, tick, mtime, sim, known, mret, min, obj, cur, sin,
                     heard, bound>>
  BY DEF ResetJoined
<1>2. /\ known /\ obj /\ ~Current(min, bound.sstarts) /\ heard # bound.sstarts
  BY <1>1, NotHeardYet
<1>3. Target' = Target
  BY <1>1 DEF Target
<1>4. MsgType'
  BY <1>1 DEF SInv, MsgType, EventMsg
<1>5. PhaseInv' /\ LastInv' /\ ZeroInv' /\ HandlerInv' /\ HeardInv'
  BY <1>1, <1>2, <1>3 DEF SInv, PhaseInv, LastInv, ZeroInv, HandlerInv,
     HeardInv
<1>6. AwaitInv'
  BY <1>1, <1>2 DEF SInv, AwaitInv
<1>. QED BY <1>4, <1>5, <1>6 DEF SInv

(* The answer to a reset keeps the invariant.                               *)
LEMMA ResetAnswered ==
  ASSUME SInv, CInv', ResetAnswer
  PROVE  SInv'
<1>. USE DEF master, updater
<1>1. /\ hpc = "answer" /\ hpc' = "idle" /\ min' = Append(min, Reply(cur, TRUE))
      /\ UNCHANGED <<mpc, tick, mtime, sim, known, mret, stime, obj, cur, sin,
                     heard, bound>>
  BY DEF ResetAnswer
<1>2. known /\ obj /\ NoReply(min) /\ heard # bound.sstarts
  BY <1>1, NotHeardYet
<1>3. Target' = Target
  BY <1>1 DEF Target
<1>4. stime = cur.new /\ cur \in EventMsg
  BY <1>1 DEF SInv, HandlerInv, MsgType
<1>5. /\ min' \in Seq(ToMaster)
      /\ OneReply(min') /\ Lives(min', bound.sstarts)
      /\ ~cur.awaited => NoReply(min')
  BY <1>1, <1>2, <1>4, Replies DEF SInv
<1>6. MsgType'
  BY <1>1, <1>5 DEF SInv, MsgType
<1>7. PhaseInv' /\ LastInv' /\ ZeroInv' /\ HandlerInv' /\ HeardInv'
  BY <1>1, <1>2, <1>3, <1>4 DEF SInv, PhaseInv, LastInv, ZeroInv, HandlerInv,
     HeardInv
<1>8. ASSUME cur.awaited PROVE AwaitInv'
  <2>1. mret = "wait" /\ NoEvent(sin) /\ cur.new = Target
    BY <1>1, <1>8 DEF SInv, AwaitInv, LastInv
  <2>2. NoneAwaited(sin)
    BY <2>1 DEF NoEvent, NoneAwaited
  <2>. QED BY <1>1, <1>3, <1>4, <1>5, <2>1, <2>2 DEF SInv, AwaitInv
<1>9. ASSUME ~cur.awaited PROVE AwaitInv'
  <2>1. NoReply(min') /\ ~Current(min', bound.sstarts)
    BY <1>5, <1>9 DEF NoReply, Current
  <2>. QED BY <1>1, <1>5, <2>1 DEF SInv, AwaitInv
<1>. QED BY <1>6, <1>7, <1>8, <1>9 DEF SInv

(* The master gives up its call: nothing of it is awaited any more.         *)
LEMMA EventGivenUp ==
  ASSUME SInv, CInv', GiveUpEvent
  PROVE  SInv'
<1>. USE DEF master, updater
<1>1. /\ mret' = "fail" /\ sin' = Forget(sin, IsEvent)
      /\ min' = Forget(min, IsAnswer) /\ cur' = [cur EXCEPT !.awaited = FALSE]
      /\ bound' = bound \/ Use("timeouts")
      /\ UNCHANGED <<mpc, tick, mtime, sim, known, stime, obj, hpc, heard>>
  BY DEF GiveUpEvent, Late
<1>2. PICK s : s = bound.sstarts
  OBVIOUS
<1>3. /\ bound' \in [ticks : Nat, mstarts : Nat, sstarts : Nat,
                     timeouts : Nat]
      /\ bound'.sstarts = s
  BY <1>1, <1>2, BoundUsed DEF SInv, MsgType
<1>4. /\ sin' \in Seq(ToSlave) /\ Loosens(sin, sin') /\ NoneAwaited(sin')
  <2>1. sin \in Seq(ToSlave)
    BY DEF SInv, MsgType
  <2>2. /\ sin' = [i \in DOMAIN sin |-> sin'[i]]
        /\ \A i \in DOMAIN sin :
             sin'[i] = IF IsEvent(sin[i])
                       THEN [sin[i] EXCEPT !.awaited = FALSE] ELSE sin[i]
    BY <1>1 DEF Forget
  <2>3. sin' \in Seq(ToSlave) /\ Loosens(sin, sin')
    BY <2>1, <2>2, ForgetLoosens
  <2>4. ASSUME NEW i \in 1 .. Len(sin'), IsEvent(sin'[i])
        PROVE  ~sin'[i].awaited
    <3>1. i \in DOMAIN sin /\ IsEvent(sin[i]) /\ sin[i] \in ToSlave
      BY <2>1, <2>3, <2>4 DEF Loosens, IsEvent
    <3>2. sin'[i] = [sin[i] EXCEPT !.awaited = FALSE]
      BY <2>2, <3>1
    <3>. QED BY <3>1, <3>2, NotAwaited
  <2>. QED BY <2>3, <2>4 DEF NoneAwaited
<1>5. /\ min' \in Seq(ToMaster) /\ Loosens(min, min') /\ NoReply(min')
  <2>1. min \in Seq(ToMaster)
    BY DEF SInv, MsgType
  <2>2. /\ min' = [i \in DOMAIN min |-> min'[i]]
        /\ \A i \in DOMAIN min :
             min'[i] = IF IsAnswer(min[i])
                       THEN [min[i] EXCEPT !.awaited = FALSE] ELSE min[i]
    BY <1>1 DEF Forget
  <2>3. min' \in Seq(ToMaster) /\ Loosens(min, min')
    BY <2>1, <2>2, ForgetLoosens
  <2>4. ASSUME NEW i \in 1 .. Len(min'), min'[i].kind = "answer"
        PROVE  ~min'[i].awaited
    <3>1. i \in DOMAIN min /\ IsAnswer(min[i]) /\ min[i] \in ToMaster
      BY <2>1, <2>3, <2>4 DEF Loosens, IsAnswer
    <3>2. min'[i] = [min[i] EXCEPT !.awaited = FALSE]
      BY <2>2, <3>1
    <3>. QED BY <3>1, <3>2, NotAwaited
  <2>. QED BY <2>3, <2>4 DEF NoReply, IsReply
<1>6. /\ cur' \in EventMsg /\ cur'.new = cur.new /\ ~cur'.awaited
  <2>1. cur \in EventMsg /\ IsEvent(cur) /\ cur \in ToSlave
    BY DEF SInv, MsgType, EventMsg, IsEvent, ToSlave
  <2>. QED BY <1>1, <2>1, NotAwaited
<1>7. /\ NoEvent(sin') <=> NoEvent(sin)
      /\ LastBrings(sin, Target) => LastBrings(sin', Target)
      /\ ResetsToZero(sin) => ResetsToZero(sin')
      /\ NoResetFollowsZero(sin) => NoResetFollowsZero(sin')
      /\ FirstNoReset(sin') => FirstNoReset(sin)
      /\ AwaitedIsLast(sin) => AwaitedIsLast(sin')
  BY <1>4, QueueLoosened
<1>8. /\ OneReply(min) => OneReply(min')
      /\ Lives(min, s) => Lives(min', s)
      /\ Current(min', s) => Current(min, s)
  BY <1>5, RepliesLoosened
<1>9. Target' = Target
  BY <1>1 DEF Target
<1>10. MsgType' /\ PhaseInv'
  BY <1>1, <1>3, <1>4, <1>5, <1>6 DEF SInv, MsgType, PhaseInv
<1>11. LastInv' /\ ZeroInv' /\ HandlerInv' /\ HeardInv'
  BY <1>1, <1>2, <1>3, <1>6, <1>7, <1>9 DEF SInv, LastInv, ZeroInv,
     HandlerInv, HeardInv
<1>12. AwaitInv'
  BY <1>1, <1>2, <1>3, <1>4, <1>5, <1>6, <1>7, <1>8, <1>9 DEF SInv, AwaitInv
<1>. QED BY <1>10, <1>11, <1>12 DEF SInv

(* The slave gives up one of its calls, which is no event.                  *)
LEMMA RequestGivenUp ==
  ASSUME SInv, CInv', NEW c \in Callers, GiveUpRequest(c)
  PROVE  SInv'
<1>. USE DEF master, updater, slave
<1>1. /\ sin' = Forget(sin, LAMBDA m : m.kind = "answer" /\ IsFrom(m, c))
      /\ min' = Forget(min, LAMBDA m : m.kind # "answer" /\ IsFrom(m, c))
      /\ bound' = bound \/ Use("timeouts")
      /\ UNCHANGED <<mpc, tick, mtime, sim, known, mret, stime, obj, hpc, cur,
                     heard>>
  BY DEF GiveUpRequest, Late
<1>2. PICK s : s = bound.sstarts
  OBVIOUS
<1>3. /\ bound' \in [ticks : Nat, mstarts : Nat, sstarts : Nat,
                     timeouts : Nat]
      /\ bound'.sstarts = s
  BY <1>1, <1>2, BoundUsed DEF SInv, MsgType
<1>4. sin' \in Seq(ToSlave) /\ Loosens(sin, sin')
  <2>1. sin \in Seq(ToSlave)
    BY DEF SInv, MsgType
  <2>2. /\ sin' = [i \in DOMAIN sin |-> sin'[i]]
        /\ \A i \in DOMAIN sin :
             \/ sin'[i] = sin[i]
             \/ sin'[i] = [sin[i] EXCEPT !.awaited = FALSE]
    BY <1>1 DEF Forget
  <2>. QED BY <2>1, <2>2, ForgetLoosens
<1>5. min' \in Seq(ToMaster) /\ Loosens(min, min')
  <2>1. min \in Seq(ToMaster)
    BY DEF SInv, MsgType
  <2>2. /\ min' = [i \in DOMAIN min |-> min'[i]]
        /\ \A i \in DOMAIN min :
             \/ min'[i] = min[i]
             \/ min'[i] = [min[i] EXCEPT !.awaited = FALSE]
    BY <1>1 DEF Forget
  <2>. QED BY <2>1, <2>2, ForgetLoosens
<1>6. /\ NoEvent(sin') <=> NoEvent(sin)
      /\ LastBrings(sin, Target) => LastBrings(sin', Target)
      /\ ResetsToZero(sin) => ResetsToZero(sin')
      /\ NoResetFollowsZero(sin) => NoResetFollowsZero(sin')
      /\ FirstNoReset(sin') => FirstNoReset(sin)
      /\ NoneAwaited(sin) => NoneAwaited(sin')
      /\ AwaitedIsLast(sin) => AwaitedIsLast(sin')
  BY <1>4, QueueLoosened
<1>7. /\ NoReply(min) => NoReply(min')
      /\ OneReply(min) => OneReply(min')
      /\ Lives(min, s) => Lives(min', s)
      /\ Current(min', s) => Current(min, s)
  BY <1>5, RepliesLoosened
<1>8. Target' = Target
  BY <1>1 DEF Target
<1>9. MsgType' /\ PhaseInv'
  BY <1>1, <1>3, <1>4, <1>5 DEF SInv, MsgType, PhaseInv
<1>10. LastInv' /\ ZeroInv' /\ HandlerInv' /\ HeardInv'
  BY <1>1, <1>2, <1>3, <1>6, <1>8 DEF SInv, LastInv, ZeroInv,
     HandlerInv, HeardInv
<1>11. AwaitInv'
  BY <1>1, <1>2, <1>3, <1>6, <1>7, <1>8 DEF SInv, AwaitInv
<1>. QED BY <1>9, <1>10, <1>11 DEF SInv

(* Every step preserves the invariant.                                      *)
LEMMA SStep == SInv /\ [Next]_vars => SInv'
<1>. SUFFICES ASSUME SInv, [Next]_vars PROVE SInv'
  OBVIOUS
<1>0. CInv'
  BY CStep DEF SInv
<1>1. CASE MasterStart \/ Tick
  BY <1>0, <1>1, MasterTells
<1>2. CASE MasterStarted \/ TickDone \/ MasterStop \/ MasterStopped
  BY <1>0, <1>2, MasterGoesOn
<1>3. CASE MasterReceive
  BY <1>0, <1>3, MasterTakesRequest, MasterTakesReply
<1>4. CASE SlaveStart
  BY <1>0, <1>4, SlaveStarts
<1>5. CASE SlaveType \/ SlaveJoined \/ WorkerLoop \/ WorkerType
  <2>1. /\ UNCHANGED <<mpc, tick, mtime, sim, known, mret, stime, cur, sin,
                       heard, bound, obj, hpc>>
        /\ min' = min \/ \E k \in {"type", "register", "unregister"},
                            c \in Callers : min' = Append(min, Request(k, c))
    BY <1>5 DEF SlaveType, SlaveJoined, WorkerLoop, WorkerType, Call, Callers,
       master, slave
  <2>. QED BY <1>0, <2>1, SlaveGoesOn
<1>6. CASE SlaveRegister \/ SlaveStop \/ SlaveDestroyed \/ WorkerRegister
  <2>1. UNCHANGED <<mpc, tick, mtime, sim, known, mret, min, stime, cur, sin,
                    heard, bound, obj, hpc>>
    BY <1>6 DEF SlaveRegister, SlaveStop, SlaveDestroyed, WorkerRegister,
       master, slave
  <2>. QED BY <1>0, <2>1, SlaveGoesOn
<1>7. CASE SlaveBegin
  <2>1. UNCHANGED <<mpc, tick, mtime, sim, known, mret, min, stime, cur, sin,
                    heard, bound, obj, hpc>>
    BY <1>7 DEF SlaveBegin, StartWorking, master
  <2>. QED BY <1>0, <2>1, SlaveGoesOn
<1>8. CASE SlaveUnregistered
  <2>1. UNCHANGED <<mpc, tick, mtime, sim, known, mret, min, stime, cur, sin,
                    heard, bound, hpc>>
    BY <1>8 DEF SlaveUnregistered, master
  <2>2. hpc = "idle" /\ obj' = FALSE
    BY <1>8 DEF SlaveUnregistered
  <2>3. ~obj' /\ hpc' = "idle"
    BY <2>1, <2>2, Zenon
  <2>. QED BY <1>0, <2>1, <2>3, SlaveGoesOn
<1>9. CASE SlaveReceive
  BY <1>0, <1>9, SlaveTakesAnswer, SlaveTakesEvent
<1>10. CASE ResetStop \/ ResetRestart
  <2>1. /\ UNCHANGED <<mpc, tick, mtime, sim, known, mret, min, stime, cur,
                       sin, heard, bound, obj>>
        /\ \/ hpc = "stop" /\ hpc' = "join"
           \/ hpc = "restart" /\ hpc' \in {"restart", "answer"}
    BY <1>10 DEF ResetStop, ResetRestart, StartWorking, master
  <2>. QED BY <1>0, <2>1, SlaveGoesOn
<1>11. CASE ResetJoined
  BY <1>0, <1>11, ResetExecuted
<1>12. CASE ResetAnswer
  BY <1>0, <1>12, ResetAnswered
<1>13. CASE GiveUpEvent
  BY <1>0, <1>13, EventGivenUp
<1>14. ASSUME NEW c \in Callers, GiveUpRequest(c) PROVE SInv'
  BY <1>0, <1>14, RequestGivenUp
<1>15. CASE UNCHANGED vars
  BY <1>0, <1>15, SlaveGoesOn DEF vars, master, slave
<1>. QED BY <1>1, <1>2, <1>3, <1>4, <1>5, <1>6, <1>7, <1>8, <1>9, <1>10,
            <1>11, <1>12, <1>13, <1>14, <1>15
         DEF Next, Master, State, Worker, Handler

(* The initial states satisfy the invariant of the slave.                   *)
LEMMA SStart == Init => SInv
<1>. SUFFICES ASSUME Init PROVE SInv
  OBVIOUS
<1>1. CInv
  BY CStart
<1>2. /\ sin = << >> /\ min = << >> /\ Len(sin) = 0 /\ Len(min) = 0
      /\ mpc = "off" /\ tick = "off" /\ mtime = 0 /\ sim = 0 /\ stime = 0
      /\ mret = "none" /\ hpc = "idle" /\ heard = 0
      /\ bound = [ticks |-> 0, mstarts |-> 0, sstarts |-> 0, timeouts |-> 0]
  BY DEF Init
<1>3. obj = FALSE /\ cur = Event("reset", 0, 0)
  BY DEF Init
<1>4. ~obj
  BY <1>3, Zenon
<1>5. MsgType
  <2>1. cur \in EventMsg
    BY <1>3 DEF Event, EventMsg
  <2>. QED BY <1>2, <2>1 DEF MsgType
<1>6. NoEvent(sin) /\ NoneAwaited(sin) /\ AwaitedIsLast(sin)
  BY <1>2 DEF NoEvent, NoneAwaited, AwaitedIsLast
<1>7. /\ LastBrings(sin, Target) /\ ResetsToZero(sin)
      /\ NoResetFollowsZero(sin) /\ ~FirstNoReset(sin)
  BY <1>2 DEF LastBrings, ResetsToZero, NoResetFollowsZero, FirstNoReset
<1>8. NoReply(min) /\ OneReply(min) /\ Lives(min, 0) /\ ~Current(min, 0)
  BY <1>2 DEF NoReply, OneReply, Lives, Current
<1>9. PhaseInv /\ LastInv /\ ZeroInv
  BY <1>2, <1>4, <1>6, <1>7 DEF PhaseInv, LastInv, ZeroInv
<1>10. HandlerInv /\ HeardInv
  BY <1>2, <1>4, <1>6 DEF HandlerInv, HeardInv
<1>11. AwaitInv
  BY <1>2, <1>4, <1>6, <1>8 DEF AwaitInv
<1>. QED BY <1>1, <1>5, <1>9, <1>10, <1>11 DEF SInv

(* When the slave has answered a step or a reset of the master's clock, it  *)
(* has the master's time until the master tells the next one: neither an    *)
(* event of a call that was given up, nor a late reply to one, nor a        *)
(* restart of the slave can make the master believe otherwise.              *)
THEOREM AnsweredSlaveSynced == Spec => []AnsweredMeansSynced
<1>1. SInv => AnsweredMeansSynced
  BY DEF SInv, HeardInv, PhaseInv, Target, AnsweredMeansSynced
<1>. QED BY <1>1, SStart, SStep, PTL DEF Spec
=============================================================================
