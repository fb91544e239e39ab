-------------------------------- MODULE Rpc --------------------------------
(***************************************************************************)
(* Remote procedure calls (fep3/components/rpc): cRPC::SendRequest with    *)
(* wait_for_response, the response queue of one connected element          *)
(* (cResponseQueue, cServerRPCConnections), HandleResponse in the thread   *)
(* of the bus and Initialize, Connect and Shutdown of the component.       *)
(*                                                                         *)
(* All threads that call the same element share one queue.  A response     *)
(* may come late, after the request has timed out, or never, and the       *)
(* component may be shut down while requests wait.  A request and its      *)
(* response are <<thread, id>>: the code only looks at the id, which       *)
(* get_request_id may give to two threads.                                 *)
(***************************************************************************)
EXTENDS Integers, Sequences, FiniteSets, FiniteSetsExt

CONSTANTS
  Threads,      \* threads that send requests
  MaxRequests,  \* bound: requests of all threads
  MaxLives      \* bound: how often the component is initialized

ASSUME RpcAssumption == /\ MaxRequests \in Nat /\ MaxLives \in Nat
                        /\ IsFiniteSet(Threads)

NoId     == 0                  \* the static counter starts with it
Requests == Threads \X Nat
Stop     == <<"stop", NoId>>   \* the item that cancels, others are responses
Nothing  == <<"none", NoId>>
Id(item) == item[2]

(* A mutant: the count is signed.                                           *)
SignedCount(n) == n

(* m_szCurrentCount is unsigned: below 0 it continues at its greatest value.*)
CountRange == 65536            \* stands for 2^64
Count(n)   == n % CountRange

VARIABLES
  command,   \* m_pCommandAccess is set
  stopped,  \* m_bStopped
  queue,    \* m_oResponseQueues has an entry for the element
  items,    \* m_lstItems of the queue: responses and stop items
  size,     \* its m_szCurrentCount
  pc,       \* where each thread is in SendRequest
  req,      \* the request id of each thread
  counter,  \* the static counter of get_request_id
  bus,      \* the response the thread of the bus is about to push
  ctl,      \* what the thread that creates and destroys is doing
  asked,    \* requests on their way to the element or in work there
  replies,  \* responses on their way back
  made,     \* history: the requests that were sent
  arrived,  \* history: responses that were pushed to the queue
  lives     \* what is used up of MaxLives

component == <<command, stopped, queue, ctl, lives>>
contents  == <<items, size>>
ids       == <<req, counter>>
callers   == <<pc, ids>>
network   == <<asked, replies>>
history   == <<made, arrived>>
vars == <<component, contents, callers, bus, network, history>>

Init ==
  /\ command = FALSE /\ stopped = FALSE /\ queue = FALSE
  /\ items = <<>> /\ size = 0
  /\ pc = [t \in Threads |-> "idle"] /\ req = [t \in Threads |-> NoId]
  /\ counter = NoId
  /\ bus = Nothing /\ ctl = "down"
  /\ asked = {} /\ replies = {} /\ made = {} /\ arrived = {}
  /\ lives = 0

-----------------------------------------------------------------------------
(***************************************************************************)
(* Life cycle.                                                             *)
(***************************************************************************)
Initialize ==
  /\ ctl = "down" /\ lives < MaxLives
  /\ command' = TRUE /\ ctl' = "up" /\ lives' = lives + 1
  /\ UNCHANGED <<stopped, queue, contents, callers, bus, network, history>>

(* Connect: AddForKey.  Clients connect while the component is in use.      *)
Connect ==
  /\ ctl = "up" /\ ~queue
  /\ queue' = TRUE
  /\ UNCHANGED <<command, stopped, ctl, lives, contents, callers, bus, network,
                 history>>

(* StopAllConnections: with the lock every queue gets a stop item.          *)
StopConnections ==
  /\ ctl = "up"
  /\ stopped' = TRUE /\ ctl' = "busy"
  /\ IF queue THEN items' = Append(items, Stop) /\ size' = Count(size + 1)
              ELSE UNCHANGED contents
  /\ UNCHANGED <<command, queue, lives, callers, bus, network, history>>

(* Who holds a reference to the queue (m_refCounter counts them).           *)
Callers == {t \in Threads : pc[t] \in {"count", "send", "wait", "pop"}}
InUse   == Callers # {} \/ bus # Nothing

(* BusyWait, without the lock, until nobody holds a reference.              *)
BusyWait ==
  /\ ctl = "busy" /\ ~InUse
  /\ ctl' = "clear"
  /\ UNCHANGED <<command, stopped, queue, lives, contents, callers, bus,
                 network, history>>

(* Then the queues are cleared and new references are possible again.       *)
ClearConnections ==
  /\ ctl = "clear"
  /\ queue' = FALSE /\ items' = <<>> /\ size' = 0
  /\ stopped' = FALSE /\ ctl' = "closing"
  /\ UNCHANGED <<command, lives, callers, bus, network, history>>

(* The rest of Shutdown.                                                    *)
Close ==
  /\ ctl = "closing"
  /\ command' = FALSE /\ ctl' = "down"
  /\ UNCHANGED <<stopped, queue, lives, contents, callers, bus, network,
                 history>>

-----------------------------------------------------------------------------
(***************************************************************************)
(* SendRequest.                                                            *)
(***************************************************************************)
Move(t, place) == pc' = [pc EXCEPT ![t] = place]

(* Requests that have an id or will be given one.                           *)
Begun == counter + Cardinality({t \in Threads : pc[t] \in {"enter", "count"}})

Call(t) ==
  /\ pc[t] = "idle" /\ command /\ Begun < MaxRequests
  /\ Move(t, "enter")
  /\ UNCHANGED <<component, contents, ids, bus, network, history>>

(* A mutant: a reference is given out during StopAllConnections.            *)
GetWhileStopping == queue

(* cServerRPCConnections::Get.                                              *)
Get == queue /\ ~stopped

Enter(t) ==
  /\ pc[t] = "enter"
  /\ Move(t, IF Get THEN "count" ELSE "idle")
  /\ UNCHANGED <<component, contents, ids, bus, network, history>>

(* get_request_id: ui32Value++ ...                                          *)
CountRequest(t) ==
  /\ pc[t] = "count"
  /\ counter' = counter + 1
  /\ Move(t, "send")
  /\ UNCHANGED <<component, contents, req, bus, network, history>>

(* ... and return ui32Value, another access: a thread that counted in       *)
(* between gets the same id.  The command is sent with it.                  *)
Transmit(t) ==
  /\ pc[t] = "send"
  /\ req' = [req EXCEPT ![t] = counter]
  /\ asked' = asked \cup {<<t, counter>>} /\ made' = made \cup {<<t, counter>>}
  /\ Move(t, "wait")
  /\ UNCHANGED <<component, contents, counter, bus, replies, arrived>>

TransmitFails(t) ==
  /\ pc[t] = "send"
  /\ Move(t, "idle")
  /\ UNCHANGED <<component, contents, ids, bus, network, history>>

(* WaitForNotEmpty returns true.  It polls, so a lost notification of the   *)
(* condition variable only costs time.                                      *)
See(t) ==
  /\ pc[t] = "wait" /\ size # 0
  /\ Move(t, "pop")
  /\ UNCHANGED <<component, contents, ids, bus, network, history>>

(* Where PopItemMatchesRequestId stops: the first item that is a stop item  *)
(* or has the id, whoever it was given to, or the end.                      *)
Looked(t, item) == item = Stop \/ Id(item) = req[t]
Matches(t) == {i \in 1..Len(items) : Looked(t, items[i])}
Found(t)   == Matches(t) # {}
Popped(t)  == IF Found(t) THEN Min(Matches(t)) ELSE Len(items)

(* A mutant: the items that did not match are dropped.                      *)
BackupOfNone(t) == <<>>

(* A mutant: a stop item is consumed by the first thread that finds it.     *)
BackupWithoutStop(t) == SelectSeq(SubSeq(items, 1, Popped(t)),
                                  LAMBDA item : ~Looked(t, item))

(* What it puts back: the items that did not match, and a stop item.        *)
Backup(t) ==
  IF Found(t) /\ items[Popped(t)] # Stop
  THEN SubSeq(items, 1, Popped(t) - 1) ELSE SubSeq(items, 1, Popped(t))

(* PopItemMatchesRequestId with PushBackup, which corrects the count only   *)
(* if it is not 0: afterwards items may be hidden behind a count of 0, and  *)
(* the next thread that takes a hidden item lets the count pass below 0.    *)
Take(t) ==
  LET left == Count(size - Popped(t))
  IN  /\ pc[t] = "pop"
      /\ items' = SubSeq(items, Popped(t) + 1, Len(items)) \o Backup(t)
      /\ size' = IF left # 0 THEN Count(left + Len(Backup(t))) ELSE 0
      /\ Move(t, IF Found(t) THEN "idle" ELSE "wait")
      /\ UNCHANGED <<component, ids, bus, network, history>>

(* The timeout has passed at the end of a turn of wait_for_response.        *)
Timeout(t) ==
  /\ pc[t] = "wait"
  /\ Move(t, "idle")
  /\ UNCHANGED <<component, contents, ids, bus, network, history>>

-----------------------------------------------------------------------------
(***************************************************************************)
(* The element that answers, and HandleResponse.                           *)
(***************************************************************************)
(* HandleRequest of the element, external to this participant.              *)
Respond(r) ==
  /\ r \in asked
  /\ asked' = asked \ {r} /\ replies' = replies \cup {r}
  /\ UNCHANGED <<component, contents, callers, bus, history>>

(* HandleResponse takes a reference; a response without a queue, or without *)
(* a listener of commands, is dropped.                                      *)
Receive(r) ==
  /\ r \in replies /\ bus = Nothing
  /\ replies' = replies \ {r}
  /\ bus' = IF command /\ Get THEN r ELSE Nothing
  /\ UNCHANGED <<component, contents, callers, asked, history>>

(* A mutant: the reference is not released.                                 *)
PushAndKeep ==
  /\ bus # Nothing /\ bus \notin arrived
  /\ items' = Append(items, bus) /\ size' = Count(size + 1)
  /\ arrived' = arrived \cup {bus}
  /\ UNCHANGED <<component, callers, network, made, bus>>

Push ==
  /\ bus # Nothing
  /\ items' = Append(items, bus) /\ size' = Count(size + 1)
  /\ arrived' = arrived \cup {bus}
  /\ bus' = Nothing
  /\ UNCHANGED <<component, callers, network, made>>

-----------------------------------------------------------------------------
Lifecycle == \/ Initialize \/ Connect \/ StopConnections \/ BusyWait
             \/ ClearConnections \/ Close

Thread(t) == \/ Call(t) \/ Enter(t) \/ CountRequest(t)
             \/ Transmit(t) \/ TransmitFails(t) \/ See(t)
             \/ Take(t) \/ Timeout(t)

Next == \/ Lifecycle
        \/ \E t \in Threads : Thread(t)
        \/ \E r \in asked \cup replies : Respond(r) \/ Receive(r)
        \/ Push

Spec == Init /\ [][Next]_vars

(* Threads go on.  wait_for_response compares the time in every turn, so    *)
(* that a thread that turns forever leaves in the end.  A remote element    *)
(* need not answer.                                                         *)
FairSpec ==
  /\ Spec
  /\ WF_vars(BusyWait) /\ WF_vars(ClearConnections) /\ WF_vars(Close)
  /\ WF_vars(Push)
  /\ \A t \in Threads : /\ WF_vars(Enter(t) \/ CountRequest(t) \/ Take(t))
                        /\ WF_vars(Transmit(t) \/ TransmitFails(t))
                        /\ SF_vars(Timeout(t))

-----------------------------------------------------------------------------
(* Every variable has its type.                                             *)
TypeOK ==
  /\ {command, stopped, queue} \subseteq BOOLEAN
  /\ items \in Seq(Requests \cup {Stop}) /\ size \in 0..CountRange - 1
  /\ pc \in [Threads -> {"idle", "enter", "count", "send", "wait", "pop"}]
  /\ req \in [Threads -> Nat] /\ counter \in Nat
  /\ bus \in Requests \cup {Nothing}
  /\ ctl \in {"down", "up", "busy", "clear", "closing"}
  /\ asked \cup replies \cup made \cup arrived \subseteq Requests
  /\ lives \in Nat

(* A queue that a thread refers to exists, and so does the command access   *)
(* it sends with: StopAllConnections waits for all references before        *)
(* Shutdown destroys them, and none is given out in between.                *)
UsedWhileAlive == InUse => queue /\ command

(* The item that cancels the requests stays in the queue for all of them:   *)
(* whoever takes it out of the queue puts it back.                          *)
StopStays == ctl = "busy" /\ queue => \E i \in 1..Len(items) : items[i] = Stop

(* What t waits for, and whether another thread was given the same id.      *)
Own(t)  == <<t, req[t]>>
Twin(t) == \E u \in Threads \ {t} : <<u, req[t]>> \in made

(* A response that has reached the queue stays there until the thread that  *)
(* asked takes it, whatever other threads take out and put back; only a     *)
(* thread that get_request_id gave the same id to can take it as its own.   *)
NothingLost ==
  \A t \in Threads :
    pc[t] \in {"wait", "pop"} /\ Own(t) \in arrived /\ ~Twin(t)
      => \E i \in 1..Len(items) : items[i] = Own(t)

(* Shutdown ends, whoever waits for a response.                             *)
ShutdownEnds == ctl = "busy" ~> ctl = "down"

(* SendRequest returns.                                                     *)
RequestReturns == \A t \in Threads : pc[t] = "wait" ~> pc[t] = "idle"

(* Neither who asks nor who shuts down waits for ever.                      *)
CallsReturn == ShutdownEnds /\ RequestReturns

-----------------------------------------------------------------------------
(* What the code means to do and does not; both are violated.               *)

(* "The client provides the methods for sending requests to a server and    *)
(* returns the server response", that is, the one to its own request:       *)
(* threads that wait at one element look for different responses.           *)
DistinctIds ==
  \A t, u \in Threads :
    t # u /\ {pc[t], pc[u]} \subseteq {"wait", "pop"} => req[t] # req[u]

(* PushBackup: "notify again to trigger the other thread may be waiting".   *)
(* A thread whose response is in the queue does not take it for empty.      *)
AnswerVisible ==
  \A t \in Threads :
    pc[t] = "wait" /\ (\E i \in 1..Len(items) : items[i] = Own(t)) => size # 0
=============================================================================
