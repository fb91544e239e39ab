--------------------------- MODULE PropertyMirror ---------------------------
(***************************************************************************)
(* Remote access to one property: the provider, whose tree holds it, and a *)
(* consumer that reads, sets, deletes and mirrors it (cPropertyTree and the*)
(* property classes below it).                                             *)
(*                                                                         *)
(* Threads of the provider: its message thread, which handles commands one *)
(* after the other, and a user thread that changes the value.  Threads of  *)
(* the consumer: its message thread, which delivers notifications to the   *)
(* listeners under m_oAdapterMutex (one step each); a thread that gets,    *)
(* sets and deletes under m_oLockDamagedRemoteAccess (so there is one at a *)
(* time); and a thread that mirrors and unmirrors.  Both directions of the *)
(* bus are reliable and keep the order; how long they take is open.        *)
(*                                                                         *)
(* Left out: subproperties, arrays, types and paths (the property is a     *)
(* string and the root of what is mirrored), so also a double that is      *)
(* written to an integer, where the listeners are not told of a change     *)
(* behind the point; name changes, the end of the module.  A               *)
(* deletion while another thread is inside a write frees the object that is*)
(* written to; the model only deletes between two writes.  When the command*)
(* of a MirrorRemoteProperty cannot be sent, its listener, an object on the*)
(* stack, stays registered; the model sends that command always.           *)
(***************************************************************************)
EXTENDS Naturals, Sequences

CONSTANTS
  Values,     \* values of the property
  None,       \* no property, no answer, no copy
  MaxWrites,  \* bound: changes made by the provider's user thread
  MaxAccess,  \* bound: get, set and delete calls
  MaxMirror   \* bound: mirror and unmirror calls

ASSUME MirrorAssumption ==
  /\ Values # {} /\ None \notin Values
  /\ {MaxWrites, MaxAccess, MaxMirror} \subseteq Nat

VARIABLES
  value,   \* value at the provider, None when the property does not exist
  refs,    \* reference count of the proxy listener, 0 when there is none
  job,     \* what the provider's message thread is doing
  writing, \* for each thread that sets the value: where it is
  cmds,    \* commands on their way to the provider
  notes,   \* notifications on their way to the consumer
  access,  \* the get or set the consumer is in
  mirror,  \* the mirror or unmirror call the consumer is in
  sub,     \* the listener for changes is registered
  local,   \* the consumer's copy
  heard,   \* history: sub, and a change has come since it was registered
  raced,   \* history: two writes overlapped
  leaked,  \* history: a subscription was given up without being withdrawn
  deleted, \* history: the property has been deleted
  left     \* calls and changes that may still be made

provider == <<value, refs, job, writing>>
consumer == <<access, mirror, sub, local, heard>>
ends     == <<leaked, deleted>>
mirrorVars == <<provider, cmds, notes, consumer, raced, ends, left>>

Writers == {"user", "handler"}
Resting == [at |-> "rest", new |-> None, note |-> FALSE]
NoJob   == [at |-> "wait", copy |-> None]
NoCall  == [at |-> "idle", ev |-> FALSE, got |-> None,
            want |-> None, clean |-> FALSE, seen |-> {}]
NoSub   == [at |-> "idle", ev |-> FALSE, got |-> None]

Message(type, v) == [type |-> type, v |-> v]

MirrorInit ==
  /\ value \in Values /\ refs = 0 /\ job = NoJob
  /\ writing = [t \in Writers |-> Resting]
  /\ cmds = <<>> /\ notes = <<>>
  /\ access = NoCall /\ mirror = NoSub
  /\ sub = FALSE /\ local = None /\ heard = FALSE
  /\ raced = FALSE /\ leaked = FALSE /\ deleted = FALSE
  /\ left = [writes |-> MaxWrites, access |-> MaxAccess, mirror |-> MaxMirror]

Spend(kind) == left[kind] > 0 /\ left' = [left EXCEPT ![kind] = @ - 1]

-----------------------------------------------------------------------------
(* The provider: setting the value                                          *)

(* The values the property had since the access call began.                *)
Watch(v) == access' = IF access.at = "idle" THEN access
                      ELSE [access EXCEPT !.seen = @ \cup {v}]

(* SetValue, first part: the comparison that decides whether the listeners *)
(* are told.  Without a property, one is made and has no listener yet.     *)
Compare(t, v) ==
  /\ writing[t] = Resting
  /\ raced' = (raced \/ \E u \in Writers : writing[u] # Resting)
  /\ IF value = None
     THEN value' = v /\ Watch(v) /\ UNCHANGED writing
     ELSE /\ writing' = [writing EXCEPT ![t] =
                           [at |-> "assign", new |-> v, note |-> v # value]]
          /\ UNCHANGED <<value, access>>

(* The value is replaced.                                                  *)
Assign(t) ==
  /\ writing[t].at = "assign"
  /\ value' = writing[t].new /\ Watch(writing[t].new)
  /\ writing' = [writing EXCEPT ![t] =
                   IF writing[t].note THEN [@ EXCEPT !.at = "notify"] ELSE Resting]
  /\ UNCHANGED <<refs, job, cmds, notes, mirror, sub, local, heard,
                 raced, ends, left>>

(* A mutant: the listeners are told before the value is replaced.          *)
NotifyEarly(t) ==
  \/ /\ writing[t].at = "assign" /\ writing[t].note
     /\ notes' = IF refs > 0 THEN Append(notes, Message("changed", value)) ELSE notes
     /\ writing' = [writing EXCEPT ![t].note = FALSE]
     /\ UNCHANGED <<value, refs, job, cmds, consumer, raced, ends, left>>
  \/ /\ writing[t].at = "notify"
     /\ writing' = [writing EXCEPT ![t] = Resting]
     /\ UNCHANGED <<value, refs, job, cmds, notes, consumer, raced, ends, left>>

(* NotifyListeners, under m_oCritSecListeners: the proxy listener sends the*)
(* value the property has now.                                             *)
Notify(t) ==
  /\ writing[t].at = "notify"
  /\ notes' = IF refs > 0 THEN Append(notes, Message("changed", value)) ELSE notes
  /\ writing' = [writing EXCEPT ![t] = Resting]
  /\ UNCHANGED <<value, refs, job, cmds, consumer, raced, ends, left>>

(* The provider's own code sets the value, a string.                       *)
Write(v) ==
  /\ Spend("writes") /\ Compare("user", v)
  /\ UNCHANGED <<refs, job, cmds, notes, mirror, sub, local, heard, ends>>

-----------------------------------------------------------------------------
(* The provider: commands, on its message thread                           *)

Command(type) ==
  /\ job = NoJob /\ cmds # <<>> /\ Head(cmds).type = type
  /\ cmds' = Tail(cmds)

(* Update(IGetPropertyCommand): no answer without a property.              *)
HandleGet ==
  /\ Command("get")
  /\ notes' = IF value = None THEN notes
              ELSE Append(notes, Message("property", value))
  /\ UNCHANGED <<provider, consumer, raced, ends, left>>

(* Update(ISetPropertyCommand): sets or makes the property ...             *)
HandleSet ==
  /\ Command("set")
  /\ Compare("handler", Head(cmds).v)
  /\ job' = [at |-> "answer", copy |-> None]
  /\ UNCHANGED <<refs, notes, mirror, sub, local, heard, ends, left>>

(* ... and sends it back when that is done.                                *)
AnswerSet ==
  /\ job.at = "answer" /\ writing["handler"] = Resting
  /\ notes' = Append(notes, Message("property", value))
  /\ job' = NoJob
  /\ UNCHANGED <<value, refs, writing, cmds, consumer, raced, ends, left>>

(* Update(IDeletePropertyCommand), DeleteProperty, DeletePropertyFromMap:  *)
(* the proxy listener sends the deletion and goes with the property.       *)
HandleDelete ==
  /\ Command("delete") /\ writing["user"] = Resting
  /\ value' = None /\ refs' = 0 /\ deleted' = TRUE
  /\ notes' = IF refs > 0 THEN Append(notes, Message("deleted", None)) ELSE notes
  /\ UNCHANGED <<job, writing, consumer, raced, leaked, left>>

(* Update(IRegPropListenerCommand): the acknowledgement, with a copy of the*)
(* property, is made first ...                                             *)
HandleReg ==
  /\ Command("reg")
  /\ job' = IF value = None THEN NoJob ELSE [at |-> "register", copy |-> value]
  /\ UNCHANGED <<value, refs, writing, notes, consumer, raced, ends, left>>

(* ... then the proxy listener is found and counted, or made and           *)
(* registered ...                                                          *)
Register ==
  /\ job.at = "register"
  /\ refs' = refs + 1 /\ job' = [job EXCEPT !.at = "acknowledge"]
  /\ UNCHANGED <<value, writing, cmds, notes, consumer, raced, ends, left>>

(* ... and then the acknowledgement is sent.                               *)
Acknowledge ==
  /\ job.at = "acknowledge"
  /\ notes' = Append(notes, Message("registered", job.copy)) /\ job' = NoJob
  /\ UNCHANGED <<value, refs, writing, cmds, consumer, raced, ends, left>>

(* A mutant: the last subscription leaves the proxy listener behind.       *)
UnrefButOne == IF refs > 1 THEN refs - 1 ELSE refs

(* Unref: at 0 the proxy listener is unregistered and deleted.             *)
Unref == refs - 1

(* Update(IUnregPropListenerCommand): no answer without a proxy listener.  *)
HandleUnreg ==
  /\ Command("unreg")
  /\ IF value # None /\ refs > 0
     THEN refs' = Unref /\ notes' = Append(notes, Message("unregistered", None))
     ELSE UNCHANGED <<refs, notes>>
  /\ UNCHANGED <<value, job, writing, consumer, raced, ends, left>>

-----------------------------------------------------------------------------
(* The consumer: get, set, delete                                           *)

(* No answer of an earlier get or set can still come.                      *)
Clean ==
  /\ \A i \in 1..Len(cmds) : cmds[i].type \notin {"get", "set"}
  /\ \A i \in 1..Len(notes) : notes[i].type # "property"
  /\ job.at # "answer"

(* A new listener with a semaphore of its own waits for a notification.    *)
Begin(at, v) ==
  /\ access = NoCall /\ Spend("access")
  /\ access' = [NoCall EXCEPT !.at = at, !.want = v, !.clean = Clean,
                              !.seen = {value} \ {None}]

Send(type, v) == cmds' = Append(cmds, Message(type, v))

(* GetRemoteProperty.                                                      *)
GetRemoteProperty ==
  /\ Begin("get", None) /\ Send("get", None)
  /\ UNCHANGED <<provider, notes, mirror, sub, local, heard, raced, ends>>

(* SetRemotePropertyValue with a time limit.  When the command cannot be   *)
(* sent the call waits all the same.                                       *)
SetRemoteProperty(v) ==
  /\ Begin("set", v)
  /\ Send("set", v) \/ UNCHANGED cmds
  /\ UNCHANGED <<provider, notes, mirror, sub, local, heard, raced, ends>>

(* SetRemotePropertyValue without a time limit, and DeleteRemoteProperty,  *)
(* do not wait.                                                            *)
SendOnly ==
  /\ access = NoCall /\ Spend("access")
  /\ Send("delete", None) \/ \E v \in Values : Send("set", v)
  /\ UNCHANGED <<provider, notes, consumer, raced, ends>>

(* The wait ends with an answer or at the time limit.                      *)
AccessReturns ==
  /\ access.at # "idle" /\ access' = NoCall
  /\ UNCHANGED <<provider, cmds, notes, mirror, sub, local, heard,
                 raced, ends, left>>

-----------------------------------------------------------------------------
(* The consumer: mirror and unmirror                                        *)

(* MirrorRemoteProperty: a subscription that is there is removed, but only *)
(* on this side.                                                           *)
MirrorRemoteProperty ==
  /\ mirror = NoSub /\ Spend("mirror") /\ Send("reg", None)
  /\ mirror' = [NoSub EXCEPT !.at = "mirror"]
  /\ sub' = FALSE /\ heard' = FALSE /\ leaked' = (leaked \/ sub)
  /\ UNCHANGED <<provider, notes, access, local, raced, deleted>>

(* The acknowledgement has come: its copy goes into the tree, and the      *)
(* listener for changes is registered.                                     *)
Merge ==
  /\ mirror.at = "mirror" /\ mirror.ev
  /\ local' = mirror.got /\ sub' = TRUE /\ heard' = FALSE /\ mirror' = NoSub
  /\ UNCHANGED <<provider, cmds, notes, access, raced, ends, left>>

(* The time limit: the provider may have registered, or may do so later.   *)
MirrorTimeout ==
  /\ mirror.at = "mirror" /\ ~ mirror.ev
  /\ mirror' = NoSub /\ leaked' = TRUE
  /\ UNCHANGED <<provider, cmds, notes, access, sub, local, heard,
                 raced, deleted, left>>

(* UnmirrorRemoteProperty: removed on this side first, also when the       *)
(* command can then not be sent.                                           *)
UnmirrorRemoteProperty ==
  /\ mirror = NoSub /\ sub /\ Spend("mirror")
  /\ sub' = FALSE /\ heard' = FALSE
  /\ \/ /\ Send("unreg", None) /\ mirror' = [NoSub EXCEPT !.at = "unmirror"]
        /\ UNCHANGED leaked
     \/ leaked' = TRUE /\ UNCHANGED <<cmds, mirror>>
  /\ UNCHANGED <<provider, notes, access, local, raced, deleted>>

(* It returns with the acknowledgement or at the time limit.               *)
UnmirrorReturns ==
  /\ mirror.at = "unmirror" /\ mirror' = NoSub
  /\ UNCHANGED <<provider, cmds, notes, access, sub, local, heard,
                 raced, ends, left>>

-----------------------------------------------------------------------------
(* The consumer: notifications, on its message thread                      *)

Notification(type) ==
  /\ notes # <<>> /\ Head(notes).type = type /\ notes' = Tail(notes)
  /\ UNCHANGED <<provider, cmds, raced, ends, left>>

(* A mutant: the listeners of get and set do not look at the type.         *)
AnyAnswer == \E type \in {"property", "changed"} : Notification(type)

(* The notifications that the listeners of get and set wait for.           *)
Answer == Notification("property")

(* cRemotePropertyNotificationListener keeps the first answer;             *)
(* cRemoteSetPropertyAckNotListener is told by any.                        *)
TakeAnswer ==
  /\ Answer
  /\ access' = IF access.at = "idle" \/ access.ev THEN access
               ELSE [access EXCEPT !.ev = TRUE, !.got = Head(notes).v]
  /\ UNCHANGED <<mirror, sub, local, heard>>

(* cRemotePropListAckNotificationListener takes the first acknowledgement  *)
(* of the kind it waits for.                                               *)
TakeAck(type, at) ==
  /\ Notification(type)
  /\ mirror' = IF mirror.at # at \/ mirror.ev THEN mirror
               ELSE [mirror EXCEPT !.ev = TRUE, !.got = Head(notes).v]
  /\ UNCHANGED <<access, sub, local, heard>>

(* cMirroredPropertyChangedNotificationListener, a change.                 *)
TakeChange ==
  /\ Notification("changed")
  /\ IF sub THEN local' = Head(notes).v /\ heard' = TRUE ELSE UNCHANGED <<local, heard>>
  /\ UNCHANGED <<access, mirror, sub>>

(* ... and a deletion: the copy and the subscription go.                   *)
TakeDelete ==
  /\ Notification("deleted")
  /\ IF sub THEN local' = None /\ sub' = FALSE /\ heard' = FALSE
     ELSE UNCHANGED <<local, sub, heard>>
  /\ UNCHANGED <<access, mirror>>

-----------------------------------------------------------------------------
Provider ==
  \/ \E t \in Writers : Assign(t) \/ Notify(t)
  \/ \E v \in Values : Write(v)
  \/ HandleGet \/ HandleSet \/ AnswerSet \/ HandleDelete
  \/ HandleReg \/ Register \/ Acknowledge \/ HandleUnreg

Consumer ==
  \/ GetRemoteProperty \/ (\E v \in Values : SetRemoteProperty(v))
  \/ SendOnly \/ AccessReturns
  \/ MirrorRemoteProperty \/ Merge \/ MirrorTimeout
  \/ UnmirrorRemoteProperty \/ UnmirrorReturns
  \/ TakeAnswer \/ TakeAck("registered", "mirror")
  \/ TakeAck("unregistered", "unmirror") \/ TakeChange \/ TakeDelete

MirrorNext == Provider \/ Consumer
MirrorSpec == MirrorInit /\ [][MirrorNext]_mirrorVars

-----------------------------------------------------------------------------
MirrorTypeOK ==
  /\ value \in Values \cup {None} /\ local \in Values \cup {None} /\ refs \in Nat
  /\ job.at \in {"wait", "answer", "register", "acknowledge"}
  /\ \A t \in Writers : writing[t].at \in {"rest", "assign", "notify"}
  /\ access.at \in {"idle", "get", "set"} /\ mirror.at \in {"idle", "mirror", "unmirror"}
  /\ {sub, heard, raced, leaked, deleted} \subseteq BOOLEAN

(* Nothing is on its way and nobody is at work.                            *)
Quiet ==
  /\ cmds = <<>> /\ notes = <<>> /\ job = NoJob
  /\ \A t \in Writers : writing[t] = Resting

(* The copy follows: once a subscribed consumer has heard of one change,   *)
(* its copy is the provider's value whenever everything has arrived,       *)
(* whatever calls timed out, were repeated or met late acknowledgements    *)
(* before -- unless two threads of the provider set the value at the same  *)
(* time.  (Before the first change the copy may be old: a change between   *)
(* the copy for the acknowledgement and the registration of the proxy, or  *)
(* between the acknowledgement and the registration here, is lost.)  Nor   *)
(* does it hold when a subscription was given up and the property deleted: *)
(* the acknowledgements do not tell the old property from the new one, and *)
(* a withdrawal then meets a proxy listener it was not sent for.           *)
MirrorFollows ==
  Quiet /\ sub /\ heard /\ ~ raced /\ ~ (leaked /\ deleted) =>
    local = value /\ refs > 0

(* The provider does not go on sending to a consumer that does not listen, *)
(* unless that consumer gave up a subscription without withdrawing it: by  *)
(* mirroring again, by a time limit, or because the withdrawal failed.     *)
NoProxyLeft ==
  Quiet /\ mirror = NoSub /\ ~ leaked /\ refs > 0 => sub

(* A get answers with a value the property had after the call began, and an*)
(* acknowledged set has been carried out, unless the answer to an earlier  *)
(* call was outstanding (answers carry nothing that tells them apart).     *)
AnswersFresh ==
  access.ev /\ access.clean =>
    CASE access.at = "get" -> access.got \in access.seen
      [] access.at = "set" -> access.want \in access.seen
=============================================================================
