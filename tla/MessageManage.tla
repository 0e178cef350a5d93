---------------------------- MODULE MessageManage ---------------------------
(***************************************************************************)
(* MessageManage (io/message_manager.h): a receiver thread fetches         *)
(* messages from the RabbitMQ queue, without acknowledgement, into a FIFO  *)
(* bounded by a semaphore; its users take them out with Get.  Several      *)
(* instances share one broker queue, as every run creates its own.         *)
(*                                                                         *)
(* queue_ is only touched with mutex_ held, and the semaphore has a mutex  *)
(* of its own: a critical section is one step.  stop and state are plain   *)
(* fields, read and written by single steps.  The broker is external: what *)
(* receiveMessage gets from it is chosen by the environment.               *)
(***************************************************************************)
EXTENDS Integers, Sequences, FiniteSets

CONSTANTS
  Instances,       (* the MessageManage objects                            *)
  Getters,         (* threads that call Get(task, 1)                       *)
  lengthQueueMax,  (* permits of sem_                                      *)
  MaxMessages      (* bound: how many messages are published               *)

ASSUME GettersAssumption  == IsFiniteSet(Getters)
ASSUME LengthAssumption   == lengthQueueMax \in Nat
ASSUME MessagesAssumption == MaxMessages \in Nat

VARIABLES
  broker,      (* the remote queue                                         *)
  published,   (* how many messages were published; their numbers are 1..  *)
  queue_, permits_, stop, state,     (* the fields of each instance        *)
  recv,        (* where the receiver thread of each instance is            *)
  hand,        (* the messages, none or one, that receiver holds           *)
  waiting,     (* getters in the wait set of condNonEmpty_                 *)
  woken,       (* getters that were notified                               *)
  life,        (* where the owner is: using the object or destroying it    *)
  got,         (* history: what the users of an instance got, in order     *)
  lost         (* history: fetched and lost in a failure, or drained       *)

fieldVars == <<queue_, permits_, stop, state>>
getVars   == <<waiting, woken>>
vars == <<broker, published, fieldVars, recv, hand, getVars, life, got, lost>>

ReceiverPcs == {"none", "check_stop", "check_state", "receive", "acquire",
                "push", "ended"}
Lives == {"live", "stopped", "drain", "join", "gone"}

Init ==
  /\ broker = <<>>
  /\ published = 0
  /\ queue_ = [m \in Instances |-> <<>>]
  /\ permits_ = [m \in Instances |-> lengthQueueMax]
  /\ stop = [m \in Instances |-> FALSE]
  /\ state = [m \in Instances |-> FALSE]
  /\ recv = [m \in Instances |-> "none"]
  /\ hand = [m \in Instances |-> <<>>]
  /\ waiting = [m \in Instances |-> {}]
  /\ woken = [m \in Instances |-> {}]
  /\ life = [m \in Instances |-> "live"]
  /\ got = [m \in Instances |-> <<>>]
  /\ lost = {}

-----------------------------------------------------------------------------
(* The owner: Start (once, as a second call would end the process), enable,*)
(* disable and Stop.                                                       *)

Start(m) ==
  /\ life[m] = "live"
  /\ recv[m] = "none"
  /\ recv' = [recv EXCEPT ![m] = "check_stop"]
  /\ UNCHANGED <<broker, published, fieldVars, hand, getVars, life, got, lost>>

SetState(m, b) ==
  /\ state' = [state EXCEPT ![m] = b]
  /\ UNCHANGED <<broker, published, queue_, permits_, stop, recv, hand,
                 getVars, got, lost>>
SetStop(m) ==
  /\ stop' = [stop EXCEPT ![m] = TRUE]
  /\ UNCHANGED <<broker, published, queue_, permits_, state, recv, hand,
                 getVars, got, lost>>

enable(m)  == life[m] = "live" /\ SetState(m, TRUE) /\ UNCHANGED life
disable(m) == life[m] = "live" /\ SetState(m, FALSE) /\ UNCHANGED life
Stop(m)    == life[m] = "live" /\ SetStop(m) /\ UNCHANGED life

-----------------------------------------------------------------------------
(* RunThread and Add.                                                      *)

Receiver(m, from, to) ==
  /\ recv[m] = from
  /\ recv' = [recv EXCEPT ![m] = to]
  /\ UNCHANGED <<published, state, life, got>>

CheckStop(m) ==
  /\ Receiver(m, "check_stop", IF stop[m] THEN "ended" ELSE "check_state")
  /\ UNCHANGED <<broker, queue_, permits_, stop, hand, getVars, lost>>

CheckState(m) ==
  /\ Receiver(m, "check_state", IF state[m] THEN "receive" ELSE "check_stop")
  /\ UNCHANGED <<broker, queue_, permits_, stop, hand, getVars, lost>>

(* receiveMessage gets a message: 0.                                       *)
(* Mutant: the get leaves the message with the broker.                     *)
ReceiveMessagePeek(m) ==
  /\ broker # <<>>
  /\ Receiver(m, "receive", "acquire")
  /\ hand' = [hand EXCEPT ![m] = <<Head(broker)>>]
  /\ UNCHANGED <<broker, queue_, permits_, stop, getVars, lost>>
ReceiveMessage(m) ==
  /\ broker # <<>>
  /\ Receiver(m, "receive", "acquire")
  /\ broker' = Tail(broker)
  /\ hand' = [hand EXCEPT ![m] = <<Head(broker)>>]
  /\ UNCHANGED <<queue_, permits_, stop, getVars, lost>>

(* The remote queue is empty: -1.                                          *)
ReceiveEmpty(m) ==
  /\ broker = <<>>
  /\ Receiver(m, "receive", "check_stop")
  /\ UNCHANGED <<broker, queue_, permits_, stop, hand, getVars, lost>>

(* The message is gone from the broker, which expects no acknowledgement,  *)
(* but not read (-3), or the get fails (-2), which stops the thread.       *)
LoseHead ==
  /\ broker # <<>>
  /\ broker' = Tail(broker)
  /\ lost' = lost \cup {Head(broker)}

ReceiveUnread(m) ==
  /\ Receiver(m, "receive", "check_stop")
  /\ LoseHead
  /\ UNCHANGED <<queue_, permits_, stop, hand, getVars>>

ReceiveFailed(m) ==
  /\ Receiver(m, "receive", "check_stop")
  /\ stop' = [stop EXCEPT ![m] = TRUE]
  /\ LoseHead \/ UNCHANGED <<broker, lost>>
  /\ UNCHANGED <<queue_, permits_, hand, getVars>>

(* Mutant: the semaphore is not respected.                                 *)
AcquireUnchecked(m) ==
  /\ Receiver(m, "acquire", "push")
  /\ permits_' = [permits_ EXCEPT ![m] = @ - 1]
  /\ UNCHANGED <<broker, queue_, stop, hand, getVars, lost>>
Acquire(m) ==
  /\ permits_[m] > 0
  /\ Receiver(m, "acquire", "push")
  /\ permits_' = [permits_ EXCEPT ![m] = @ - 1]
  /\ UNCHANGED <<broker, queue_, stop, hand, getVars, lost>>

(* condNonEmpty_.notify_one().                                             *)
NotifyOne(m) ==
  \/ waiting[m] = {} /\ UNCHANGED getVars
  \/ \E t \in waiting[m] :
       /\ waiting' = [waiting EXCEPT ![m] = @ \ {t}]
       /\ woken' = [woken EXCEPT ![m] = @ \cup {t}]

(* Mutants: the message goes to the front; nobody is notified.             *)
PushFront(m) ==
  /\ Receiver(m, "push", "check_stop")
  /\ queue_' = [queue_ EXCEPT ![m] = hand[m] \o @]
  /\ hand' = [hand EXCEPT ![m] = <<>>]
  /\ NotifyOne(m)
  /\ UNCHANGED <<broker, permits_, stop, lost>>
PushSilent(m) ==
  /\ Receiver(m, "push", "check_stop")
  /\ queue_' = [queue_ EXCEPT ![m] = @ \o hand[m]]
  /\ hand' = [hand EXCEPT ![m] = <<>>]
  /\ UNCHANGED <<broker, permits_, stop, getVars, lost>>
Push(m) ==
  /\ Receiver(m, "push", "check_stop")
  /\ queue_' = [queue_ EXCEPT ![m] = @ \o hand[m]]
  /\ hand' = [hand EXCEPT ![m] = <<>>]
  /\ NotifyOne(m)
  /\ UNCHANGED <<broker, permits_, stop, lost>>

RunThread(m) ==
  \/ CheckStop(m)
  \/ CheckState(m)
  \/ ReceiveMessage(m)
  \/ ReceiveEmpty(m)
  \/ ReceiveUnread(m)
  \/ ReceiveFailed(m)
  \/ Acquire(m)
  \/ Push(m)

-----------------------------------------------------------------------------
(* Get.                                                                    *)

(* Mutant: the permit is not given back.                                   *)
TakeFrontNoRelease(m) ==
  /\ queue_[m] # <<>>
  /\ queue_' = [queue_ EXCEPT ![m] = Tail(@)]
  /\ UNCHANGED <<broker, published, permits_, stop, state, recv, hand>>
TakeFront(m) ==
  /\ queue_[m] # <<>>
  /\ queue_' = [queue_ EXCEPT ![m] = Tail(@)]
  /\ permits_' = [permits_ EXCEPT ![m] = @ + 1]
  /\ UNCHANGED <<broker, published, stop, state, recv, hand>>

Deliver(m) ==
  /\ TakeFront(m)
  /\ got' = [got EXCEPT ![m] = Append(@, Head(queue_[m]))]
  /\ UNCHANGED <<life, lost>>

(* Get(task, 0): an empty queue changes nothing.  Del takes the message it *)
(* answers in the same way.                                                *)
GetNow(m) ==
  /\ life[m] = "live"
  /\ Deliver(m)
  /\ UNCHANGED getVars

(* Get(task, 1).                                                           *)
Busy == UNION {waiting[m] \cup woken[m] : m \in Instances}

GetWait(t, m) ==
  /\ life[m] = "live"
  /\ t \notin Busy
  /\ queue_[m] = <<>>
  /\ waiting' = [waiting EXCEPT ![m] = @ \cup {t}]
  /\ UNCHANGED <<broker, published, fieldVars, recv, hand, woken, life, got,
                 lost>>

GetWoken(t, m) ==
  /\ t \in woken[m]
  /\ woken' = [woken EXCEPT ![m] = @ \ {t}]
  /\ \/ Deliver(m) /\ UNCHANGED waiting
     \/ /\ queue_[m] = <<>>
        /\ waiting' = [waiting EXCEPT ![m] = @ \cup {t}]
        /\ UNCHANGED <<broker, published, fieldVars, recv, hand, life, got,
                       lost>>

Spurious(t, m) ==
  /\ t \in waiting[m]
  /\ waiting' = [waiting EXCEPT ![m] = @ \ {t}]
  /\ woken' = [woken EXCEPT ![m] = @ \cup {t}]
  /\ UNCHANGED <<broker, published, fieldVars, recv, hand, life, got, lost>>

-----------------------------------------------------------------------------
(* ~MessageManage: Stop, disable, Get(msg, 0) until nothing is left, join. *)
(* It needs a thread to join, and nobody left in Get.                      *)

Owner(m, from, to) ==
  /\ life[m] = from
  /\ life' = [life EXCEPT ![m] = to]

(* Mutant: the destructor does not call Stop.                              *)
DtorStopMissing(m) ==
  /\ recv[m] # "none"
  /\ waiting[m] \cup woken[m] = {}
  /\ Owner(m, "live", "stopped")
  /\ UNCHANGED <<broker, published, fieldVars, recv, hand, getVars, got, lost>>
DtorStop(m) ==
  /\ recv[m] # "none"
  /\ waiting[m] \cup woken[m] = {}
  /\ Owner(m, "live", "stopped")
  /\ SetStop(m)

DtorDisable(m) == Owner(m, "stopped", "drain") /\ SetState(m, FALSE)

DtorDrain(m) ==
  /\ life[m] = "drain"
  /\ TakeFront(m)
  /\ lost' = lost \cup {Head(queue_[m])}
  /\ UNCHANGED <<getVars, life, got>>

(* Mutant: the queue is not drained.                                       *)
DtorDrainedAtOnce(m) ==
  /\ Owner(m, "drain", "join")
  /\ UNCHANGED <<broker, published, fieldVars, recv, hand, getVars, got, lost>>
DtorDrained(m) ==
  /\ queue_[m] = <<>>
  /\ Owner(m, "drain", "join")
  /\ UNCHANGED <<broker, published, fieldVars, recv, hand, getVars, got, lost>>

DtorJoin(m) ==
  /\ recv[m] = "ended"
  /\ Owner(m, "join", "gone")
  /\ UNCHANGED <<broker, published, fieldVars, recv, hand, getVars, got, lost>>

Destroy(m) == DtorDisable(m) \/ DtorDrain(m) \/ DtorDrained(m) \/ DtorJoin(m)

-----------------------------------------------------------------------------
(* The server that publishes the messages.                                 *)
Publish ==
  /\ published < MaxMessages
  /\ published' = published + 1
  /\ broker' = Append(broker, published + 1)
  /\ UNCHANGED <<fieldVars, recv, hand, getVars, life, got, lost>>

Next ==
  \/ Publish
  \/ \E m \in Instances :
       \/ Start(m) \/ enable(m) \/ disable(m) \/ Stop(m)
       \/ RunThread(m)
       \/ GetNow(m)
       \/ \E t \in Getters : GetWait(t, m) \/ GetWoken(t, m) \/ Spurious(t, m)
       \/ DtorStop(m)
       \/ Destroy(m)

(* The receiver thread runs, a destructor goes on; who publishes, gets or  *)
(* destroys is free to.                                                    *)
Fairness == \A m \in Instances : WF_vars(RunThread(m)) /\ WF_vars(Destroy(m))

Spec == Init /\ [][Next]_vars
FairSpec == Spec /\ Fairness

-----------------------------------------------------------------------------
Messages == 1 .. published

(* The fields hold values of their types, and a receiver has a message in  *)
(* hand exactly between receiveMessage and the push.                       *)
TypeOK ==
  /\ published \in 0 .. MaxMessages
  /\ broker \in Seq(Messages)
  /\ queue_ \in [Instances -> Seq(Messages)]
  /\ permits_ \in [Instances -> 0 .. lengthQueueMax]
  /\ stop \in [Instances -> BOOLEAN]
  /\ state \in [Instances -> BOOLEAN]
  /\ recv \in [Instances -> ReceiverPcs]
  /\ hand \in [Instances -> Seq(Messages)]
  /\ waiting \in [Instances -> SUBSET Getters]
  /\ woken \in [Instances -> SUBSET Getters]
  /\ life \in [Instances -> Lives]
  /\ got \in [Instances -> Seq(Messages)]
  /\ lost \subseteq Messages
  /\ \A m \in Instances :
       Len(hand[m]) = IF recv[m] \in {"acquire", "push"} THEN 1 ELSE 0

(* A permit is held for each message in the queue and for the one that is  *)
(* about to be pushed, so the queue never holds more than lengthQueueMax;  *)
(* getters, a drain and the receiver may meet in any order.                *)
PermitsBalance ==
  \A m \in Instances :
    permits_[m] + Len(queue_[m]) + (IF recv[m] = "push" THEN 1 ELSE 0)
      = lengthQueueMax

Values(s) == {s[i] : i \in 1 .. Len(s)}
Increasing(s) == \A i, j \in 1 .. Len(s) : i < j => s[i] < s[j]
Path(m) == got[m] \o queue_[m] \o hand[m] \o broker

(* The users of an instance get its messages in the order in which they    *)
(* were published and never one twice, with several receivers on the same  *)
(* broker queue.                                                           *)
GotInOrder == \A m \in Instances : Increasing(Path(m))

Held(m) == Values(got[m]) \cup Values(queue_[m]) \cup Values(hand[m])

(* No message vanishes and no two instances have the same one: each that   *)
(* was published is still in the broker, has been lost in a failure or     *)
(* drained, or is with exactly one instance.                               *)
Accounted ==
  /\ Messages = lost \cup Values(broker) \cup UNION {Held(m) : m \in Instances}
  /\ \A m \in Instances :
       /\ Held(m) \cap (lost \cup Values(broker)) = {}
       /\ \A n \in Instances \ {m} : Held(m) \cap Held(n) = {}

(* notify_one per message is enough: while a thread waits in Get, every    *)
(* message in the queue has a notified thread coming for it, although      *)
(* others take messages without waiting.                                   *)
GetterNotStranded ==
  \A m \in Instances :
    waiting[m] # {} => Len(queue_[m]) <= Cardinality(woken[m])

(* The destructor drains before it joins, so the receiver can push once    *)
(* more behind it, but only one message.                                   *)
AtMostOneLeftBehind ==
  \A m \in Instances : life[m] = "gone" => Len(queue_[m]) <= 1

(* The destructor always gets to the end of its join: a receiver that      *)
(* waits for a permit is freed by the drain, and then sees stop.           *)
DestructorEnds ==
  \A m \in Instances : (life[m] = "stopped") ~> (life[m] = "gone")
=============================================================================
