------------------------ MODULE MessageManageProofs -------------------------
(***************************************************************************)
(* Theorems about MessageManage, for any number of instances, getters,     *)
(* permits and messages: type correctness, the balance of permits, what a  *)
(* destroyed instance can leave behind, where every message is and in      *)
(* which order, and that no getter waits while a message is there for it.  *)
(***************************************************************************)
EXTENDS MessageManage, FiniteSetTheorems, SequenceTheorems, TLAPS

(* A receiver that has read stop as false may still push one message.      *)
Coming(m) ==
  IF recv[m] \in {"check_state", "receive", "acquire", "push"} THEN 1 ELSE 0

(* An instance that is being destroyed has stop set, and from the end of   *)
(* its drain on, what is in its queue and what may come add up to one      *)
(* message at most.                                                        *)
Destroyed ==
  \A m \in Instances :
    /\ life[m] # "live" => stop[m]
    /\ life[m] \in {"join", "gone"} =>
         Len(queue_[m]) + Coming(m) <= 1

(* The inductive invariant: that permits stay in range needs the balance,  *)
(* and that at most one message is left needs to know who may still push.  *)
IInv == TypeOK /\ PermitsBalance /\ Destroyed

-----------------------------------------------------------------------------
(* Publishing more messages keeps sequences of messages what they are.     *)
LEMMA SeqGrows ==
  ASSUME NEW a \in Nat, NEW b \in Nat, a <= b, NEW s \in Seq(1 .. a)
  PROVE  s \in Seq(1 .. b)
<1>1. s \in [1 .. Len(s) -> 1 .. a] /\ Len(s) \in Nat
  OBVIOUS
<1>2. s \in [1 .. Len(s) -> 1 .. b]
  BY <1>1
<1> QED
  BY <1>1, <1>2

(* Threads only move between the wait set and the notified ones.           *)
LEMMA NotifyTypes ==
  ASSUME waiting \in [Instances -> SUBSET Getters],
         woken \in [Instances -> SUBSET Getters],
         NEW m \in Instances, NotifyOne(m)
  PROVE  /\ waiting' \in [Instances -> SUBSET Getters]
         /\ woken' \in [Instances -> SUBSET Getters]
<1>1. CASE UNCHANGED getVars
  BY <1>1 DEF getVars
<1>2. ASSUME NEW t \in waiting[m],
             waiting' = [waiting EXCEPT ![m] = @ \ {t}],
             woken' = [woken EXCEPT ![m] = @ \cup {t}]
      PROVE  /\ waiting' \in [Instances -> SUBSET Getters]
             /\ woken' \in [Instances -> SUBSET Getters]
  <2>1. t \in Getters /\ waiting[m] \ {t} \in SUBSET Getters
        /\ woken[m] \cup {t} \in SUBSET Getters
    OBVIOUS
  <2> QED
    BY <1>2, <2>1
<1> QED
  BY <1>1, <1>2 DEF NotifyOne

(* What Head and Tail of a sequence that is not empty are.                 *)
LEMMA HeadTail ==
  ASSUME NEW S, NEW s \in Seq(S), s # <<>>
  PROVE  /\ Head(s) \in S
         /\ Tail(s) \in Seq(S)
         /\ Len(s) \in Nat \ {0}
         /\ Len(Tail(s)) = Len(s) - 1
OBVIOUS

LEMMA ConcatLen ==
  ASSUME NEW S, NEW s \in Seq(S), NEW t \in Seq(S)
  PROVE  /\ Len(s \o t) = Len(s) + Len(t)
         /\ Len(s) \in Nat
         /\ Len(t) = 1 => Len(s \o t) = Len(s) + 1
BY ConcatProperties, LenProperties

LEMMA InitIInv == Init => IInv
<1> SUFFICES ASSUME Init PROVE IInv
  OBVIOUS
<1> USE DEF Init
<1>1. TypeOK
  BY LengthAssumption, MessagesAssumption
  DEF TypeOK, Messages, ReceiverPcs, Lives
<1>2. PermitsBalance
  BY LengthAssumption DEF PermitsBalance
<1>3. Destroyed
  BY DEF Destroyed
<1> QED
  BY <1>1, <1>2, <1>3 DEF IInv

-----------------------------------------------------------------------------
(* One lemma per conjunct: what a step does to it.                         *)

LEMMA TypeStep == IInv /\ [Next]_vars => TypeOK'
<1> SUFFICES ASSUME IInv, [Next]_vars PROVE TypeOK'
  OBVIOUS
<1> USE LengthAssumption, MessagesAssumption DEF IInv, TypeOK, Messages
<1>1. CASE Publish
  <2>1. published' \in 0 .. MaxMessages /\ published <= published'
        /\ published \in Nat /\ published' \in Nat
    BY <1>1 DEF Publish
  <2>2. broker' \in Seq(Messages')
    <3>1. broker \in Seq(1 .. published')
      BY <2>1, SeqGrows
    <3> QED
      BY <1>1, <2>1, <3>1 DEF Publish
  <2>3. \A m \in Instances : /\ queue_[m] \in Seq(1 .. published')
                             /\ hand[m] \in Seq(1 .. published')
                             /\ got[m] \in Seq(1 .. published')
    BY <2>1, SeqGrows
  <2>4. lost' \subseteq Messages'
    BY <1>1, <2>1 DEF Publish
  <2> QED
    BY <1>1, <2>1, <2>2, <2>3, <2>4 DEF Publish, fieldVars, getVars
<1>2. ASSUME NEW m \in Instances, Start(m) PROVE TypeOK'
  BY <1>2 DEF Start, fieldVars, getVars, ReceiverPcs
<1>3. ASSUME NEW m \in Instances, enable(m) \/ disable(m) \/ Stop(m)
      PROVE TypeOK'
  BY <1>3 DEF enable, disable, Stop, SetState, SetStop, getVars
<1>4. ASSUME NEW m \in Instances, CheckStop(m) \/ CheckState(m)
      PROVE TypeOK'
  BY <1>4 DEF CheckStop, CheckState, Receiver, getVars, ReceiverPcs
<1>5. ASSUME NEW m \in Instances, ReceiveMessage(m) PROVE TypeOK'
  <2>1. /\ Head(broker) \in Messages
        /\ broker' \in Seq(Messages)
    BY <1>5 DEF ReceiveMessage
  <2>2. hand' \in [Instances -> Seq(Messages)]
    BY <1>5, <2>1 DEF ReceiveMessage
  <2>3. \A n \in Instances :
          Len(hand'[n]) = IF recv'[n] \in {"acquire", "push"} THEN 1 ELSE 0
    <3> SUFFICES ASSUME NEW n \in Instances
                 PROVE  Len(hand'[n]) = IF recv'[n] \in {"acquire", "push"}
                                        THEN 1 ELSE 0
      OBVIOUS
    <3>1. CASE n = m
      BY <1>5, <2>1, <3>1 DEF ReceiveMessage, Receiver
    <3>2. CASE n # m
      BY <1>5, <3>2 DEF ReceiveMessage, Receiver
    <3> QED
      BY <3>1, <3>2
  <2>4. recv' \in [Instances -> ReceiverPcs]
    BY <1>5 DEF ReceiveMessage, Receiver, ReceiverPcs
  <2> QED
    BY <1>5, <2>1, <2>2, <2>3, <2>4 DEF ReceiveMessage, Receiver, getVars
<1>6. ASSUME NEW m \in Instances,
             ReceiveEmpty(m) \/ ReceiveUnread(m) \/ ReceiveFailed(m)
      PROVE TypeOK'
  <2>1. ASSUME LoseHead PROVE broker' \in Seq(Messages) /\ lost' \subseteq Messages
    <3>1. Head(broker) \in Messages /\ Tail(broker) \in Seq(Messages)
      BY <2>1, HeadTail DEF LoseHead
    <3> QED
      BY <2>1, <3>1 DEF LoseHead
  <2>2. /\ broker' \in Seq(Messages) /\ lost' \subseteq Messages
        /\ stop' \in [Instances -> BOOLEAN]
    BY <1>6, <2>1 DEF ReceiveEmpty, ReceiveUnread, ReceiveFailed
  <2>3. /\ recv[m] = "receive"
        /\ recv' = [recv EXCEPT ![m] = "check_stop"]
        /\ UNCHANGED <<published, queue_, permits_, state, hand, waiting,
                       woken, life, got>>
    BY <1>6 DEF ReceiveEmpty, ReceiveUnread, ReceiveFailed, Receiver, getVars
  <2> QED
    BY <2>2, <2>3 DEF ReceiverPcs
<1>7. ASSUME NEW m \in Instances, Acquire(m) PROVE TypeOK'
  <2>1. permits_' \in [Instances -> 0 .. lengthQueueMax]
    BY <1>7 DEF Acquire
  <2>2. /\ recv[m] = "acquire"
        /\ recv' = [recv EXCEPT ![m] = "push"]
        /\ UNCHANGED <<broker, published, queue_, stop, state, hand, waiting,
                       woken, life, got, lost>>
    BY <1>7 DEF Acquire, Receiver, getVars
  <2> QED
    BY <2>1, <2>2 DEF ReceiverPcs
<1>8. ASSUME NEW m \in Instances, Push(m) PROVE TypeOK'
  <2>1. queue_' \in [Instances -> Seq(Messages)]
    BY <1>8 DEF Push
  <2>2. hand' \in [Instances -> Seq(Messages)]
    BY <1>8 DEF Push
  <2>3. \A n \in Instances :
          Len(hand'[n]) = IF recv'[n] \in {"acquire", "push"} THEN 1 ELSE 0
    BY <1>8 DEF Push, Receiver
  <2>4. /\ waiting' \in [Instances -> SUBSET Getters]
        /\ woken' \in [Instances -> SUBSET Getters]
    BY <1>8, NotifyTypes DEF Push
  <2>5. recv' \in [Instances -> ReceiverPcs]
    BY <1>8 DEF Push, Receiver, ReceiverPcs
  <2> QED
    BY <1>8, <2>1, <2>2, <2>3, <2>4, <2>5 DEF Push, Receiver
<1>9. ASSUME NEW m \in Instances, TakeFront(m)
      PROVE  /\ queue_' \in [Instances -> Seq(Messages)]
             /\ permits_' \in [Instances -> 0 .. lengthQueueMax]
             /\ Head(queue_[m]) \in Messages
  <2>1. queue_[m] \in Seq(Messages) /\ queue_[m] # <<>>
    BY <1>9 DEF TakeFront
  <2>2. Head(queue_[m]) \in Messages /\ Tail(queue_[m]) \in Seq(Messages)
        /\ Len(queue_[m]) \in Nat \ {0}
    BY <2>1, HeadTail
  <2>3. permits_[m] + 1 \in 0 .. lengthQueueMax
    <3>1. \E k \in {0, 1} :
            permits_[m] + Len(queue_[m]) + k = lengthQueueMax
      BY DEF PermitsBalance
    <3>2. permits_[m] \in Nat
      BY LengthAssumption DEF TypeOK
    <3>3. permits_[m] + Len(queue_[m]) <= lengthQueueMax
      BY <2>2, <3>1, <3>2, LengthAssumption
    <3> QED
      BY <2>2, <3>2, <3>3, LengthAssumption
  <2>4. /\ queue_' = [queue_ EXCEPT ![m] = Tail(queue_[m])]
        /\ permits_' = [permits_ EXCEPT ![m] = permits_[m] + 1]
    BY <1>9 DEF TakeFront
  <2>5. queue_' \in [Instances -> Seq(Messages)]
    BY <2>2, <2>4
  <2>6. permits_' \in [Instances -> 0 .. lengthQueueMax]
    BY <2>3, <2>4
  <2> QED
    BY <2>2, <2>5, <2>6
<1>10. ASSUME NEW m \in Instances, Deliver(m),
              waiting' \in [Instances -> SUBSET Getters],
              woken' \in [Instances -> SUBSET Getters]
       PROVE  TypeOK'
  <2>1. /\ queue_' \in [Instances -> Seq(Messages)]
        /\ permits_' \in [Instances -> 0 .. lengthQueueMax]
        /\ Head(queue_[m]) \in Messages
    BY <1>9, <1>10 DEF Deliver
  <2>2. got' \in [Instances -> Seq(Messages)]
    BY <1>10, <2>1 DEF Deliver
  <2> QED
    BY <1>10, <2>1, <2>2 DEF Deliver, TakeFront
<1>11. ASSUME NEW m \in Instances, NEW t \in Getters,
              GetWait(t, m) \/ GetWoken(t, m) \/ Spurious(t, m)
       PROVE TypeOK'
  <2>1. CASE GetWoken(t, m)
    <3>1. woken' = [woken EXCEPT ![m] = woken[m] \ {t}]
      BY <2>1 DEF GetWoken
    <3>2. woken' \in [Instances -> SUBSET Getters]
      BY <3>1
    <3>3. CASE Deliver(m) /\ UNCHANGED waiting
      <4>1. waiting' \in [Instances -> SUBSET Getters]
        BY <3>3
      <4> QED
        BY <1>10, <3>2, <3>3, <4>1
    <3>4. CASE /\ waiting' = [waiting EXCEPT ![m] = waiting[m] \cup {t}]
               /\ UNCHANGED <<broker, published, fieldVars, recv, hand, life,
                              got, lost>>
      <4>1. waiting' \in [Instances -> SUBSET Getters]
        BY <3>4
      <4> QED
        BY <3>2, <3>4, <4>1 DEF fieldVars
    <3> QED
      BY <2>1, <3>3, <3>4 DEF GetWoken
  <2>2. CASE GetWait(t, m)
    BY <2>2 DEF GetWait, fieldVars
  <2>3. CASE Spurious(t, m)
    BY <2>3 DEF Spurious, fieldVars
  <2> QED
    BY <1>11, <2>1, <2>2, <2>3
<1>12. ASSUME NEW m \in Instances, DtorStop(m) \/ DtorDisable(m) PROVE TypeOK'
  BY <1>12 DEF DtorStop, DtorDisable, Owner, SetStop, SetState, getVars, Lives
<1>13. ASSUME NEW m \in Instances, DtorDrain(m) PROVE TypeOK'
  BY <1>9, <1>13 DEF DtorDrain, TakeFront, getVars
<1>14. ASSUME NEW m \in Instances, DtorDrained(m) \/ DtorJoin(m) PROVE TypeOK'
  BY <1>14 DEF DtorDrained, DtorJoin, Owner, fieldVars, getVars, Lives
<1>15. ASSUME NEW m \in Instances, GetNow(m) PROVE TypeOK'
  BY <1>10, <1>15 DEF GetNow, getVars
<1>16. CASE UNCHANGED vars
  BY <1>16 DEF vars, fieldVars, getVars
<1> QED
  BY <1>1, <1>2, <1>3, <1>4, <1>5, <1>6, <1>7, <1>8, <1>11, <1>12,
     <1>13, <1>14, <1>15, <1>16 DEF Next, RunThread, Destroy

LEMMA BalanceStep == IInv /\ [Next]_vars => PermitsBalance'
<1> DEFINE Pushing(n) == IF recv[n] = "push" THEN 1 ELSE 0
           Balance(n) == permits_[n] + Len(queue_[n]) + Pushing(n)
<1> SUFFICES ASSUME IInv, [Next]_vars, NEW n \in Instances
             PROVE  Balance(n)' = lengthQueueMax
  BY DEF PermitsBalance
<1>1. Balance(n) = lengthQueueMax
  BY DEF IInv, PermitsBalance
<1>2. /\ permits_[n] \in Nat /\ queue_[n] \in Seq(Messages)
      /\ Len(queue_[n]) \in Nat /\ lengthQueueMax \in Nat
  BY LengthAssumption DEF IInv, TypeOK
<1>3. ASSUME UNCHANGED <<permits_, queue_>>, Pushing(n)' = Pushing(n)
      PROVE  Balance(n)' = lengthQueueMax
  BY <1>1, <1>3
<1>4. ASSUME NEW m \in Instances, Acquire(m)
      PROVE  Balance(n)' = lengthQueueMax
  <2>1. CASE n = m
    BY <1>1, <1>2, <1>4, <2>1 DEF Acquire, Receiver, IInv, TypeOK
  <2>2. CASE n # m
    BY <1>1, <1>4, <2>2 DEF Acquire, Receiver, IInv, TypeOK
  <2> QED
    BY <2>1, <2>2
<1>5. ASSUME NEW m \in Instances, Push(m)
      PROVE  Balance(n)' = lengthQueueMax
  <2>1. CASE n = m
    <3>1. /\ hand[n] \in Seq(Messages) /\ Len(hand[n]) = 1
          /\ recv[n] = "push" /\ recv'[n] = "check_stop"
          /\ permits_'[n] = permits_[n]
          /\ queue_'[n] = queue_[n] \o hand[n]
      BY <1>5, <2>1 DEF Push, Receiver, IInv, TypeOK
    <3>2. Len(queue_[n] \o hand[n]) = Len(queue_[n]) + 1
      <4>1. queue_[n] \in Seq(Messages)
        BY <1>2
      <4>2. hand[n] \in Seq(Messages) /\ Len(hand[n]) = 1
        BY <3>1
      <4> QED
        BY <4>1, <4>2, ConcatLen
    <3> QED
      BY <1>1, <1>2, <3>1, <3>2
  <2>2. CASE n # m
    BY <1>1, <1>5, <2>2 DEF Push, Receiver, IInv, TypeOK
  <2> QED
    BY <2>1, <2>2
<1>6. ASSUME NEW m \in Instances, TakeFront(m)
      PROVE  Balance(n)' = lengthQueueMax
  <2>1. CASE n = m
    <3>1. /\ queue_[n] # <<>> /\ queue_'[n] = Tail(queue_[n])
          /\ permits_'[n] = permits_[n] + 1
          /\ recv' = recv
      BY <1>6, <2>1 DEF TakeFront, IInv, TypeOK
    <3>2. Len(queue_'[n]) = Len(queue_[n]) - 1
      BY <1>2, <3>1, HeadTail
    <3> QED
      BY <1>1, <1>2, <3>1, <3>2
  <2>2. CASE n # m
    BY <1>1, <1>6, <2>2 DEF TakeFront, IInv, TypeOK
  <2> QED
    BY <2>1, <2>2
<1>7. ASSUME NEW m \in Instances, RunThread(m)
      PROVE  Balance(n)' = lengthQueueMax
  <2>1. ASSUME NEW from \in {"check_stop", "check_state", "receive"},
               NEW to \in ReceiverPcs \ {"push"},
               Receiver(m, from, to), UNCHANGED <<permits_, queue_>>
        PROVE  Balance(n)' = lengthQueueMax
    BY <1>3, <2>1 DEF Receiver, IInv, TypeOK
  <2>2. CASE CheckStop(m)
    BY <2>1, <2>2 DEF CheckStop, ReceiverPcs
  <2>3. CASE CheckState(m)
    BY <2>1, <2>3 DEF CheckState, ReceiverPcs
  <2>4. CASE ReceiveMessage(m)
    BY <2>1, <2>4 DEF ReceiveMessage, ReceiverPcs
  <2>5. CASE ReceiveEmpty(m) \/ ReceiveUnread(m) \/ ReceiveFailed(m)
    BY <2>1, <2>5 DEF ReceiveEmpty, ReceiveUnread, ReceiveFailed, ReceiverPcs
  <2> QED
    BY <1>4, <1>5, <1>7, <2>2, <2>3, <2>4, <2>5 DEF RunThread
<1>8. ASSUME NEW m \in Instances,
             Start(m) \/ enable(m) \/ disable(m) \/ Stop(m) \/ DtorStop(m)
      PROVE  Balance(n)' = lengthQueueMax
  BY <1>3, <1>8 DEF Start, enable, disable, Stop, DtorStop, SetState, SetStop,
                    fieldVars, IInv, TypeOK
<1>9. ASSUME NEW m \in Instances, GetNow(m)
      PROVE  Balance(n)' = lengthQueueMax
  BY <1>6, <1>9 DEF GetNow, Deliver
<1>10. ASSUME NEW m \in Instances, NEW t \in Getters,
              GetWait(t, m) \/ GetWoken(t, m) \/ Spurious(t, m)
       PROVE  Balance(n)' = lengthQueueMax
  BY <1>3, <1>6, <1>10
  DEF GetWait, GetWoken, Spurious, Deliver, fieldVars
<1>11. ASSUME NEW m \in Instances, Destroy(m)
       PROVE  Balance(n)' = lengthQueueMax
  BY <1>3, <1>6, <1>11
  DEF Destroy, DtorDisable, DtorDrain, DtorDrained, DtorJoin, SetState,
      fieldVars
<1>12. CASE Publish \/ UNCHANGED vars
  BY <1>3, <1>12 DEF Publish, vars, fieldVars
<1> QED
  BY <1>7, <1>8, <1>9, <1>10, <1>11, <1>12 DEF Next

(* Nothing resets stop, and only DtorStop, which sets it, ends a life.     *)
LEMMA StopStep ==
  ASSUME IInv, [Next]_vars, NEW n \in Instances
  PROVE  life'[n] # "live" => stop'[n]
<1> USE DEF IInv, TypeOK, Destroyed
<1>1. CASE Publish \/ UNCHANGED vars
  BY <1>1 DEF Publish, vars, fieldVars
<1>2. ASSUME NEW m \in Instances,
             Start(m) \/ enable(m) \/ disable(m) \/ Stop(m) \/ DtorStop(m)
      PROVE  life'[n] # "live" => stop'[n]
  BY <1>2 DEF Start, enable, disable, Stop, DtorStop, Owner, SetState,
              SetStop, fieldVars
<1>3. ASSUME NEW m \in Instances, RunThread(m)
      PROVE  life'[n] # "live" => stop'[n]
  BY <1>3 DEF RunThread, CheckStop, CheckState, ReceiveMessage, ReceiveEmpty,
              ReceiveUnread, ReceiveFailed, Acquire, Push, Receiver
<1>4. ASSUME NEW m \in Instances, GetNow(m)
      PROVE  life'[n] # "live" => stop'[n]
  BY <1>4 DEF GetNow, Deliver, TakeFront
<1>5. ASSUME NEW m \in Instances, NEW t \in Getters,
             GetWait(t, m) \/ GetWoken(t, m) \/ Spurious(t, m)
      PROVE  life'[n] # "live" => stop'[n]
  BY <1>5 DEF GetWait, GetWoken, Spurious, Deliver, TakeFront, fieldVars
<1>6. ASSUME NEW m \in Instances, Destroy(m)
      PROVE  life'[n] # "live" => stop'[n]
  BY <1>6 DEF Destroy, DtorDisable, DtorDrain, DtorDrained, DtorJoin, Owner,
              SetState, TakeFront, fieldVars
<1> QED
  BY <1>1, <1>2, <1>3, <1>4, <1>5, <1>6 DEF Next

LEMMA LeftStep ==
  ASSUME IInv, [Next]_vars, NEW n \in Instances
  PROVE  life'[n] \in {"join", "gone"} => Len(queue_'[n]) + Coming(n)' <= 1
<1> DEFINE Goal == life'[n] \in {"join", "gone"}
                     => Len(queue_'[n]) + Coming(n)' <= 1
<1>1. /\ life[n] # "live" => stop[n]
      /\ life[n] \in {"join", "gone"} => Len(queue_[n]) + Coming(n) <= 1
      /\ queue_[n] \in Seq(Messages) /\ Len(queue_[n]) \in Nat
  BY DEF IInv, Destroyed, TypeOK
<1>2. Coming(n) \in {0, 1} /\ Coming(n)' \in {0, 1}
  BY DEF Coming
<1>3. ASSUME life'[n] \in {"join", "gone"} => life[n] \in {"join", "gone"},
             Coming(n)' <= Coming(n), queue_'[n] = queue_[n]
      PROVE  Goal
  BY <1>1, <1>2, <1>3
<1>4. ASSUME recv'[n] = recv[n] PROVE Coming(n)' = Coming(n)
  BY <1>4 DEF Coming
<1>5. ASSUME NEW m \in Instances, Push(m) PROVE Goal
  <2>1. life' = life
    BY <1>5 DEF Push, Receiver
  <2>2. CASE n = m
    <3>1. /\ hand[n] \in Seq(Messages) /\ Len(hand[n]) = 1
          /\ recv[n] = "push" /\ recv'[n] = "check_stop"
          /\ queue_'[n] = queue_[n] \o hand[n]
      BY <1>5, <2>2 DEF Push, Receiver, IInv, TypeOK
    <3>2. Coming(n) = 1 /\ Coming(n)' = 0
      BY <3>1 DEF Coming
    <3>3. Len(queue_[n] \o hand[n]) = Len(queue_[n]) + 1
      <4>1. queue_[n] \in Seq(Messages)
        BY <1>1
      <4>2. hand[n] \in Seq(Messages) /\ Len(hand[n]) = 1
        BY <3>1
      <4> QED
        BY <4>1, <4>2, ConcatLen
    <3> QED
      BY <1>1, <2>1, <3>1, <3>2, <3>3
  <2>3. CASE n # m
    <3>1. recv'[n] = recv[n] /\ queue_'[n] = queue_[n]
      BY <1>5, <2>3 DEF Push, Receiver, IInv, TypeOK
    <3> QED
      BY <1>2, <1>3, <1>4, <2>1, <3>1
  <2> QED
    BY <2>2, <2>3
<1>6. ASSUME NEW m \in Instances, TakeFront(m), UNCHANGED life PROVE Goal
  <2>1. Coming(n)' = Coming(n)
    BY <1>4, <1>6 DEF TakeFront
  <2>2. CASE n = m
    <3>1. queue_[n] # <<>> /\ queue_'[n] = Tail(queue_[n])
      BY <1>6, <2>2 DEF TakeFront, IInv, TypeOK
    <3>2. Len(queue_'[n]) = Len(queue_[n]) - 1
      BY <1>1, <3>1, HeadTail
    <3> QED
      BY <1>1, <1>2, <1>6, <2>1, <3>2
  <2>3. CASE n # m
    <3>1. queue_'[n] = queue_[n]
      BY <1>6, <2>3 DEF TakeFront, IInv, TypeOK
    <3> QED
      BY <1>2, <1>3, <1>6, <2>1, <3>1
  <2> QED
    BY <2>2, <2>3
<1>7. ASSUME NEW m \in Instances, CheckStop(m) PROVE Goal
  <2>1. life' = life /\ queue_' = queue_
    BY <1>7 DEF CheckStop, Receiver
  <2>2. CASE n = m
    <3>1. life[n] # "live" => recv'[n] = "ended"
      BY <1>1, <1>7, <2>2 DEF CheckStop, Receiver, IInv, TypeOK
    <3>2. life[n] # "live" => Coming(n)' = 0
      BY <3>1 DEF Coming
    <3> QED
      BY <1>1, <1>2, <2>1, <3>2
  <2>3. CASE n # m
    <3>1. recv'[n] = recv[n]
      BY <1>7, <2>3 DEF CheckStop, Receiver, IInv, TypeOK
    <3> QED
      BY <1>2, <1>3, <1>4, <2>1, <3>1
  <2> QED
    BY <2>2, <2>3
<1>8. ASSUME NEW m \in Instances,
             NEW from \in {"check_state", "receive", "acquire"},
             NEW to, Receiver(m, from, to), UNCHANGED queue_
      PROVE  Goal
  <2>1. life' = life /\ recv' = [recv EXCEPT ![m] = to]
    BY <1>8 DEF Receiver
  <2>2. Coming(n)' <= Coming(n)
    BY <1>8, <2>1 DEF Receiver, Coming, IInv, TypeOK
  <2> QED
    BY <1>3, <1>8, <2>1, <2>2
<1>9. ASSUME NEW m \in Instances, RunThread(m) PROVE Goal
  <2>1. CASE CheckState(m)
    BY <1>8, <2>1 DEF CheckState
  <2>2. CASE ReceiveMessage(m)
    BY <1>8, <2>2 DEF ReceiveMessage
  <2>3. CASE ReceiveEmpty(m) \/ ReceiveUnread(m) \/ ReceiveFailed(m)
    BY <1>8, <2>3 DEF ReceiveEmpty, ReceiveUnread, ReceiveFailed
  <2>4. CASE Acquire(m)
    BY <1>8, <2>4 DEF Acquire
  <2> QED
    BY <1>5, <1>7, <1>9, <2>1, <2>2, <2>3, <2>4 DEF RunThread
<1>10. ASSUME NEW m \in Instances, Start(m) PROVE Goal
  <2>1. life' = life /\ queue_' = queue_
    BY <1>10 DEF Start, fieldVars
  <2>2. CASE n = m
    BY <1>10, <2>1, <2>2 DEF Start
  <2>3. CASE n # m
    <3>1. recv'[n] = recv[n]
      BY <1>10, <2>3 DEF Start, IInv, TypeOK
    <3> QED
      BY <1>2, <1>3, <1>4, <2>1, <3>1
  <2> QED
    BY <2>2, <2>3
<1>11. ASSUME UNCHANGED <<queue_, recv, life>> PROVE Goal
  BY <1>2, <1>3, <1>4, <1>11
<1>12. ASSUME NEW m \in Instances, enable(m) \/ disable(m) \/ Stop(m)
       PROVE  Goal
  BY <1>11, <1>12 DEF enable, disable, Stop, SetState, SetStop
<1>13. ASSUME NEW m \in Instances, GetNow(m) PROVE Goal
  BY <1>6, <1>13 DEF GetNow, Deliver
<1>14. ASSUME NEW m \in Instances, NEW t \in Getters,
              GetWait(t, m) \/ GetWoken(t, m) \/ Spurious(t, m)
       PROVE  Goal
  BY <1>6, <1>11, <1>14 DEF GetWait, GetWoken, Spurious, Deliver, fieldVars
<1>15. ASSUME NEW m \in Instances, NEW from \in {"live", "stopped", "join"},
              NEW to \in {"stopped", "drain", "gone"}, Owner(m, from, to),
              from = "join" \/ to # "gone", UNCHANGED <<queue_, recv>>
       PROVE  Goal
  <2>1. life'[n] \in {"join", "gone"} => life[n] \in {"join", "gone"}
    BY <1>15 DEF Owner, IInv, TypeOK
  <2> QED
    BY <1>2, <1>3, <1>4, <1>15, <2>1
<1>16. ASSUME NEW m \in Instances, DtorStop(m) \/ Destroy(m) PROVE Goal
  <2>1. CASE DtorStop(m)
    BY <1>15, <2>1 DEF DtorStop, SetStop
  <2>2. CASE DtorDisable(m)
    BY <1>15, <2>2 DEF DtorDisable, SetState
  <2>3. CASE DtorDrain(m)
    BY <1>6, <2>3 DEF DtorDrain
  <2>4. CASE DtorDrained(m)
    <3>1. /\ queue_[m] = <<>> /\ queue_' = queue_ /\ recv' = recv
          /\ life' = [life EXCEPT ![m] = "join"]
      BY <2>4 DEF DtorDrained, Owner, fieldVars
    <3>2. CASE n = m
      BY <1>2, <3>1, <3>2
    <3>3. CASE n # m
      <4>1. life'[n] = life[n]
        BY <3>1, <3>3 DEF IInv, TypeOK
      <4> QED
        BY <1>2, <1>3, <1>4, <3>1, <4>1
    <3> QED
      BY <3>2, <3>3
  <2>5. CASE DtorJoin(m)
    BY <1>15, <2>5 DEF DtorJoin, fieldVars
  <2> QED
    BY <1>16, <2>1, <2>2, <2>3, <2>4, <2>5 DEF Destroy
<1>17. CASE Publish \/ UNCHANGED vars
  BY <1>11, <1>17 DEF Publish, vars, fieldVars
<1> QED
  BY <1>9, <1>10, <1>12, <1>13, <1>14, <1>16, <1>17 DEF Next

LEMMA DestroyedStep == IInv /\ [Next]_vars => Destroyed'
  BY StopStep, LeftStep DEF Destroyed

-----------------------------------------------------------------------------
(* Where the messages are.  The six kinds of steps that move one.          *)

pathVars == <<published, broker, queue_, hand, got, lost>>

Receives(m) ==
  /\ broker # <<>> /\ hand[m] = <<>>
  /\ broker' = Tail(broker)
  /\ hand' = [hand EXCEPT ![m] = <<Head(broker)>>]
  /\ UNCHANGED <<published, queue_, got, lost>>

Pushes(m) ==
  /\ queue_' = [queue_ EXCEPT ![m] = @ \o hand[m]]
  /\ hand' = [hand EXCEPT ![m] = <<>>]
  /\ UNCHANGED <<published, broker, got, lost>>

Takes(m) ==
  /\ queue_[m] # <<>>
  /\ queue_' = [queue_ EXCEPT ![m] = Tail(@)]
  /\ UNCHANGED <<published, broker, hand>>

Delivers(m) ==
  /\ Takes(m)
  /\ got' = [got EXCEPT ![m] = Append(@, Head(queue_[m]))]
  /\ UNCHANGED lost

Drains(m) ==
  /\ Takes(m)
  /\ lost' = lost \cup {Head(queue_[m])}
  /\ UNCHANGED got

Loses == LoseHead /\ UNCHANGED <<published, queue_, hand, got>>

LEMMA PathSteps ==
  ASSUME TypeOK, [Next]_vars
  PROVE  \/ Publish
         \/ Loses
         \/ UNCHANGED pathVars
         \/ \E m \in Instances :
              Receives(m) \/ Pushes(m) \/ Delivers(m) \/ Drains(m)
<1> USE DEF pathVars
<1>1. ASSUME NEW m \in Instances, RunThread(m)
      PROVE  Receives(m) \/ Pushes(m) \/ Loses \/ UNCHANGED pathVars
  <2>1. CASE ReceiveMessage(m)
    <3>1. Len(hand[m]) = 0 /\ hand[m] \in Seq(Messages)
      BY <2>1 DEF ReceiveMessage, Receiver, TypeOK
    <3>2. hand[m] = <<>>
      BY <3>1
    <3> QED
      BY <2>1, <3>2 DEF ReceiveMessage, Receiver, Receives
  <2>2. CASE Push(m)
    BY <2>2 DEF Push, Receiver, Pushes
  <2>3. CASE ReceiveUnread(m) \/ ReceiveFailed(m)
    BY <2>3 DEF ReceiveUnread, ReceiveFailed, Receiver, Loses
  <2>4. CASE \/ CheckStop(m) \/ CheckState(m) \/ ReceiveEmpty(m)
             \/ Acquire(m)
    BY <2>4 DEF CheckStop, CheckState, ReceiveEmpty, Acquire, Receiver
  <2> QED
    BY <1>1, <2>1, <2>2, <2>3, <2>4 DEF RunThread
<1>2. ASSUME NEW m \in Instances, Deliver(m) PROVE Delivers(m)
  BY <1>2 DEF Deliver, TakeFront, Delivers, Takes
<1>3. ASSUME NEW m \in Instances, NEW t \in Getters,
             GetWait(t, m) \/ GetWoken(t, m) \/ Spurious(t, m)
      PROVE  Delivers(m) \/ UNCHANGED pathVars
  BY <1>2, <1>3 DEF GetWait, GetWoken, Spurious, fieldVars
<1>4. ASSUME NEW m \in Instances,
             \/ Start(m) \/ enable(m) \/ disable(m) \/ Stop(m)
             \/ DtorStop(m) \/ DtorDisable(m) \/ DtorDrained(m) \/ DtorJoin(m)
      PROVE  UNCHANGED pathVars
  BY <1>4 DEF Start, enable, disable, Stop, DtorStop, DtorDisable,
     DtorDrained, DtorJoin, SetState, SetStop, fieldVars
<1>5. ASSUME NEW m \in Instances, DtorDrain(m) PROVE Drains(m)
  BY <1>5 DEF DtorDrain, TakeFront, Drains, Takes
<1>6. CASE UNCHANGED vars
  BY <1>6 DEF vars, fieldVars
<1> QED
  BY <1>1, <1>2, <1>3, <1>4, <1>5, <1>6 DEF Next, Destroy, GetNow

(* Every message of s is older than every one of t.                        *)
Precedes(s, t) == \A x \in Values(s), y \in Values(t) : x < y

(* What an instance handed out, holds in its queue and in its receiver's   *)
(* hand, and what is left in the broker, is in the order of publication.   *)
Ordered(g, q, h, b) ==
  /\ Increasing(g) /\ Increasing(q) /\ Increasing(h)
  /\ Precedes(g, q) /\ Precedes(g, h) /\ Precedes(g, b)
  /\ Precedes(q, h) /\ Precedes(q, b) /\ Precedes(h, b)

(* GotInOrder part by part.                                                *)
OrderInv ==
  /\ Increasing(broker)
  /\ \A m \in Instances : Ordered(got[m], queue_[m], hand[m], broker)

(* Accounted, and that a lost message is not in the broker either.         *)
AccountInv == Accounted /\ lost \cap Values(broker) = {}

LEMMA EmptyValues == Values(<<>>) = {} /\ Increasing(<<>>)
BY DEF Values, Increasing

LEMMA OneValue ==
  ASSUME NEW x PROVE Values(<<x>>) = {x} /\ Increasing(<<x>>)
<1>1. Len(<<x>>) = 1 /\ <<x>>[1] = x /\ 1 .. 1 = {1}
  OBVIOUS
<1> QED
  BY <1>1 DEF Values, Increasing

LEMMA ValuesType ==
  ASSUME NEW S, NEW s \in Seq(S) PROVE Values(s) \subseteq S
BY DEF Values

LEMMA ConcatValues ==
  ASSUME NEW S, NEW s \in Seq(S), NEW t \in Seq(S)
  PROVE  Values(s \o t) = Values(s) \cup Values(t)
<1> DEFINE u == s \o t
<1>1. /\ Len(s) \in Nat /\ Len(t) \in Nat /\ Len(u) = Len(s) + Len(t)
      /\ \A i \in 1 .. Len(s) : u[i] = s[i]
      /\ \A i \in 1 .. Len(t) : u[Len(s) + i] = t[i]
  OBVIOUS
<1> HIDE DEF u
<1>2. Values(u) \subseteq Values(s) \cup Values(t)
  <2> SUFFICES ASSUME NEW i \in 1 .. Len(u)
               PROVE  u[i] \in Values(s) \cup Values(t)
    BY DEF Values
  <2>1. CASE i <= Len(s)
    BY <1>1, <2>1 DEF Values
  <2>2. CASE i > Len(s)
    <3>1. i - Len(s) \in 1 .. Len(t) /\ Len(s) + (i - Len(s)) = i
      BY <1>1, <2>2
    <3>2. u[i] = t[i - Len(s)]
      BY <1>1, <3>1
    <3> QED
      BY <3>1, <3>2 DEF Values
  <2> QED
    BY <1>1, <2>1, <2>2
<1>3. Values(s) \subseteq Values(u)
  <2> SUFFICES ASSUME NEW i \in 1 .. Len(s) PROVE s[i] \in Values(u)
    BY DEF Values
  <2>1. i \in 1 .. Len(u) /\ u[i] = s[i]
    BY <1>1
  <2> QED
    BY <2>1 DEF Values
<1>4. Values(t) \subseteq Values(u)
  <2> SUFFICES ASSUME NEW i \in 1 .. Len(t) PROVE t[i] \in Values(u)
    BY DEF Values
  <2>1. Len(s) + i \in 1 .. Len(u) /\ u[Len(s) + i] = t[i]
    BY <1>1
  <2> QED
    BY <2>1 DEF Values
<1> QED
  BY <1>2, <1>3, <1>4 DEF u

LEMMA IntConcatValues ==
  \A s, t \in Seq(Int) : Values(s \o t) = Values(s) \cup Values(t)
BY ConcatValues

LEMMA AddedValue ==
  ASSUME NEW s \in Seq(Int), NEW x \in Int
  PROVE  /\ Values(s \o <<x>>) = Values(s) \cup {x}
         /\ Append(s, x) = s \o <<x>>
         /\ Values(Append(s, x)) = Values(s) \cup {x}
<1>1. <<x>> \in Seq(Int)
  OBVIOUS
<1>2. Values(s \o <<x>>) = Values(s) \cup Values(<<x>>)
  BY <1>1, IntConcatValues, Zenon
<1>3. Append(s, x) = s \o <<x>>
  BY AppendIsConcat, Zenon
<1> QED
  BY <1>2, <1>3, OneValue

LEMMA ConcatIncreasing ==
  ASSUME NEW S \in SUBSET Int, NEW s \in Seq(S), NEW t \in Seq(S),
         Increasing(s), Increasing(t), Precedes(s, t)
  PROVE  Increasing(s \o t)
<1> DEFINE u == s \o t
<1>1. /\ Len(s) \in Nat /\ Len(t) \in Nat /\ Len(u) = Len(s) + Len(t)
      /\ \A i \in 1 .. Len(s) : u[i] = s[i]
      /\ \A i \in 1 .. Len(t) : u[Len(s) + i] = t[i]
  OBVIOUS
<1> HIDE DEF u
<1>2. \A i \in 1 .. Len(u) :
        \/ i <= Len(s) /\ i \in 1 .. Len(s) /\ u[i] = s[i]
        \/ i > Len(s) /\ i - Len(s) \in 1 .. Len(t) /\ u[i] = t[i - Len(s)]
  <2> SUFFICES ASSUME NEW i \in 1 .. Len(u), i > Len(s)
               PROVE  i - Len(s) \in 1 .. Len(t) /\ u[i] = t[i - Len(s)]
    BY <1>1
  <2>1. i - Len(s) \in 1 .. Len(t) /\ Len(s) + (i - Len(s)) = i
    BY <1>1
  <2> QED
    BY <1>1, <2>1
<1> SUFFICES ASSUME NEW i \in 1 .. Len(u), NEW j \in 1 .. Len(u), i < j
             PROVE  u[i] < u[j]
  BY DEF Increasing, u
<1>3. CASE j <= Len(s)
  BY <1>1, <1>2, <1>3 DEF Increasing
<1>4. CASE i > Len(s)
  <2>1. /\ i - Len(s) \in 1 .. Len(t) /\ j - Len(s) \in 1 .. Len(t)
        /\ u[i] = t[i - Len(s)] /\ u[j] = t[j - Len(s)]
        /\ i - Len(s) < j - Len(s)
    BY <1>1, <1>2, <1>4
  <2> QED
    BY <2>1 DEF Increasing
<1>5. CASE i <= Len(s) /\ j > Len(s)
  <2>1. u[i] \in Values(s) /\ u[j] \in Values(t)
    BY <1>1, <1>2, <1>5 DEF Values
  <2> QED
    BY <2>1 DEF Precedes
<1> QED
  BY <1>1, <1>3, <1>4, <1>5

LEMMA TailValues ==
  ASSUME NEW S, NEW s \in Seq(S), s # <<>>
  PROVE  Values(s) = {Head(s)} \cup Values(Tail(s))
<1> DEFINE u == Tail(s)
<1>1. /\ Len(s) \in Nat \ {0} /\ Len(u) = Len(s) - 1 /\ Head(s) = s[1]
      /\ \A i \in 1 .. Len(u) : u[i] = s[i + 1]
  OBVIOUS
<1> HIDE DEF u
<1>2. ASSUME NEW i \in 1 .. Len(s)
      PROVE  s[i] \in {Head(s)} \cup Values(u)
  <2>1. CASE i = 1
    BY <1>1, <2>1
  <2>2. CASE i # 1
    <3>1. i - 1 \in 1 .. Len(u) /\ (i - 1) + 1 = i
      BY <1>1, <2>2
    <3>2. u[i - 1] = s[i]
      BY <1>1, <3>1
    <3> QED
      BY <3>1, <3>2 DEF Values
  <2> QED
    BY <2>1, <2>2
<1>3. ASSUME NEW i \in 1 .. Len(u) PROVE u[i] \in Values(s)
  BY <1>1 DEF Values
<1>4. Head(s) \in Values(s)
  BY <1>1 DEF Values
<1> QED
  BY <1>2, <1>3, <1>4 DEF Values, u

LEMMA TailIncreasing ==
  ASSUME NEW S \in SUBSET Int, NEW s \in Seq(S), s # <<>>, Increasing(s)
  PROVE  /\ Increasing(Tail(s))
         /\ \A x \in Values(Tail(s)) : Head(s) < x
<1> DEFINE u == Tail(s)
<1>1. /\ Len(s) \in Nat \ {0} /\ Len(u) = Len(s) - 1 /\ Head(s) = s[1]
      /\ \A i \in 1 .. Len(u) : u[i] = s[i + 1]
  OBVIOUS
<1> HIDE DEF u
<1>2. ASSUME NEW i \in 1 .. Len(u), NEW j \in 1 .. Len(u), i < j
      PROVE  u[i] < u[j]
  <2>1. i + 1 \in 1 .. Len(s) /\ j + 1 \in 1 .. Len(s) /\ i + 1 < j + 1
    BY <1>1, <1>2
  <2> QED
    BY <1>1, <2>1 DEF Increasing
<1>3. ASSUME NEW i \in 1 .. Len(u) PROVE Head(s) < u[i]
  <2>1. 1 \in 1 .. Len(s) /\ i + 1 \in 1 .. Len(s) /\ 1 < i + 1
    BY <1>1
  <2> QED
    BY <1>1, <2>1 DEF Increasing
<1> QED
  BY <1>2, <1>3 DEF Increasing, Values, u

LEMMA IntSeq ==
  ASSUME NEW a \in Nat, NEW s \in Seq(1 .. a)
  PROVE  s \in Seq(Int) /\ Values(s) \subseteq 1 .. a
<1>1. s \in [1 .. Len(s) -> 1 .. a] /\ Len(s) \in Nat
  OBVIOUS
<1>2. s \in [1 .. Len(s) -> Int]
  BY <1>1
<1> QED
  BY <1>1, <1>2, ValuesType

LEMMA IntSeqs ==
  ASSUME TypeOK
  PROVE  /\ broker \in Seq(Int) /\ Values(broker) \subseteq Messages
         /\ \A m \in Instances :
              /\ queue_[m] \in Seq(Int) /\ Values(queue_[m]) \subseteq Messages
              /\ hand[m] \in Seq(Int) /\ Values(hand[m]) \subseteq Messages
              /\ got[m] \in Seq(Int) /\ Values(got[m]) \subseteq Messages
<1>1. published \in Nat
  BY MessagesAssumption DEF TypeOK
<1> QED
  BY <1>1, IntSeq DEF TypeOK, Messages

(* What the steps do to the order of one instance.                         *)
LEMMA OrderOfFewer ==
  ASSUME NEW g, NEW q, NEW h, NEW b, NEW c, Ordered(g, q, h, b),
         Values(c) \subseteq Values(b)
  PROVE  Ordered(g, q, h, c)
BY DEF Ordered, Precedes

LEMMA OrderOfPublished ==
  ASSUME NEW n \in Int, NEW g, NEW q, NEW h, NEW b \in Seq(Int),
         Ordered(g, q, h, b),
         \A x \in Values(g) \cup Values(q) \cup Values(h) : x < n
  PROVE  Ordered(g, q, h, b \o <<n>>)
<1>1. Values(b \o <<n>>) = Values(b) \cup {n}
  BY AddedValue
<1> QED
  BY <1>1 DEF Ordered, Precedes

LEMMA OrderOfReceived ==
  ASSUME NEW g \in Seq(Int), NEW q \in Seq(Int), NEW b \in Seq(Int),
         Ordered(g, q, <<>>, b), Increasing(b), b # <<>>
  PROVE  Ordered(g, q, <<Head(b)>>, Tail(b))
<1>1. Values(b) = {Head(b)} \cup Values(Tail(b))
  BY TailValues
<1>2. \A x \in Values(Tail(b)) : Head(b) < x
  BY TailIncreasing, Int \in SUBSET Int
<1>3. Values(<<Head(b)>>) = {Head(b)} /\ Increasing(<<Head(b)>>)
  BY OneValue
<1> QED
  BY <1>1, <1>2, <1>3 DEF Ordered, Precedes

LEMMA OrderOfPushed ==
  ASSUME NEW g \in Seq(Int), NEW q \in Seq(Int), NEW h \in Seq(Int), NEW b,
         Ordered(g, q, h, b)
  PROVE  Ordered(g, q \o h, <<>>, b)
<1>1. Values(q \o h) = Values(q) \cup Values(h)
  BY ConcatValues
<1>2. Increasing(q \o h)
  BY ConcatIncreasing, Int \in SUBSET Int DEF Ordered
<1> QED
  BY <1>1, <1>2, EmptyValues DEF Ordered, Precedes

LEMMA OrderOfTaken ==
  ASSUME NEW g \in Seq(Int), NEW q \in Seq(Int), NEW h \in Seq(Int), NEW b,
         Ordered(g, q, h, b), q # <<>>
  PROVE  /\ Ordered(g, Tail(q), h, b)
         /\ Ordered(g \o <<Head(q)>>, Tail(q), h, b)
         /\ Head(q) \notin Values(g) \cup Values(Tail(q)) \cup Values(h)
         /\ Values(q) = {Head(q)} \cup Values(Tail(q))
<1>1. Values(q) = {Head(q)} \cup Values(Tail(q))
  BY TailValues
<1>2. /\ Increasing(Tail(q))
      /\ \A x \in Values(Tail(q)) : Head(q) < x
  BY TailIncreasing, Int \in SUBSET Int DEF Ordered
<1>3. Head(q) \in Int
  OBVIOUS
<1>4. /\ Values(<<Head(q)>>) = {Head(q)} /\ Increasing(<<Head(q)>>)
      /\ <<Head(q)>> \in Seq(Int)
  BY <1>3, OneValue
<1>5. Values(g \o <<Head(q)>>) = Values(g) \cup {Head(q)}
  BY <1>3, AddedValue
<1>6. Precedes(g, <<Head(q)>>)
  BY <1>1, <1>4 DEF Ordered, Precedes
<1>7. Increasing(g \o <<Head(q)>>)
  BY <1>4, <1>6, ConcatIncreasing, Int \in SUBSET Int DEF Ordered
<1>8. \A x \in Values(g) : x < Head(q)
  BY <1>1 DEF Ordered, Precedes
<1>9. \A x \in Values(h) : Head(q) < x
  BY <1>1 DEF Ordered, Precedes
<1>10. Ordered(g, Tail(q), h, b)
  BY <1>1, <1>2 DEF Ordered, Precedes
<1>11. Ordered(g \o <<Head(q)>>, Tail(q), h, b)
  BY <1>1, <1>2, <1>5, <1>7, <1>10 DEF Ordered, Precedes
<1>12. Head(q) \notin Values(g) \cup Values(Tail(q)) \cup Values(h)
  BY <1>2, <1>3, <1>8, <1>9
<1> QED
  BY <1>1, <1>10, <1>11, <1>12

LEMMA OrderStep ==
  ASSUME TypeOK, OrderInv, [Next]_vars
  PROVE  OrderInv'
<1> DEFINE Here(n) == Ordered(got[n], queue_[n], hand[n], broker)
<1>1. /\ Increasing(broker) /\ broker \in Seq(Int) /\ published \in Nat
      /\ \A n \in Instances :
           /\ Ordered(got[n], queue_[n], hand[n], broker)
           /\ got[n] \in Seq(Int) /\ queue_[n] \in Seq(Int)
           /\ hand[n] \in Seq(Int)
  BY IntSeqs, MessagesAssumption DEF OrderInv, TypeOK
<1>2. CASE Publish
  <2>1. /\ broker' = Append(broker, published + 1)
        /\ UNCHANGED <<got, queue_, hand>>
    BY <1>2 DEF Publish, fieldVars
  <2>2. broker' = broker \o <<published + 1>>
    BY <1>1, <2>1
  <2>3. /\ published + 1 \in Int /\ <<published + 1>> \in Seq(Int)
        /\ \A x \in Messages : x < published + 1
    BY <1>1 DEF Messages
  <2>4. Precedes(broker, <<published + 1>>) /\ Increasing(<<published + 1>>)
    BY <2>3, IntSeqs, OneValue DEF Precedes
  <2>5. Increasing(broker')
    BY <1>1, <2>2, <2>3, <2>4, ConcatIncreasing, Int \in SUBSET Int
  <2>6. ASSUME NEW n \in Instances PROVE Here(n)'
    <3>1. \A x \in Values(got[n]) \cup Values(queue_[n]) \cup Values(hand[n]) :
            x < published + 1
      BY <2>3, IntSeqs
    <3>2. Ordered(got[n], queue_[n], hand[n], broker \o <<published + 1>>)
      BY <1>1, <2>3, <3>1, OrderOfPublished
    <3> QED
      BY <2>1, <2>2, <3>2
  <2> QED
    BY <2>5, <2>6 DEF OrderInv
<1>3. ASSUME broker # <<>>, broker' = Tail(broker)
      PROVE  /\ Increasing(broker') /\ Values(broker') \subseteq Values(broker)
  BY <1>1, <1>3, TailIncreasing, TailValues, Int \in SUBSET Int
<1>4. CASE Loses
  <2>1. /\ broker # <<>> /\ broker' = Tail(broker)
        /\ UNCHANGED <<got, queue_, hand>>
    BY <1>4 DEF Loses, LoseHead
  <2>2. ASSUME NEW n \in Instances PROVE Here(n)'
    BY <1>1, <1>3, <2>1, OrderOfFewer
  <2> QED
    BY <1>3, <2>1, <2>2 DEF OrderInv
<1>5. ASSUME NEW m \in Instances, Receives(m) PROVE OrderInv'
  <2>1. /\ broker # <<>> /\ broker' = Tail(broker) /\ hand[m] = <<>>
        /\ hand' = [hand EXCEPT ![m] = <<Head(broker)>>]
        /\ UNCHANGED <<got, queue_>>
    BY <1>5 DEF Receives
  <2>2. ASSUME NEW n \in Instances PROVE Here(n)'
    <3>1. CASE n = m
      <4>1. hand'[n] = <<Head(broker)>>
        BY <2>1, <3>1 DEF TypeOK
      <4>2. Ordered(got[n], queue_[n], <<Head(broker)>>, Tail(broker))
        BY <1>1, <2>1, <3>1, OrderOfReceived
      <4> QED
        BY <2>1, <4>1, <4>2
    <3>2. CASE n # m
      <4>1. hand'[n] = hand[n]
        BY <2>1, <3>2 DEF TypeOK
      <4>2. Ordered(got[n], queue_[n], hand[n], broker')
        BY <1>1, <1>3, <2>1, OrderOfFewer
      <4> QED
        BY <2>1, <4>1, <4>2
    <3> QED
      BY <3>1, <3>2
  <2> QED
    BY <1>3, <2>1, <2>2 DEF OrderInv
<1>6. ASSUME NEW m \in Instances, Pushes(m) PROVE OrderInv'
  <2>1. ASSUME NEW n \in Instances PROVE Here(n)'
    <3>1. broker' = broker /\ got' = got
      BY <1>6 DEF Pushes
    <3>2. CASE n = m
      <4>1. queue_'[n] = queue_[n] \o hand[n] /\ hand'[n] = <<>>
        BY <1>6, <3>2 DEF Pushes, TypeOK
      <4>2. Ordered(got[n], queue_[n] \o hand[n], <<>>, broker)
        BY <1>1, OrderOfPushed
      <4> QED
        BY <3>1, <4>1, <4>2
    <3>3. CASE n # m
      <4>1. queue_'[n] = queue_[n] /\ hand'[n] = hand[n]
        BY <1>6, <3>3 DEF Pushes, TypeOK
      <4> QED
        BY <1>1, <3>1, <4>1
    <3> QED
      BY <3>2, <3>3
  <2> QED
    BY <1>1, <1>6, <2>1 DEF OrderInv, Pushes
<1>7. ASSUME NEW m \in Instances, Delivers(m) \/ Drains(m) PROVE OrderInv'
  <2>1. /\ broker' = broker /\ hand' = hand /\ queue_[m] # <<>>
        /\ queue_' = [queue_ EXCEPT ![m] = Tail(queue_[m])]
        /\ \/ got' = got
           \/ got' = [got EXCEPT ![m] = Append(got[m], Head(queue_[m]))]
    BY <1>7 DEF Delivers, Drains, Takes
  <2>2. ASSUME NEW n \in Instances PROVE Here(n)'
    <3>1. CASE n = m
      <4>1. /\ queue_'[n] = Tail(queue_[n])
            /\ \/ got'[n] = got[n]
               \/ got'[n] = Append(got[n], Head(queue_[n]))
        BY <2>1, <3>1 DEF TypeOK
      <4>2. Append(got[n], Head(queue_[n])) = got[n] \o <<Head(queue_[n])>>
        BY <1>1, <2>1, <3>1, HeadTail, AddedValue
      <4>3. /\ Ordered(got[n], Tail(queue_[n]), hand[n], broker)
            /\ Ordered(got[n] \o <<Head(queue_[n])>>, Tail(queue_[n]), hand[n],
                       broker)
        BY <1>1, <2>1, <3>1, OrderOfTaken
      <4> QED
        BY <2>1, <4>1, <4>2, <4>3
    <3>2. CASE n # m
      <4>1. queue_'[n] = queue_[n] /\ got'[n] = got[n]
        BY <2>1, <3>2 DEF TypeOK
      <4> QED
        BY <1>1, <2>1, <4>1
    <3> QED
      BY <3>1, <3>2
  <2> QED
    BY <1>1, <2>1, <2>2 DEF OrderInv
<1>8. CASE UNCHANGED pathVars
  BY <1>8 DEF pathVars, OrderInv
<1> QED
  BY <1>2, <1>4, <1>5, <1>6, <1>7, <1>8, PathSteps

LEMMA AccountStep ==
  ASSUME TypeOK, OrderInv, AccountInv, [Next]_vars
  PROVE  AccountInv'
<1> DEFINE All == UNION {Held(m) : m \in Instances}
           B == Values(broker)
<1>1. /\ broker \in Seq(Int) /\ Increasing(broker) /\ published \in Nat
      /\ \A n \in Instances :
           /\ Ordered(got[n], queue_[n], hand[n], broker)
           /\ got[n] \in Seq(Int) /\ queue_[n] \in Seq(Int)
           /\ hand[n] \in Seq(Int) /\ Held(n) \subseteq Messages
  BY IntSeqs, MessagesAssumption DEF OrderInv, TypeOK, Held
<1>2. /\ Messages = lost \cup B \cup All /\ lost \cap B = {}
      /\ \A n \in Instances :
           /\ Held(n) \cap (lost \cup B) = {}
           /\ \A k \in Instances \ {n} : Held(n) \cap Held(k) = {}
  BY DEF AccountInv, Accounted
<1>3. /\ \A x : x \in All <=> \E m \in Instances : x \in Held(m)
      /\ \A x : x \in All' <=> \E m \in Instances : x \in Held(m)'
  OBVIOUS
<1> HIDE DEF All
<1>4. ASSUME /\ Messages' = lost' \cup B' \cup All' /\ lost' \cap B' = {}
             /\ \A n \in Instances :
                  /\ Held(n)' \cap (lost' \cup B') = {}
                  /\ \A k \in Instances \ {n} : Held(n)' \cap Held(k)' = {}
      PROVE  AccountInv'
  BY <1>4 DEF AccountInv, Accounted, All
<1> HIDE DEF B
<1>5. ASSUME \A n \in Instances : Held(n)' = Held(n)
      PROVE  All' = All
  BY <1>3, <1>5
<1>6. CASE Publish
  <2>1. /\ broker' = Append(broker, published + 1)
        /\ Messages' = Messages \cup {published + 1}
        /\ published + 1 \notin Messages
        /\ UNCHANGED <<got, queue_, hand, lost>>
    BY <1>1, <1>6 DEF Publish, fieldVars, Messages
  <2>2. B' = B \cup {published + 1}
    <3>1. broker \in Seq(Int) /\ published + 1 \in Int
      BY <1>1
    <3>2. Values(Append(broker, published + 1))
            = Values(broker) \cup {published + 1}
      BY <3>1, AddedValue
    <3> QED
      BY <2>1, <3>2 DEF B
  <2>3. \A n \in Instances : Held(n)' = Held(n)
    BY <2>1 DEF Held
  <2>4. lost \subseteq Messages
    BY DEF TypeOK
  <2> QED
    BY <1>1, <1>2, <1>4, <1>5, <2>1, <2>2, <2>3, <2>4
<1>7. ASSUME broker # <<>>, broker' = Tail(broker)
      PROVE  B = {Head(broker)} \cup B' /\ Head(broker) \notin B'
  <2>1. B = {Head(broker)} \cup B'
    BY <1>1, <1>7, TailValues DEF B
  <2>2. \A x \in B' : Head(broker) < x
    BY <1>1, <1>7, TailIncreasing, Int \in SUBSET Int DEF B
  <2>3. Head(broker) \in Int
    BY <1>1, <1>7
  <2> QED
    BY <2>1, <2>2, <2>3
<1>8. CASE Loses
  <2>1. /\ broker # <<>> /\ broker' = Tail(broker) /\ Messages' = Messages
        /\ lost' = lost \cup {Head(broker)}
        /\ UNCHANGED <<got, queue_, hand>>
    BY <1>8 DEF Loses, LoseHead, Messages
  <2>2. \A n \in Instances : Held(n)' = Held(n)
    BY <2>1 DEF Held
  <2> QED
    BY <1>2, <1>4, <1>5, <1>7, <2>1, <2>2
<1>9. ASSUME NEW m \in Instances, Receives(m) PROVE AccountInv'
  <2>1. /\ broker # <<>> /\ broker' = Tail(broker) /\ Messages' = Messages
        /\ hand[m] = <<>> /\ hand' = [hand EXCEPT ![m] = <<Head(broker)>>]
        /\ UNCHANGED <<got, queue_, lost>>
    BY <1>9 DEF Receives, Messages
  <2>2. hand'[m] = <<Head(broker)>>
        /\ \A n \in Instances \ {m} : hand'[n] = hand[n]
    BY <2>1 DEF TypeOK
  <2>3. Held(m)' = Held(m) \cup {Head(broker)}
    BY <2>1, <2>2, EmptyValues, OneValue DEF Held
  <2>4. \A n \in Instances \ {m} : Held(n)' = Held(n)
    BY <2>1, <2>2 DEF Held
  <2>5. All' = All \cup {Head(broker)}
    BY <1>3, <2>3, <2>4
  <2>6. B = {Head(broker)} \cup B' /\ Head(broker) \notin B'
    BY <1>7, <2>1
  <2>7. \A n \in Instances :
          /\ Held(n)' \cap (lost' \cup B') = {}
          /\ \A k \in Instances \ {n} : Held(n)' \cap Held(k)' = {}
    <3> SUFFICES ASSUME NEW n \in Instances, NEW k \in Instances \ {n}
                 PROVE  /\ Held(n)' \cap (lost' \cup B') = {}
                        /\ Held(m)' \cap (lost' \cup B') = {}
                        /\ Held(n)' \cap Held(k)' = {}
      <4>1. Held(m)' \cap (lost' \cup B') = {}
        BY <1>2, <2>1, <2>3, <2>6
      <4> QED
        BY <1>2, <2>1, <2>4, <2>6, <4>1
    <3>1. /\ Head(broker) \notin Held(n) /\ Head(broker) \notin Held(k)
          /\ Head(broker) \notin lost
      BY <1>2, <2>6
    <3> QED
      BY <1>2, <2>1, <2>3, <2>4, <2>6, <3>1
  <2> QED
    BY <1>2, <1>4, <2>1, <2>5, <2>6, <2>7
<1>10. ASSUME NEW m \in Instances, Pushes(m) PROVE AccountInv'
  <2>1. /\ UNCHANGED <<published, broker, got, lost>>
        /\ queue_'[m] = queue_[m] \o hand[m] /\ hand'[m] = <<>>
        /\ \A n \in Instances \ {m} :
             queue_'[n] = queue_[n] /\ hand'[n] = hand[n]
    BY <1>10 DEF Pushes, TypeOK
  <2>2. Values(queue_[m] \o hand[m]) = Values(queue_[m]) \cup Values(hand[m])
    BY <1>1, ConcatValues
  <2>3. Held(m)' = Held(m)
    BY <2>1, <2>2, EmptyValues DEF Held
  <2>4. \A n \in Instances : Held(n)' = Held(n)
    BY <2>1, <2>3 DEF Held
  <2>5. Messages' = Messages /\ B' = B /\ lost' = lost
    BY <2>1 DEF Messages, B
  <2> QED
    BY <1>2, <1>4, <1>5, <2>4, <2>5
<1>11. ASSUME NEW m \in Instances, Takes(m)
       PROVE  /\ Messages' = Messages /\ B' = B
              /\ queue_[m] # <<>> /\ queue_'[m] = Tail(queue_[m])
              /\ hand' = hand
              /\ \A n \in Instances \ {m} : queue_'[n] = queue_[n]
              /\ Values(queue_[m]) =
                   {Head(queue_[m])} \cup Values(Tail(queue_[m]))
              /\ Head(queue_[m]) \notin Values(got[m])
                    \cup Values(Tail(queue_[m])) \cup Values(hand[m])
              /\ Head(queue_[m]) \in Int
  <2>1. /\ Messages' = Messages /\ B' = B
        /\ queue_[m] # <<>> /\ queue_'[m] = Tail(queue_[m]) /\ hand' = hand
        /\ \A n \in Instances \ {m} : queue_'[n] = queue_[n]
    BY <1>11 DEF Takes, TypeOK, Messages, B
  <2> QED
    BY <1>1, <2>1, OrderOfTaken, HeadTail
<1>12. ASSUME NEW m \in Instances, Delivers(m) PROVE AccountInv'
  <2>1. /\ Takes(m) /\ lost' = lost
        /\ got'[m] = Append(got[m], Head(queue_[m]))
        /\ \A n \in Instances \ {m} : got'[n] = got[n]
    BY <1>12 DEF Delivers, TypeOK
  <2>2. Values(got'[m]) = Values(got[m]) \cup {Head(queue_[m])}
    <3>1. got[m] \in Seq(Int) /\ Head(queue_[m]) \in Int
      BY <1>1, <1>11, <2>1
    <3>2. Values(Append(got[m], Head(queue_[m])))
            = Values(got[m]) \cup {Head(queue_[m])}
      BY <3>1, AddedValue
    <3> QED
      BY <2>1, <3>2
  <2>3. Held(m)' = Held(m)
    BY <1>11, <2>1, <2>2 DEF Held
  <2>4. \A n \in Instances \ {m} : Held(n)' = Held(n)
    BY <1>11, <2>1 DEF Held
  <2>5. \A n \in Instances : Held(n)' = Held(n)
    BY <2>3, <2>4
  <2> QED
    BY <1>2, <1>4, <1>5, <1>11, <2>1, <2>5
<1>13. ASSUME NEW m \in Instances, Drains(m) PROVE AccountInv'
  <2>1. /\ Takes(m) /\ got' = got /\ lost' = lost \cup {Head(queue_[m])}
    BY <1>13 DEF Drains
  <2>2. /\ Held(m) = Held(m)' \cup {Head(queue_[m])}
        /\ Head(queue_[m]) \notin Held(m)'
    BY <1>11, <2>1 DEF Held
  <2>3. \A n \in Instances \ {m} : Held(n)' = Held(n)
    BY <1>11, <2>1 DEF Held
  <2>4. All = All' \cup {Head(queue_[m])}
    BY <1>3, <2>2, <2>3
  <2>5. Messages' = Messages /\ B' = B /\ Head(queue_[m]) \notin B
    BY <1>2, <1>11, <2>1, <2>2
  <2>6. \A n \in Instances :
          /\ Held(n)' \cap (lost' \cup B') = {}
          /\ \A k \in Instances \ {n} : Held(n)' \cap Held(k)' = {}
    <3> SUFFICES ASSUME NEW n \in Instances
                 PROVE  /\ Held(n)' \cap (lost' \cup B') = {}
                        /\ \A k \in Instances \ {n} :
                             Held(n)' \cap Held(k)' = {}
      OBVIOUS
    <3>1. Held(n)' \subseteq Held(n) /\ Head(queue_[m]) \notin Held(n)'
      BY <1>2, <2>2, <2>3
    <3>2. \A k \in Instances : Held(k)' \subseteq Held(k)
      BY <2>2, <2>3
    <3> QED
      BY <1>2, <2>1, <2>5, <3>1, <3>2
  <2> QED
    BY <1>2, <1>4, <2>1, <2>4, <2>5, <2>6
<1>14. CASE UNCHANGED pathVars
  <2>1. /\ Messages' = Messages /\ B' = B /\ lost' = lost
        /\ \A n \in Instances : Held(n)' = Held(n)
    BY <1>14 DEF pathVars, Messages, B, Held
  <2> QED
    BY <1>2, <1>4, <1>5, <2>1
<1> QED
  BY <1>6, <1>8, <1>9, <1>10, <1>12, <1>13, <1>14, PathSteps

(* Where the order of an instance comes from its parts.                    *)
LEMMA OrderedPath == TypeOK /\ OrderInv => GotInOrder
<1> SUFFICES ASSUME TypeOK, OrderInv, NEW m \in Instances
             PROVE  Increasing(Path(m))
  BY DEF GotInOrder
<1> DEFINE g == got[m]  q == queue_[m]  h == hand[m]  b == broker
<1>1. /\ g \in Seq(Int) /\ q \in Seq(Int) /\ h \in Seq(Int) /\ b \in Seq(Int)
      /\ Ordered(g, q, h, b) /\ Increasing(b)
  BY IntSeqs DEF OrderInv
<1> SUFFICES Increasing(((g \o q) \o h) \o b)
  BY DEF Path
<1> HIDE DEF g, q, h, b
<1>2. /\ g \o q \in Seq(Int) /\ (g \o q) \o h \in Seq(Int)
  <2>1. g \o q \in Seq(Int)
    BY <1>1, ConcatProperties
  <2> QED
    BY <1>1, <2>1, ConcatProperties
<1>3. /\ Values(g \o q) = Values(g) \cup Values(q)
      /\ Values((g \o q) \o h) = Values(g) \cup Values(q) \cup Values(h)
  <2>1. Values(g \o q) = Values(g) \cup Values(q)
    BY <1>1, ConcatValues
  <2>2. Values((g \o q) \o h) = Values(g \o q) \cup Values(h)
    BY <1>1, <1>2, IntConcatValues, Zenon
  <2> QED
    BY <2>1, <2>2
<1>4. Increasing(g \o q)
  BY <1>1, ConcatIncreasing, Int \in SUBSET Int DEF Ordered
<1>5. Precedes(g \o q, h) /\ Precedes((g \o q) \o h, b)
  BY <1>1, <1>3 DEF Ordered, Precedes
<1>6. Increasing((g \o q) \o h)
  BY <1>1, <1>2, <1>4, <1>5, ConcatIncreasing, Int \in SUBSET Int
     DEF Ordered
<1> QED
  BY <1>1, <1>2, <1>5, <1>6, ConcatIncreasing, Int \in SUBSET Int

-----------------------------------------------------------------------------
(* Who waits.  A getter is not in the wait set and notified at once.       *)
WaitInv ==
  GetterNotStranded /\ \A m \in Instances : waiting[m] \cap woken[m] = {}

(* W is the wait set of an instance, K are its notified getters, and n is  *)
(* the length of its queue.                                                *)
NoneStranded(W, K, n) == W \cap K = {} /\ (W # {} => n <= Cardinality(K))

LEMMA WaitInvIs ==
  WaitInv <=> \A m \in Instances :
                NoneStranded(waiting[m], woken[m], Len(queue_[m]))
BY DEF WaitInv, GetterNotStranded, NoneStranded

LEMMA GettersCount ==
  ASSUME NEW K \in SUBSET Getters
  PROVE  /\ Cardinality(K) \in Nat
         /\ \A t \in Getters \ K : Cardinality(K \cup {t}) = Cardinality(K) + 1
         /\ \A t \in K : Cardinality(K \ {t}) = Cardinality(K) - 1
<1>1. IsFiniteSet(K)
  BY GettersAssumption, FS_Subset
<1>2. Cardinality(K) \in Nat
  BY <1>1, FS_CardinalityType
<1>3. ASSUME NEW t \in Getters \ K
      PROVE  Cardinality(K \cup {t}) = Cardinality(K) + 1
  BY <1>1, FS_AddElement
<1>4. ASSUME NEW t \in K PROVE Cardinality(K \ {t}) = Cardinality(K) - 1
  BY <1>1, FS_RemoveElement
<1> QED
  BY <1>2, <1>3, <1>4

(* What notifications, new waiters and takes do to it.                     *)
LEMMA FewerAreCovered ==
  ASSUME NEW W, NEW K, NEW n \in Nat, NEW k \in Nat, k <= n,
         K \in SUBSET Getters, NoneStranded(W, K, n)
  PROVE  NoneStranded(W, K, k)
<1>1. Cardinality(K) \in Nat
  BY GettersCount
<1> QED
  BY <1>1 DEF NoneStranded

LEMMA NotifiedCovers ==
  ASSUME NEW W \in SUBSET Getters, NEW K \in SUBSET Getters, NEW n \in Nat,
         NoneStranded(W, K, n), NEW t \in W
  PROVE  /\ NoneStranded(W \ {t}, K \cup {t}, n + 1)
         /\ NoneStranded(W \ {t}, K \cup {t}, n)
<1>1. t \in Getters \ K /\ (W \ {t}) \cap (K \cup {t}) = {}
  BY DEF NoneStranded
<1>2. Cardinality(K) \in Nat /\ Cardinality(K \cup {t}) = Cardinality(K) + 1
  BY <1>1, GettersCount
<1>3. n <= Cardinality(K)
  BY DEF NoneStranded
<1> QED
  BY <1>1, <1>2, <1>3 DEF NoneStranded

LEMMA WaiterCovered ==
  ASSUME NEW W \in SUBSET Getters, NEW K \in SUBSET Getters,
         W \cap K = {}, NEW t \in Getters \ K
  PROVE  NoneStranded(W \cup {t}, K, 0)
<1>1. Cardinality(K) \in Nat
  BY GettersCount
<1> QED
  BY <1>1 DEF NoneStranded

LEMMA TakerCovered ==
  ASSUME NEW W \in SUBSET Getters, NEW K \in SUBSET Getters, NEW n \in Nat \ {0},
         NoneStranded(W, K, n), NEW t \in K
  PROVE  NoneStranded(W, K \ {t}, n - 1)
<1>1. Cardinality(K) \in Nat /\ Cardinality(K \ {t}) = Cardinality(K) - 1
  BY GettersCount
<1>2. W \cap (K \ {t}) = {} /\ (W # {} => n <= Cardinality(K))
  BY DEF NoneStranded
<1>3. W # {} => n - 1 <= Cardinality(K \ {t})
  BY <1>1, <1>2
<1> QED
  BY <1>2, <1>3 DEF NoneStranded

LEMMA WaitStep ==
  ASSUME TypeOK, WaitInv, [Next]_vars
  PROVE  WaitInv'
<1> DEFINE Fine(n) == NoneStranded(waiting[n], woken[n], Len(queue_[n]))
<1> SUFFICES ASSUME NEW n \in Instances PROVE Fine(n)'
  <2>1. WaitInv' <=> \A m \in Instances :
                       NoneStranded(waiting'[m], woken'[m], Len(queue_'[m]))
    BY DEF WaitInv, GetterNotStranded, NoneStranded
  <2> QED
    BY <2>1
<1>1. /\ Fine(n) /\ waiting[n] \cap woken[n] = {}
      /\ waiting[n] \in SUBSET Getters /\ woken[n] \in SUBSET Getters
      /\ queue_[n] \in Seq(Messages) /\ Len(queue_[n]) \in Nat
  BY WaitInvIs DEF TypeOK, NoneStranded
<1> HIDE DEF Fine
<1>2. ASSUME waiting'[n] = waiting[n], woken'[n] = woken[n],
             Len(queue_'[n]) \in Nat, Len(queue_'[n]) <= Len(queue_[n])
      PROVE  Fine(n)'
  BY <1>1, <1>2, FewerAreCovered DEF Fine
<1>3. ASSUME waiting'[n] = waiting[n], woken'[n] = woken[n],
             queue_'[n] = queue_[n]
      PROVE  Fine(n)'
  BY <1>1, <1>3 DEF Fine
<1>4. ASSUME NEW m \in Instances, TakeFront(m)
      PROVE  /\ n # m => queue_'[n] = queue_[n]
             /\ n = m => /\ queue_[n] # <<>>
                         /\ Len(queue_[n]) \in Nat \ {0}
                         /\ Len(queue_'[n]) = Len(queue_[n]) - 1
  <2>1. CASE n = m
    <3>1. queue_[n] # <<>> /\ queue_'[n] = Tail(queue_[n])
      BY <1>4, <2>1 DEF TakeFront, TypeOK
    <3> QED
      BY <1>1, <2>1, <3>1, HeadTail
  <2>2. CASE n # m
    BY <1>4, <2>2 DEF TakeFront, TypeOK
  <2> QED
    BY <2>1, <2>2
<1>5. ASSUME NEW m \in Instances, TakeFront(m), UNCHANGED getVars
      PROVE  Fine(n)'
  <2>1. waiting'[n] = waiting[n] /\ woken'[n] = woken[n]
    BY <1>5 DEF getVars
  <2>2. \/ /\ Len(queue_'[n]) \in Nat
           /\ Len(queue_'[n]) <= Len(queue_[n])
        \/ queue_'[n] = queue_[n]
    BY <1>1, <1>4, <1>5
  <2> QED
    BY <1>2, <1>3, <2>1, <2>2
<1>6. ASSUME NEW m \in Instances, Push(m) PROVE Fine(n)'
  <2>1. CASE n # m
    <3>1. queue_'[n] = queue_[n]
      BY <1>6, <2>1 DEF Push, TypeOK
    <3>2. waiting'[n] = waiting[n] /\ woken'[n] = woken[n]
      BY <1>6, <2>1 DEF Push, NotifyOne, getVars, TypeOK
    <3> QED
      BY <1>3, <3>1, <3>2
  <2>2. CASE n = m
    <3>1. /\ hand[n] \in Seq(Messages) /\ Len(hand[n]) = 1
          /\ queue_'[n] = queue_[n] \o hand[n]
      BY <1>6, <2>2 DEF Push, Receiver, TypeOK
    <3>2. Len(queue_'[n]) = Len(queue_[n]) + 1
      BY <1>1, <3>1, ConcatLen
    <3>3. CASE waiting[n] = {}
      <4>1. waiting'[n] = {} /\ woken'[n] = woken[n]
        BY <1>6, <2>2, <3>3 DEF Push, NotifyOne, getVars
      <4> QED
        BY <4>1 DEF Fine, NoneStranded
    <3>4. CASE waiting[n] # {}
      <4>1. PICK t \in waiting[n] : /\ waiting'[n] = waiting[n] \ {t}
                                    /\ woken'[n] = woken[n] \cup {t}
        BY <1>6, <2>2, <3>4 DEF Push, NotifyOne, TypeOK
      <4>2. NoneStranded(waiting[n] \ {t}, woken[n] \cup {t}, Len(queue_[n]) + 1)
        BY <1>1, NotifiedCovers DEF Fine
      <4> QED
        BY <3>2, <4>1, <4>2 DEF Fine
    <3> QED
      BY <3>3, <3>4
  <2> QED
    BY <2>1, <2>2
<1>7. ASSUME NEW m \in Instances, RunThread(m), ~Push(m) PROVE Fine(n)'
  <2>1. UNCHANGED <<waiting, woken, queue_>>
    BY <1>7 DEF RunThread, CheckStop, CheckState, ReceiveMessage, ReceiveEmpty,
       ReceiveUnread, ReceiveFailed, Acquire, getVars
  <2> QED
    BY <1>3, <2>1
<1>8. ASSUME NEW m \in Instances, NEW t \in Getters, GetWait(t, m)
      PROVE  Fine(n)'
  <2>1. /\ queue_[m] = <<>> /\ UNCHANGED <<queue_, woken>>
        /\ waiting' = [waiting EXCEPT ![m] = @ \cup {t}]
        /\ t \notin woken[m]
    BY <1>8 DEF GetWait, fieldVars, Busy
  <2>2. CASE n # m
    BY <1>3, <2>1, <2>2 DEF TypeOK
  <2>3. CASE n = m
    <3>1. waiting'[n] = waiting[n] \cup {t} /\ Len(queue_'[n]) = 0
      BY <2>1, <2>3 DEF TypeOK
    <3>2. NoneStranded(waiting[n] \cup {t}, woken[n], 0)
      BY <1>1, <2>1, <2>3, WaiterCovered
    <3> QED
      BY <2>1, <3>1, <3>2 DEF Fine
  <2> QED
    BY <2>2, <2>3
<1>9. ASSUME NEW m \in Instances, NEW t \in Getters, GetWoken(t, m)
      PROVE  Fine(n)'
  <2>1. t \in woken[m] /\ woken' = [woken EXCEPT ![m] = @ \ {t}]
    BY <1>9 DEF GetWoken
  <2>2. CASE Deliver(m) /\ UNCHANGED waiting
    <3>1. CASE n # m
      <4>1. /\ queue_'[n] = queue_[n] /\ waiting'[n] = waiting[n]
            /\ woken'[n] = woken[n]
        BY <1>4, <2>1, <2>2, <3>1 DEF Deliver, TypeOK
      <4> QED
        BY <1>3, <4>1
    <3>2. CASE n = m
      <4>1. /\ Len(queue_[n]) \in Nat \ {0}
            /\ Len(queue_'[n]) = Len(queue_[n]) - 1
            /\ waiting'[n] = waiting[n] /\ woken'[n] = woken[n] \ {t}
        BY <1>4, <2>1, <2>2, <3>2 DEF Deliver, TypeOK
      <4>2. NoneStranded(waiting[n], woken[n] \ {t}, Len(queue_[n]) - 1)
        BY <1>1, <2>1, <3>2, <4>1, TakerCovered DEF Fine
      <4> QED
        BY <4>1, <4>2 DEF Fine
    <3> QED
      BY <3>1, <3>2
  <2>3. CASE /\ queue_[m] = <<>> /\ queue_' = queue_
             /\ waiting' = [waiting EXCEPT ![m] = @ \cup {t}]
    <3>1. CASE n # m
      <4>1. /\ queue_'[n] = queue_[n] /\ waiting'[n] = waiting[n]
            /\ woken'[n] = woken[n]
        BY <2>1, <2>3, <3>1 DEF TypeOK
      <4> QED
        BY <1>3, <4>1
    <3>2. CASE n = m
      <4>1. /\ Len(queue_'[n]) = 0 /\ waiting'[n] = waiting[n] \cup {t}
            /\ woken'[n] = woken[n] \ {t}
        BY <2>1, <2>3, <3>2 DEF TypeOK
      <4>2. /\ woken[n] \ {t} \in SUBSET Getters /\ t \in Getters \ (woken[n] \ {t})
            /\ waiting[n] \cap (woken[n] \ {t}) = {}
        BY <1>1
      <4>3. NoneStranded(waiting[n] \cup {t}, woken[n] \ {t}, 0)
        BY <1>1, <4>2, WaiterCovered
      <4> QED
        BY <4>1, <4>3 DEF Fine
    <3> QED
      BY <3>1, <3>2
  <2> QED
    BY <1>9, <2>2, <2>3 DEF GetWoken, fieldVars
<1>10. ASSUME NEW m \in Instances, NEW t \in Getters, Spurious(t, m)
       PROVE  Fine(n)'
  <2>1. /\ t \in waiting[m] /\ queue_' = queue_
        /\ waiting' = [waiting EXCEPT ![m] = @ \ {t}]
        /\ woken' = [woken EXCEPT ![m] = @ \cup {t}]
    BY <1>10 DEF Spurious, fieldVars
  <2>2. CASE n # m
    <3>1. /\ queue_'[n] = queue_[n] /\ waiting'[n] = waiting[n]
          /\ woken'[n] = woken[n]
      BY <2>1, <2>2 DEF TypeOK
    <3> QED
      BY <1>3, <3>1
  <2>3. CASE n = m
    <3>1. /\ waiting'[n] = waiting[n] \ {t} /\ woken'[n] = woken[n] \cup {t}
          /\ Len(queue_'[n]) = Len(queue_[n])
      BY <2>1, <2>3 DEF TypeOK
    <3>2. NoneStranded(waiting[n] \ {t}, woken[n] \cup {t}, Len(queue_[n]))
      BY <1>1, <2>1, <2>3, NotifiedCovers DEF Fine
    <3> QED
      BY <3>1, <3>2 DEF Fine
  <2> QED
    BY <2>2, <2>3
<1>11. ASSUME NEW m \in Instances,
              \/ Start(m) \/ enable(m) \/ disable(m) \/ Stop(m)
              \/ DtorStop(m) \/ DtorDisable(m) \/ DtorDrained(m) \/ DtorJoin(m)
       PROVE  Fine(n)'
  <2>1. UNCHANGED <<waiting, woken, queue_>>
    BY <1>11 DEF Start, enable, disable, Stop, DtorStop, DtorDisable,
       DtorDrained, DtorJoin, SetState, SetStop, fieldVars, getVars
  <2> QED
    BY <1>3, <2>1
<1>12. ASSUME NEW m \in Instances, GetNow(m) \/ DtorDrain(m) PROVE Fine(n)'
  BY <1>5, <1>12 DEF GetNow, Deliver, DtorDrain
<1>13. CASE Publish \/ UNCHANGED vars
  <2>1. UNCHANGED <<waiting, woken, queue_>>
    BY <1>13 DEF Publish, vars, fieldVars, getVars
  <2> QED
    BY <1>3, <2>1
<1> QED
  BY <1>6, <1>7, <1>8, <1>9, <1>10, <1>11, <1>12, <1>13 DEF Next, Destroy

LEMMA InitPaths == Init => OrderInv /\ AccountInv /\ WaitInv
<1> SUFFICES ASSUME Init PROVE OrderInv /\ AccountInv /\ WaitInv
  OBVIOUS
<1>1. /\ broker = <<>> /\ lost = {} /\ published = 0
      /\ \A m \in Instances : /\ queue_[m] = <<>> /\ hand[m] = <<>>
                              /\ got[m] = <<>> /\ waiting[m] = {}
                              /\ woken[m] = {}
  BY DEF Init
<1>2. OrderInv
  BY <1>1, EmptyValues DEF OrderInv, Ordered, Precedes
<1>3. \A m \in Instances : Held(m) = {}
  BY <1>1, EmptyValues DEF Held
<1>4. AccountInv
  <2>1. Messages = {}
    BY <1>1 DEF Messages
  <2>2. UNION {Held(m) : m \in Instances} = {}
    BY <1>3
  <2> QED
    BY <1>1, <1>3, <2>1, <2>2, EmptyValues DEF AccountInv, Accounted
<1>5. WaitInv
  BY <1>1 DEF WaitInv, GetterNotStranded
<1> QED
  BY <1>2, <1>4, <1>5

-----------------------------------------------------------------------------
(* The inductive invariant holds in every state the receiver, its users,   *)
(* the destructor and the server can reach, however they interleave.       *)
THEOREM Invariance == Spec => []IInv
<1>1. IInv /\ [Next]_vars => IInv'
  BY TypeStep, BalanceStep, DestroyedStep DEF IInv
<1> QED
  BY InitIInv, <1>1, PTL DEF Spec

(* The fields of every MessageManage hold values of their types, permits   *)
(* between 0 and lengthQueueMax included.                                  *)
THEOREM TypeCorrect == Spec => []TypeOK
<1>1. IInv => TypeOK
  BY DEF IInv
<1> QED
  BY Invariance, <1>1, PTL

(* Acquire before a push and release after a take keep the permits and the *)
(* queue in balance: queue_ is bounded by lengthQueueMax.                  *)
THEOREM QueueBounded ==
  Spec => [](PermitsBalance /\ \A m \in Instances :
                                 Len(queue_[m]) <= lengthQueueMax)
<1>1. ASSUME IInv, NEW m \in Instances
      PROVE  Len(queue_[m]) <= lengthQueueMax
  <2>1. permits_[m] \in Nat /\ Len(queue_[m]) \in Nat
    BY <1>1, LengthAssumption DEF IInv, TypeOK
  <2>2. \E k \in {0, 1} :
          permits_[m] + Len(queue_[m]) + k = lengthQueueMax
    BY <1>1 DEF IInv, PermitsBalance
  <2> QED
    BY <2>1, <2>2, LengthAssumption
<1>2. IInv => PermitsBalance /\ \A m \in Instances :
                                  Len(queue_[m]) <= lengthQueueMax
  BY <1>1 DEF IInv
<1> QED
  BY Invariance, <1>2, PTL

(* Whatever the receiver does while the destructor drains and joins, it    *)
(* leaves at most one message behind in queue_.                            *)
THEOREM OneLeftBehind == Spec => []AtMostOneLeftBehind
<1>1. ASSUME IInv, NEW m \in Instances, life[m] = "gone"
      PROVE  Len(queue_[m]) <= 1
  <2>1. Coming(m) \in {0, 1} /\ Len(queue_[m]) \in Nat
    BY <1>1 DEF Coming, IInv, TypeOK
  <2> QED
    BY <1>1, <2>1 DEF IInv, Destroyed
<1>2. IInv => AtMostOneLeftBehind
  BY <1>1 DEF AtMostOneLeftBehind
<1> QED
  BY Invariance, <1>2, PTL

(* Where every message is, in which order, and who waits for one: holds    *)
(* along with the types, with any number of receivers on one broker queue. *)
THEOREM PathInvariance == Spec => [](OrderInv /\ AccountInv /\ WaitInv)
<1>1. ASSUME TypeOK, OrderInv /\ AccountInv /\ WaitInv, [Next]_vars
      PROVE  (OrderInv /\ AccountInv /\ WaitInv)'
  BY <1>1, OrderStep, AccountStep, WaitStep
<1> QED
  BY InitPaths, <1>1, TypeCorrect, PTL DEF Spec

(* No message vanishes, and none reaches two instances.                    *)
THEOREM MessagesAccounted == Spec => []Accounted
<1>1. AccountInv => Accounted
  BY DEF AccountInv
<1> QED
  BY PathInvariance, <1>1, PTL

(* Users of an instance get its messages in the order of publication.      *)
THEOREM MessagesInOrder == Spec => []GotInOrder
<1> QED
  BY PathInvariance, TypeCorrect, OrderedPath, PTL

(* One notification per pushed message is enough for the threads in Get.   *)
THEOREM NoGetterStranded == Spec => []GetterNotStranded
<1>1. WaitInv => GetterNotStranded
  BY DEF WaitInv
<1> QED
  BY PathInvariance, <1>1, PTL
=============================================================================
