--------------------------- MODULE TaskSuitProofs ---------------------------
(***************************************************************************)
(* Proofs about TaskSuit: for any set of requests and any number of posts, *)
(* post_task and task_filter hand over every task at most once and in      *)
(* order; if the two stores of post_task are seen in program order, no     *)
(* task is lost, each runs with its own type, and the hand-over implements *)
(* the one-task slot.                                                      *)
(***************************************************************************)
EXTENDS TaskSuit, TLAPS

(* Control state: what each program counter says about the slot.           *)
ControlInv ==
  /\ postPc = "store" <=> stores # {}
  /\ postPc # "idle" => Len(posts) > 0
  /\ "entity" \in stores => task_entity_ = Null
  /\ task_entity_ # Null => task_entity_ = Len(posts)
  /\ loopPc = "got" => task_entity_ # Null \/ signal_status
  /\ loopPc \in {"run", "clear"} => task_entity_ # Null

(* Which posts have been executed, by the state of the slot.               *)
ExecutedInv ==
  /\ Executed \subseteq 1 .. Len(posts)
  /\ Storing => Len(posts) \notin Executed
  /\ task_entity_ # Null =>
       (task_entity_ \in Executed => loopPc \in {"run", "clear"})
  /\ loopPc = "run" => task_entity_ \in Executed

IInv == TypeOK /\ ControlInv /\ ExecutedInv /\ AtMostOnceInOrder

(* What program-order stores add.                                          *)
OrderInv ==
  /\ "type" \in stores => "entity" \in stores
  /\ Len(posts) > 0 /\ "type" \notin stores
       => task_type_ = Kind(posts[Len(posts)])
  /\ loopPc = "clear" => task_entity_ \in Executed
  /\ NothingLost

-----------------------------------------------------------------------------
(* Calling a callable adds exactly its post to the executed ones.          *)
LEMMA ExecutedAppend ==
  ASSUME NEW e \in Nat, ran \in Seq(Nat), ran' = Append(ran, e)
  PROVE  Executed' = Executed \cup {e}
<1>1. /\ Len(ran') = Len(ran) + 1
      /\ Len(ran) \in Nat
      /\ \A i \in 1 .. Len(ran) : ran'[i] = ran[i]
      /\ ran'[Len(ran) + 1] = e
  OBVIOUS
<1>2. ASSUME NEW n \in Executed' PROVE n \in Executed \cup {e}
  <2>1. PICK i \in 1 .. Len(ran') : n = ran'[i]
    BY <1>2 DEF Executed
  <2>2. CASE i = Len(ran) + 1
    BY <1>1, <2>1, <2>2
  <2>3. CASE i # Len(ran) + 1
    <3>1. i \in 1 .. Len(ran)
      BY <1>1, <2>1, <2>3
    <3>2. QED BY <3>1, <1>1, <2>1 DEF Executed
  <2>4. QED BY <2>2, <2>3
<1>3. ASSUME NEW n \in Executed PROVE n \in Executed'
  <2>1. PICK i \in 1 .. Len(ran) : n = ran[i]
    BY <1>3 DEF Executed
  <2>2. i \in 1 .. Len(ran') /\ n = ran'[i]
    BY <2>1, <1>1
  <2>3. QED BY <2>2 DEF Executed
<1>4. e \in Executed'
  BY <1>1 DEF Executed
<1>5. QED BY <1>2, <1>3, <1>4

(* The accepted requests grow by one at the end.                           *)
LEMMA PostsAppend ==
  ASSUME NEW r \in Request, posts \in Seq(Request),
         posts' = Append(posts, r)
  PROVE  /\ posts' \in Seq(Request)
         /\ Len(posts) \in Nat
         /\ Len(posts') = Len(posts) + 1
         /\ posts'[Len(posts')] = r
  OBVIOUS

(* A history that does not change leaves the executed posts as they are.   *)
LEMMA ExecutedSame == UNCHANGED ran => UNCHANGED Executed
  BY DEF Executed

-----------------------------------------------------------------------------
LEMMA InitIInv == Init => IInv
<1> SUFFICES ASSUME Init PROVE IInv
  OBVIOUS
<1> USE DEF Init, Null
<1>1. Len(ran) = 0 /\ Len(posts) = 0
  OBVIOUS
<1>2. TypeOK
  <2>1. <<>> \in Seq(Nat) /\ <<>> \in Seq(Request)
    OBVIOUS
  <2>2. posts \in Seq(Request) /\ ran \in Seq(Nat)
    BY <2>1
  <2>3. task_entity_ \in 0 .. Len(posts)
    BY <1>1
  <2>4. QED BY <2>2, <2>3 DEF TypeOK, PostPcs, LoopPcs, MainPcs
<1>3. ControlInv
  BY DEF ControlInv
<1>4. Executed = {}
  BY <1>1 DEF Executed
<1>5. ExecutedInv
  BY <1>4 DEF ExecutedInv, Storing
<1>6. AtMostOnceInOrder
  BY <1>1 DEF AtMostOnceInOrder
<1>7. QED BY <1>2, <1>3, <1>5, <1>6 DEF IInv

(* Each step keeps the values in their types.                              *)
LEMMA TypeStep == TypeOK /\ ControlInv /\ [Next]_vars => TypeOK'
<1> SUFFICES ASSUME TypeOK, ControlInv, [Next]_vars PROVE TypeOK'
  OBVIOUS
<1> USE RequestAssumption DEF TypeOK, Null, PostPcs, LoopPcs, MainPcs
<1>1. CASE PostReject
  BY <1>1 DEF PostReject
<1>2. ASSUME NEW r \in Request, PostAdmit(r) PROVE TypeOK'
  <2>1. /\ posts' \in Seq(Request)
        /\ Len(posts) \in Nat
        /\ Len(posts') = Len(posts) + 1
    BY <1>2, PostsAppend DEF PostAdmit
  <2>2. QED BY <1>2, <2>1 DEF PostAdmit
<1>3. CASE PostType
  <2>1. Len(posts) > 0
    BY <1>3 DEF PostType, ControlInv
  <2>2. posts[Len(posts)] \in Request
    BY <2>1
  <2>3. Kind(posts[Len(posts)]) \in Kinds
    BY <2>2
  <2>4. QED BY <1>3, <2>3 DEF PostType, AfterStore
<1>4. CASE PostEntity
  BY <1>4 DEF PostEntity, AfterStore
<1>5. CASE PostNotify
  BY <1>5 DEF PostNotify, Notified
<1>6. CASE TaskStart
  <2>1. Append(ran, task_entity_) \in Seq(Nat)
    OBVIOUS
  <2>2. task_entity_ # Null
    BY <1>6 DEF TaskStart, LoopStep, ControlInv
  <2>3. QED BY <1>6, <2>1, <2>2 DEF TaskStart, LoopStep
<1>7. CASE LoopTop \/ LoopPred \/ LoopBlock \/ LoopStop
  BY <1>7 DEF LoopTop, LoopPred, LoopBlock, LoopStop, LoopStep
<1>8. CASE TaskUnknown \/ TaskReturn \/ SpuriousWakeup
  BY <1>8 DEF TaskUnknown, TaskReturn, SpuriousWakeup, LoopStep
<1>9. CASE LoopClear
  BY <1>9 DEF LoopClear, LoopStep
<1>10. CASE Interrupt \/ ServerStop \/ MainJoined
  BY <1>10 DEF Interrupt, ServerStop, MainJoined, Notified
<1>11. CASE UNCHANGED vars
  BY <1>11 DEF vars
<1>12. QED
  BY <1>1, <1>2, <1>3, <1>4, <1>5, <1>6, <1>7, <1>8,
     <1>9, <1>10, <1>11
     DEF Next, PostStep, LoopNext

(* Each step keeps control state and slot consistent.                      *)
LEMMA ControlStep == TypeOK /\ ControlInv /\ [Next]_vars => ControlInv'
<1> SUFFICES ASSUME TypeOK, ControlInv, [Next]_vars PROVE ControlInv'
  OBVIOUS
<1> USE DEF TypeOK, ControlInv, Null
<1>1. CASE PostReject
  BY <1>1 DEF PostReject
<1>2. ASSUME NEW r \in Request, PostAdmit(r) PROVE ControlInv'
  <2>1. /\ Len(posts) \in Nat
        /\ Len(posts') = Len(posts) + 1
    BY <1>2, PostsAppend DEF PostAdmit
  <2>2. QED BY <1>2, <2>1 DEF PostAdmit
<1>3. CASE PostType
  BY <1>3 DEF PostType, AfterStore
<1>4. CASE PostEntity
  BY <1>4 DEF PostEntity, AfterStore
<1>5. CASE PostNotify
  BY <1>5 DEF PostNotify, Notified
<1>6. CASE TaskStart \/ LoopTop \/ LoopPred \/ LoopBlock \/ LoopStop
           \/ TaskUnknown \/ TaskReturn \/ SpuriousWakeup \/ LoopClear
  BY <1>6 DEF TaskStart, LoopTop, LoopPred, LoopBlock, LoopStop,
     TaskUnknown, TaskReturn, SpuriousWakeup, LoopClear, LoopStep
<1>7. CASE Interrupt \/ ServerStop \/ MainJoined
  BY <1>7 DEF Interrupt, ServerStop, MainJoined, Notified
<1>8. CASE UNCHANGED vars
  BY <1>8 DEF vars
<1>9. QED
  BY <1>1, <1>2, <1>3, <1>4, <1>5, <1>6, <1>7, <1>8
     DEF Next, PostStep, LoopNext

(* Each step but TaskStart leaves the executed posts alone.                *)
LEMMA RanSame == [Next]_vars => TaskStart \/ UNCHANGED ran
  BY DEF Next, vars, PostStep, LoopNext, PostReject, PostAdmit, PostType,
     PostEntity, PostNotify, LoopTop, LoopPred, LoopBlock, LoopStop,
     TaskStart, TaskUnknown, TaskReturn, SpuriousWakeup, LoopClear, LoopStep,
     Interrupt, ServerStop, MainJoined

LEMMA ExecutedStep ==
  TypeOK /\ ControlInv /\ ExecutedInv /\ [Next]_vars => ExecutedInv'
<1> SUFFICES ASSUME TypeOK, ControlInv, ExecutedInv, [Next]_vars
             PROVE  ExecutedInv'
  OBVIOUS
<1> USE DEF ExecutedInv, Null, Storing
<1>1. Len(posts) \in Nat
  BY DEF TypeOK
<1>2. CASE TaskStart
  <2>1. task_entity_ = Len(posts) /\ task_entity_ # 0
    BY <1>2 DEF TaskStart, LoopStep, ControlInv
  <2>2. Executed' = Executed \cup {task_entity_}
    BY <1>1, <1>2, <2>1, ExecutedAppend DEF TaskStart, TypeOK
  <2>3. ~Storing
    BY <2>1 DEF ControlInv
  <2>4. /\ loopPc' = "run"
        /\ UNCHANGED <<task_entity_, posts, postPc, stores>>
    BY <1>2 DEF TaskStart, LoopStep
  <2>5. Executed' \subseteq 1 .. Len(posts')
    <3>1. Len(posts) \in 1 .. Len(posts)
      BY <1>1, <2>1
    <3>2. Executed \cup {Len(posts)} \subseteq 1 .. Len(posts)
      BY <3>1
    <3>3. Len(posts') = Len(posts)
      BY <2>4
    <3>4. Executed' \subseteq 1 .. Len(posts)
      BY <2>1, <2>2, <3>2
    <3>5. QED BY <3>3, <3>4
  <2>6. task_entity_' \in Executed'
    BY <2>2, <2>4
  <2>7. QED
    BY <2>3, <2>4, <2>5, <2>6
<1>3. ASSUME UNCHANGED ran PROVE ExecutedInv'
  <2>1. Executed' = Executed
    BY <1>3, ExecutedSame
  <2>2. ASSUME NEW r \in Request, PostAdmit(r) PROVE ExecutedInv'
    <3>1. Len(posts') = Len(posts) + 1
      BY <2>2, PostsAppend DEF PostAdmit, TypeOK
    <3>2. QED
      BY <1>1, <2>1, <2>2, <3>1 DEF PostAdmit, ControlInv
  <2>3. CASE PostType
    BY <2>1, <2>3 DEF PostType, AfterStore, ControlInv
  <2>4. CASE PostEntity
    BY <1>1, <2>1, <2>4 DEF PostEntity, AfterStore, ControlInv
  <2>5. CASE PostNotify
    BY <2>1, <2>5 DEF PostNotify, Notified
  <2>6. CASE LoopTop \/ LoopPred \/ LoopBlock \/ LoopStop
    BY <2>1, <2>6 DEF LoopTop, LoopPred, LoopBlock, LoopStop, LoopStep
  <2>7. CASE TaskUnknown \/ TaskReturn \/ SpuriousWakeup \/ LoopClear
    BY <2>1, <2>7 DEF TaskUnknown, TaskReturn, SpuriousWakeup, LoopClear,
       LoopStep
  <2>8. CASE PostReject \/ Interrupt \/ ServerStop \/ MainJoined
    BY <2>1, <2>8 DEF PostReject, Interrupt, ServerStop, MainJoined, Notified
  <2>9. CASE TaskStart
    BY <1>2, <2>9
  <2>10. CASE UNCHANGED vars
    BY <2>1, <2>10 DEF vars
  <2>11. QED
    BY <2>2, <2>3, <2>4, <2>5, <2>6, <2>7, <2>8, <2>9, <2>10
       DEF Next, PostStep, LoopNext
<1>4. QED BY <1>2, <1>3, RanSame

LEMMA InOrderStep ==
  IInv /\ [Next]_vars => AtMostOnceInOrder'
<1> SUFFICES ASSUME IInv, [Next]_vars PROVE AtMostOnceInOrder'
  OBVIOUS
<1>1. CASE TaskStart
  <2>1. /\ ran \in Seq(Nat)
        /\ Len(posts) \in Nat
        /\ task_entity_ = Len(posts)
        /\ task_entity_ \notin Executed
    BY <1>1 DEF TaskStart, LoopStep, IInv, TypeOK, ControlInv, ExecutedInv,
       Null
  <2>2. \A i \in 1 .. Len(ran) : ran[i] < task_entity_
    <3>1. TAKE i \in 1 .. Len(ran)
    <3>2. ran[i] \in Executed
      BY DEF Executed
    <3>3. ran[i] \in 1 .. Len(posts)
      BY <3>2 DEF IInv, ExecutedInv
    <3>4. QED BY <2>1, <3>2, <3>3
  <2>3. ran' = Append(ran, task_entity_)
    BY <1>1 DEF TaskStart
  <2>4. QED
    BY <2>1, <2>2, <2>3 DEF IInv, AtMostOnceInOrder
<1>2. CASE UNCHANGED ran
  BY <1>2 DEF IInv, AtMostOnceInOrder
<1>3. QED BY <1>1, <1>2, RanSame

(* In every behaviour the fields keep their types and the control state    *)
(* fits the slot.                                                          *)
THEOREM Invariance == Spec => []IInv
<1>1. IInv /\ [Next]_vars => IInv'
  BY TypeStep, ControlStep, ExecutedStep, InOrderStep DEF IInv
<1>2. QED BY InitIInv, <1>1, PTL DEF Spec

(* Every field holds a value of its type, and the loop never calls an      *)
(* empty callable, for any requests and bound.                             *)
THEOREM TypeCorrect == Spec => []TypeOK
<1>1. IInv => TypeOK
  BY DEF IInv
<1>2. QED BY <1>1, Invariance, PTL

(* No callable is called twice and none overtakes an earlier one, whatever *)
(* the order in which the stores of post_task become visible.              *)
THEOREM InOrder == Spec => []AtMostOnceInOrder
<1>1. IInv => AtMostOnceInOrder
  BY DEF IInv
<1>2. QED BY <1>1, Invariance, PTL

-----------------------------------------------------------------------------
(* Program-order stores.                                                   *)

LEMMA InitOrderInv == Init => OrderInv
<1> SUFFICES ASSUME Init PROVE OrderInv
  OBVIOUS
<1>1. posts = <<>> /\ stores = {} /\ loopPc = "top"
  BY DEF Init
<1>2. Len(posts) = 0
  BY <1>1
<1>3. QED BY <1>1, <1>2 DEF OrderInv, NothingLost

(* The switch never takes its default branch.                              *)
LEMMA NoUnknownType == IInv /\ OrderInv => ~TaskUnknown
<1> SUFFICES ASSUME IInv, OrderInv, TaskUnknown PROVE FALSE
  OBVIOUS
<1> USE DEF Null
<1>1. ~signal_status /\ loopPc = "got" /\ task_type_ \notin Kinds
  BY DEF TaskUnknown, LoopStep
<1>2. task_entity_ = Len(posts) /\ Len(posts) > 0 /\ task_entity_ # 0
  BY <1>1 DEF IInv, ControlInv, TypeOK
<1>3. "entity" \notin stores
  BY <1>2 DEF IInv, ControlInv
<1>4. task_type_ = Kind(posts[Len(posts)])
  BY <1>2, <1>3 DEF OrderInv
<1>5. posts[Len(posts)] \in Request
  BY <1>2 DEF IInv, TypeOK
<1>6. QED BY <1>1, <1>4, <1>5, RequestAssumption

LEMMA OrderStep ==
  ~ReorderStores /\ IInv /\ OrderInv /\ [Next]_vars => OrderInv'
<1> SUFFICES ASSUME ~ReorderStores, IInv, OrderInv, [Next]_vars
             PROVE  OrderInv'
  OBVIOUS
<1> USE DEF OrderInv, NothingLost, Null, Storing
<1>1. /\ Len(posts) \in Nat
      /\ task_entity_ \in 0 .. Len(posts)
      /\ postPc = "store" <=> stores # {}
      /\ stores \subseteq {"type", "entity"}
  BY DEF IInv, TypeOK, ControlInv
<1>2. CASE TaskStart
  <2>1. Executed' = Executed \cup {task_entity_}
    BY <1>1, <1>2, ExecutedAppend DEF TaskStart, IInv, TypeOK
  <2>2. QED BY <1>1, <1>2, <2>1 DEF TaskStart, LoopStep
<1>3. ASSUME UNCHANGED ran PROVE OrderInv'
  <2>1. Executed' = Executed
    BY <1>3, ExecutedSame
  <2>2. ASSUME NEW r \in Request, PostAdmit(r) PROVE OrderInv'
    <3>1. Len(posts') = Len(posts) + 1
      BY <2>2, PostsAppend DEF PostAdmit, IInv, TypeOK
    <3>2. ~Storing /\ task_entity_ = 0
      BY <2>2, <1>1 DEF PostAdmit
    <3>3. loopPc # "clear"
      BY <3>2 DEF IInv, ControlInv
    <3>4. NothingLost'
      BY <1>1, <2>1, <2>2, <3>1, <3>2 DEF PostAdmit
    <3>5. QED BY <2>2, <3>3, <3>4 DEF PostAdmit
  <2>3. CASE PostType
    BY <1>1, <2>1, <2>3 DEF PostType, AfterStore
  <2>4. CASE PostEntity
    <3>1. "type" \notin stores
      BY <2>4 DEF PostEntity
    <3>2. task_entity_ = 0 /\ task_entity_' = Len(posts)
      BY <2>4 DEF PostEntity, IInv, ControlInv
    <3>3. loopPc # "clear"
      BY <3>2 DEF IInv, ControlInv
    <3>4. QED BY <1>1, <2>1, <2>4, <3>1, <3>2, <3>3 DEF PostEntity, AfterStore
  <2>5. CASE PostNotify
    BY <2>1, <2>5 DEF PostNotify, Notified
  <2>6. CASE LoopTop \/ LoopPred \/ LoopBlock \/ LoopStop \/ SpuriousWakeup
    BY <2>1, <2>6 DEF LoopTop, LoopPred, LoopBlock, LoopStop, SpuriousWakeup,
       LoopStep
  <2>7. CASE TaskUnknown
    BY <2>7, NoUnknownType
  <2>8. CASE TaskReturn
    BY <2>1, <2>8 DEF TaskReturn, LoopStep, IInv, ExecutedInv
  <2>9. CASE LoopClear
    BY <2>1, <2>9 DEF LoopClear, LoopStep
  <2>10. CASE PostReject \/ Interrupt \/ ServerStop \/ MainJoined
    BY <2>1, <2>10 DEF PostReject, Interrupt, ServerStop, MainJoined, Notified
  <2>11. CASE TaskStart
    BY <1>2, <2>11
  <2>12. CASE UNCHANGED vars
    BY <2>1, <2>12 DEF vars
  <2>13. QED
    BY <2>2, <2>3, <2>4, <2>5, <2>6, <2>7, <2>8, <2>9, <2>10, <2>11, <2>12
       DEF Next, PostStep, LoopNext
<1>4. QED BY <1>2, <1>3, RanSame

LEMMA OrderInvariance ==
  ASSUME ~ReorderStores PROVE Spec => []OrderInv
<1>1. IInv /\ OrderInv /\ [Next]_vars => OrderInv'
  BY OrderStep
<1>2. QED BY InitOrderInv, Invariance, <1>1, PTL DEF Spec

(* With program-order stores an accepted task that has not been called is  *)
(* in the slot or about to be put there: none is lost.                     *)
THEOREM NoTaskLost ==
  ASSUME ~ReorderStores PROVE Spec => []NothingLost
<1>1. OrderInv => NothingLost
  BY DEF OrderInv
<1>2. QED BY <1>1, OrderInvariance, PTL

(* With program-order stores task_filter always takes the case of the      *)
(* switch that belongs to the callable it calls.                           *)
THEOREM RightType ==
  ASSUME ~ReorderStores PROVE Spec => []RunsWithItsType
<1>1. IInv /\ OrderInv => RunsWithItsType
  <2> SUFFICES ASSUME IInv, OrderInv, loopPc = "run"
               PROVE  task_type_ = Kind(posts[task_entity_])
    BY DEF RunsWithItsType
  <2>1. task_entity_ # 0 /\ task_entity_ = Len(posts) /\ Len(posts) \in Nat
    BY DEF IInv, TypeOK, ControlInv, Null
  <2>2. Len(posts) > 0
    BY <2>1
  <2>3. "entity" \notin stores
    BY <2>1 DEF IInv, ControlInv, Null
  <2>4. QED BY <2>1, <2>2, <2>3 DEF OrderInv
<1>2. QED BY <1>1, Invariance, OrderInvariance, PTL

-----------------------------------------------------------------------------
(* Refinement.                                                             *)

LEMMA SlotInit == Init => Slot!Init
  BY DEF Init, Slot!Init, SlotPhase, Null

LEMMA SlotStep ==
  IInv /\ OrderInv /\ [Next]_vars => [Slot!Next]_(Slot!vars)
<1> SUFFICES ASSUME IInv, OrderInv, [Next]_vars
             PROVE  [Slot!Next]_(Slot!vars)
  OBVIOUS
<1> USE DEF SlotPhase, Null
<1> DEFINE Stutter == UNCHANGED <<Len(posts), SlotPhase, ran>>
<1>1. ASSUME Stutter PROVE UNCHANGED Slot!vars
  BY <1>1 DEF Slot!vars
<1>2. /\ postPc = "store" => "entity" \in stores
      /\ "entity" \in stores => task_entity_ = 0
      /\ loopPc \in {"got", "run", "clear"}
           => task_entity_ # 0 \/ signal_status
      /\ loopPc \in {"run", "clear"} => task_entity_ # 0
      /\ task_entity_ # 0 => task_entity_ = Len(posts)
      /\ postPc = "store" <=> stores # {}
  BY DEF IInv, TypeOK, ControlInv, OrderInv
<1>3. CASE PostReject \/ Interrupt \/ MainJoined
  <2>1. Stutter
    BY <1>3 DEF PostReject, Interrupt, MainJoined
  <2>2. QED BY <2>1, <1>1
<1>4. ASSUME NEW r \in Request, PostAdmit(r) PROVE Slot!Next
  <2>1. Len(posts') = Len(posts) + 1
    BY <1>4, PostsAppend DEF PostAdmit, IInv, TypeOK
  <2>2. SlotPhase = "empty" /\ SlotPhase' = "held"
    BY <1>2, <1>4 DEF PostAdmit
  <2>3. Slot!Accept
    BY <1>4, <2>1, <2>2 DEF PostAdmit, Slot!Accept
  <2>4. QED BY <2>3 DEF Slot!Next
<1>5. CASE PostType \/ PostEntity
  <2>1. UNCHANGED <<posts, loopPc, ran>>
    BY <1>5 DEF PostType, PostEntity
  <2>2. postPc = "store" /\ task_entity_ = 0
    BY <1>2, <1>5 DEF PostType, PostEntity
  <2>3. postPc' = "store" \/ task_entity_' # 0
    BY <1>2, <1>5 DEF PostType, PostEntity, AfterStore, IInv, ControlInv,
       TypeOK
  <2>4. Stutter
    BY <1>2, <2>1, <2>2, <2>3
  <2>5. QED BY <2>4, <1>1
<1>6. CASE PostNotify \/ ServerStop
  <2>1. Stutter
    BY <1>6 DEF PostNotify, ServerStop, Notified
  <2>2. QED BY <2>1, <1>1
<1>7. CASE TaskStart
  <2>1. task_entity_ = Len(posts) /\ task_entity_ # 0
    BY <1>2, <1>7 DEF TaskStart, LoopStep
  <2>2. SlotPhase = "held" /\ SlotPhase' = "running"
    BY <1>7, <2>1 DEF TaskStart, LoopStep
  <2>3. Slot!Start
    BY <1>7, <2>1, <2>2 DEF TaskStart, LoopStep, Slot!Start
  <2>4. QED BY <2>3 DEF Slot!Next
<1>8. CASE LoopClear
  <2>1. postPc # "store" /\ loopPc = "clear"
    BY <1>2, <1>8 DEF LoopClear, LoopStep
  <2>2. SlotPhase = "running" /\ SlotPhase' = "empty"
    BY <1>8, <2>1 DEF LoopClear, LoopStep
  <2>3. Slot!Finish
    BY <1>8, <2>2 DEF LoopClear, LoopStep, Slot!Finish
  <2>4. QED BY <2>3 DEF Slot!Next
<1>9. CASE LoopTop \/ LoopPred \/ LoopBlock \/ LoopStop \/ TaskReturn
           \/ SpuriousWakeup
  <2>1. Stutter
    BY <1>9 DEF LoopTop, LoopPred, LoopBlock, LoopStop, TaskReturn,
       SpuriousWakeup, LoopStep
  <2>2. QED BY <2>1, <1>1
<1>10. CASE UNCHANGED vars
  <2>1. Stutter
    BY <1>10 DEF vars
  <2>2. QED BY <2>1, <1>1
<1>11. QED
  BY <1>3, <1>4, <1>5, <1>6, <1>7, <1>8, <1>9, <1>10, NoUnknownType
     DEF Next, PostStep, LoopNext

(* With program-order stores post_task and task_filter implement the       *)
(* one-task slot: a task is accepted only when none is held, each is       *)
(* started exactly once before the next is accepted, in order.             *)
THEOREM ImplementsSlot ==
  ASSUME ~ReorderStores PROVE Spec => SlotSpec
<1>1. QED
  BY SlotInit, SlotStep, Invariance, OrderInvariance, PTL
     DEF Spec, SlotSpec, Slot!Spec
=============================================================================
