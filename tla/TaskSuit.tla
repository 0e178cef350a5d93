------------------------------ MODULE TaskSuit ------------------------------
(***************************************************************************)
(* The hand-over of tasks from the HTTP thread to the main thread loop     *)
(* (context/task_suit, context/threadloop) and the way both stop.          *)
(*                                                                         *)
(* Three actors take steps: the HTTP thread calls post_task once per       *)
(* request, the thread loop repeats task_filter, and an operator may send  *)
(* SIGINT.  post_task does not take mtx_, so each of its accesses to a     *)
(* shared field is a step of its own; task_filter holds mtx_ only between  *)
(* evaluating the wait predicate and blocking, and nobody else takes it.   *)
(***************************************************************************)
EXTENDS Integers, Sequences, FiniteSets

CONSTANTS
  Request,       (* what a caller may post; a request names its task type   *)
  Kind(_),       (* the task type (STATE_ENUM) a request is posted with     *)
  Kinds,         (* the task types task_filter has a case for               *)
  NoType,        (* task_type_ before the first post                        *)
  MaxPosts,      (* bound: how many tasks may be accepted in a behaviour    *)
  ReorderStores  (* may the two plain stores of post_task become visible    *)
                 (* to the loop in the other order?                         *)

ASSUME RequestAssumption == \A r \in Request : Kind(r) \in Kinds
ASSUME NoTypeAssumption  == NoType \notin Kinds
ASSUME BoundAssumption   == MaxPosts \in Nat
ASSUME StoresAssumption  == ReorderStores \in BOOLEAN

VARIABLES
  task_entity_,  (* the callable in the slot: the number of its post, 0 = nullptr *)
  task_type_,    (* the type post_task stored next to it                    *)
  postPc,        (* where the HTTP thread is inside post_task               *)
  stores,        (* the stores post_task has still to make                  *)
  post_ret,      (* what the latest post_task returned                      *)
  loopPc,        (* where the thread loop is                                *)
  signal_status, (* has SIGINT been counted (SignalHandle)?                 *)
  mainPc,        (* the thread that serves HTTP, then stops the loop        *)
  posts,         (* history: the accepted requests                          *)
  ran            (* history: the posts whose callable was called            *)

vars == <<task_entity_, task_type_, postPc, stores, post_ret,
          loopPc, signal_status, mainPc, posts, ran>>

Null == 0

PostPcs == {"idle", "store", "notify"}
LoopPcs == {"top", "pred", "arm", "blocked", "got", "run", "clear", "exited"}
MainPcs == {"serving", "joining", "exited"}

Init ==
  /\ task_entity_ = Null
  /\ task_type_ = NoType
  /\ postPc = "idle"
  /\ stores = {}
  /\ post_ret = 0
  /\ loopPc = "top"
  /\ signal_status = FALSE
  /\ mainPc = "serving"
  /\ posts = <<>>
  /\ ran = <<>>

-----------------------------------------------------------------------------
(* post_task, called by a request handler on the HTTP thread.              *)

PostReject ==
  /\ mainPc = "serving"
  /\ postPc = "idle"
  /\ task_entity_ # Null
  /\ post_ret' = -1
  /\ UNCHANGED <<task_entity_, task_type_, postPc, stores, loopPc,
                 signal_status, mainPc, posts, ran>>

(* Mutant: the slot is not tested before it is filled.                     *)
PostAdmitUnguarded(r) ==
  /\ mainPc = "serving"
  /\ postPc = "idle"
  /\ Len(posts) < MaxPosts
  /\ posts' = Append(posts, r)
  /\ postPc' = "store"
  /\ stores' = {"type", "entity"}
  /\ UNCHANGED <<task_entity_, task_type_, post_ret, loopPc,
                 signal_status, mainPc, ran>>

PostAdmit(r) ==
  /\ mainPc = "serving"
  /\ postPc = "idle"
  /\ Len(posts) < MaxPosts
  /\ task_entity_ = Null
  /\ posts' = Append(posts, r)
  /\ postPc' = "store"
  /\ stores' = {"type", "entity"}
  /\ UNCHANGED <<task_entity_, task_type_, post_ret, loopPc,
                 signal_status, mainPc, ran>>

AfterStore(s) ==
  /\ stores' = stores \ {s}
  /\ postPc' = IF stores = {s} THEN "notify" ELSE "store"

PostType ==
  /\ postPc = "store"
  /\ "type" \in stores
  /\ task_type_' = Kind(posts[Len(posts)])
  /\ AfterStore("type")
  /\ UNCHANGED <<task_entity_, post_ret, loopPc, signal_status, mainPc,
                 posts, ran>>

(* Mutant: the callable may be stored before its type.                     *)
PostEntityEarly ==
  /\ postPc = "store"
  /\ "entity" \in stores
  /\ task_entity_' = Len(posts)
  /\ AfterStore("entity")
  /\ UNCHANGED <<task_type_, post_ret, loopPc, signal_status, mainPc,
                 posts, ran>>

PostEntity ==
  /\ postPc = "store"
  /\ "entity" \in stores
  /\ "type" \in stores => ReorderStores
  /\ task_entity_' = Len(posts)
  /\ AfterStore("entity")
  /\ UNCHANGED <<task_type_, post_ret, loopPc, signal_status, mainPc,
                 posts, ran>>

(* cv_.notify_all() moves the loop out of the wait set if it is in it and  *)
(* does nothing otherwise.                                                 *)
Notified(pc) == IF pc = "blocked" THEN "pred" ELSE pc

(* Mutant: post_task does not notify.                                      *)
PostNotifySilent ==
  /\ postPc = "notify"
  /\ postPc' = "idle"
  /\ post_ret' = 0
  /\ UNCHANGED <<task_entity_, task_type_, stores, loopPc, signal_status,
                 mainPc, posts, ran>>

PostNotify ==
  /\ postPc = "notify"
  /\ postPc' = "idle"
  /\ post_ret' = 0
  /\ loopPc' = Notified(loopPc)
  /\ UNCHANGED <<task_entity_, task_type_, stores, signal_status, mainPc,
                 posts, ran>>

-----------------------------------------------------------------------------
(* run_logic_ / do_once / task_filter on the thread loop.                  *)

LoopStep(from, to) ==
  /\ loopPc = from
  /\ loopPc' = to
  /\ UNCHANGED <<task_type_, postPc, stores, post_ret, signal_status,
                 mainPc, posts>>

(* Mutant: a cycle of the loop begins by resetting the slot.               *)
LoopTopResets ==
  /\ LoopStep("top", IF signal_status THEN "exited" ELSE "pred")
  /\ task_entity_' = Null
  /\ UNCHANGED ran

LoopTop ==
  /\ LoopStep("top", IF signal_status THEN "exited" ELSE "pred")
  /\ UNCHANGED <<task_entity_, ran>>

(* Mutant: the predicate asks for a type, which is never reset, in place   *)
(* of a callable.                                                          *)
LoopPredType ==
  /\ LoopStep("pred", IF task_type_ # NoType \/ signal_status
                      THEN "got" ELSE "arm")
  /\ UNCHANGED <<task_entity_, ran>>

(* The predicate of cv_.wait; a false predicate arms the wait.             *)
LoopPred ==
  /\ LoopStep("pred", IF task_entity_ # Null \/ signal_status
                      THEN "got" ELSE "arm")
  /\ UNCHANGED <<task_entity_, ran>>

LoopBlock ==
  /\ LoopStep("arm", "blocked")
  /\ UNCHANGED <<task_entity_, ran>>

SpuriousWakeup ==
  /\ LoopStep("blocked", "pred")
  /\ UNCHANGED <<task_entity_, ran>>

LoopStop ==
  /\ signal_status
  /\ LoopStep("got", "exited")
  /\ UNCHANGED <<task_entity_, ran>>

(* The switch on task_type_: every case calls the callable, the default    *)
(* branch only logs.                                                       *)
TaskStart ==
  /\ ~signal_status
  /\ task_type_ \in Kinds
  /\ LoopStep("got", "run")
  /\ ran' = Append(ran, task_entity_)
  /\ UNCHANGED task_entity_

TaskUnknown ==
  /\ ~signal_status
  /\ task_type_ \notin Kinds
  /\ LoopStep("got", "clear")
  /\ UNCHANGED <<task_entity_, ran>>

TaskReturn ==
  /\ LoopStep("run", "clear")
  /\ UNCHANGED <<task_entity_, ran>>

(* Mutant: the slot is not reset after the call.                           *)
LoopClearKeeps ==
  /\ LoopStep("clear", "top")
  /\ UNCHANGED <<task_entity_, ran>>

LoopClear ==
  /\ LoopStep("clear", "top")
  /\ task_entity_' = Null
  /\ UNCHANGED ran

-----------------------------------------------------------------------------
(* SIGINT, and main: the server leaves its poll loop, notifies the thread  *)
(* loop once and joins it.                                                 *)

Interrupt ==
  /\ ~signal_status
  /\ signal_status' = TRUE
  /\ UNCHANGED <<task_entity_, task_type_, postPc, stores, post_ret,
                 loopPc, mainPc, posts, ran>>

(* Mutant: main joins the loop without notifying it.                       *)
ServerStopSilent ==
  /\ mainPc = "serving"
  /\ signal_status
  /\ postPc = "idle"
  /\ mainPc' = "joining"
  /\ UNCHANGED <<task_entity_, task_type_, postPc, stores, post_ret,
                 loopPc, signal_status, posts, ran>>

ServerStop ==
  /\ mainPc = "serving"
  /\ signal_status
  /\ postPc = "idle"
  /\ mainPc' = "joining"
  /\ loopPc' = Notified(loopPc)
  /\ UNCHANGED <<task_entity_, task_type_, postPc, stores, post_ret,
                 signal_status, posts, ran>>

MainJoined ==
  /\ mainPc = "joining"
  /\ loopPc = "exited"
  /\ mainPc' = "exited"
  /\ UNCHANGED <<task_entity_, task_type_, postPc, stores, post_ret,
                 loopPc, signal_status, posts, ran>>

-----------------------------------------------------------------------------
PostStep == PostType \/ PostEntity \/ PostNotify

LoopNext ==
  \/ LoopTop \/ LoopPred \/ LoopBlock \/ LoopStop
  \/ TaskStart \/ TaskUnknown \/ LoopClear

Next ==
  \/ PostReject
  \/ \E r \in Request : PostAdmit(r)
  \/ PostStep
  \/ LoopNext
  \/ TaskReturn
  \/ SpuriousWakeup
  \/ Interrupt
  \/ ServerStop
  \/ MainJoined

(* Threads that can run do run: a started post_task, the loop and main.    *)
(* Requests, SIGINT, spurious wake-ups and the end of a task are free.     *)
Fairness ==
  /\ WF_vars(PostStep)
  /\ WF_vars(LoopNext)
  /\ WF_vars(ServerStop)
  /\ WF_vars(MainJoined)

Spec == Init /\ [][Next]_vars
FairSpec == Spec /\ Fairness

-----------------------------------------------------------------------------
Executed == {ran[i] : i \in 1 .. Len(ran)}
Storing == postPc = "store" /\ "entity" \in stores

(* Every field holds a value of its C++ type, pc values exist, and what    *)
(* the loop calls is a callable: calling nullptr would throw out of it.    *)
TypeOK ==
  /\ posts \in Seq(Request)
  /\ ran \in Seq(Nat)
  /\ task_entity_ \in 0 .. Len(posts)
  /\ task_type_ \in Kinds \cup {NoType}
  /\ postPc \in PostPcs
  /\ stores \subseteq {"type", "entity"}
  /\ post_ret \in {0, -1}
  /\ loopPc \in LoopPcs
  /\ loopPc = "run" => task_entity_ # Null
  /\ signal_status \in BOOLEAN
  /\ mainPc \in MainPcs

(* No callable is called twice and none overtakes an earlier one, although *)
(* the loop clears the slot only after the call and without a lock.        *)
AtMostOnceInOrder ==
  \A i, j \in 1 .. Len(ran) : i < j => ran[i] < ran[j]

(* An accepted task that has not been called yet is still in the slot, or  *)
(* post_task is about to put it there: the loop's unlocked reset of the    *)
(* slot never wipes out a task that was accepted meanwhile.                *)
NothingLost ==
  \A n \in 1 .. Len(posts) :
    n \notin Executed => task_entity_ = n \/ (Storing /\ n = Len(posts))

(* task_filter picks the case of the switch that belongs to the callable   *)
(* it calls: type and callable are two fields, written one after the other.*)
RunsWithItsType ==
  loopPc = "run" => task_type_ = Kind(posts[task_entity_])

(* A task that is posted while the loop is in the wait set is started, or  *)
(* SIGINT arrives: the notification of post_task reaches a waiting loop.   *)
NotifiedTaskStarts ==
  \A n \in 1 .. MaxPosts :
    (postPc = "notify" /\ loopPc = "blocked" /\ task_entity_ = n)
      ~> (n \in Executed \/ signal_status)

(* A loop that is in the wait set when SIGINT has been counted leaves it   *)
(* and main returns: the single notification main sends is enough for it.  *)
StopReachesWaiter ==
  (signal_status /\ mainPc = "serving" /\ loopPc = "blocked")
    ~> (mainPc = "exited")

(* The header's promise (task_suit.h:33, "fill in the task type, it is     *)
(* executed in turn in the threadloop"): an accepted task is called,       *)
(* unless the device is being stopped.                                     *)
AcceptedTaskStarts ==
  \A n \in 1 .. MaxPosts :
    (task_entity_ = n) ~> (n \in Executed \/ signal_status)

(* The slot the callers may rely on: accepted from the moment post_task    *)
(* has seen an empty slot until task_filter has reset it.                  *)
SlotPhase ==
  IF loopPc \in {"run", "clear"} THEN "running"
  ELSE IF task_entity_ # Null \/ postPc = "store" THEN "held"
  ELSE "empty"

Slot == INSTANCE TaskSlot WITH
          accepted <- Len(posts), phase <- SlotPhase, started <- ran

(* The hand-over implements the one-task slot.                             *)
SlotSpec == Slot!Spec
=============================================================================
