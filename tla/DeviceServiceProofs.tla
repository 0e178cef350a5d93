------------------------ MODULE DeviceServiceProofs -------------------------
(***************************************************************************)
(* Proofs about DeviceService, for any jobs, requests, number of posts and *)
(* number of terminate threads.  Every step of the service is a step of    *)
(* the hand-over or leaves it alone, so what TaskSuitProofs shows of the   *)
(* hand-over holds of the service.  The rest is about the status words,    *)
(* the terminate threads and the run that all of them act on.              *)
(***************************************************************************)
EXTENDS DeviceService, TaskSuitProofs

LastKind == posts[Len(posts)].kind

(* What the program counters of a handler and of the callable say.         *)
FlowInv ==
  /\ httpPc = "posting" <=> postPc # "idle"
  /\ httpPc \in {"after_device", "after_task"} =>
       Len(posts) > 0 /\ LastKind \in DOMAIN BusyFlag
  /\ entPc # "none" <=> loopPc = "run"
  /\ entPc = "reboot" => LastKind = "reboot"
  /\ entPc \in UpdatePcs => LastKind = "update"
  /\ entPc \in FilePcs => LastKind \in FileKinds
  /\ entPc \in RunPcs => LastKind = "run"
  /\ is_running_ <=> entPc \in LockedPcs
  /\ entPc = "poll_get" => remain_num_ > 0

(* From RunReset on, a flag that is up, or a thread about to raise it, has *)
(* been seen by this run.                                                  *)
AfterReset == LockedPcs \ {"run_reset"}
Raising == \E t \in Terminators : termPc[t] = "kill"
FlagInv ==
  /\ entPc \in AfterReset /\ (to_task_terminate_ \/ Raising) => terminateSeen
  /\ EndsEarlyOnlyIfTerminated

(* The latest post is an update that has not ended.                        *)
UpdateOpen ==
  /\ Len(posts) > 0
  /\ LastKind = "update"
  /\ Len(posts) \notin Executed \/ loopPc = "run"

(* A success in the device word is about to be overwritten by the handler  *)
(* of the latest update, was written by that update, or is the latest.     *)
SuccessInv ==
  "UPDATE_SUCCESS" \in device_state_ =>
    \/ httpPc \in {"posting", "after_device"} /\ LastKind = "update"
    \/ UpdateOpen /\ (entPc = "update_task" \/ entPc = "ok")
    \/ ~UpdateOpen /\ lastUpdate = "ok"

(* Once a callable has ended, every later post is executed.                *)
HistoryInv ==
  /\ lastTask # "none" \/ loopPc = "run" => task_type_ \in Kinds
  /\ lastTask # "none" =>
       \/ Len(posts) \in Executed
       \/ Storing
       \/ task_entity_ # Null /\ loopPc # "clear"
  /\ Len(posts) \in Executed /\ loopPc # "run" => lastTask = LastKind

(* The steps of a run behind its last write to a status word.              *)
RunEnding == {"unlock_ok", "unlock_failed", "notify_ok", "notify_failed"}
RunOver ==
  \/ entPc \in RunEnding
  \/ entPc \in Ends /\ LastKind = "run"
  \/ Len(posts) \in Executed /\ loopPc # "run" /\ LastKind = "run"

FreeDevice ==
  \/ device_state_ = {"FREE"}
  \/ \E kind \in FileKinds : device_state_ = {"BUSY", FailFlag[kind]}
EndedTask == task_state_ \in {{"DIVORCED"}, {"RABBITMQ_FAIL"}}

RunInv ==
  /\ RunOver \/ entPc = "load_task" => FreeDevice
  /\ RunOver \/ entPc = "end_device" => EndedTask

DSIInv ==
  /\ IInv /\ DSTypeOK /\ SingleTerminator
  /\ FlowInv /\ FlagInv /\ SuccessInv /\ HistoryInv /\ RunInv

-----------------------------------------------------------------------------
(* The service and the hand-over.                                          *)

(* Each step of the service is a step of the hand-over or leaves it alone. *)
LEMMA SuitStep == [DSNext]_allVars => [Next]_vars
<1> SUFFICES ASSUME [DSNext]_allVars PROVE Next \/ vars' = vars
  OBVIOUS
<1>1. ASSUME NEW r \in Request, AdmitRequest(r) \/ RejectRequest(r)
      PROVE  Next
  BY <1>1 DEF AdmitRequest, RejectRequest, Next
<1>2. ASSUME NEW j \in Jobs \cup {NoJob}, Terminate(j) PROVE vars' = vars
  BY <1>2 DEF Terminate
<1>3. CASE HandlerNext
  <2>1. CASE Posting \/ PostReturned
    BY <2>1 DEF Posting, PostReturned, PostStep, Next
  <2>2. CASE ~(Posting \/ PostReturned)
    BY <1>3, <2>2 DEF HandlerNext, RejectedDevice, AfterPostDevice,
       AfterPostTask, TerminateRunning, TerminateIdleTask,
       TerminateIdleDevice, TerminateAgain, TerminateLaunch
  <2>3. QED BY <2>1, <2>2
<1>4. ASSUME NEW t \in Terminators, TermNext(t) \/ TermSpurious(t)
      PROVE  vars' = vars
  BY <1>4 DEF TermNext, TermSpurious, TermFlag, TermPredRunning, TermPredStop,
     TermBlock, TermTask, TermDevice, TermFinish, TermStep
<1>5. CASE EntNext \/ PollEnqueued
  <2>1. CASE StartEntity \/ EndEntity
    BY <2>1 DEF StartEntity, EndEntity, LoopNext, Next
  <2>2. CASE ~(StartEntity \/ EndEntity)
    BY <1>5, <2>2 DEF EntNext, PollEnqueued, reboot, UpdateStage, UpdateDevice,
       UpdateTask, FileDevice, FileTask, RunDevice, RunInfo, RunLock,
       RunReset, RunLoad, LoadFailDevice, LoadFailTask, RunLoaded, PollCheck,
       PollEmpty, PollMessage, RunEndTask, RunEndDevice, RunUnlock, RunNotify,
       EntStep
  <2>3. QED BY <2>1, <2>2
<1>6. CASE LoopOnly \/ Environment \/ StopLoop
  BY <1>6 DEF LoopOnly, Environment, StopLoop, LoopNext, Next
<1>7. CASE ServerLeft
  BY <1>7 DEF ServerLeft
<1>8. CASE UNCHANGED allVars
  BY <1>8 DEF allVars
<1>9. QED
  BY <1>1, <1>2, <1>3, <1>4, <1>5, <1>6, <1>7, <1>8 DEF DSNext

(* The service behaves as the hand-over does: the handlers, callables and  *)
(* terminate threads around post_task and task_filter add no behaviour.    *)
THEOREM ServiceIsSuit == DSSpec => Spec
<1>1. DSInit => Init
  BY DEF DSInit
<1>2. QED BY <1>1, SuitStep, PTL DEF DSSpec, Spec

(* In the whole service too no callable is called twice or out of order.   *)
THEOREM ServiceInOrder == DSSpec => []AtMostOnceInOrder
  BY ServiceIsSuit, InOrder, PTL

(* With program-order stores the whole service implements the one-task     *)
(* slot, so no accepted task is dropped by a handler or a callable.        *)
THEOREM ServiceImplementsSlot ==
  ASSUME ~ReorderStores PROVE DSSpec => SlotSpec
  BY ServiceIsSuit, ImplementsSlot, PTL

-----------------------------------------------------------------------------
(* Types.                                                                  *)

(* The kind of a posted request is one of the five, and a run names a job. *)
LEMMA LatestPost ==
  ASSUME TypeOK, Len(posts) > 0
  PROVE  /\ LastKind \in Kinds
         /\ LastKind = "run" => /\ posts[Len(posts)].job \in Jobs
                                /\ posts[Len(posts)].num \in Nat
<1>1. posts[Len(posts)] \in Request
  BY DEF TypeOK
<1>2. QED BY <1>1, RequestAssumption, RequestRecords DEF LastKind

(* While a callable runs, it is the latest post's.                         *)
LEMMA RunningIsLatest ==
  ASSUME IInv, task_entity_ # Null
  PROVE  /\ task_entity_ = Len(posts)
         /\ Len(posts) \in Nat
         /\ Len(posts) > 0
         /\ Current.kind = LastKind
         /\ ~Storing
  BY DEF IInv, TypeOK, ControlInv, Null, Current, LastKind, Storing

LEMMA RunningFilled ==
  ASSUME IInv, loopPc = "run" \/ loopPc = "clear" \/ TaskStart
  PROVE  task_entity_ # Null
  BY DEF IInv, ControlInv, TaskStart, LoopStep

LEMMA InitDSTypeOK == DSInit => DSTypeOK
<1> SUFFICES ASSUME DSInit PROVE DSTypeOK
  OBVIOUS
<1>1. TypeOK
  BY InitIInv DEF DSInit, IInv
<1>2. QED BY <1>1 DEF DSInit, DSTypeOK, DeviceFlags, TaskFlags, HttpPcs,
  EntPcs, TermPcs

LEMMA DSTypeStep ==
  IInv /\ DSTypeOK /\ FlowInv /\ [DSNext]_allVars => DSTypeOK'
<1> SUFFICES ASSUME IInv, DSTypeOK, FlowInv, [DSNext]_allVars
             PROVE  DSTypeOK'
  OBVIOUS
<1>0. ASSUME loopPc = "run", LastKind = "run"
      PROVE  Current.job \in Jobs /\ Current.num \in Nat
  <2>1. task_entity_ = Len(posts) /\ Len(posts) > 0
    BY <1>0, RunningIsLatest, RunningFilled
  <2>2. QED BY <1>0, <2>1, LatestPost DEF IInv, Current
<1>1. TypeOK'
  BY SuitStep, TypeStep DEF IInv
<1> USE DEF DSTypeOK
<1>2. ASSUME NEW r \in Request, AdmitRequest(r) \/ RejectRequest(r)
      PROVE  DSTypeOK'
  BY <1>1, <1>2 DEF AdmitRequest, RejectRequest, HttpStep, HandlerRest,
     statusVars, runVars, termVars, histVars, HttpPcs, RejectPc, FailFlag
<1>3. ASSUME NEW j \in Jobs \cup {NoJob}, Terminate(j) PROVE DSTypeOK'
  BY <1>1, <1>3 DEF Terminate, HttpStep, statusVars, runVars, termVars,
     HttpPcs
<1>4. CASE HandlerNext
  <2> USE DEF HttpStep, HandlerRest, statusVars, runVars, termVars, histVars,
              HttpPcs, replace_device_state, replace_task_state
  <2>1. ASSUME NEW kind \in DOMAIN FailFlag, RejectedDevice(kind)
        PROVE  DSTypeOK'
    BY <1>1, <2>1 DEF RejectedDevice, FailFlag, DeviceFlags
  <2>2. CASE Posting
    BY <1>1, <2>2 DEF Posting, dsVars
  <2>3. CASE PostReturned
    BY <1>1, <2>3 DEF PostReturned
  <2>4. CASE AfterPostDevice
    BY <1>1, <2>4 DEF AfterPostDevice, FlowInv, LastKind, BusyFlag,
       DeviceFlags
  <2>5. CASE AfterPostTask
    BY <1>1, <2>5 DEF AfterPostTask, TaskFlags
  <2>6. CASE TerminateRunning \/ TerminateIdleTask \/ TerminateIdleDevice
             \/ TerminateAgain
    BY <1>1, <2>6 DEF TerminateRunning, TerminateIdleTask,
       TerminateIdleDevice, TerminateAgain, DeviceFlags, TaskFlags
  <2>7. ASSUME NEW t \in Terminators, TerminateLaunch(t) PROVE DSTypeOK'
    BY <1>1, <2>7 DEF TerminateLaunch, TermPcs
  <2>8. QED
    BY <1>4, <2>1, <2>2, <2>3, <2>4, <2>5, <2>6, <2>7 DEF HandlerNext
<1>5. ASSUME NEW t \in Terminators, TermNext(t) \/ TermSpurious(t)
      PROVE  DSTypeOK'
  BY <1>1, <1>5 DEF TermNext, TermSpurious, TermFlag, TermPredRunning,
     TermPredStop, TermBlock, TermTask, TermDevice, TermFinish, TermStep,
     statusVars, runVars, histVars, replace_device_state, replace_task_state,
     DeviceFlags, TaskFlags, TermPcs
<1>6. CASE EntNext \/ PollEnqueued
  <2> USE DEF EntStep, EntOnly, statusVars, runVars, termVars, histVars, EntPcs,
              UpdatePcs, FilePcs, RunPcs, LockedPcs, replace_device_state,
              replace_task_state, DeviceFlags, TaskFlags
  <2>1. CASE StartEntity
    <3>1. LastKind \in Kinds /\ Current.kind = LastKind
      BY <2>1, LatestPost, RunningIsLatest, RunningFilled DEF StartEntity, IInv
    <3>2. FirstPc[Current.kind] \in EntPcs
      BY <3>1, KindsAssumption DEF FirstPc
    <3>3. QED BY <1>1, <2>1, <3>2 DEF StartEntity
  <2>2. CASE reboot \/ UpdateStage("update_testbed", "update_license")
             \/ UpdateStage("update_license", "update_device")
             \/ UpdateDevice \/ UpdateTask
    BY <1>1, <2>2 DEF reboot, UpdateStage, UpdateDevice, UpdateTask
  <2>3. ASSUME NEW kind \in FileKinds, NEW end \in Ends,
               FileDevice(kind, end) \/ FileTask(kind, end)
        PROVE  DSTypeOK'
    <3>1. /\ FilePc[kind][end] \in EntPcs
          /\ end \in EntPcs
          /\ FailFlag[kind] \in DeviceFlags
      BY DEF FileKinds, Ends, FilePc, FailFlag
    <3>2. CASE FileDevice(kind, end)
      BY <1>1, <3>1, <3>2 DEF FileDevice
    <3>3. CASE FileTask(kind, end)
      BY <1>1, <3>1, <3>3 DEF FileTask
    <3>4. QED BY <2>3, <3>2, <3>3
  <2>4. CASE RunInfo
    <3>1. loopPc = "run" /\ LastKind = "run"
      BY <2>4 DEF RunInfo, FlowInv
    <3>2. Current.job \in Jobs /\ Current.num \in Nat
      BY <1>0, <3>1
    <3>3. QED BY <1>1, <2>4, <3>2 DEF RunInfo
  <2>5. CASE RunDevice \/ RunLock \/ RunReset \/ RunLoad
    BY <1>1, <2>5 DEF RunDevice, RunLock, RunReset, RunLoad
  <2>6. CASE LoadFailDevice \/ LoadFailTask \/ RunLoaded
    BY <1>1, <2>6 DEF LoadFailDevice, LoadFailTask, RunLoaded
  <2>7. CASE PollCheck \/ PollEmpty \/ PollMessage \/ PollEnqueued
    <3>1. CASE PollMessage
      <4>1. entPc = "poll_get" /\ remain_num_ > 0
        BY <3>1 DEF PollMessage, FlowInv
      <4>2. remain_num_' \in Nat
        BY <3>1, <4>1 DEF PollMessage
      <4>3. QED BY <1>1, <3>1, <4>2 DEF PollMessage
    <3>2. CASE PollCheck
      BY <1>1, <3>2 DEF PollCheck
    <3>3. CASE PollEmpty \/ PollEnqueued
      BY <1>1, <3>3 DEF PollEmpty, PollEnqueued
    <3>4. QED BY <2>7, <3>1, <3>2, <3>3
  <2>8. CASE RunEndTask \/ RunEndDevice
    BY <1>1, <2>8 DEF RunEndTask, RunEndDevice
  <2>9. ASSUME NEW end \in Ends, RunUnlock(end) \/ RunNotify(end)
        PROVE  DSTypeOK'
    <3>1. NotifyPc[end] \in EntPcs /\ end \in EntPcs
      BY DEF NotifyPc, Ends
    <3>2. CASE RunUnlock(end)
      BY <1>1, <3>1, <3>2 DEF RunUnlock
    <3>3. CASE RunNotify(end)
      BY <1>1, <3>1, <3>3 DEF RunNotify, TermNotified, TermPcs
    <3>4. QED BY <2>9, <3>2, <3>3
  <2>10. CASE EndEntity
    BY <1>1, <2>10 DEF EndEntity
  <2>11. QED
    BY <1>6, <2>1, <2>2, <2>3, <2>4, <2>5, <2>6, <2>7, <2>8, <2>9, <2>10
       DEF EntNext
<1>7. CASE LoopOnly \/ Environment \/ StopLoop
  BY <1>1, <1>7 DEF LoopOnly, Environment, StopLoop, dsVars, statusVars,
     runVars, termVars, histVars
<1>8. CASE ServerLeft
  BY <1>1, <1>8 DEF ServerLeft, HttpStep, HandlerRest, statusVars, runVars,
     histVars, TermNotified, TermPcs, HttpPcs
<1>9. CASE UNCHANGED allVars
  BY <1>1, <1>9 DEF allVars, dsVars, statusVars, runVars, termVars, histVars
<1>10. QED
  BY <1>2, <1>3, <1>4, <1>5, <1>6, <1>7, <1>8, <1>9 DEF DSNext

-----------------------------------------------------------------------------
(* Control.                                                                *)

(* A kind never changes behind a post.                                     *)
LEMMA LastKindFrame == ASSUME posts' = posts PROVE LastKind' = LastKind
  BY DEF LastKind

LEMMA InitFlow == DSInit => FlowInv
  BY DEF DSInit, Init, FlowInv, UpdatePcs, FilePcs, RunPcs, LockedPcs

(* A handler that has begun: its steps keep the control state consistent.  *)
LEMMA FlowHandler ==
  ASSUME IInv, DSTypeOK, FlowInv, HandlerNext PROVE FlowInv'
<1> USE DEF HttpStep, HandlerRest, runVars, replace_device_state,
            replace_task_state
<1>1. ASSUME NEW kind \in DOMAIN FailFlag, RejectedDevice(kind)
      PROVE  FlowInv'
  <2>1. RejectPc[kind] # "posting"
    BY DEF FailFlag, RejectPc
  <2>2. QED BY <1>1, <2>1, LastKindFrame DEF RejectedDevice, FlowInv, vars
<1>2. CASE Posting
  <2>1. /\ postPc # "idle" /\ postPc' # "idle"
        /\ UNCHANGED <<posts, loopPc>>
    BY <1>2 DEF Posting, PostType, PostEntity, AfterStore
  <2>2. QED BY <1>2, <2>1, LastKindFrame DEF Posting, dsVars, FlowInv
<1>3. CASE PostReturned
  <2>1. /\ postPc' = "idle" /\ posts' = posts
        /\ loopPc' = "run" <=> loopPc = "run"
    BY <1>3 DEF PostReturned, PostNotify, Notified
  <2>2. Len(posts) > 0
    BY <1>3 DEF PostReturned, PostNotify, IInv, ControlInv
  <2>3. CASE LastKind \in DOMAIN BusyFlag
    BY <1>3, <2>1, <2>2, <2>3, LastKindFrame DEF PostReturned, FlowInv, LastKind
  <2>4. CASE LastKind \notin DOMAIN BusyFlag
    BY <1>3, <2>1, <2>2, <2>4, LastKindFrame DEF PostReturned, FlowInv, LastKind
  <2>5. QED BY <2>3, <2>4
<1>4. CASE AfterPostDevice \/ AfterPostTask
  BY <1>4, LastKindFrame DEF AfterPostDevice, AfterPostTask, FlowInv, vars
<1>5. CASE TerminateRunning \/ TerminateIdleTask \/ TerminateIdleDevice
           \/ TerminateAgain
  BY <1>5, LastKindFrame DEF TerminateRunning, TerminateIdleTask,
     TerminateIdleDevice, TerminateAgain, FlowInv, vars
<1>6. ASSUME NEW t \in Terminators, TerminateLaunch(t) PROVE FlowInv'
  BY <1>6, LastKindFrame DEF TerminateLaunch, FlowInv, vars
<1>7. QED
  BY <1>1, <1>2, <1>3, <1>4, <1>5, <1>6 DEF HandlerNext

(* A callable: its steps, the first and the last one included.             *)
LEMMA FlowEntity ==
  ASSUME IInv, DSTypeOK, FlowInv, EntNext \/ PollEnqueued PROVE FlowInv'
<1>1. CASE StartEntity
  <2>1. /\ UNCHANGED <<posts, postPc, httpPc, is_running_, remain_num_>>
        /\ loopPc' = "run" /\ loopPc = "got"
    BY <1>1 DEF StartEntity, TaskStart, LoopStep, runVars
  <2>2. LastKind \in Kinds /\ Current.kind = LastKind
    BY <1>1, LatestPost, RunningIsLatest, RunningFilled DEF StartEntity, IInv
  <2>3. entPc' = FirstPc[LastKind]
    BY <1>1, <2>2 DEF StartEntity
  <2>4. ~is_running_
    BY <2>1 DEF FlowInv, LockedPcs
  <2>5. QED
    BY <2>1, <2>2, <2>3, <2>4, LastKindFrame, KindsAssumption
       DEF FlowInv, FirstPc, UpdatePcs, FilePcs, FileKinds, RunPcs, LockedPcs
<1>2. CASE EndEntity
  <2>1. /\ UNCHANGED <<posts, postPc, httpPc, is_running_, remain_num_>>
        /\ loopPc' = "clear" /\ entPc' = "none" /\ entPc \in {"ok", "failed"}
    BY <1>2 DEF EndEntity, TaskReturn, LoopStep, runVars
  <2>2. QED
    BY <2>1, LastKindFrame DEF FlowInv, UpdatePcs, FilePcs, RunPcs, LockedPcs
<1>3. ASSUME vars' = vars, httpPc' = httpPc
      PROVE  LastKind' = LastKind /\ UNCHANGED <<posts, postPc, loopPc, httpPc>>
  BY <1>3, LastKindFrame DEF vars
<1> USE DEF EntStep, EntOnly, runVars, FlowInv
<1>4. CASE reboot \/ UpdateDevice \/ UpdateTask
           \/ UpdateStage("update_testbed", "update_license")
           \/ UpdateStage("update_license", "update_device")
  BY <1>3, <1>4 DEF reboot, UpdateStage, UpdateDevice, UpdateTask, UpdatePcs,
     FilePcs, RunPcs, LockedPcs
<1>5. ASSUME NEW kind \in FileKinds, NEW end \in Ends,
             FileDevice(kind, end) \/ FileTask(kind, end)
      PROVE  FlowInv'
  <2>1. kind \in FilePcs /\ FilePc[kind][end] \in FilePcs
    BY DEF FileKinds, Ends, FilePc, FilePcs
  <2>2. \A pc \in FilePcs : pc \notin {"none", "reboot", "poll_get"} \cup UpdatePcs
          \cup RunPcs \cup LockedPcs
    BY DEF FilePcs, UpdatePcs, RunPcs, LockedPcs
  <2>3. end \notin {"none", "reboot", "poll_get"} \cup UpdatePcs \cup FilePcs
          \cup RunPcs \cup LockedPcs
    BY DEF Ends, FilePcs, UpdatePcs, RunPcs, LockedPcs
  <2>4. CASE FileDevice(kind, end)
    BY <1>3, <2>1, <2>2, <2>4 DEF FileDevice
  <2>5. CASE FileTask(kind, end)
    BY <1>3, <2>1, <2>2, <2>3, <2>5 DEF FileTask
  <2>6. QED BY <1>5, <2>4, <2>5
<1>6. CASE RunDevice \/ RunInfo \/ RunLock \/ RunReset \/ RunLoad
  <2> USE DEF UpdatePcs, FilePcs, RunPcs, LockedPcs
  <2>1. CASE RunDevice \/ RunInfo
    BY <1>3, <2>1 DEF RunDevice, RunInfo
  <2>2. CASE RunLock
    BY <1>3, <2>2 DEF RunLock
  <2>3. CASE RunReset \/ RunLoad
    BY <1>3, <2>3 DEF RunReset, RunLoad
  <2>4. QED BY <1>6, <2>1, <2>2, <2>3
<1>7. CASE LoadFailDevice \/ LoadFailTask \/ RunLoaded \/ RunEndTask
           \/ RunEndDevice
  BY <1>3, <1>7 DEF LoadFailDevice, LoadFailTask, RunLoaded, RunEndTask,
     RunEndDevice, UpdatePcs, FilePcs, RunPcs, LockedPcs
<1>8. CASE PollCheck
  <2>1. remain_num_ \in Nat
    BY DEF DSTypeOK
  <2>2. QED BY <1>3, <1>8, <2>1 DEF PollCheck, is_to_terminate_msg_poll_,
    UpdatePcs, FilePcs, RunPcs, LockedPcs
<1>9. CASE PollEmpty \/ PollMessage \/ PollEnqueued
  BY <1>3, <1>9 DEF PollEmpty, PollMessage, PollEnqueued, UpdatePcs, FilePcs,
     RunPcs, LockedPcs
<1>10. ASSUME NEW end \in Ends, RunUnlock(end) \/ RunNotify(end)
       PROVE  FlowInv'
  <2> USE DEF Ends, UnlockPc, NotifyPc, UpdatePcs, FilePcs, RunPcs, LockedPcs
  <2>1. CASE end = "ok"
    BY <1>3, <1>10, <2>1 DEF RunUnlock, RunNotify
  <2>2. CASE end = "failed"
    BY <1>3, <1>10, <2>2 DEF RunUnlock, RunNotify
  <2>3. QED BY <2>1, <2>2
<1>11. QED
  BY <1>1, <1>2, <1>4, <1>5, <1>6, <1>7, <1>8, <1>9, <1>10 DEF EntNext

LEMMA FlowStep ==
  IInv /\ DSTypeOK /\ FlowInv /\ [DSNext]_allVars => FlowInv'
<1> SUFFICES ASSUME IInv, DSTypeOK, FlowInv, [DSNext]_allVars PROVE FlowInv'
  OBVIOUS
<1>1. ASSUME NEW r \in Request, AdmitRequest(r) PROVE FlowInv'
  <2>1. loopPc # "run" /\ loopPc' = loopPc /\ postPc' = "store"
    BY <1>1 DEF AdmitRequest, PostAdmit, IInv, ControlInv
  <2>2. QED BY <1>1, <2>1 DEF AdmitRequest, HttpStep, HandlerRest, runVars,
    FlowInv, UpdatePcs, FilePcs, RunPcs, LockedPcs
<1>2. ASSUME NEW r \in Request, RejectRequest(r) PROVE FlowInv'
  <2>1. UNCHANGED <<posts, postPc, loopPc>>
    BY <1>2 DEF RejectRequest, PostReject
  <2>2. httpPc = "idle" /\ httpPc' \in {"idle", "reject_pull", "reject_clear"}
    BY <1>2 DEF RejectRequest, HttpStep, RejectPc, FailFlag
  <2>3. QED BY <1>2, <2>1, <2>2, LastKindFrame
    DEF RejectRequest, HandlerRest, runVars, FlowInv
<1>3. ASSUME NEW j \in Jobs \cup {NoJob}, Terminate(j) PROVE FlowInv'
  BY <1>3, LastKindFrame DEF Terminate, HttpStep, runVars, vars, FlowInv
<1>4. CASE HandlerNext
  BY <1>4, FlowHandler
<1>5. ASSUME NEW t \in Terminators, TermNext(t) \/ TermSpurious(t)
      PROVE  FlowInv'
  <2>1. UNCHANGED <<vars, httpPc, entPc, runVars>>
    BY <1>5 DEF TermNext, TermSpurious, TermFlag, TermPredRunning,
       TermPredStop, TermBlock, TermTask, TermDevice, TermFinish, TermStep
  <2>2. QED BY <2>1, LastKindFrame DEF vars, runVars, FlowInv
<1>6. CASE EntNext \/ PollEnqueued
  BY <1>6, FlowEntity
<1>7. CASE LoopOnly \/ Environment
  <2>1. /\ UNCHANGED <<posts, postPc>>
        /\ loopPc' = "run" <=> loopPc = "run"
    BY <1>7 DEF LoopOnly, Environment, LoopTop, LoopPred, LoopBlock, LoopStop,
       TaskUnknown, LoopClear, LoopStep, Interrupt, SpuriousWakeup, MainJoined
  <2>2. QED BY <1>7, <2>1, LastKindFrame
    DEF LoopOnly, Environment, dsVars, runVars, FlowInv
<1>8. CASE ServerLeft
  BY <1>8, LastKindFrame DEF ServerLeft, HttpStep, HandlerRest, runVars, vars,
     FlowInv
<1>9. CASE StopLoop
  <2>1. /\ UNCHANGED <<posts, postPc>>
        /\ loopPc' = "run" <=> loopPc = "run"
    BY <1>9 DEF StopLoop, ServerStop, Notified
  <2>2. QED BY <1>9, <2>1, LastKindFrame DEF StopLoop, dsVars, runVars, FlowInv
<1>10. CASE UNCHANGED allVars
  BY <1>10, LastKindFrame DEF allVars, vars, dsVars, runVars, FlowInv
<1>11. QED
  BY <1>1, <1>2, <1>3, <1>4, <1>5, <1>6, <1>7, <1>8, <1>9, <1>10 DEF DSNext

-----------------------------------------------------------------------------
(* Terminate threads.                                                      *)

(* Threads appear in TerminateLaunch and disappear in TermFinish only, and *)
(* no thread comes back to its first step.                                 *)
TermMoves ==
  /\ is_terminating_' = is_terminating_
  /\ \A t \in Terminators :
       /\ termPc'[t] = "none" <=> termPc[t] = "none"
       /\ termPc'[t] = "kill" => termPc[t] = "kill"

LEMMA NotifiedMoves ==
  ASSUME DSTypeOK, termPc' = TermNotified, is_terminating_' = is_terminating_
  PROVE  TermMoves
  BY DEF DSTypeOK, TermNotified, TermMoves

LEMMA TermThreadMoves ==
  ASSUME DSTypeOK, NEW t \in Terminators, TermNext(t) \/ TermSpurious(t)
  PROVE  TermMoves \/ TermFinish(t)
<1>1. ASSUME NEW from, NEW to, TermStep(t, from, to), from # "none",
             to \notin {"none", "kill"}, is_terminating_' = is_terminating_
      PROVE  TermMoves
  BY <1>1 DEF TermStep, DSTypeOK, TermMoves
<1>2. CASE TermFlag(t)
  BY <1>1, <1>2 DEF TermFlag
<1>3. CASE TermPredRunning(t) \/ TermPredStop(t)
  <2>1. CASE TermPredRunning(t)
    BY <1>1, <2>1 DEF TermPredRunning
  <2>2. CASE TermPredStop(t)
    BY <1>1, <2>2 DEF TermPredStop
  <2>3. QED BY <1>3, <2>1, <2>2
<1>4. CASE TermBlock(t) \/ TermSpurious(t)
  BY <1>1, <1>4 DEF TermBlock, TermSpurious
<1>5. CASE TermTask(t) \/ TermDevice(t)
  BY <1>1, <1>5 DEF TermTask, TermDevice
<1>6. QED
  BY <1>2, <1>3, <1>4, <1>5 DEF TermNext

(* What any step of the service does to the terminate threads.             *)
LEMMA TermFrame ==
  ASSUME DSTypeOK, [DSNext]_allVars
  PROVE  \/ TermMoves
         \/ \E t \in Terminators : TerminateLaunch(t) \/ TermFinish(t)
<1>1. UNCHANGED termVars => TermMoves
  BY DEF termVars, TermMoves
<1>2. ASSUME NEW r \in Request, AdmitRequest(r) \/ RejectRequest(r)
      PROVE  TermMoves
  BY <1>1, <1>2 DEF AdmitRequest, RejectRequest
<1>3. ASSUME NEW j \in Jobs \cup {NoJob}, Terminate(j) PROVE TermMoves
  BY <1>1, <1>3 DEF Terminate
<1>4. CASE HandlerNext
  BY <1>1, <1>4 DEF HandlerNext, RejectedDevice, Posting, PostReturned,
     AfterPostDevice, AfterPostTask, TerminateRunning, TerminateIdleTask,
     TerminateIdleDevice, TerminateAgain, dsVars
<1>5. CASE EntNext \/ PollEnqueued
  <2>1. ASSUME NEW end \in Ends, RunNotify(end) PROVE TermMoves
    BY <2>1, NotifiedMoves DEF RunNotify
  <2>2. CASE StartEntity \/ EndEntity
    BY <1>1, <2>2 DEF StartEntity, EndEntity
  <2>3. CASE ~(\E end \in Ends : RunNotify(end)) /\ ~StartEntity /\ ~EndEntity
    <3>1. \E from, to : EntStep(from, to)
      BY <1>5, <2>3 DEF EntNext, PollEnqueued, reboot, UpdateStage,
         UpdateDevice, UpdateTask, FileDevice, FileTask, RunDevice, RunInfo,
         RunLock, RunReset, RunLoad, LoadFailDevice, LoadFailTask, RunLoaded,
         PollCheck, PollEmpty, PollMessage, RunEndTask, RunEndDevice,
         RunUnlock
    <3>2. QED BY <1>1, <3>1 DEF EntStep
  <2>4. QED BY <2>1, <2>2, <2>3
<1>6. CASE LoopOnly \/ Environment \/ StopLoop
  BY <1>1, <1>6 DEF LoopOnly, Environment, StopLoop, dsVars
<1>7. CASE ServerLeft
  BY <1>7, NotifiedMoves DEF ServerLeft
<1>8. CASE UNCHANGED allVars
  BY <1>1, <1>8 DEF allVars, dsVars
<1>9. QED
  BY <1>2, <1>3, <1>4, <1>5, <1>6, <1>7, <1>8, TermThreadMoves DEF DSNext

LEMMA SingleStep ==
  DSTypeOK /\ SingleTerminator /\ [DSNext]_allVars => SingleTerminator'
<1> SUFFICES ASSUME DSTypeOK, SingleTerminator, [DSNext]_allVars
             PROVE  SingleTerminator'
  OBVIOUS
<1>1. CASE TermMoves
  <2>1. Alive' = Alive
    BY <1>1 DEF TermMoves, Alive
  <2>2. QED BY <1>1, <2>1 DEF TermMoves, SingleTerminator
<1>2. ASSUME NEW t \in Terminators, TerminateLaunch(t)
      PROVE  SingleTerminator'
  <2>1. Alive = {} /\ is_terminating_'
    BY <1>2 DEF TerminateLaunch, SingleTerminator
  <2>2. Alive' = {t}
    BY <1>2, <2>1 DEF TerminateLaunch, Alive, DSTypeOK
  <2>3. QED BY <2>1, <2>2 DEF SingleTerminator
<1>3. ASSUME NEW t \in Terminators, TermFinish(t) PROVE SingleTerminator'
  <2>1. t \in Alive /\ ~is_terminating_'
    BY <1>3 DEF TermFinish, TermStep, Alive
  <2>2. Alive' = Alive \ {t}
    BY <1>3 DEF TermFinish, TermStep, Alive, DSTypeOK
  <2>3. QED BY <2>1, <2>2 DEF SingleTerminator
<1>4. QED BY <1>1, <1>2, <1>3, TermFrame

(* What any step does to the flag, the threads about to raise it and the   *)
(* history of both.                                                        *)
LEMMA FlagStep ==
  IInv /\ DSTypeOK /\ FlowInv /\ FlagInv /\ [DSNext]_allVars => FlagInv'
<1> SUFFICES ASSUME IInv, DSTypeOK, FlowInv, FlagInv, [DSNext]_allVars
             PROVE  FlagInv'
  OBVIOUS
<1>1. TermMoves \/ (\E t \in Terminators : TerminateLaunch(t) \/ TermFinish(t))
  BY TermFrame
<1>2. Raising' => Raising \/ terminateSeen'
  <2>1. CASE TermMoves
    BY <2>1 DEF TermMoves, Raising
  <2>2. ASSUME NEW t \in Terminators, TerminateLaunch(t) PROVE terminateSeen'
    BY <2>2 DEF TerminateLaunch
  <2>3. ASSUME NEW t \in Terminators, TermFinish(t), Raising' PROVE Raising
    BY <2>3 DEF TermFinish, TermStep, DSTypeOK, Raising
  <2>4. QED BY <1>1, <2>1, <2>2, <2>3
<1>3. ASSUME terminateSeen' = terminateSeen, entPc' = entPc,
             remain_num_' = remain_num_,
             to_task_terminate_' => to_task_terminate_ \/ Raising
      PROVE  FlagInv'
  BY <1>2, <1>3 DEF FlagInv, EndsEarlyOnlyIfTerminated, DSTypeOK, AfterReset,
     LockedPcs
<1>4. ASSUME NEW r \in Request, AdmitRequest(r) \/ RejectRequest(r)
      PROVE  FlagInv'
  BY <1>3, <1>4 DEF AdmitRequest, RejectRequest, HandlerRest, runVars, histVars
<1>5. ASSUME NEW j \in Jobs \cup {NoJob}, Terminate(j) PROVE FlagInv'
  BY <1>3, <1>5 DEF Terminate, runVars
<1>6. CASE HandlerNext
  <2>1. ASSUME NEW t \in Terminators, TerminateLaunch(t) PROVE FlagInv'
    <3>1. terminateSeen' /\ entPc' = entPc /\ remain_num_' = remain_num_
      BY <2>1 DEF TerminateLaunch, runVars
    <3>2. QED BY <3>1 DEF FlagInv, EndsEarlyOnlyIfTerminated
  <2>2. CASE ~(\E t \in Terminators : TerminateLaunch(t))
    BY <1>3, <1>6, <2>2 DEF HandlerNext, RejectedDevice, Posting,
       PostReturned, AfterPostDevice, AfterPostTask, TerminateRunning,
       TerminateIdleTask, TerminateIdleDevice, TerminateAgain, HandlerRest,
       dsVars, runVars, histVars
  <2>3. QED BY <2>1, <2>2
<1>7. ASSUME NEW t \in Terminators, TermNext(t) \/ TermSpurious(t)
      PROVE  FlagInv'
  <2>1. CASE TermFlag(t)
    <3>1. Raising
      BY <2>1 DEF TermFlag, TermStep, Raising
    <3>2. QED BY <1>3, <2>1, <3>1 DEF TermFlag, TermStep, runVars, histVars
  <2>2. CASE ~TermFlag(t)
    BY <1>3, <1>7, <2>2 DEF TermNext, TermSpurious, TermPredRunning,
       TermPredStop, TermBlock, TermTask, TermDevice, TermFinish, TermStep,
       runVars, histVars
  <2>3. QED BY <2>1, <2>2
<1>8. CASE LoopOnly \/ Environment \/ StopLoop
  BY <1>3, <1>8 DEF LoopOnly, Environment, StopLoop, dsVars, runVars, histVars
<1>9. CASE ServerLeft
  BY <1>3, <1>9 DEF ServerLeft, HandlerRest, runVars, histVars
<1>10. CASE UNCHANGED allVars
  BY <1>3, <1>10 DEF allVars, dsVars, runVars, histVars
<1>11. CASE EntNext \/ PollEnqueued
  <2> USE DEF AfterReset, LockedPcs
  <2>1. ASSUME entPc' \notin AfterReset PROVE FlagInv'
    BY <2>1 DEF FlagInv, EndsEarlyOnlyIfTerminated
  <2>2. ASSUME entPc \in AfterReset, entPc' # "end_task",
               UNCHANGED <<terminateSeen, to_task_terminate_>>
        PROVE  FlagInv'
    BY <1>2, <2>2 DEF FlagInv, EndsEarlyOnlyIfTerminated
  <2>3. CASE RunReset
    BY <2>3 DEF RunReset, EntStep, FlagInv, EndsEarlyOnlyIfTerminated,
       termVars, Raising
  <2>4. CASE PollCheck
    <3>1. /\ entPc \in AfterReset
          /\ UNCHANGED <<terminateSeen, to_task_terminate_, remain_num_>>
          /\ entPc' = "end_task" => remain_num_ < 1 \/ to_task_terminate_
      BY <2>4 DEF PollCheck, EntStep, EntOnly, runVars, histVars,
         is_to_terminate_msg_poll_
    <3>2. remain_num_ \in Nat
      BY DEF DSTypeOK
    <3>3. QED BY <1>2, <3>1, <3>2 DEF FlagInv, EndsEarlyOnlyIfTerminated
  <2>5. CASE StartEntity
    <3>1. LastKind \in Kinds /\ Current.kind = LastKind
      BY <2>5, LatestPost, RunningIsLatest, RunningFilled
         DEF StartEntity, IInv
    <3>2. entPc' \notin AfterReset
      BY <2>5, <3>1, KindsAssumption DEF StartEntity, FirstPc
    <3>3. QED BY <2>1, <3>2
  <2>6. CASE EndEntity \/ reboot \/ UpdateDevice \/ UpdateTask
             \/ UpdateStage("update_testbed", "update_license")
             \/ UpdateStage("update_license", "update_device")
             \/ RunDevice \/ RunInfo \/ RunLock
    BY <2>1, <2>6 DEF EndEntity, reboot, UpdateStage, UpdateDevice,
       UpdateTask, RunDevice, RunInfo, RunLock, EntStep
  <2>7. ASSUME NEW kind \in FileKinds, NEW end \in Ends,
               FileDevice(kind, end) \/ FileTask(kind, end)
        PROVE  FlagInv'
    <3>1. FilePc[kind][end] \notin AfterReset /\ end \notin AfterReset
      BY DEF FileKinds, Ends, FilePc
    <3>2. QED BY <2>1, <2>7, <3>1 DEF FileDevice, FileTask, EntStep
  <2>8. CASE RunLoad \/ LoadFailDevice \/ LoadFailTask \/ RunLoaded
    BY <2>2, <2>8 DEF RunLoad, LoadFailDevice, LoadFailTask, RunLoaded,
       EntStep, EntOnly, histVars
  <2>9. CASE PollEmpty \/ PollMessage \/ PollEnqueued \/ RunEndTask
             \/ RunEndDevice
    BY <2>2, <2>9 DEF PollEmpty, PollMessage, PollEnqueued, RunEndTask,
       RunEndDevice, EntStep, EntOnly, histVars
  <2>10. ASSUME NEW end \in Ends, RunUnlock(end) \/ RunNotify(end)
         PROVE  FlagInv'
    <3>1. NotifyPc[end] \notin AfterReset /\ end \notin AfterReset
      BY DEF Ends, NotifyPc
    <3>2. QED BY <2>1, <2>10, <3>1 DEF RunUnlock, RunNotify, EntStep
  <2>11. QED
    BY <1>11, <2>3, <2>4, <2>5, <2>6, <2>7, <2>8, <2>9, <2>10 DEF EntNext
<1>12. QED
  BY <1>4, <1>5, <1>6, <1>7, <1>8, <1>9, <1>10, <1>11 DEF DSNext

-----------------------------------------------------------------------------
(* Histories.                                                              *)

(* The steps of a callable keep the posts and the handlers as they are.    *)
LEMMA EntityFrame ==
  ASSUME EntNext \/ PollEnqueued
  PROVE  /\ UNCHANGED <<posts, httpPc>>
         /\ LastKind' = LastKind
         /\ StartEntity \/ EndEntity \/ UNCHANGED vars
<1>1. CASE StartEntity \/ EndEntity
  BY <1>1, LastKindFrame DEF StartEntity, EndEntity, TaskStart, TaskReturn,
     LoopStep
<1>2. CASE ~(StartEntity \/ EndEntity)
  <2>1. UNCHANGED <<vars, httpPc>>
    BY <1>2 DEF EntNext, PollEnqueued, reboot, UpdateStage, UpdateDevice,
       UpdateTask, FileDevice, FileTask, RunDevice, RunInfo, RunLock,
       RunReset, RunLoad, LoadFailDevice, LoadFailTask, RunLoaded, PollCheck,
       PollEmpty, PollMessage, RunEndTask, RunEndDevice, RunUnlock, RunNotify,
       EntStep
  <2>2. QED BY <2>1, LastKindFrame DEF vars
<1>3. QED BY <1>1, <1>2

(* A request is accepted.                                                  *)
Admit == \E r \in Request : PostAdmit(r)

(* Every other step leaves the callable alone and neither starts nor ends  *)
(* one.                                                                    *)
LEMMA OutsideFrame ==
  ASSUME [DSNext]_allVars, ~(EntNext \/ PollEnqueued)
  PROVE  /\ UNCHANGED <<entPc, lastTask, lastUpdate>>
         /\ Executed' = Executed
         /\ loopPc' = "run" <=> loopPc = "run"
         /\ \/ posts' = posts /\ LastKind' = LastKind
            \/ Admit
<1> DEFINE Goal == /\ UNCHANGED <<entPc, lastTask, lastUpdate, ran>>
                   /\ loopPc' = "run" <=> loopPc = "run"
                   /\ posts' = posts \/ Admit
<1> SUFFICES Goal
  BY ExecutedSame, LastKindFrame
<1> USE DEF HandlerRest, histVars
<1>1. ASSUME NEW r \in Request, AdmitRequest(r) \/ RejectRequest(r) PROVE Goal
  <2>1. CASE AdmitRequest(r)
    <3>1. Admit
      BY <2>1 DEF AdmitRequest, Admit
    <3>2. QED BY <2>1, <3>1 DEF AdmitRequest, PostAdmit
  <2>2. CASE RejectRequest(r)
    BY <2>2 DEF RejectRequest, PostReject
  <2>3. QED BY <1>1, <2>1, <2>2
<1>2. ASSUME NEW j \in Jobs \cup {NoJob}, Terminate(j) PROVE Goal
  BY <1>2 DEF Terminate, vars
<1>3. CASE HandlerNext
  <2>1. CASE Posting \/ PostReturned
    BY <2>1 DEF Posting, PostReturned, PostType, PostEntity, PostNotify,
       Notified, dsVars
  <2>2. CASE ~(Posting \/ PostReturned)
    BY <1>3, <2>2 DEF HandlerNext, RejectedDevice, AfterPostDevice,
       AfterPostTask, TerminateRunning, TerminateIdleTask,
       TerminateIdleDevice, TerminateAgain, TerminateLaunch, vars
  <2>3. QED BY <2>1, <2>2
<1>4. ASSUME NEW t \in Terminators, TermNext(t) \/ TermSpurious(t) PROVE Goal
  BY <1>4 DEF TermNext, TermSpurious, TermFlag, TermPredRunning, TermPredStop,
     TermBlock, TermTask, TermDevice, TermFinish, TermStep, vars
<1>5. CASE LoopOnly \/ Environment
  BY <1>5 DEF LoopOnly, Environment, LoopTop, LoopPred, LoopBlock, LoopStop,
     TaskUnknown, LoopClear, LoopStep, Interrupt, SpuriousWakeup, MainJoined,
     dsVars
<1>6. CASE ServerLeft \/ StopLoop
  BY <1>6 DEF ServerLeft, StopLoop, ServerStop, Notified, dsVars, vars
<1>7. CASE UNCHANGED allVars
  BY <1>7 DEF allVars, dsVars, vars
<1>8. QED
  BY <1>1, <1>2, <1>3, <1>4, <1>5, <1>6, <1>7 DEF DSNext

(* An accepted request fills the slot's place in the history: the new post *)
(* has not been executed and no callable is running.                       *)
LEMMA Admitted ==
  ASSUME IInv, Admit
  PROVE  /\ Len(posts') = Len(posts) + 1
         /\ Len(posts') \notin Executed'
         /\ Storing'
         /\ loopPc \notin {"run", "clear"} /\ loopPc' = loopPc
         /\ postPc' = "store"
         /\ task_type_' = task_type_
<1>0. PICK r \in Request : PostAdmit(r)
  BY DEF Admit
<1>1. Len(posts') = Len(posts) + 1 /\ Len(posts) \in Nat
  BY <1>0, PostsAppend DEF PostAdmit, IInv, TypeOK
<1>2. Executed' = Executed /\ Executed \subseteq 1 .. Len(posts)
  BY <1>0, ExecutedSame DEF PostAdmit, IInv, ExecutedInv
<1>3. Len(posts') \notin Executed'
  BY <1>1, <1>2
<1>4. QED BY <1>0, <1>1, <1>3 DEF PostAdmit, Storing, IInv, ControlInv

LEMMA HistoryStep ==
  IInv /\ DSTypeOK /\ FlowInv /\ HistoryInv /\ [DSNext]_allVars => HistoryInv'
<1> SUFFICES ASSUME IInv, DSTypeOK, FlowInv, HistoryInv, [DSNext]_allVars
             PROVE  HistoryInv'
  OBVIOUS
<1>1. CASE EndEntity
  <2>1. /\ loopPc = "run" /\ loopPc' = "clear"
        /\ UNCHANGED <<posts, task_type_, ran>>
        /\ lastTask' = Current.kind
    BY <1>1 DEF EndEntity, TaskReturn, LoopStep
  <2>2. Executed' = Executed /\ LastKind' = LastKind
    BY <2>1, ExecutedSame, LastKindFrame
  <2>3. Current.kind = LastKind /\ Len(posts) \in Executed
    BY <2>1, RunningIsLatest, RunningFilled DEF IInv, ExecutedInv
  <2>4. QED BY <2>1, <2>2, <2>3 DEF HistoryInv
<1>2. CASE StartEntity
  <2>1. /\ loopPc' = "run" /\ task_type_ \in Kinds
        /\ UNCHANGED <<posts, task_type_, lastTask>>
        /\ ran' = Append(ran, task_entity_)
    BY <1>2 DEF StartEntity, TaskStart, LoopStep, histVars
  <2>2. task_entity_ = Len(posts) /\ ran \in Seq(Nat) /\ Len(posts) \in Nat
    BY <1>2, RunningIsLatest, RunningFilled DEF StartEntity, IInv, TypeOK
  <2>3. Len(posts) \in Executed'
    BY <2>1, <2>2, ExecutedAppend
  <2>4. QED BY <2>1, <2>3 DEF HistoryInv
<1>3. ASSUME UNCHANGED <<vars, lastTask>> PROVE HistoryInv'
  BY <1>3, LastKindFrame, ExecutedSame DEF vars, HistoryInv, Storing
<1>4. CASE EntNext \/ PollEnqueued
  <2>1. UNCHANGED lastTask \/ EndEntity
    BY <1>4 DEF EntNext, PollEnqueued, StartEntity, reboot, UpdateStage,
       UpdateDevice, UpdateTask, FileDevice, FileTask, RunDevice, RunInfo,
       RunLock, RunReset, RunLoad, LoadFailDevice, LoadFailTask, RunLoaded,
       PollCheck, PollEmpty, PollMessage, RunEndTask, RunEndDevice, RunUnlock,
       RunNotify, EntOnly, histVars
  <2>2. QED BY <1>1, <1>2, <1>3, <1>4, <2>1, EntityFrame
<1>5. ASSUME ~(EntNext \/ PollEnqueued) PROVE HistoryInv'
  <2>1. /\ UNCHANGED lastTask /\ Executed' = Executed
        /\ loopPc' = "run" <=> loopPc = "run"
    BY <1>5, OutsideFrame
  <2>2. CASE Admit
    BY <2>1, <2>2, Admitted DEF HistoryInv
  <2> DEFINE TypeKept == /\ posts' = posts
                         /\ task_type_' = task_type_ \/ task_type_' \in Kinds
  <2>3. ASSUME TypeKept,
               Storing => \/ Storing'
                          \/ task_entity_' # Null /\ loopPc' # "clear",
               task_entity_ # Null /\ loopPc # "clear"
                 => task_entity_' # Null /\ loopPc' # "clear"
        PROVE  HistoryInv'
    BY <2>1, <2>3, LastKindFrame DEF HistoryInv
  <2>4. CASE PostType
    <3>1. posts[Len(posts)] \in Request
      BY <2>4 DEF PostType, IInv, TypeOK, ControlInv
    <3>2. task_type_' \in Kinds
      BY <2>4, <3>1, RequestAssumption DEF PostType
    <3>3. UNCHANGED <<posts, task_entity_, loopPc>>
      BY <2>4 DEF PostType
    <3>4. Storing => Storing'
      BY <2>4 DEF PostType, AfterStore, Storing
    <3>5. QED BY <2>1, <3>2, <3>3, <3>4, LastKindFrame DEF HistoryInv
  <2>5. CASE PostEntity
    <3>1. loopPc # "clear" /\ task_entity_' # Null
      BY <2>5 DEF PostEntity, IInv, TypeOK, ControlInv, Null
    <3>2. QED BY <2>3, <2>5, <3>1 DEF PostEntity
  <2>6. CASE PostReject \/ PostNotify
    BY <2>3, <2>6 DEF PostReject, PostNotify, Notified, Storing, IInv, ControlInv
  <2>7. CASE LoopTop \/ LoopPred \/ LoopBlock \/ LoopStop \/ SpuriousWakeup
    BY <2>3, <2>7 DEF LoopTop, LoopPred, LoopBlock, LoopStop, SpuriousWakeup,
       LoopStep, Storing
  <2>8. CASE LoopClear
    <3>1. loopPc = "clear"
      BY <2>8 DEF LoopClear, LoopStep
    <3>2. QED BY <2>3, <2>8, <3>1 DEF LoopClear, LoopStep, Storing
  <2>9. CASE TaskUnknown
    <3>1. lastTask = "none" /\ UNCHANGED <<posts, task_type_>>
      BY <2>9 DEF TaskUnknown, LoopStep, HistoryInv
    <3>2. QED BY <2>1, <2>9, <3>1, LastKindFrame DEF TaskUnknown, LoopStep,
      HistoryInv
  <2>10. ~TaskStart /\ ~TaskReturn
    BY <2>1 DEF TaskStart, TaskReturn, LoopStep
  <2>11. CASE Interrupt \/ ServerStop \/ MainJoined
    <3>1. /\ UNCHANGED <<posts, task_type_, task_entity_, postPc, stores>>
          /\ loopPc' = "clear" <=> loopPc = "clear"
      BY <2>11 DEF Interrupt, ServerStop, MainJoined, Notified
    <3>2. QED BY <2>1, <3>1, LastKindFrame DEF HistoryInv, Storing
  <2>12. CASE UNCHANGED vars
    BY <1>3, <2>1, <2>12
  <2>13. QED
    BY <2>2, <2>4, <2>5, <2>6, <2>7, <2>8, <2>9, <2>10, <2>11, <2>12, SuitStep
       DEF Next, PostStep, LoopNext, Admit
<1>6. QED BY <1>4, <1>5

-----------------------------------------------------------------------------
(* The success of an update in the device word.                            *)

(* UPDATE_SUCCESS is written by UpdateDevice only.                         *)
LEMMA SuccessFrame ==
  ASSUME FlowInv, [DSNext]_allVars, "UPDATE_SUCCESS" \in device_state_'
  PROVE  device_state_' = device_state_ \/ UpdateDevice
<1> USE DEF statusVars, replace_device_state, replace_task_state
<1>1. ASSUME NEW r \in Request, AdmitRequest(r) \/ RejectRequest(r)
      PROVE  device_state_' = device_state_
  BY <1>1 DEF AdmitRequest, RejectRequest
<1>2. ASSUME NEW j \in Jobs \cup {NoJob}, Terminate(j)
      PROVE  device_state_' = device_state_
  BY <1>2 DEF Terminate
<1>3. CASE HandlerNext
  <2>1. ~(\E kind \in DOMAIN FailFlag : RejectedDevice(kind))
    BY DEF RejectedDevice, FailFlag
  <2>2. ~AfterPostDevice
    BY DEF AfterPostDevice, HttpStep, FlowInv, LastKind, BusyFlag
  <2>3. ~TerminateIdleDevice
    BY DEF TerminateIdleDevice
  <2>4. QED
    BY <1>3, <2>1, <2>2, <2>3 DEF HandlerNext, Posting, PostReturned,
       AfterPostTask, TerminateRunning, TerminateIdleTask, TerminateAgain,
       TerminateLaunch, dsVars
<1>4. ASSUME NEW t \in Terminators, TermNext(t) \/ TermSpurious(t)
      PROVE  device_state_' = device_state_
  BY <1>4 DEF TermNext, TermSpurious, TermFlag, TermPredRunning, TermPredStop,
     TermBlock, TermTask, TermDevice, TermFinish
<1>5. CASE EntNext \/ PollEnqueued
  <2>1. ~(\E kind \in FileKinds, end \in Ends : FileDevice(kind, end))
    BY DEF FileDevice, FailFlag, FileKinds, Ends
  <2>2. ~reboot /\ ~RunDevice /\ ~LoadFailDevice /\ ~RunEndDevice
    BY DEF reboot, RunDevice, LoadFailDevice, RunEndDevice
  <2>3. QED
    BY <1>5, <2>1, <2>2 DEF EntNext, PollEnqueued, StartEntity, UpdateStage,
       UpdateTask, FileTask, RunInfo, RunLock, RunReset, RunLoad,
       LoadFailTask, RunLoaded, PollCheck, PollEmpty, PollMessage,
       RunEndTask, RunUnlock, RunNotify, EndEntity
<1>6. CASE LoopOnly \/ Environment \/ ServerLeft \/ StopLoop \/ UNCHANGED allVars
  BY <1>6 DEF LoopOnly, Environment, ServerLeft, StopLoop, allVars, dsVars
<1>7. QED
  BY <1>1, <1>2, <1>3, <1>4, <1>5, <1>6 DEF DSNext

(* The handler that will overwrite the device word.                        *)
Overwriting == httpPc \in {"posting", "after_device"} /\ LastKind = "update"

(* It stays at it until it has written the word.                           *)
LEMMA OverwritingFrame ==
  ASSUME Overwriting, [DSNext]_allVars, "UPDATE_SUCCESS" \in device_state_'
  PROVE  Overwriting'
<1> USE DEF HttpStep, Overwriting
<1>1. ASSUME UNCHANGED <<posts, httpPc>> PROVE Overwriting'
  BY <1>1, LastKindFrame
<1>2. ASSUME NEW r \in Request PROVE ~AdmitRequest(r) /\ ~RejectRequest(r)
  BY DEF AdmitRequest, RejectRequest
<1>3. ASSUME NEW j \in Jobs \cup {NoJob} PROVE ~Terminate(j)
  BY DEF Terminate
<1>4. CASE HandlerNext
  <2>1. CASE Posting
    BY <1>1, <2>1 DEF Posting, PostType, PostEntity, dsVars
  <2>2. CASE PostReturned
    <3>1. posts' = posts /\ LastKind' = LastKind
      BY <2>2, LastKindFrame DEF PostReturned, PostNotify
    <3>2. httpPc' = "after_device"
      BY <2>2 DEF PostReturned, LastKind, BusyFlag
    <3>3. QED BY <3>1, <3>2
  <2>3. ~AfterPostDevice
    BY DEF AfterPostDevice, LastKind, BusyFlag, replace_device_state
  <2>4. ~AfterPostTask /\ ~TerminateRunning /\ ~TerminateIdleTask
        /\ ~TerminateIdleDevice /\ ~TerminateAgain
    BY DEF AfterPostTask, TerminateRunning, TerminateIdleTask,
       TerminateIdleDevice, TerminateAgain
  <2>5. ASSUME NEW kind \in DOMAIN FailFlag PROVE ~RejectedDevice(kind)
    BY DEF RejectedDevice, FailFlag, RejectPc
  <2>6. ASSUME NEW t \in Terminators PROVE ~TerminateLaunch(t)
    BY DEF TerminateLaunch
  <2>7. QED
    BY <1>4, <2>1, <2>2, <2>3, <2>4, <2>5, <2>6 DEF HandlerNext
<1>5. ASSUME NEW t \in Terminators, TermNext(t) \/ TermSpurious(t)
      PROVE  Overwriting'
  BY <1>1, <1>5 DEF TermNext, TermSpurious, TermFlag, TermPredRunning,
     TermPredStop, TermBlock, TermTask, TermDevice, TermFinish, TermStep, vars
<1>6. CASE EntNext \/ PollEnqueued
  BY <1>1, <1>6, EntityFrame
<1>7. CASE LoopOnly \/ Environment
  BY <1>1, <1>7 DEF LoopOnly, Environment, LoopTop, LoopPred, LoopBlock,
     LoopStop, TaskUnknown, LoopClear, LoopStep, Interrupt, SpuriousWakeup,
     MainJoined, dsVars
<1>8. ~ServerLeft /\ ~StopLoop
  BY DEF ServerLeft, StopLoop
<1>9. CASE UNCHANGED allVars
  BY <1>1, <1>9 DEF allVars, vars, dsVars
<1>10. QED
  BY <1>2, <1>3, <1>4, <1>5, <1>6, <1>7, <1>8, <1>9 DEF DSNext

(* A callable that has ended only returns; an update whose success has     *)
(* been written ends.                                                      *)
LEMMA EntityEnds ==
  ASSUME EntNext \/ PollEnqueued, ~StartEntity, ~EndEntity
  PROVE  /\ entPc \notin Ends
         /\ entPc = "update_task" => entPc' = "ok"
<1> USE DEF EntStep, Ends
<1>1. ASSUME NEW kind \in FileKinds, NEW end \in Ends,
             FileDevice(kind, end) \/ FileTask(kind, end)
      PROVE  entPc \notin Ends \cup {"update_task"}
  <2>1. {kind, FilePc[kind][end]} \cap (Ends \cup {"update_task"}) = {}
    BY DEF FileKinds, FilePc
  <2>2. entPc \in {kind, FilePc[kind][end]}
    BY <1>1 DEF FileDevice, FileTask
  <2>3. QED BY <2>1, <2>2
<1>2. ASSUME NEW end \in Ends, RunUnlock(end) \/ RunNotify(end)
      PROVE  entPc \notin Ends \cup {"update_task"}
  BY <1>2 DEF RunUnlock, RunNotify, UnlockPc, NotifyPc
<1>3. CASE ~(\E kind \in FileKinds, end \in Ends :
               FileDevice(kind, end) \/ FileTask(kind, end))
           /\ ~(\E end \in Ends : RunUnlock(end) \/ RunNotify(end))
  BY <1>3 DEF EntNext, PollEnqueued, reboot, UpdateStage, UpdateDevice,
     UpdateTask, RunDevice, RunInfo, RunLock, RunReset, RunLoad,
     LoadFailDevice, LoadFailTask, RunLoaded, PollCheck, PollEmpty,
     PollMessage, RunEndTask, RunEndDevice
<1>4. QED BY <1>1, <1>2, <1>3

LEMMA SuccessStep ==
  IInv /\ DSTypeOK /\ FlowInv /\ FlowInv' /\ SuccessInv /\ [DSNext]_allVars
    => SuccessInv'
<1> SUFFICES ASSUME IInv, DSTypeOK, FlowInv, FlowInv', SuccessInv,
                    [DSNext]_allVars, "UPDATE_SUCCESS" \in device_state_'
             PROVE  \/ Overwriting'
                    \/ UpdateOpen' /\ entPc' \in {"update_task", "ok"}
                    \/ ~UpdateOpen' /\ lastUpdate' = "ok"
  BY DEF SuccessInv, Overwriting
<1>1. /\ Len(posts) \in Nat
      /\ loopPc = "run" => Len(posts) > 0 /\ Current.kind = LastKind
                            /\ Len(posts) \in Executed
      /\ entPc # "none" <=> loopPc = "run"
  BY RunningIsLatest, RunningFilled DEF IInv, TypeOK, ExecutedInv, FlowInv
<1>2. CASE UpdateDevice
  <2>1. /\ entPc = "update_device" /\ entPc' = "update_task"
        /\ UNCHANGED vars
    BY <1>2 DEF UpdateDevice, EntStep
  <2>2. LastKind = "update" /\ loopPc = "run"
    BY <2>1 DEF FlowInv, UpdatePcs
  <2>3. UpdateOpen'
    BY <1>1, <2>1, <2>2, LastKindFrame DEF UpdateOpen, vars
  <2>4. QED BY <2>1, <2>3
<1>3. ASSUME device_state_' = device_state_
      PROVE  \/ Overwriting'
             \/ UpdateOpen' /\ entPc' \in {"update_task", "ok"}
             \/ ~UpdateOpen' /\ lastUpdate' = "ok"
  <2>1. \/ Overwriting
        \/ UpdateOpen /\ entPc \in {"update_task", "ok"}
        \/ ~UpdateOpen /\ lastUpdate = "ok"
    BY <1>3 DEF SuccessInv, Overwriting
  <2>2. CASE Overwriting
    BY <2>2, OverwritingFrame
  <2>3. CASE EndEntity
    <3>1. /\ loopPc = "run" /\ loopPc' = "clear" /\ UNCHANGED <<posts, ran>>
          /\ entPc \in {"ok", "failed"}
          /\ lastUpdate' = IF Current.kind = "update" THEN entPc ELSE lastUpdate
      BY <2>3 DEF EndEntity, TaskReturn, LoopStep
    <3>2. ~UpdateOpen'
      BY <1>1, <3>1, ExecutedSame DEF UpdateOpen
    <3>3. UpdateOpen <=> LastKind = "update"
      BY <1>1, <3>1 DEF UpdateOpen
    <3>4. QED BY <1>1, <2>1, <2>2, <3>1, <3>2, <3>3
  <2>4. CASE StartEntity
    <3>1. /\ loopPc = "got" /\ ~signal_status /\ posts' = posts
          /\ lastUpdate' = lastUpdate /\ loopPc' = "run"
      BY <2>4 DEF StartEntity, TaskStart, LoopStep, histVars
    <3>2. task_entity_ = Len(posts) /\ Len(posts) > 0 /\ task_entity_ # Null
      BY <2>4, RunningIsLatest, RunningFilled DEF StartEntity
    <3>3. Len(posts) \notin Executed
      BY <3>1, <3>2 DEF IInv, ExecutedInv
    <3>4. UpdateOpen' => UpdateOpen
      BY <3>1, <3>2, <3>3, LastKindFrame DEF UpdateOpen
    <3>5. entPc = "none"
      BY <1>1, <3>1
    <3>6. QED BY <2>1, <2>2, <3>1, <3>4, <3>5
  <2>5. ASSUME EntNext \/ PollEnqueued, ~EndEntity, ~StartEntity
        PROVE  \/ Overwriting'
               \/ UpdateOpen' /\ entPc' \in {"update_task", "ok"}
               \/ ~UpdateOpen' /\ lastUpdate' = "ok"
    <3>1. vars' = vars
      BY <2>5, EntityFrame
    <3>2. UpdateOpen' <=> UpdateOpen
      BY <3>1, LastKindFrame, ExecutedSame DEF UpdateOpen, vars
    <3>3. lastUpdate' = lastUpdate
      BY <2>5 DEF EntNext, PollEnqueued, reboot, UpdateStage, UpdateDevice,
         UpdateTask, FileDevice, FileTask, RunDevice, RunInfo, RunLock,
         RunReset, RunLoad, LoadFailDevice, LoadFailTask, RunLoaded,
         PollCheck, PollEmpty, PollMessage, RunEndTask, RunEndDevice,
         RunUnlock, RunNotify, EntOnly, histVars
    <3>4. entPc # "ok" /\ (entPc = "update_task" => entPc' = "ok")
      BY <2>5, EntityEnds DEF Ends
    <3>5. QED BY <2>1, <2>2, <3>2, <3>3, <3>4
  <2>6. ASSUME ~(EntNext \/ PollEnqueued)
        PROVE  \/ Overwriting'
               \/ UpdateOpen' /\ entPc' \in {"update_task", "ok"}
               \/ ~UpdateOpen' /\ lastUpdate' = "ok"
    <3>1. /\ UNCHANGED <<entPc, lastUpdate>> /\ Executed' = Executed
          /\ loopPc' = "run" <=> loopPc = "run"
          /\ \/ posts' = posts /\ LastKind' = LastKind
            \/ Admit
      BY <2>6, OutsideFrame
    <3>2. CASE Admit
      <4>1. loopPc # "run" /\ postPc' = "store"
        BY <3>2, Admitted
      <4>2. httpPc' = "posting" /\ entPc = "none"
        BY <1>1, <4>1 DEF FlowInv
      <4>3. CASE LastKind' = "update"
        BY <4>2, <4>3 DEF Overwriting
      <4>4. CASE ~UpdateOpen /\ LastKind' # "update"
        BY <2>1, <2>2, <3>1, <4>2, <4>4 DEF UpdateOpen
      <4>5. CASE UpdateOpen /\ LastKind' # "update"
        BY <2>1, <2>2, <4>2, <4>5, OverwritingFrame
      <4>6. QED BY <4>3, <4>4, <4>5
    <3>3. CASE posts' = posts /\ LastKind' = LastKind
      <4>1. UpdateOpen' <=> UpdateOpen
        BY <3>1, <3>3 DEF UpdateOpen
      <4>2. QED BY <2>1, <2>2, <3>1, <4>1
    <3>4. QED BY <3>1, <3>2, <3>3
  <2>7. QED BY <2>3, <2>4, <2>5, <2>6
<1>4. QED BY <1>2, <1>3, SuccessFrame

-----------------------------------------------------------------------------
(* The status words behind a run.                                          *)

(* From here on the words only take values a finished run may leave.       *)
Ending == RunOver \/ entPc \in {"load_task", "end_device"}

LEMMA EndingIsRun ==
  ASSUME FlowInv, Ending PROVE LastKind = "run"
  BY DEF FlowInv, Ending, RunOver, RunEnding, RunPcs, LockedPcs

(* What the steps outside the callable write while a run is ending.        *)
LEMMA EndingWrites ==
  ASSUME FlowInv, Ending, [DSNext]_allVars, ~(EntNext \/ PollEnqueued)
  PROVE  /\ device_state_' = device_state_ \/ FreeDevice'
         /\ task_state_' = task_state_ \/ EndedTask'
<1> DEFINE Goal == /\ device_state_' = device_state_ \/ FreeDevice'
                   /\ task_state_' = task_state_ \/ EndedTask'
<1> USE DEF statusVars, replace_device_state, replace_task_state, FreeDevice,
            EndedTask
<1>1. ASSUME NEW r \in Request, AdmitRequest(r) \/ RejectRequest(r) PROVE Goal
  BY <1>1 DEF AdmitRequest, RejectRequest
<1>2. ASSUME NEW j \in Jobs \cup {NoJob}, Terminate(j) PROVE Goal
  BY <1>2 DEF Terminate
<1>3. CASE HandlerNext
  <2>1. ASSUME NEW kind \in DOMAIN FailFlag, RejectedDevice(kind) PROVE Goal
    <3>1. kind \in FileKinds
      BY DEF FailFlag, FileKinds
    <3>2. device_state_' = {"BUSY", FailFlag[kind]} /\ task_state_' = task_state_
      BY <2>1 DEF RejectedDevice
    <3>3. QED BY <3>1, <3>2
  <2>2. ~AfterPostDevice /\ ~AfterPostTask
    <3>1. httpPc \notin {"after_device", "after_task"}
      BY EndingIsRun DEF FlowInv, BusyFlag
    <3>2. QED BY <3>1 DEF AfterPostDevice, AfterPostTask, HttpStep
  <2>3. CASE TerminateIdleTask \/ TerminateIdleDevice
    BY <2>3 DEF TerminateIdleTask, TerminateIdleDevice
  <2>4. ASSUME NEW t \in Terminators, TerminateLaunch(t) PROVE Goal
    BY <2>4 DEF TerminateLaunch
  <2>5. CASE Posting \/ PostReturned \/ TerminateRunning \/ TerminateAgain
    BY <2>5 DEF Posting, PostReturned, TerminateRunning, TerminateAgain, dsVars
  <2>6. QED
    BY <1>3, <2>1, <2>2, <2>3, <2>4, <2>5 DEF HandlerNext
<1>4. ASSUME NEW t \in Terminators, TermNext(t) \/ TermSpurious(t) PROVE Goal
  BY <1>4 DEF TermNext, TermSpurious, TermFlag, TermPredRunning, TermPredStop,
     TermBlock, TermTask, TermDevice, TermFinish
<1>5. CASE LoopOnly \/ Environment \/ ServerLeft \/ StopLoop
  BY <1>5 DEF LoopOnly, Environment, ServerLeft, StopLoop, dsVars
<1>6. CASE UNCHANGED allVars
  BY <1>6 DEF allVars, dsVars
<1>7. QED
  BY <1>1, <1>2, <1>3, <1>4, <1>5, <1>6 DEF DSNext

(* A step outside the callable begins no ending.                           *)
LEMMA EndingFrame ==
  ASSUME IInv, FlowInv, [DSNext]_allVars, ~(EntNext \/ PollEnqueued)
  PROVE  /\ RunOver' => RunOver
         /\ entPc' = entPc
<1>1. /\ entPc' = entPc /\ Executed' = Executed
      /\ loopPc' = "run" <=> loopPc = "run"
      /\ \/ posts' = posts /\ LastKind' = LastKind
         \/ Admit
  BY OutsideFrame
<1>2. CASE posts' = posts /\ LastKind' = LastKind
  BY <1>1, <1>2 DEF RunOver
<1>3. CASE Admit
  <2>1. entPc = "none" /\ Len(posts') \notin Executed'
    BY <1>3, Admitted DEF FlowInv
  <2>2. QED BY <1>1, <2>1 DEF RunOver, RunEnding, Ends
<1>4. QED BY <1>1, <1>2, <1>3

LEMMA RunStep ==
  IInv /\ DSTypeOK /\ FlowInv /\ FlowInv' /\ RunInv /\ [DSNext]_allVars
    => RunInv'
<1> SUFFICES ASSUME IInv, DSTypeOK, FlowInv, FlowInv', RunInv, [DSNext]_allVars
             PROVE  RunInv'
  OBVIOUS
<1>1. CASE ~(EntNext \/ PollEnqueued)
  <2>1. (RunOver' => RunOver) /\ entPc' = entPc
    BY <1>1, EndingFrame
  <2>2. CASE ~Ending
    BY <2>1, <2>2 DEF Ending, RunInv
  <2>3. CASE Ending
    <3>1. /\ device_state_' = device_state_ \/ FreeDevice'
          /\ task_state_' = task_state_ \/ EndedTask'
      BY <1>1, <2>3, EndingWrites
    <3>2. /\ device_state_' = device_state_ => (FreeDevice => FreeDevice')
          /\ task_state_' = task_state_ => (EndedTask => EndedTask')
      BY DEF FreeDevice, EndedTask
    <3>3. QED BY <2>1, <3>1, <3>2 DEF RunInv
  <2>4. QED BY <2>2, <2>3
<1>2. CASE EntNext \/ PollEnqueued
  <2>1. LastKind' = LastKind
    BY <1>2, EntityFrame
  <2>2. ASSUME ~RunOver', entPc' \notin {"load_task", "end_device"}
        PROVE  RunInv'
    BY <2>2 DEF RunInv
  <2>3. ASSUME RunOver, UNCHANGED statusVars,
               entPc' \notin {"load_task", "end_device"}
        PROVE  RunInv'
    BY <2>3 DEF RunInv, statusVars, FreeDevice, EndedTask
  <2>4. CASE EndEntity
    <3>1. /\ entPc \in Ends /\ entPc' = "none" /\ UNCHANGED statusVars
      BY <2>4 DEF EndEntity, Ends
    <3>2. LastKind = "run" => RunOver
      BY <3>1 DEF RunOver
    <3>3. LastKind # "run" => ~RunOver'
      BY <2>1, <3>1 DEF RunOver, RunEnding, Ends
    <3>4. QED BY <2>2, <2>3, <3>1, <3>2, <3>3
  <2>5. CASE StartEntity
    <3>1. loopPc' = "run"
      BY <2>5 DEF StartEntity, TaskStart, LoopStep
    <3>2. LastKind \in Kinds /\ Current.kind = LastKind
      BY <2>5, LatestPost, RunningIsLatest, RunningFilled
         DEF StartEntity, IInv
    <3>3. entPc' \notin RunEnding \cup Ends \cup {"load_task", "end_device"}
      BY <2>5, <3>2, KindsAssumption DEF StartEntity, FirstPc, RunEnding, Ends
    <3>4. QED BY <2>2, <3>1, <3>3 DEF RunOver
  <2>6. ASSUME ~StartEntity, ~EndEntity PROVE RunInv'
    <3> USE DEF EntStep, EntOnly, statusVars, replace_device_state,
                replace_task_state, RunEnding, Ends
    <3>1. ASSUME entPc' \notin RunEnding \cup Ends
                               \cup {"none", "load_task", "end_device"}
          PROVE  RunInv'
      BY <2>2, <3>1 DEF FlowInv, RunOver
    <3>2. ASSUME LastKind # "run", entPc' \in Ends PROVE RunInv'
      BY <2>1, <2>2, <3>2 DEF RunOver
    <3>3. CASE UpdateDevice \/ RunDevice \/ RunInfo \/ RunLock \/ RunReset
               \/ RunLoad \/ RunLoaded
      BY <3>1, <3>3 DEF UpdateDevice, RunDevice, RunInfo, RunLock, RunReset,
         RunLoad, RunLoaded
    <3>4. CASE PollCheck \/ PollEmpty \/ PollMessage \/ PollEnqueued
      BY <3>1, <3>4 DEF PollCheck, PollEmpty, PollMessage, PollEnqueued
    <3>5. CASE reboot \/ UpdateTask
      BY <3>2, <3>5 DEF reboot, UpdateTask, FlowInv, UpdatePcs
    <3>6. CASE \/ UpdateStage("update_testbed", "update_license")
               \/ UpdateStage("update_license", "update_device")
      <4>1. LastKind = "update"
        BY <3>6 DEF UpdateStage, FlowInv, UpdatePcs
      <4>2. QED BY <3>1, <3>2, <3>6, <4>1 DEF UpdateStage
    <3>7. ASSUME NEW kind \in FileKinds, NEW end \in Ends,
                 FileDevice(kind, end) \/ FileTask(kind, end)
          PROVE  RunInv'
      <4>1. FilePc[kind][end] \in FilePcs /\ kind \in FilePcs
        BY DEF FileKinds, FilePc, FilePcs
      <4>2. LastKind # "run"
        BY <3>7, <4>1 DEF FileDevice, FileTask, FlowInv, FileKinds
      <4>3. FilePc[kind][end] \notin RunEnding \cup Ends
                               \cup {"none", "load_task", "end_device"}
        BY DEF FileKinds, FilePc
      <4>4. QED BY <3>1, <3>2, <3>7, <4>2, <4>3 DEF FileDevice, FileTask
    <3>8. CASE LoadFailDevice \/ RunEndTask
      <4>1. ~RunOver'
        BY <3>8 DEF LoadFailDevice, RunEndTask, RunOver, FlowInv
      <4>2. CASE LoadFailDevice
        BY <4>1, <4>2 DEF LoadFailDevice, RunInv, FreeDevice
      <4>3. CASE RunEndTask
        BY <4>1, <4>3 DEF RunEndTask, RunInv, EndedTask
      <4>4. QED BY <3>8, <4>2, <4>3
    <3>9. CASE LoadFailTask
      BY <3>9 DEF LoadFailTask, RunInv, FreeDevice, EndedTask
    <3>10. CASE RunEndDevice
      BY <3>10 DEF RunEndDevice, RunInv, FreeDevice, EndedTask
    <3>11. ASSUME NEW end \in Ends, RunUnlock(end) \/ RunNotify(end)
           PROVE  RunInv'
      <4>1. /\ entPc \in RunEnding /\ UNCHANGED statusVars
            /\ entPc' \notin {"load_task", "end_device"}
        BY <3>11 DEF RunUnlock, RunNotify, UnlockPc, NotifyPc
      <4>2. QED BY <2>3, <4>1 DEF RunOver
    <3>12. QED
      BY <1>2, <2>6, <3>3, <3>4, <3>5, <3>6, <3>7, <3>8, <3>9, <3>10, <3>11
         DEF EntNext
  <2>7. QED BY <2>4, <2>5, <2>6
<1>3. QED BY <1>1, <1>2

-----------------------------------------------------------------------------
(* The invariant and what it says.                                         *)

LEMMA InitDSIInv == DSInit => DSIInv
<1> SUFFICES ASSUME DSInit PROVE DSIInv
  OBVIOUS
<1>1. posts = <<>> /\ ran = <<>> /\ loopPc = "top" /\ Len(posts) = 0
  BY DEF DSInit, Init
<1>2. Executed = {}
  BY <1>1 DEF Executed
<1>3. IInv /\ DSTypeOK /\ FlowInv
  BY InitIInv, InitDSTypeOK, InitFlow DEF DSInit
<1>4. SingleTerminator
  BY DEF DSInit, SingleTerminator, Alive
<1>5. FlagInv
  BY DEF DSInit, FlagInv, EndsEarlyOnlyIfTerminated, AfterReset, LockedPcs
<1>6. SuccessInv /\ HistoryInv /\ RunInv
  BY <1>1, <1>2 DEF DSInit, SuccessInv, HistoryInv, RunInv, RunOver,
     RunEnding, Ends
<1>7. QED BY <1>3, <1>4, <1>5, <1>6 DEF DSIInv

(* The inductive invariant of the service.                                 *)
THEOREM ServiceInvariance == DSSpec => []DSIInv
<1>1. DSIInv /\ [DSNext]_allVars => DSIInv'
  <2> SUFFICES ASSUME DSIInv, [DSNext]_allVars PROVE DSIInv'
    OBVIOUS
  <2>1. IInv'
    BY SuitStep, TypeStep, ControlStep, ExecutedStep, InOrderStep
       DEF DSIInv, IInv
  <2>2. DSTypeOK' /\ FlowInv'
    BY DSTypeStep, FlowStep DEF DSIInv
  <2>3. SingleTerminator' /\ FlagInv'
    BY SingleStep, FlagStep DEF DSIInv
  <2>4. SuccessInv' /\ HistoryInv' /\ RunInv'
    BY <2>2, SuccessStep, HistoryStep, RunStep DEF DSIInv
  <2>5. QED BY <2>1, <2>2, <2>3, <2>4 DEF DSIInv
<1>2. QED BY InitDSIInv, <1>1, PTL DEF DSSpec

(* Every field of the service keeps its C++ type.                          *)
THEOREM ServiceTypeCorrect == DSSpec => []DSTypeOK
<1>1. DSIInv => DSTypeOK
  BY DEF DSIInv
<1>2. QED BY <1>1, ServiceInvariance, PTL

(* However many terminate requests arrive and however many threads could   *)
(* be started, there is at most one terminate thread and is_terminating_   *)
(* says whether, although no lock protects it.                             *)
THEOREM OneTerminator == DSSpec => []SingleTerminator
<1>1. DSIInv => SingleTerminator
  BY DEF DSIInv
<1>2. QED BY <1>1, ServiceInvariance, PTL

(* A run gives up with messages still to take only if a terminate thread   *)
(* was on its way when, or after, the run lowered to_task_terminate_.      *)
THEOREM NoLeftoverTermination == DSSpec => []EndsEarlyOnlyIfTerminated
<1>1. DSIInv => EndsEarlyOnlyIfTerminated
  BY DEF DSIInv, FlagInv
<1>2. QED BY <1>1, ServiceInvariance, PTL

(* UPDATE_SUCCESS, once all is quiet, is about the latest update: the late *)
(* status writes of request handlers never uncover an older success.       *)
THEOREM SuccessIsLatest == DSSpec => []NoStaleSuccess
<1>1. DSIInv => NoStaleSuccess
  <2> SUFFICES ASSUME DSIInv, Quiet, "UPDATE_SUCCESS" \in device_state_
               PROVE  lastUpdate = "ok"
    BY DEF NoStaleSuccess
  <2>1. httpPc = "idle" /\ loopPc # "run"
    BY DEF Quiet, DSIInv, IInv, ControlInv
  <2>2. entPc = "none"
    BY <2>1 DEF DSIInv, FlowInv
  <2>3. QED BY <2>1, <2>2 DEF DSIInv, SuccessInv
<1>2. QED BY <1>1, ServiceInvariance, PTL

(* Whatever handlers and terminate threads wrote during and after a run,   *)
(* once all is quiet the device is free, up to the mark a rejected file    *)
(* request leaves, and the task is over or its load has failed.            *)
THEOREM FreeAfterRun == DSSpec => []RunLeavesFree
<1>1. DSIInv => RunLeavesFree
  <2> SUFFICES ASSUME DSIInv, Quiet, lastTask = "run"
               PROVE  FreeDevice /\ EndedTask
    BY DEF RunLeavesFree, FreeDevice, EndedTask
  <2>1. httpPc = "idle" /\ loopPc \notin {"run", "clear"} /\ task_entity_ = Null
    BY DEF Quiet, DSIInv, IInv, ControlInv
  <2>2. ~Storing
    BY <2>1 DEF DSIInv, FlowInv, Storing
  <2>3. Len(posts) \in Executed
    BY <2>1, <2>2 DEF DSIInv, HistoryInv
  <2>4. LastKind = "run"
    BY <2>1, <2>3 DEF DSIInv, HistoryInv
  <2>5. RunOver
    BY <2>1, <2>3, <2>4 DEF RunOver
  <2>6. QED BY <2>5 DEF DSIInv, RunInv
<1>2. QED BY <1>1, ServiceInvariance, PTL
=============================================================================
