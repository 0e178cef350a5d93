--------------------------- MODULE DeviceService ----------------------------
(***************************************************************************)
(* The device service around the task hand-over: the HTTP request handlers *)
(* (http_service_handle_objective.cpp), the task callables the loop runs   *)
(* (ObjectiveComponentManager), the detached terminate threads and the     *)
(* device and task status they all write (TaskStatus g_task_state).        *)
(*                                                                         *)
(* Every step is a step of TaskSuit together with what the handler or the  *)
(* callable does at that point, or leaves TaskSuit's variables alone.      *)
(***************************************************************************)
EXTENDS TaskSuit

CONSTANTS
  Jobs,       (* parent_task_id values of run_objective requests            *)
  NoJob,      (* the parent_task_id held before the first run               *)
  Terminators (* identities for the detached terminate threads              *)

ASSUME JobAssumption == NoJob \notin Jobs
ASSUME RequestRecords ==
  \A r \in Request :
    /\ Kind(r) = r.kind
    /\ r.kind = "run" => r.job \in Jobs /\ r.num \in Nat
ASSUME KindsAssumption == Kinds = {"update", "reboot", "run", "pull", "clear"}

VARIABLES
  device_state_,      (* the flags set in the device status word            *)
  task_state_,        (* the flags set in the task status word              *)
  httpPc,             (* where the current request handler is               *)
  entPc,              (* where the callable the loop runs is                *)
  parent_task_id,     (* objective_rabbitmq_taskinfo_.parent_task_id        *)
  remain_num_,        (* messages the current run still has to take         *)
  is_running_,
  to_task_terminate_,
  is_terminating_,
  termPc,             (* where each terminate thread is                     *)
  lastTask,           (* history: the kind of the last finished callable     *)
  lastUpdate,         (* history: how the last finished update ended        *)
  terminateSeen       (* history: may a terminate thread have raised its    *)
                      (* flag since the current run lowered it?             *)

statusVars == <<device_state_, task_state_>>
runVars    == <<parent_task_id, remain_num_, is_running_>>
termVars   == <<is_terminating_, termPc>>
histVars   == <<lastTask, lastUpdate, terminateSeen>>
dsVars     == <<statusVars, httpPc, entPc, runVars, to_task_terminate_,
                termVars, histVars>>
allVars    == <<vars, dsVars>>

DeviceFlags == {"FREE", "BUSY", "UPDATINTG", "UPDATED", "UPDATE_SUCCESS",
                "REBOOTING", "FILE_PULL", "FILE_PULL_FAIL",
                "FILE_PULL_SUCCESS", "FILE_CLEAR", "FILE_CLEAR_FAIL",
                "FILE_CLEAR_SUCCESS", "UPDATE_FAIL"}
TaskFlags == {"DIVORCED", "RUNNING", "RABBITMQ_SUCCESS", "RABBITMQ_FAIL",
              "RABBITMQ_ING"}

DSInit ==
  /\ Init
  /\ device_state_ = {"FREE"}
  /\ task_state_ = {"DIVORCED"}
  /\ httpPc = "idle"
  /\ entPc = "none"
  /\ parent_task_id = NoJob
  /\ remain_num_ = 0
  /\ is_running_ = FALSE
  /\ to_task_terminate_ = FALSE
  /\ is_terminating_ = FALSE
  /\ termPc = [t \in Terminators |-> "none"]
  /\ lastTask = "none"
  /\ lastUpdate = "none"
  /\ terminateSeen = FALSE

replace_device_state(flags) ==
  device_state_' = flags /\ UNCHANGED task_state_
replace_task_state(flags) ==
  task_state_' = flags /\ UNCHANGED device_state_

-----------------------------------------------------------------------------
(* Handlers that post a task.  handle_update, handle_file_pull and         *)
(* handle_file_clear write the status after post_task has returned.        *)

BusyFlag == [update |-> "UPDATINTG", pull |-> "FILE_PULL",
             clear |-> "FILE_CLEAR"]
FailFlag == [pull |-> "FILE_PULL_FAIL", clear |-> "FILE_CLEAR_FAIL"]
RejectPc == [pull |-> "reject_pull", clear |-> "reject_clear"]

HttpStep(from, to) == httpPc = from /\ httpPc' = to

HandlerRest == UNCHANGED <<entPc, runVars, to_task_terminate_, histVars>>

AdmitRequest(r) ==
  /\ PostAdmit(r)
  /\ HttpStep("idle", "posting")
  /\ HandlerRest /\ UNCHANGED <<statusVars, termVars>>

RejectRequest(r) ==
  /\ PostReject
  /\ HttpStep("idle", IF r.kind \in DOMAIN FailFlag
                      THEN RejectPc[r.kind] ELSE "idle")
  /\ HandlerRest /\ UNCHANGED <<statusVars, termVars>>

RejectedDevice(kind) ==
  /\ HttpStep(RejectPc[kind], "idle")
  /\ replace_device_state({"BUSY", FailFlag[kind]})
  /\ HandlerRest /\ UNCHANGED <<vars, termVars>>

Posting ==
  /\ PostType \/ PostEntity
  /\ UNCHANGED dsVars

PostReturned ==
  /\ PostNotify
  /\ HttpStep("posting", IF posts[Len(posts)].kind \in DOMAIN BusyFlag
                         THEN "after_device" ELSE "idle")
  /\ HandlerRest /\ UNCHANGED <<statusVars, termVars>>

(* Mutant: handle_update writes no status of its own.                      *)
AfterPostDeviceSilent ==
  /\ HttpStep("after_device", "after_task")
  /\ \/ /\ posts[Len(posts)].kind = "update"
        /\ UNCHANGED statusVars
     \/ /\ posts[Len(posts)].kind # "update"
        /\ replace_device_state({"BUSY", BusyFlag[posts[Len(posts)].kind]})
  /\ HandlerRest /\ UNCHANGED <<vars, termVars>>

AfterPostDevice ==
  /\ HttpStep("after_device", "after_task")
  /\ replace_device_state({"BUSY", BusyFlag[posts[Len(posts)].kind]})
  /\ HandlerRest /\ UNCHANGED <<vars, termVars>>

AfterPostTask ==
  /\ HttpStep("after_task", "idle")
  /\ replace_task_state({"RUNNING"})
  /\ HandlerRest /\ UNCHANGED <<vars, termVars>>

-----------------------------------------------------------------------------
(* handle_terminate: terminate_objective on the HTTP thread.               *)

Terminate(j) ==
  /\ mainPc = "serving"
  /\ parent_task_id = j
  /\ HttpStep("idle", "term_running")
  /\ UNCHANGED <<vars, statusVars, entPc, runVars, to_task_terminate_,
                 termVars, lastTask, lastUpdate, terminateSeen>>

TerminateRunning ==
  /\ HttpStep("term_running", IF is_running_ THEN "term_launch"
                              ELSE "term_task")
  /\ HandlerRest /\ UNCHANGED <<vars, statusVars, termVars>>

TerminateIdleTask ==
  /\ HttpStep("term_task", "term_device")
  /\ replace_task_state({"DIVORCED"})
  /\ HandlerRest /\ UNCHANGED <<vars, termVars>>

TerminateIdleDevice ==
  /\ HttpStep("term_device", "idle")
  /\ replace_device_state({"FREE"})
  /\ HandlerRest /\ UNCHANGED <<vars, termVars>>

TerminateAgain ==
  /\ is_terminating_
  /\ HttpStep("term_launch", "idle")
  /\ HandlerRest /\ UNCHANGED <<vars, statusVars, termVars>>

(* Mutant: is_terminating_ is not tested.                                  *)
TerminateLaunchAgain(t) ==
  /\ termPc[t] = "none"
  /\ HttpStep("term_launch", "idle")
  /\ is_terminating_' = TRUE
  /\ termPc' = [termPc EXCEPT ![t] = "kill"]
  /\ terminateSeen' = TRUE
  /\ UNCHANGED <<vars, statusVars, entPc, runVars, to_task_terminate_,
                 lastTask, lastUpdate>>

TerminateLaunch(t) ==
  /\ ~is_terminating_
  /\ termPc[t] = "none"
  /\ HttpStep("term_launch", "idle")
  /\ is_terminating_' = TRUE
  /\ termPc' = [termPc EXCEPT ![t] = "kill"]
  /\ terminateSeen' = TRUE
  /\ UNCHANGED <<vars, statusVars, entPc, runVars, to_task_terminate_,
                 lastTask, lastUpdate>>

(* What a request handler does once it has begun.                          *)
HandlerNext ==
  \/ \E kind \in DOMAIN FailFlag : RejectedDevice(kind)
  \/ Posting \/ PostReturned \/ AfterPostDevice \/ AfterPostTask
  \/ TerminateRunning \/ TerminateIdleTask \/ TerminateIdleDevice
  \/ TerminateAgain
  \/ \E t \in Terminators : TerminateLaunch(t)

-----------------------------------------------------------------------------
(* terminate_impl_ on a detached thread.                                   *)

TermStep(t, from, to) ==
  /\ mainPc # "exited"
  /\ termPc[t] = from
  /\ termPc' = [termPc EXCEPT ![t] = to]
  /\ UNCHANGED <<vars, httpPc, entPc, runVars, histVars>>

(* Both kill_testbed_progress_ calls have returned.                        *)
TermFlag(t) ==
  /\ TermStep(t, "kill", "wait")
  /\ to_task_terminate_' = TRUE
  /\ UNCHANGED <<statusVars, is_terminating_>>

(* The wait predicate reads is_running_ twice: itself, then as part of     *)
(* to_stop_signal.                                                         *)
TermPredRunning(t) ==
  /\ TermStep(t, "wait", IF is_running_ THEN "stop_signal" ELSE "task")
  /\ UNCHANGED <<statusVars, is_terminating_, to_task_terminate_>>

TermPredStop(t) ==
  /\ TermStep(t, "stop_signal", IF signal_status \/ is_running_
                                THEN "task" ELSE "arm")
  /\ UNCHANGED <<statusVars, is_terminating_, to_task_terminate_>>

TermBlock(t) ==
  /\ TermStep(t, "arm", "blocked")
  /\ UNCHANGED <<statusVars, is_terminating_, to_task_terminate_>>

TermSpurious(t) ==
  /\ TermStep(t, "blocked", "wait")
  /\ UNCHANGED <<statusVars, is_terminating_, to_task_terminate_>>

TermTask(t) ==
  /\ TermStep(t, "task", "device")
  /\ replace_task_state({"DIVORCED"})
  /\ UNCHANGED <<is_terminating_, to_task_terminate_>>

TermDevice(t) ==
  /\ TermStep(t, "device", "finish")
  /\ replace_device_state({"FREE"})
  /\ UNCHANGED <<is_terminating_, to_task_terminate_>>

TermFinish(t) ==
  /\ TermStep(t, "finish", "none")
  /\ is_terminating_' = FALSE
  /\ UNCHANGED <<statusVars, to_task_terminate_>>

TermNext(t) ==
  \/ TermFlag(t) \/ TermPredRunning(t) \/ TermPredStop(t) \/ TermBlock(t)
  \/ TermTask(t) \/ TermDevice(t) \/ TermFinish(t)

(* terminate_cv_.notify_all()                                              *)
TermNotified ==
  [t \in Terminators |-> IF termPc[t] = "blocked" THEN "wait" ELSE termPc[t]]

-----------------------------------------------------------------------------
(* The callables, one step at a time, while TaskSuit's loop is in "run".   *)

FirstPc == [update |-> "update_testbed", reboot |-> "reboot",
            run |-> "run_device", pull |-> "pull", clear |-> "clear"]

Current == posts[task_entity_]

StartEntity ==
  /\ TaskStart
  /\ entPc' = FirstPc[Current.kind]
  /\ UNCHANGED <<statusVars, httpPc, runVars, to_task_terminate_, termVars,
                 histVars>>

EntStep(from, to) ==
  /\ entPc = from
  /\ entPc' = to
  /\ UNCHANGED <<vars, httpPc, termVars>>

EntOnly == UNCHANGED <<runVars, to_task_terminate_, histVars>>

reboot ==
  /\ EntStep("reboot", "failed")
  /\ replace_device_state({"BUSY", "REBOOTING"})
  /\ EntOnly

(* update_testbed_and_replace, then down_file_and_replace; either failure  *)
(* returns at once.                                                        *)
UpdateStage(from, to) ==
  /\ EntStep(from, to) \/ EntStep(from, "failed")
  /\ EntOnly /\ UNCHANGED statusVars

UpdateDevice ==
  /\ EntStep("update_device", "update_task")
  /\ replace_device_state({"FREE", "UPDATED", "UPDATE_SUCCESS"})
  /\ EntOnly

UpdateTask ==
  /\ EntStep("update_task", "ok")
  /\ replace_task_state({"DIVORCED"})
  /\ EntOnly

FilePc == [pull  |-> [ok |-> "pull_task_ok", failed |-> "pull_task_failed"],
           clear |-> [ok |-> "clear_task_ok", failed |-> "clear_task_failed"]]

(* file_operation_file_pull / _clear and the status the callable sets; it  *)
(* stores FREE in the task word, whose bit is that of DIVORCED.            *)
FileDevice(kind, end) ==
  /\ EntStep(kind, FilePc[kind][end])
  /\ replace_device_state(
       {"FREE", IF end = "failed" THEN FailFlag[kind]
                ELSE IF kind = "pull" THEN "FILE_PULL_SUCCESS"
                ELSE "FILE_CLEAR_SUCCESS"})
  /\ EntOnly

FileTask(kind, end) ==
  /\ EntStep(FilePc[kind][end], end)
  /\ replace_task_state({"DIVORCED"})
  /\ EntOnly

-----------------------------------------------------------------------------
(* run_objective                                                           *)

RunDevice ==
  /\ EntStep("run_device", "run_info")
  /\ replace_device_state({"BUSY"})
  /\ EntOnly

RunInfo ==
  /\ EntStep("run_info", "run_lock")
  /\ parent_task_id' = Current.job
  /\ remain_num_' = Current.num
  /\ UNCHANGED <<is_running_, to_task_terminate_, statusVars, histVars>>

(* RunningLock(): two plain stores.                                        *)
RunLock ==
  /\ EntStep("run_lock", "run_reset")
  /\ is_running_' = TRUE
  /\ UNCHANGED <<parent_task_id, remain_num_, to_task_terminate_,
                 statusVars, histVars>>

(* Mutant: RunningLock does not lower the flag.                            *)
RunResetMissing ==
  /\ EntStep("run_reset", "run_load")
  /\ terminateSeen' = \E t \in Terminators : termPc[t] = "kill"
  /\ UNCHANGED <<runVars, to_task_terminate_, statusVars, lastTask,
                 lastUpdate>>

RunReset ==
  /\ EntStep("run_reset", "run_load")
  /\ to_task_terminate_' = FALSE
  /\ terminateSeen' = \E t \in Terminators : termPc[t] = "kill"
  /\ UNCHANGED <<runVars, statusVars, lastTask, lastUpdate>>

(* all_component_load_ succeeds, or RabbitMQHandler's state is an error.   *)
RunLoad ==
  /\ EntStep("run_load", "run_loaded") \/ EntStep("run_load", "load_device")
  /\ EntOnly /\ UNCHANGED statusVars

(* Mutant: a failed load leaves the device status alone.                   *)
LoadFailDeviceSilent ==
  /\ EntStep("load_device", "load_task")
  /\ EntOnly /\ UNCHANGED statusVars

LoadFailDevice ==
  /\ EntStep("load_device", "load_task")
  /\ replace_device_state({"FREE"})
  /\ EntOnly

LoadFailTask ==
  /\ EntStep("load_task", "unlock_failed")
  /\ replace_task_state({"RABBITMQ_FAIL"})
  /\ EntOnly

RunLoaded ==
  /\ EntStep("run_loaded", "poll")
  /\ replace_task_state({"RABBITMQ_SUCCESS"})
  /\ EntOnly

(* Mutant: one message too many.                                           *)
is_to_terminate_late == remain_num_ < 0 \/ to_task_terminate_

is_to_terminate_msg_poll_ == remain_num_ < 1 \/ to_task_terminate_

PollCheck ==
  /\ EntStep("poll", IF is_to_terminate_msg_poll_ THEN "end_task"
                     ELSE "poll_get")
  /\ EntOnly /\ UNCHANGED statusVars

(* Get is non-blocking; nothing may have arrived.                          *)
PollEmpty ==
  /\ EntStep("poll_get", "poll")
  /\ replace_task_state({"RABBITMQ_ING"})
  /\ EntOnly

(* A message; if it does not parse it is counted all the same.             *)
PollMessage ==
  /\ EntStep("poll_get", "poll_enqueue") \/ EntStep("poll_get", "poll")
  /\ replace_task_state({"RABBITMQ_ING"})
  /\ remain_num_' = remain_num_ - 1
  /\ UNCHANGED <<parent_task_id, is_running_, to_task_terminate_, histVars>>

(* enqueue_task_sync returns once the download pool has room.              *)
PollEnqueued ==
  /\ EntStep("poll_enqueue", "poll")
  /\ EntOnly /\ UNCHANGED statusVars

RunEndTask ==
  /\ EntStep("end_task", "end_device")
  /\ replace_task_state({"DIVORCED"})
  /\ EntOnly

RunEndDevice ==
  /\ EntStep("end_device", "unlock_ok")
  /\ replace_device_state({"FREE"})
  /\ EntOnly

UnlockPc == [ok |-> "unlock_ok", failed |-> "unlock_failed"]
NotifyPc == [ok |-> "notify_ok", failed |-> "notify_failed"]

(* ~RunningLock(): the plain store, then terminate_cv_.notify_all().       *)
RunUnlock(end) ==
  /\ EntStep(UnlockPc[end], NotifyPc[end])
  /\ is_running_' = FALSE
  /\ UNCHANGED <<parent_task_id, remain_num_, to_task_terminate_,
                 statusVars, histVars>>

RunNotify(end) ==
  /\ entPc = NotifyPc[end]
  /\ entPc' = end
  /\ termPc' = TermNotified
  /\ UNCHANGED <<vars, httpPc, is_terminating_, statusVars>>
  /\ EntOnly

EndEntity ==
  /\ entPc \in {"ok", "failed"}
  /\ TaskReturn
  /\ entPc' = "none"
  /\ lastTask' = Current.kind
  /\ lastUpdate' = IF Current.kind = "update" THEN entPc ELSE lastUpdate
  /\ UNCHANGED <<statusVars, httpPc, runVars, to_task_terminate_, termVars,
                 terminateSeen>>

Ends == {"ok", "failed"}
FileKinds == {"pull", "clear"}

(* The steps of a callable that depend on nobody else.                     *)
EntNext ==
  \/ StartEntity
  \/ reboot
  \/ UpdateStage("update_testbed", "update_license")
  \/ UpdateStage("update_license", "update_device")
  \/ UpdateDevice \/ UpdateTask
  \/ \E kind \in FileKinds, end \in Ends :
       FileDevice(kind, end) \/ FileTask(kind, end)
  \/ RunDevice \/ RunInfo \/ RunLock \/ RunReset \/ RunLoad
  \/ LoadFailDevice \/ LoadFailTask \/ RunLoaded
  \/ PollCheck \/ PollEmpty \/ PollMessage
  \/ RunEndTask \/ RunEndDevice
  \/ \E end \in Ends : RunUnlock(end) \/ RunNotify(end)
  \/ EndEntity

-----------------------------------------------------------------------------
(* The loop's own steps, SIGINT and the end of the server.                 *)

LoopOnly ==
  /\ \/ LoopTop \/ LoopPred \/ LoopBlock \/ LoopStop \/ TaskUnknown
     \/ LoopClear
  /\ UNCHANGED dsVars

Environment == (Interrupt \/ SpuriousWakeup \/ MainJoined) /\ UNCHANGED dsVars

(* http_service_objective: the server is left, then the manager's and the  *)
(* loop's condition variables are notified, in this order.                 *)
ServerLeft ==
  /\ signal_status
  /\ HttpStep("idle", "stopped")
  /\ termPc' = TermNotified
  /\ HandlerRest /\ UNCHANGED <<vars, statusVars, is_terminating_>>

StopLoop ==
  /\ httpPc = "stopped"
  /\ ServerStop
  /\ UNCHANGED dsVars

DSNext ==
  \/ \E r \in Request : AdmitRequest(r) \/ RejectRequest(r)
  \/ \E j \in Jobs \cup {NoJob} : Terminate(j)
  \/ HandlerNext
  \/ \E t \in Terminators : TermNext(t) \/ TermSpurious(t)
  \/ EntNext \/ PollEnqueued
  \/ LoopOnly
  \/ Environment
  \/ ServerLeft \/ StopLoop

(* Every thread that can take a step takes one; requests, SIGINT, spurious *)
(* wake-ups and the download pool's progress are not assumed.              *)
DSFairness ==
  /\ WF_allVars(HandlerNext)
  /\ WF_allVars(EntNext)
  /\ WF_allVars(LoopOnly)
  /\ WF_allVars(ServerLeft \/ StopLoop)
  /\ \A t \in Terminators : WF_allVars(TermNext(t))

DSSpec == DSInit /\ [][DSNext]_allVars
DSFairSpec == DSSpec /\ DSFairness

-----------------------------------------------------------------------------
HttpPcs == {"idle", "posting", "after_device", "after_task", "reject_pull",
            "reject_clear", "term_running", "term_task", "term_device",
            "term_launch", "stopped"}
(* is_running_ is set exactly in these steps of run_objective.             *)
LockedPcs == {"run_reset", "run_load", "run_loaded", "poll", "poll_get",
              "poll_enqueue", "end_task", "end_device", "unlock_ok",
              "load_device", "load_task", "unlock_failed"}
UpdatePcs == {"update_testbed", "update_license", "update_device",
              "update_task"}
FilePcs == {"pull", "clear", "pull_task_ok", "pull_task_failed",
            "clear_task_ok", "clear_task_failed"}
RunPcs == {"run_device", "run_info", "run_lock", "notify_ok",
           "notify_failed"} \cup LockedPcs
EntPcs == {"none", "reboot", "ok", "failed"} \cup UpdatePcs \cup FilePcs
          \cup RunPcs
TermPcs == {"none", "kill", "wait", "stop_signal", "arm", "blocked", "task",
            "device", "finish"}

(* Every field holds a value of its C++ type, and pc values exist.         *)
DSTypeOK ==
  /\ TypeOK
  /\ device_state_ \subseteq DeviceFlags
  /\ task_state_ \subseteq TaskFlags
  /\ httpPc \in HttpPcs
  /\ entPc \in EntPcs
  /\ parent_task_id \in Jobs \cup {NoJob}
  /\ remain_num_ \in Nat
  /\ is_running_ \in BOOLEAN
  /\ to_task_terminate_ \in BOOLEAN
  /\ is_terminating_ \in BOOLEAN
  /\ termPc \in [Terminators -> TermPcs]
  /\ terminateSeen \in BOOLEAN

Alive == {t \in Terminators : termPc[t] # "none"}

(* Nobody is inside a handler, a callable or a terminate thread, and the   *)
(* slot is empty: what the status word says now is what a client sees      *)
(* until it sends the next request.                                        *)
Quiet ==
  /\ httpPc = "idle"
  /\ task_entity_ = Null
  /\ loopPc # "clear"
  /\ Alive = {}

(* At most one terminate thread exists and is_terminating_ says whether,   *)
(* although the flag is tested, set and reset without a lock by different  *)
(* threads.                                                                *)
SingleTerminator ==
  /\ \A t, u \in Alive : t = u
  /\ is_terminating_ <=> Alive # {}

(* A run gives up with messages still to take only if a terminate thread   *)
(* was on its way when, or after, the run lowered to_task_terminate_: a    *)
(* flag left over from an earlier run is never obeyed.                     *)
EndsEarlyOnlyIfTerminated ==
  entPc = "end_task" /\ remain_num_ > 0 => terminateSeen

(* Once all is quiet, UPDATE_SUCCESS in the device word tells the truth    *)
(* about the latest update: the late write of a request handler never      *)
(* uncovers the success of an earlier update.                              *)
NoStaleSuccess ==
  Quiet /\ "UPDATE_SUCCESS" \in device_state_ => lastUpdate = "ok"

(* Once all is quiet after a run, whatever handlers and terminate threads  *)
(* wrote meanwhile, the device is free, up to the mark a rejected file     *)
(* request leaves, and the task is over or its load has failed.            *)
RunLeavesFree ==
  Quiet /\ lastTask = "run" =>
    /\ \/ device_state_ = {"FREE"}
       \/ \E kind \in FileKinds : device_state_ = {"BUSY", FailFlag[kind]}
    /\ task_state_ \in {{"DIVORCED"}, {"RABBITMQ_FAIL"}}

-----------------------------------------------------------------------------
(* Violated by the code.  terminate_impl_: "just wait for run thread       *)
(* finished or receive kill signal to notify": it goes on when the run has *)
(* finished (SIGINT aside, which main follows up with a notification of    *)
(* its own).                                                               *)
TerminateResumes ==
  \A t \in Terminators :
    (termPc[t] = "blocked" /\ ~is_running_)
      ~> (termPc[t] # "blocked" \/ signal_status)

(* Violated by the code.  The table of the device word gives 25 and 41 for *)
(* an update that has ended, and 6 (busy, updating) for one that has not   *)
(* (board_service_errcode.md).  Once all is quiet after an update that     *)
(* succeeded, the word no longer is 6.                                     *)
FinishedUpdateReported ==
  Quiet /\ lastTask = "update" /\ lastUpdate = "ok"
    => "UPDATINTG" \notin device_state_
=============================================================================
