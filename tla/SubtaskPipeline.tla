--------------------------- MODULE SubtaskPipeline --------------------------
(***************************************************************************)
(* What happens to the messages of a run (logic_impl_http_service_         *)
(* objective.cpp): the poll loop hands each one to the download pool, its  *)
(* worker to the run pool, and the worker of the run pool hands it, for    *)
(* the upload, to its own pool.  A message is answered after each stage.   *)
(* The pools outlive the run, so the messages of one run can be under way  *)
(* when the next one begins.                                               *)
(*                                                                         *)
(* Each pool has one worker.  Its queue is reduced to what SafeQueue and   *)
(* Threadpool show of it: a bounded list from whose front tasks are taken. *)
(* All tasks of a pool have one priority, so the front is also where they  *)
(* are put.  The retries of a stage change nothing and are one step with   *)
(* their last result.                                                      *)
(***************************************************************************)
EXTENDS Integers, Sequences, FiniteSets

CONSTANTS
  MaxRuns,         (* bound: how many runs there are                       *)
  metrial_number,  (* how many messages a run counts                       *)
  DownLimit,       (* limit of threadpool_down (3 in the code)             *)
  RunLimit,        (* limit of threadpool_run_testbed (2 in the code)      *)
  DownloadResults  (* what DownloadOne can end with                        *)

(* objective_rabbitmq_taskinfo_str_, where the stages look for the URL of  *)
(* the material, is assigned nowhere: as it is, every download fails.      *)
(* With {"ok", "fail"} the later stages are covered too.                   *)
ASSUME RunsAssumption   == MaxRuns \in Nat /\ metrial_number \in Nat
ASSUME LimitsAssumption == DownLimit \in Nat \ {0} /\ RunLimit \in Nat \ {0}
ASSUME DownloadAssumption == DownloadResults \subseteq {"ok", "fail"}

Msgs == 1 .. MaxRuns * metrial_number
Pools == {"down", "testbed"}
Stages == <<"download", "run", "upload">>
Items == [m : Msgs, stage : 1 .. 3]
NoItem == [m |-> 0, stage |-> 0]
parent_task_id(m) == (m - 1) \div metrial_number + 1   (* the messages' own *)
num_init == 0   (* never assigned *)

VARIABLES
  run,                 (* how many runs have begun                         *)
  mainPc,              (* "idle", "poll" or "enqueue"                      *)
  remain_num_,
  to_task_terminate_,
  hand,                (* the message the poll loop is about to enqueue    *)
  received,            (* how many messages were polled                    *)
  queue,               (* the list of each pool                            *)
  pc,                  (* where the worker of each pool is                 *)
  item,                (* what it works on                                 *)
  seen,                (* the value of g_task_end it is about to increment *)
  g_task_end,
  replies,             (* history: the results each message was told       *)
  ended,               (* the messages nothing more will happen to         *)
  cleaned              (* history: the tasks whose material was removed    *)

mainVars == <<run, mainPc, remain_num_, to_task_terminate_, hand, received>>
workVars == <<pc, item, seen>>
doneVars == <<g_task_end, ended, cleaned>>
vars == <<mainVars, queue, workVars, replies, doneVars>>

WorkerPcs == {"take", "work", "enqueue", "count", "store"}

Init ==
  /\ run = 0
  /\ mainPc = "idle"
  /\ remain_num_ = 0
  /\ to_task_terminate_ = FALSE
  /\ hand = 0
  /\ received = 0
  /\ queue = [p \in Pools |-> <<>>]
  /\ pc = [p \in Pools |-> "take"]
  /\ item = [p \in Pools |-> NoItem]
  /\ seen = [p \in Pools |-> 0]
  /\ g_task_end = 0
  /\ replies = [m \in Msgs |-> <<>>]
  /\ ended = {}
  /\ cleaned = {}

-----------------------------------------------------------------------------
(* enqueue_task_sync: waits for room, and puts the task in front of those  *)
(* with its own priority.                                                  *)

Limit(p) == IF p = "down" THEN DownLimit ELSE RunLimit

(* Mutant: one place is kept free.                                         *)
EnqueueReserve(p, it) ==
  /\ Len(queue[p]) < Limit(p) - 1
  /\ queue' = [queue EXCEPT ![p] = <<it>> \o @]
Enqueue(p, it) ==
  /\ Len(queue[p]) < Limit(p)
  /\ queue' = [queue EXCEPT ![p] = <<it>> \o @]

-----------------------------------------------------------------------------
(* run_objective and rabbitmq_msg_poll_, on the main thread; a terminate   *)
(* thread raises the flag.                                                 *)

RunBegin ==
  /\ mainPc = "idle"
  /\ run < MaxRuns
  /\ run' = run + 1
  /\ mainPc' = "poll"
  /\ remain_num_' = metrial_number
  /\ to_task_terminate_' = FALSE
  /\ UNCHANGED <<hand, received, queue, workVars, replies, doneVars>>

Terminate ==
  /\ mainPc # "idle"
  /\ to_task_terminate_' = TRUE
  /\ UNCHANGED <<run, mainPc, remain_num_, hand, received, queue,
                 workVars, replies, doneVars>>

(* Mutant: the loop also goes on when the last message has come.           *)
GoesOnAtZero == remain_num_ >= 0 /\ ~to_task_terminate_
GoesOn == remain_num_ >= 1 /\ ~to_task_terminate_

(* A message comes.  It counts, whether it can be parsed or not.           *)
Receive ==
  /\ mainPc = "poll"
  /\ GoesOn
  /\ received < Cardinality(Msgs)
  /\ received' = received + 1
  /\ remain_num_' = remain_num_ - 1

PollMessage ==
  /\ Receive
  /\ hand' = received + 1
  /\ mainPc' = "enqueue"
  /\ UNCHANGED <<run, to_task_terminate_, queue, workVars, replies, doneVars>>

PollUnparsed ==
  /\ Receive
  /\ ended' = ended \cup {received + 1}
  /\ UNCHANGED <<run, mainPc, to_task_terminate_, hand, queue, workVars,
                 replies, g_task_end, cleaned>>

PollEnqueue ==
  /\ mainPc = "enqueue"
  /\ Enqueue("down", [m |-> hand, stage |-> 1])
  /\ hand' = 0
  /\ mainPc' = "poll"
  /\ UNCHANGED <<run, remain_num_, to_task_terminate_, received,
                 workVars, replies, doneVars>>

RunEnd ==
  /\ mainPc = "poll"
  /\ ~GoesOn
  /\ mainPc' = "idle"
  /\ UNCHANGED <<run, remain_num_, to_task_terminate_, hand, received,
                 queue, workVars, replies, doneVars>>

-----------------------------------------------------------------------------
(* subtask_download_entity_, subtask_run_entity_, subtask_upload_entity_.  *)

(* Mutant: the workers of the run pool were not started.                   *)
TakeUnstarted(p) ==
  /\ p = "down"
  /\ pc[p] = "take"
  /\ queue[p] # <<>>
  /\ item' = [item EXCEPT ![p] = Head(queue[p])]
  /\ queue' = [queue EXCEPT ![p] = Tail(@)]
  /\ pc' = [pc EXCEPT ![p] = "work"]
  /\ UNCHANGED <<mainVars, seen, replies, doneVars>>
Take(p) ==
  /\ pc[p] = "take"
  /\ queue[p] # <<>>
  /\ item' = [item EXCEPT ![p] = Head(queue[p])]
  /\ queue' = [queue EXCEPT ![p] = Tail(@)]
  /\ pc' = [pc EXCEPT ![p] = "work"]
  /\ UNCHANGED <<mainVars, seen, replies, doneVars>>

Results(stage) ==
  IF Stages[stage] = "download" THEN DownloadResults ELSE {"ok", "fail"}

(* Mutant: a stage that failed does not return.                            *)
AfterStageGoesOn(stage, result) ==
  IF Stages[stage] # "upload" THEN "enqueue" ELSE "count"
AfterStage(stage, result) ==
  IF result = "ok" /\ Stages[stage] # "upload" THEN "enqueue" ELSE "count"

(* The stage ends and its reply is sent, through the manager of the run    *)
(* that is current then.  What Put returns is not looked at.               *)
StageEnd(p, result) ==
  /\ pc[p] = "work"
  /\ result \in Results(item[p].stage)
  /\ replies' = [replies EXCEPT
       ![item[p].m] = Append(@, result)]
  /\ pc' = [pc EXCEPT ![p] = AfterStage(item[p].stage, result)]
  /\ UNCHANGED <<mainVars, queue, item, seen, doneVars>>

(* The next stage is a task of the run pool, whichever pool this is.       *)
NextStage(p) ==
  /\ pc[p] = "enqueue"
  /\ Enqueue("testbed", [item[p] EXCEPT !.stage = @ + 1])
  /\ pc' = [pc EXCEPT ![p] = "take"]
  /\ item' = [item EXCEPT ![p] = NoItem]
  /\ UNCHANGED <<mainVars, seen, replies, doneVars>>

(* With the message's own task, and the counter behind the increment.      *)
check_msg_serial_to_clean_(m) ==
  cleaned' = IF g_task_end' = num_init THEN cleaned \cup {parent_task_id(m)}
                                       ELSE cleaned

(* g_task_end++, by two workers without a lock.                            *)
CountLoad(p) ==
  /\ pc[p] = "count"
  /\ seen' = [seen EXCEPT ![p] = g_task_end]
  /\ pc' = [pc EXCEPT ![p] = "store"]
  /\ UNCHANGED <<mainVars, queue, item, replies, doneVars>>

(* The test in check_msg_serial_to_clean_ reads the counter again; no value *)
(* that is ever stored is num_init.                                        *)
CountStore(p) ==
  /\ pc[p] = "store"
  /\ g_task_end' = seen[p] + 1
  /\ check_msg_serial_to_clean_(item[p].m)
  /\ ended' = ended \cup {item[p].m}
  /\ pc' = [pc EXCEPT ![p] = "take"]
  /\ item' = [item EXCEPT ![p] = NoItem]
  /\ seen' = [seen EXCEPT ![p] = 0]
  /\ UNCHANGED <<mainVars, queue, replies>>

WorkerStep(p) ==
  \/ Take(p)
  \/ \E result \in {"ok", "fail"} : StageEnd(p, result)
  \/ NextStage(p)
  \/ CountLoad(p)
  \/ CountStore(p)

Next ==
  \/ RunBegin
  \/ Terminate
  \/ PollMessage
  \/ PollUnparsed
  \/ PollEnqueue
  \/ RunEnd
  \/ \E p \in Pools : WorkerStep(p)

(* The main thread and the workers run, and a stage ends.  Messages need   *)
(* not come, and nobody has to terminate a run.                            *)
Fairness ==
  /\ WF_vars(PollEnqueue \/ RunEnd)
  /\ \A p \in Pools : WF_vars(WorkerStep(p))

Spec == Init /\ [][Next]_vars
FairSpec == Spec /\ Fairness

-----------------------------------------------------------------------------
(* The fields hold values of their types, and no run polls more messages   *)
(* than it counts.                                                         *)
TypeOK ==
  /\ run \in 0 .. MaxRuns
  /\ mainPc \in {"idle", "poll", "enqueue"}
  /\ remain_num_ \in 0 .. metrial_number
  /\ to_task_terminate_ \in BOOLEAN
  /\ hand \in Msgs \cup {0}
  /\ hand # 0 <=> mainPc = "enqueue"
  /\ received \in 0 .. Cardinality(Msgs)
  /\ \A p \in Pools : queue[p] \in Seq(Items) /\ Len(queue[p]) <= Limit(p)
  /\ pc \in [Pools -> WorkerPcs]
  /\ \A p \in Pools : item[p] \in IF pc[p] = "take" THEN {NoItem} ELSE Items
  /\ seen \in [Pools -> 0 .. received]
  /\ g_task_end \in 0 .. received
  /\ replies \in [Msgs -> Seq({"ok", "fail"})]
  /\ ended \subseteq 1 .. received
  /\ cleaned \subseteq 1 .. MaxRuns

-----------------------------------------------------------------------------
(* Where a message is: in the poll loop's hand, at an index of a list, or  *)
(* with a worker.                                                          *)
Places(m) ==
  (IF hand = m THEN {<<"hand">>} ELSE {})
    \cup (UNION {{<<p, i>> : i \in {j \in 1 .. Len(queue[p]) : queue[p][j].m = m}}
                   : p \in Pools})
    \cup {<<p, 0>> : p \in {q \in Pools : item[q].m = m}}

(* How many stages a message has behind it, at a place.                    *)
Behind(place) ==
  IF place = <<"hand">> THEN 0
  ELSE IF place[2] # 0 THEN queue[place[1]][place[2]].stage - 1
  ELSE IF pc[place[1]] = "work" THEN item[place[1]].stage - 1
  ELSE item[place[1]].stage

AllOk(s) == \A i \in 1 .. Len(s) : s[i] = "ok"

(* A message that was polled is at one place, or has ended, and it has     *)
(* been answered once for each stage it has behind it, in their order; all *)
(* of these went well, except perhaps the last one, and then nothing more  *)
(* is done with it.  This does not depend on which run is polling.         *)
RepliesTellStage ==
  \A m \in 1 .. received :
    LET s == replies[m] IN
    /\ Cardinality(Places(m)) = IF m \in ended THEN 0 ELSE 1
    /\ \A place \in Places(m) : Len(s) = Behind(place)
    /\ s # <<>> => AllOk(SubSeq(s, 1, Len(s) - 1))
    /\ m \in ended => s = <<>> \/ Len(s) = 3 \/ ~AllOk(s)
    /\ \A p \in Pools :
         pc[p] \in {"work", "enqueue"} /\ item[p].m = m => AllOk(s)

(* The worker of the run pool waits for room in its own list: for ever, as *)
(* nobody else takes from it.                                              *)
RunnerBlocked == pc["testbed"] = "enqueue" /\ Len(queue["testbed"]) = RunLimit

(* A message that was polled is worked off, also when its run has ended or *)
(* was terminated and others have begun; unless the run pool has blocked   *)
(* itself.                                                                 *)
MessageEnds ==
  \A m \in Msgs : (m <= received) ~> (m \in ended \/ RunnerBlocked)

(* A poll loop that waits for room in the download pool, while the flag is *)
(* up, gets it and ends; unless the run pool has blocked itself, and with  *)
(* it the download pool and this loop.                                     *)
FlaggedRunEnds ==
  (mainPc # "idle" /\ to_task_terminate_) ~> (mainPc = "idle" \/ RunnerBlocked)

(* cpp:154, of the message that is the last of its task: the material of   *)
(* the task is removed.                                                    *)
LastMessageCleans ==
  \A t \in 1 .. MaxRuns :
    (\A m \in Msgs : parent_task_id(m) = t => m \in ended /\ replies[m] # <<>>)
      => t \in cleaned
=============================================================================
