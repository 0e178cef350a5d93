----------------------------- MODULE Threadpool -----------------------------
(***************************************************************************)
(* Threadpool and Worker (context/threadpool/threadpool.hpp) on top of     *)
(* their task queue, a SafeQueue: workers that pop and run tasks, and      *)
(* clients that enqueue, start, stop, drain and resize the pool.           *)
(*                                                                         *)
(* A step of the pool either is a step of the queue made by one of its     *)
(* threads, or leaves the queue alone.  The code between two accesses to   *)
(* shared fields is one step; work_list_mutex_ names the client that holds *)
(* it.  Monitoring (LoopMonitor) only watches and is left out, and block   *)
(* and unblock of a Worker have no caller.                                 *)
(***************************************************************************)
EXTENDS SafeQueue

CONSTANTS
  Workers,        (* the Worker objects that can be made, among Threads    *)
  InitialWorkers, (* inital_worker_num_                                    *)
  InitialLimit,   (* inital_task_limit_max_                                *)
  Changes,        (* by how many workers the pool is resized               *)
  MaxCalls        (* bound: calls of the pool, enqueueing not counted      *)

Clients == Threads \ Workers

ASSUME PopAssumption     == "pop" \in Gets /\ "sync" \in Modes
ASSUME FreeAssumption    == "free" \notin Threads
ASSUME WorkersAssumption == Workers \subseteq Threads
ASSUME InitialAssumption == InitialWorkers \in Nat /\ InitialLimit \in Limits
ASSUME ChangesAssumption == Changes \subseteq Int
ASSUME CallsAssumption   == MaxCalls \in Nat

VARIABLES
  worker_list_,      (* the workers in the list; none is ever removed      *)
  is_start_works_,
  work_list_mutex_,  (* the client that holds it, or "free"                *)
  is_stop_run_,      (* per worker                                         *)
  workerPc,          (* where each worker's thread is                      *)
  task,              (* the task each worker runs, or 0                    *)
  clientPc,          (* where each client is in a call of the pool         *)
  expect_num,        (* argument of a resizing client                      *)
  calls,             (* how many such calls were made                      *)
  ended,             (* history: the tasks that were run to their end      *)
  drained,           (* history: how many tasks had been accepted when     *)
                     (* wait_task_empty_shutdown found the queue empty     *)
  promised           (* history: the same, of such calls that returned     *)

poolVars  == <<worker_list_, is_start_works_, work_list_mutex_,
               is_stop_run_, workerPc, task>>
clientVars == <<clientPc, expect_num, calls, drained, promised>>
pVars     == <<vars, poolVars, clientVars, ended>>

WorkerPcs == {"none", "top", "pop", "run", "exited"}
ClientPcs == {"idle", "to_start", "starting", "draining", "to_stop",
              "stopping", "notify", "shutdown", "to_resize", "hang"}
PopCall == [how |-> "pop", mode |-> "sync", p |-> 0]

PoolInit ==
  /\ Init
  /\ limit_len_max_ = InitialLimit
  /\ worker_list_ = {}
  /\ is_start_works_ = FALSE
  /\ work_list_mutex_ = "free"
  /\ is_stop_run_ = [w \in Workers |-> TRUE]
  /\ workerPc = [w \in Workers |-> "none"]
  /\ task = [w \in Workers |-> 0]
  /\ clientPc = [c \in Clients |-> "idle"]
  /\ expect_num = [c \in Clients |-> 0]
  /\ calls = 0
  /\ ended = {}
  /\ drained = [c \in Clients |-> 0]
  /\ promised = 0

-----------------------------------------------------------------------------
(* Worker::launch and its thread, work_each_entity, execute_task_.         *)

(* Mutant: the worker is not put into the list.                            *)
LaunchUnlisted(w) ==
  /\ w \notin worker_list_
  /\ UNCHANGED worker_list_
  /\ is_stop_run_' = [is_stop_run_ EXCEPT ![w] = FALSE]
  /\ workerPc' = [workerPc EXCEPT ![w] = "top"]
Launch(w) ==
  /\ w \notin worker_list_
  /\ worker_list_' = worker_list_ \cup {w}
  /\ is_stop_run_' = [is_stop_run_ EXCEPT ![w] = FALSE]
  /\ workerPc' = [workerPc EXCEPT ![w] = "top"]

(* The test of is_stop_run_; is_block_run_ is always false here.           *)
WorkerTop(w) ==
  /\ workerPc[w] = "top"
  /\ workerPc' = [workerPc EXCEPT
       ![w] = IF is_stop_run_[w] THEN "exited" ELSE "pop"]
  /\ UNCHANGED <<vars, worker_list_, is_start_works_, work_list_mutex_,
                 is_stop_run_, task, clientVars, ended>>

(* What pop_sync came back with: it still waits, or the task is empty, as  *)
(* the queue is stopped, or there is a task to run.                        *)
AfterPop(w) ==
  /\ workerPc' = [workerPc EXCEPT
       ![w] = IF at'[w] # "idle" THEN "pop"
              ELSE IF taken' = taken THEN "top" ELSE "run"]
  /\ task' = [task EXCEPT
       ![w] = IF taken' = taken THEN 0 ELSE CHOOSE n \in taken' : n \notin taken]
  /\ UNCHANGED <<worker_list_, is_start_works_, work_list_mutex_,
                 is_stop_run_, clientVars, ended>>

WorkerPop(w) ==
  /\ workerPc[w] = "pop"
  /\ Call(w, PopCall) \/ Resume(w) \/ Passed(w)
  /\ AfterPop(w)

(* A task that throws ends in the same way: packaged_task keeps what it    *)
(* has thrown.                                                             *)
(* Mutants: the worker ends with its task; it runs the task once more.     *)
TaskEndExits(w) ==
  /\ workerPc[w] = "run"
  /\ ended' = ended \cup {task[w]}
  /\ task' = [task EXCEPT ![w] = 0]
  /\ workerPc' = [workerPc EXCEPT ![w] = "exited"]
  /\ UNCHANGED <<vars, worker_list_, is_start_works_, work_list_mutex_,
                 is_stop_run_, clientVars>>
TaskEndAgain(w) ==
  /\ workerPc[w] = "run"
  /\ ended' = ended \cup {task[w]}
  /\ UNCHANGED <<vars, poolVars, clientVars>>
TaskEnd(w) ==
  /\ workerPc[w] = "run"
  /\ ended' = ended \cup {task[w]}
  /\ task' = [task EXCEPT ![w] = 0]
  /\ workerPc' = [workerPc EXCEPT ![w] = "top"]
  /\ UNCHANGED <<vars, worker_list_, is_start_works_, work_list_mutex_,
                 is_stop_run_, clientVars>>

WorkerStep(w) == WorkerTop(w) \/ WorkerPop(w) \/ TaskEnd(w)

-----------------------------------------------------------------------------
(* enqueue_task_sync and enqueue_task_try, and a queue call that waits.    *)

Free(c) == clientPc[c] = "idle" /\ at[c] = "idle"

enqueue_task(c, call_) ==
  /\ Free(c)
  /\ call_.how = "insert"
  /\ Call(c, call_)
  /\ UNCHANGED <<poolVars, clientVars, ended>>

EnqueueGoesOn(c) ==
  /\ Resume(c) \/ Passed(c)
  /\ UNCHANGED <<poolVars, clientVars, ended>>

EnqueueTimesOut(c) ==
  /\ TimedOut(c)
  /\ UNCHANGED <<poolVars, clientVars, ended>>

-----------------------------------------------------------------------------
(* Calls that take work_list_mutex_.                                       *)

Goto(c, pc) == clientPc' = [clientPc EXCEPT ![c] = pc]

Enter(c, pc) ==
  /\ Free(c)
  /\ calls < MaxCalls
  /\ calls' = calls + 1
  /\ Goto(c, pc)

StartCall(c) ==
  /\ Enter(c, "to_start")
  /\ UNCHANGED <<vars, poolVars, expect_num, drained, promised, ended>>

StopCall(c) ==
  /\ Enter(c, "to_stop")
  /\ UNCHANGED <<vars, poolVars, expect_num, drained, promised, ended>>

DrainCall(c) ==
  /\ Enter(c, "draining")
  /\ UNCHANGED <<vars, poolVars, expect_num, drained, promised, ended>>

(* change_works_num_sync_increase and _reduce: they read the number of     *)
(* workers, let the mutex go, and take it again.                           *)
ResizeCall(c, change) ==
  /\ work_list_mutex_ = "free"
  /\ Enter(c, "to_resize")
  /\ expect_num' = [expect_num EXCEPT ![c] = Cardinality(worker_list_) + change]
  /\ UNCHANGED <<vars, poolVars, drained, promised, ended>>

Lock(c) == work_list_mutex_ = "free" /\ work_list_mutex_' = c
Unlock == work_list_mutex_' = "free"

(* start_workers.                                                          *)
StartLock(c) ==
  /\ clientPc[c] = "to_start"
  /\ Lock(c)
  /\ Goto(c, "starting")
  /\ UNCHANGED <<vars, worker_list_, is_start_works_, is_stop_run_, workerPc,
                 task, expect_num, calls, drained, promised, ended>>

StartLaunch(c, w) ==
  /\ clientPc[c] = "starting"
  /\ ~is_start_works_
  /\ Cardinality(worker_list_) < InitialWorkers
  /\ Launch(w)
  /\ UNCHANGED <<vars, is_start_works_, work_list_mutex_, task, clientVars,
                 ended>>

(* The loop is over; or the list was not empty, and the call does nothing. *)
StartReturn(c) ==
  /\ clientPc[c] = "starting"
  /\ is_start_works_ \/ Cardinality(worker_list_) = InitialWorkers
  /\ is_start_works_' = TRUE
  /\ Unlock
  /\ Goto(c, "idle")
  /\ UNCHANGED <<vars, worker_list_, is_stop_run_, workerPc, task,
                 expect_num, calls, drained, promised, ended>>

(* change_works_num_sync: nothing to do; one worker more, however many     *)
(* were asked for; or the search for the oldest worker, whose iterator     *)
(* stays where it is: the call never returns.                              *)
ResizeReturn(c) ==
  /\ clientPc[c] = "to_resize"
  /\ work_list_mutex_ = "free"
  /\ \/ ~is_start_works_
     \/ expect_num[c] = Cardinality(worker_list_)
     \/ expect_num[c] < 0
  /\ Goto(c, "idle")
  /\ UNCHANGED <<vars, poolVars, expect_num, calls, drained, promised, ended>>

ResizeGrow(c, w) ==
  /\ clientPc[c] = "to_resize"
  /\ work_list_mutex_ = "free"
  /\ is_start_works_
  /\ expect_num[c] > Cardinality(worker_list_)
  /\ Launch(w)
  /\ Goto(c, "idle")
  /\ UNCHANGED <<vars, is_start_works_, work_list_mutex_, task,
                 expect_num, calls, drained, promised, ended>>

ResizeShrink(c) ==
  /\ clientPc[c] = "to_resize"
  /\ is_start_works_
  /\ expect_num[c] \in 0 .. Cardinality(worker_list_) - 1
  /\ Lock(c)
  /\ Goto(c, "hang")
  /\ UNCHANGED <<vars, worker_list_, is_start_works_, is_stop_run_, workerPc,
                 task, expect_num, calls, drained, promised, ended>>

change_task_limit_max_num_async(c, limit) ==
  /\ Free(c)
  /\ calls < MaxCalls
  /\ calls' = calls + 1
  /\ is_start_works_
  /\ change_limit_len_max(c, limit)
  /\ UNCHANGED <<poolVars, clientPc, expect_num, drained, promised, ended>>

-----------------------------------------------------------------------------
(* wait_task_empty_shutdown and stop_workers_sync.                         *)

(* Mutant: it does not wait until the queue is empty.                      *)
DrainAtOnce(c) ==
  /\ clientPc[c] = "draining"
  /\ MutexFree
  /\ drained' = [drained EXCEPT ![c] = accepted]
  /\ Goto(c, "to_stop")
  /\ UNCHANGED <<vars, poolVars, expect_num, calls, promised, ended>>
Drained(c) ==
  /\ clientPc[c] = "draining"
  /\ MutexFree
  /\ Size = 0
  /\ drained' = [drained EXCEPT ![c] = accepted]
  /\ Goto(c, "to_stop")
  /\ UNCHANGED <<vars, poolVars, expect_num, calls, promised, ended>>

(* The call is over.  It has promised what Drained saw.                    *)
Returns(c) ==
  /\ Goto(c, "idle")
  /\ promised' = IF drained[c] > promised THEN drained[c] ELSE promised
  /\ drained' = [drained EXCEPT ![c] = 0]
  /\ UNCHANGED <<vars, worker_list_, is_start_works_, is_stop_run_, workerPc,
                 task, expect_num, calls, ended>>

StopLock(c) ==
  /\ clientPc[c] = "to_stop"
  /\ worker_list_ # {}
  /\ Lock(c)
  /\ Goto(c, "stopping")
  /\ UNCHANGED <<vars, worker_list_, is_start_works_, is_stop_run_, workerPc,
                 task, expect_num, calls, drained, promised, ended>>

StopNothing(c) ==
  /\ clientPc[c] = "to_stop"
  /\ work_list_mutex_ = "free"
  /\ worker_list_ = {}
  /\ UNCHANGED work_list_mutex_
  /\ Returns(c)

(* Mutant: the workers are told to end, but their queue is not stopped.    *)
StopQueueOpen(c) ==
  /\ clientPc[c] = "stopping"
  /\ Goto(c, "shutdown")
  /\ UNCHANGED <<vars, poolVars, expect_num, calls, drained, promised, ended>>
StopQueue(c) ==
  /\ clientPc[c] = "stopping"
  /\ Stop(c)
  /\ Goto(c, "notify")
  /\ UNCHANGED <<poolVars, expect_num, calls, drained, promised, ended>>

StopNotify(c) ==
  /\ clientPc[c] = "notify"
  /\ StopStep(c)
  /\ Goto(c, IF at'[c] = "idle" THEN "shutdown" ELSE "notify")
  /\ UNCHANGED <<poolVars, expect_num, calls, drained, promised, ended>>

ShutdownAsync(c, w) ==
  /\ clientPc[c] = "shutdown"
  /\ w \in worker_list_
  /\ ~is_stop_run_[w]
  /\ is_stop_run_' = [is_stop_run_ EXCEPT ![w] = TRUE]
  /\ UNCHANGED <<vars, worker_list_, is_start_works_, work_list_mutex_,
                 workerPc, task, clientVars, ended>>

(* All workers have been told and joined.  The list keeps them.            *)
StopReturn(c) ==
  /\ clientPc[c] = "shutdown"
  /\ \A w \in worker_list_ : is_stop_run_[w] /\ workerPc[w] = "exited"
  /\ Unlock
  /\ Returns(c)

-----------------------------------------------------------------------------
SpuriousWakeup(t) ==
  /\ Spurious(t)
  /\ UNCHANGED <<poolVars, clientVars, ended>>

EnterCall(c) ==
  StartCall(c) \/ StopCall(c) \/ DrainCall(c)
    \/ \E change \in Changes : ResizeCall(c, change)

StartStep(c) ==
  StartLock(c) \/ (\E w \in Workers : StartLaunch(c, w)) \/ StartReturn(c)

ResizeStep(c) ==
  ResizeReturn(c) \/ (\E w \in Workers : ResizeGrow(c, w)) \/ ResizeShrink(c)

StopWork(c) ==
  \/ StopQueue(c)
  \/ StopNotify(c)
  \/ \E w \in Workers : ShutdownAsync(c, w)
  \/ StopReturn(c)

CallGoesOn(c) ==
  \/ EnqueueGoesOn(c)
  \/ StartStep(c)
  \/ ResizeStep(c)
  \/ Drained(c)
  \/ StopLock(c)
  \/ StopNothing(c)
  \/ StopWork(c)

PoolNext ==
  \/ \E w \in Workers : WorkerStep(w)
  \/ \E c \in Clients :
       \/ \E call_ \in Calls : enqueue_task(c, call_)
       \/ EnqueueTimesOut(c)
       \/ EnterCall(c)
       \/ CallGoesOn(c)
       \/ \E limit \in Limits : change_task_limit_max_num_async(c, limit)
  \/ \E t \in Threads : SpuriousWakeup(t)

(* Workers run and their tasks end, and a call of the pool goes on (one    *)
(* condition for each thread, as at most one of its steps is possible at a *)
(* time); a mutex that is released again and again is got at last.  Nobody *)
(* has to make a call, time out or wake up without a notification.         *)
PoolFairness ==
  /\ \A w \in Workers : SF_pVars(WorkerStep(w))
  /\ \A c \in Clients : SF_pVars(CallGoesOn(c))

PoolSpec == PoolInit /\ [][PoolNext]_pVars
PoolFairSpec == PoolSpec /\ PoolFairness

-----------------------------------------------------------------------------
(* The fields hold values of their types; a worker is in the list when its *)
(* thread runs, holds a task exactly while it runs one, and a client is in *)
(* the queue or in a call of the pool, never in two.                       *)
PoolTypeOK ==
  /\ worker_list_ \subseteq Workers
  /\ is_start_works_ \in BOOLEAN
  /\ work_list_mutex_ \in Clients \cup {"free"}
  /\ is_stop_run_ \in [Workers -> BOOLEAN]
  /\ workerPc \in [Workers -> WorkerPcs]
  /\ task \in [Workers -> 0 .. accepted]
  /\ clientPc \in [Clients -> ClientPcs]
  /\ expect_num \in [Clients -> Int]
  /\ calls \in 0 .. MaxCalls
  /\ ended \subseteq taken
  /\ drained \in [Clients -> 0 .. accepted]
  /\ promised \in 0 .. accepted
  /\ \A w \in Workers :
       /\ w \in worker_list_ <=> workerPc[w] # "none"
       /\ task[w] # 0 <=> workerPc[w] = "run"
       /\ at[w] # "idle" => workerPc[w] = "pop"
  /\ \A c \in Clients :
       /\ at[c] # "idle" => clientPc[c] \in {"idle", "notify"}
       /\ clientPc[c] \in {"starting", "stopping", "notify", "shutdown", "hang"}
            <=> work_list_mutex_ = c

(* The pool as its callers see it.                                         *)
TP == INSTANCE TaskPool WITH
        Tasks      <- 1 .. MaxItems,
        MaxRunning <- Cardinality(Workers),
        waiting    <- Numbers(inner_queue_),
        running    <- {task[w] : w \in Workers} \ {0},
        ended      <- ended,
        open       <- ~is_stop_flag_

(* Each accepted task is begun once, by one worker, and ended by it, and   *)
(* none is accepted or begun once stop_workers_sync has stopped the queue, *)
(* whoever pops, waits, stops or resizes at the same time, and whatever is *)
(* started again afterwards.                                               *)
ImplementsTaskPool == TP!Spec

(* wait_task_empty_shutdown waits for an empty queue, not for idle         *)
(* workers; when it returns, the tasks that had been accepted when it saw  *)
(* the queue empty have ended all the same, those a worker had in hand     *)
(* included.                                                               *)
DrainedIsDone == 1 .. promised \subseteq ended

(* In a started pool a task that waits is run, unless the pool is stopped. *)
(* (Later tasks are put in front of it, so this holds for finitely many.)  *)
AcceptedRuns ==
  \A n \in 1 .. MaxItems :
    (is_start_works_ /\ n \in Numbers(inner_queue_))
      ~> (n \in ended \/ is_stop_flag_)

(* stop_workers_sync comes back, with workers that wait for a task, run    *)
(* one, or are between the two, and also when the pool had been stopped    *)
(* and grown again before; unless a call that reduces the number of        *)
(* workers keeps work_list_mutex_ for ever.                                *)
StopReturns ==
  \A c \in Clients :
    clientPc[c] = "to_stop"
      ~> (clientPc[c] = "idle" \/ \E d \in Clients : clientPc[d] = "hang")
=============================================================================
