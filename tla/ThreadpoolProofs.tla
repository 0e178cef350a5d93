-------------------------- MODULE ThreadpoolProofs --------------------------
(***************************************************************************)
(* Proofs about Threadpool, for any finite set of threads, any part of     *)
(* which may be workers, and any limits and bounds.                        *)
(*                                                                         *)
(* The pool is shown to use its queue as SafeQueue is specified, so what   *)
(* SafeQueueProofs shows holds in the pool as well.  What is left for the  *)
(* pool is to follow the tasks from the list to the workers and their end. *)
(***************************************************************************)
EXTENDS Threadpool, SafeQueueProofs

(* Who makes which call: workers pop, clients insert.                      *)
CallersInv ==
  /\ \A w \in Workers : call[w] \in {NoCall, PopCall}
  /\ \A c \in Clients : call[c].how \in {"none", "insert"}

(* A task that left the list has ended or is run, and by one worker.       *)
TasksInv ==
  /\ cleared = {}
  /\ taken \subseteq ended \cup {task[w] : w \in Workers}
  /\ \A w \in Workers : task[w] # 0 => task[w] \in taken
  /\ \A v, w \in Workers : task[v] = task[w] => v = w \/ task[v] = 0

(* What a draining client has found accepted has left the list.            *)
DrainInv == \A c \in Clients : 1 .. drained[c] \subseteq taken

PoolInv == PoolTypeOK /\ CallersInv /\ TasksInv /\ DrainInv /\ DrainedIsDone

-----------------------------------------------------------------------------
LEMMA PoolKinds ==
  /\ Workers \subseteq Threads /\ Clients \subseteq Threads
  /\ \A w \in Workers : w \notin Clients
  /\ \A c \in Clients : c # "free"
  /\ PopCall \in Calls /\ PopCall.how = "pop" /\ PopCall.mode = "sync"
  /\ ~IsPut(PopCall)
  /\ \A c \in Calls : c.how = "insert" => IsPut(c)
<1>1. PopCall \in Calls
  <2>1. PopCall \in [how : Gets, mode : Modes, p : {0}]
        BY PopAssumption DEF PopCall
  <2> QED BY <2>1 DEF Calls
<1>2. PopCall.how = "pop" /\ PopCall.mode = "sync" /\ ~IsPut(PopCall)
      BY Kinds DEF PopCall, IsPut
<1>3. \A c \in Calls : c.how = "insert" => IsPut(c)
      BY Kinds, GetsAssumption DEF IsPut
<1> QED BY <1>1, <1>2, <1>3, WorkersAssumption, FreeAssumption DEF Clients

(* A step of the pool is one of its queue, or leaves the queue alone.      *)
LEMMA PoolStepsQueue == [PoolNext]_pVars => [Next]_vars
<1> SUFFICES ASSUME [PoolNext]_pVars PROVE Next \/ UNCHANGED vars
    OBVIOUS
<1>1. ASSUME NEW w \in Workers, WorkerStep(w) PROVE Next \/ UNCHANGED vars
  <2>1. CASE WorkerPop(w)
        BY <2>1, PoolKinds DEF WorkerPop, Next
  <2> QED BY <1>1, <2>1 DEF WorkerStep, WorkerTop, TaskEnd
<1>2. ASSUME NEW c \in Clients,
             \/ \E call_ \in Calls : enqueue_task(c, call_)
             \/ EnqueueTimesOut(c) \/ EnqueueGoesOn(c)
      PROVE  Next
      BY <1>2, PoolKinds DEF enqueue_task, EnqueueTimesOut, EnqueueGoesOn, Next
<1>3. ASSUME NEW c \in Clients,
             \/ EnterCall(c) \/ StartStep(c) \/ ResizeStep(c) \/ Drained(c)
             \/ StopLock(c) \/ StopNothing(c)
             \/ \E w \in Workers : ShutdownAsync(c, w)
             \/ StopReturn(c)
      PROVE  UNCHANGED vars
      BY <1>3 DEF EnterCall, StartCall, StopCall, DrainCall, ResizeCall,
         StartStep, StartLock, StartLaunch, StartReturn, ResizeStep,
         ResizeReturn, ResizeGrow, ResizeShrink, Drained, StopLock,
         StopNothing, Returns, ShutdownAsync, StopReturn
<1>4. ASSUME NEW c \in Clients,
             \/ StopQueue(c) \/ StopNotify(c)
             \/ \E limit \in Limits : change_task_limit_max_num_async(c, limit)
      PROVE  Next
      BY <1>4, PoolKinds DEF StopQueue, StopNotify,
         change_task_limit_max_num_async, Next
<1>5. ASSUME NEW t \in Threads, SpuriousWakeup(t) PROVE Next
      BY <1>5 DEF SpuriousWakeup, Next
<1>6. CASE UNCHANGED pVars
      BY <1>6 DEF pVars
<1> QED BY <1>1, <1>2, <1>3, <1>4, <1>5, <1>6 DEF PoolNext, CallGoesOn,
           StopWork

(* The pool uses its queue as the queue is specified.                      *)
THEOREM PoolUsesQueue == PoolSpec => Spec
<1>1. PoolInit => Init
      BY DEF PoolInit
<1> QED BY <1>1, PoolStepsQueue, PTL DEF PoolSpec, Spec

-----------------------------------------------------------------------------
(* What the calls of workers and clients do to the queue.                  *)

PopsTask(w) ==
  /\ ~is_stop_flag_
  /\ TakesItem
  /\ Head(inner_queue_).n \notin taken
  /\ at'[w] = "idle"
  /\ workerPc' = [workerPc EXCEPT ![w] = "run"]
  /\ task' = [task EXCEPT ![w] = Head(inner_queue_).n]

PopsNothing(w) ==
  /\ LeavesList
  /\ workerPc' = [workerPc EXCEPT ![w] = IF at'[w] # "idle" THEN "pop" ELSE "top"]
  /\ task' = [task EXCEPT ![w] = 0]

LEMMA WorkerPopIs ==
  ASSUME IInv, CallersInv, NEW w \in Workers, WorkerPop(w)
  PROVE  /\ CallStep(w, PopCall)
         /\ PopsTask(w) \/ PopsNothing(w)
         /\ is_stop_flag_' = is_stop_flag_
<1>1. CallStep(w, PopCall)
  <2>1. w \in Threads /\ PopCall \in Calls /\ TypeOK
        BY PoolKinds DEF IInv
  <2>2. CASE Call(w, PopCall)
        BY <2>1, <2>2, StepOfCall
  <2>3. CASE Resume(w) \/ Passed(w)
    <3>1. call[w] \in Calls /\ CallStep(w, call[w])
          BY <2>1, <2>3, StepOfCall
    <3>2. call[w] = PopCall
          BY <3>1, Kinds DEF CallersInv
    <3> QED BY <3>1, <3>2
  <2> QED BY <2>2, <2>3 DEF WorkerPop
<1>2. is_stop_flag_' = is_stop_flag_
      BY <1>1, PoolKinds, CallerMoves DEF IInv
<1>3. CASE GetsOne(w, PopCall)
  <2>1. /\ ~is_stop_flag_ /\ TakesItem
        /\ at' \in NotifyOne("push", Returned(w))
        BY <1>3 DEF GetsOne, GetOne, TakesItem
  <2>2. PICK n : n = Head(inner_queue_).n
        OBVIOUS
  <2>3. n \notin taken /\ taken' = taken \cup {n}
    <3>1. n \in Numbers(inner_queue_)
          BY <2>1, <2>2, TakeKeeps DEF IInv
    <3> QED BY <2>1, <2>2, <3>1 DEF IInv, Accounted, TakesItem
  <2>4. (CHOOSE k \in taken' : k \notin taken) = n /\ taken' # taken
        BY <2>3
  <2>5. at'[w] = "idle"
    <3>1. Returned(w) \in [Threads -> Places] /\ Returned(w)[w] = "idle"
          BY PoolKinds DEF Returned, IInv, TypeOK, Places
    <3> QED BY <2>1, <3>1, PoolKinds, NotifyFrame
  <2>6. /\ workerPc' = [workerPc EXCEPT ![w] = "run"]
        /\ task' = [task EXCEPT ![w] = n]
        BY <2>4, <2>5 DEF WorkerPop, AfterPop
  <2> QED BY <1>1, <1>2, <2>1, <2>2, <2>3, <2>5, <2>6 DEF PopsTask
<1>4. CASE \/ GivesUp(w, PopCall) \/ Waits(w, PopCall) \/ Passes(w, PopCall)
           \/ GoesWrong(w, PopCall)
  <2>1. LeavesList
        BY <1>4 DEF GivesUp, Return, Waits, Wait, Passes, GoesWrong, Pause,
           LeavesList, queueVars, histVars
  <2> QED BY <1>1, <1>2, <2>1 DEF PopsNothing, LeavesList, WorkerPop, AfterPop
<1>5. ~PutsOne(w, PopCall) /\ ~GetsAll(w, PopCall)
      BY PoolKinds DEF PutsOne, GetsAll
<1> QED BY <1>1, <1>3, <1>4, <1>5 DEF CallStep

LEMMA ClientCallIs ==
  ASSUME IInv, CallersInv, NEW c \in Clients,
         \/ \E k \in Calls : k.how = "insert" /\ Call(c, k)
         \/ Resume(c) \/ TimedOut(c) \/ Passed(c)
  PROVE  \E k \in Calls :
           /\ k.how = "insert" /\ IsPut(k) /\ CallStep(c, k)
           /\ LeavesList \/ (~is_stop_flag_ /\ PutsItem(k))
           /\ is_stop_flag_' = is_stop_flag_
<1>1. c \in Threads /\ TypeOK
      BY PoolKinds DEF IInv
<1>2. PICK k \in Calls : k.how = "insert" /\ CallStep(c, k)
  <2>1. ASSUME NEW k \in Calls, k.how = "insert", Call(c, k)
        PROVE  CallStep(c, k)
        BY <1>1, <2>1, StepOfCall
  <2>2. ASSUME Resume(c) \/ TimedOut(c) \/ Passed(c)
        PROVE  /\ call[c] \in Calls /\ CallStep(c, call[c])
               /\ call[c].how = "insert"
    <3>1. call[c] \in Calls /\ CallStep(c, call[c])
          BY <1>1, <2>2, StepOfCall
    <3> QED BY <3>1, Kinds DEF CallersInv
  <2> QED BY <2>1, <2>2
<1>3. IsPut(k)
      BY <1>2, PoolKinds
<1>4. is_stop_flag_' = is_stop_flag_
      BY <1>1, <1>2, CallerMoves
<1> SUFFICES LeavesList \/ (~is_stop_flag_ /\ PutsItem(k))
    BY <1>2, <1>3, <1>4
<1>5. CASE PutsOne(c, k)
      BY <1>5 DEF PutsOne, Put, PutsItem
<1>6. CASE \/ GivesUp(c, k) \/ Waits(c, k) \/ Passes(c, k)
           \/ GoesWrong(c, k)
  <2>1. LeavesList
        BY <1>6 DEF GivesUp, Return, Waits, Wait, Passes, GoesWrong, Pause,
           LeavesList, queueVars, histVars
  <2> QED BY <2>1
<1>7. ~GetsOne(c, k) /\ ~GetsAll(c, k)
      BY <1>2 DEF GetsOne, GetsAll
<1> QED BY <1>2, <1>5, <1>6, <1>7 DEF CallStep

-----------------------------------------------------------------------------
(* What a step of the pool does to the tasks.                              *)

Fetches(w) ==
  PopsTask(w) /\ task[w] = 0 /\ UNCHANGED <<ended, drained, promised>>

Ends(w) ==
  /\ LeavesList
  /\ task[w] # 0
  /\ ended' = ended \cup {task[w]}
  /\ task' = [task EXCEPT ![w] = 0]
  /\ UNCHANGED <<drained, promised>>

Accepts ==
  /\ ~is_stop_flag_
  /\ \E k \in Calls : PutsItem(k)
  /\ UNCHANGED <<task, ended, drained, promised>>

Closes ==
  /\ LeavesList /\ is_stop_flag_'
  /\ UNCHANGED <<task, ended, drained, promised>>

FindsEmpty(c) ==
  /\ LeavesList /\ Size = 0
  /\ drained' = [drained EXCEPT ![c] = accepted]
  /\ UNCHANGED <<task, ended, promised>>

Promises(c) ==
  /\ LeavesList /\ \A w \in Workers : task[w] = 0
  /\ promised' \in {promised, drained[c]}
  /\ drained' = [drained EXCEPT ![c] = 0]
  /\ UNCHANGED <<task, ended>>

LeavesTasks == LeavesList /\ UNCHANGED <<task, ended, drained, promised>>

LEMMA TaskSteps ==
  ASSUME IInv, PoolInv, [PoolNext]_pVars
  PROVE  \/ /\ is_stop_flag_' = is_stop_flag_
            /\ \/ \E w \in Workers : Fetches(w) \/ Ends(w)
               \/ Accepts
               \/ \E c \in Clients : FindsEmpty(c) \/ Promises(c)
               \/ LeavesTasks
         \/ Closes
<1> USE DEF LeavesList, LeavesTasks, vars, queueVars, histVars
<1>1. ASSUME NEW w \in Workers, WorkerStep(w)
      PROVE  /\ is_stop_flag_' = is_stop_flag_
             /\ Fetches(w) \/ Ends(w) \/ LeavesTasks
  <2>1. CASE WorkerPop(w)
    <3>1. /\ PopsTask(w) \/ PopsNothing(w)
          /\ is_stop_flag_' = is_stop_flag_
          BY <2>1, WorkerPopIs DEF PoolInv
    <3>2. UNCHANGED <<ended, drained, promised>>
          BY <2>1 DEF WorkerPop, AfterPop, clientVars
    <3>3. task[w] = 0
          BY <2>1 DEF WorkerPop, PoolInv, PoolTypeOK
    <3>4. CASE PopsNothing(w)
      <4>1. task' = task
            BY <3>3, <3>4 DEF PopsNothing, PoolInv, PoolTypeOK
      <4> QED BY <3>1, <3>2, <3>4, <4>1 DEF PopsNothing
    <3> QED BY <3>1, <3>2, <3>3, <3>4 DEF Fetches
  <2>2. CASE WorkerTop(w)
        BY <2>2 DEF WorkerTop, clientVars
  <2>3. CASE TaskEnd(w)
    <3>1. task[w] # 0
          BY <2>3 DEF TaskEnd, PoolInv, PoolTypeOK
    <3> QED BY <2>3, <3>1 DEF TaskEnd, clientVars, Ends
  <2> QED BY <1>1, <2>1, <2>2, <2>3 DEF WorkerStep
<1>2. ASSUME NEW c \in Clients,
             \/ \E call_ \in Calls : enqueue_task(c, call_)
             \/ EnqueueTimesOut(c) \/ EnqueueGoesOn(c)
      PROVE  is_stop_flag_' = is_stop_flag_ /\ (Accepts \/ LeavesTasks)
  <2>1. /\ \/ \E k \in Calls : k.how = "insert" /\ Call(c, k)
           \/ Resume(c) \/ TimedOut(c) \/ Passed(c)
        /\ UNCHANGED <<task, ended, drained, promised>>
        BY <1>2 DEF enqueue_task, EnqueueTimesOut, EnqueueGoesOn, poolVars,
           clientVars
  <2>2. PICK k \in Calls : /\ LeavesList \/ (~is_stop_flag_ /\ PutsItem(k))
                           /\ is_stop_flag_' = is_stop_flag_
        BY <2>1, ClientCallIs DEF PoolInv
  <2> QED BY <2>1, <2>2 DEF Accepts
<1>3. ASSUME NEW c \in Clients, Returns(c), \A w \in Workers : task[w] = 0
      PROVE  is_stop_flag_' = is_stop_flag_ /\ Promises(c)
      BY <1>3 DEF Returns, Promises
<1>4. ASSUME NEW c \in Clients, StopNothing(c) \/ StopReturn(c)
      PROVE  is_stop_flag_' = is_stop_flag_ /\ Promises(c)
  <2>1. \A w \in Workers : workerPc[w] \in {"none", "exited"}
        BY <1>4 DEF StopNothing, StopReturn, PoolInv, PoolTypeOK
  <2>2. \A w \in Workers : task[w] = 0
        BY <2>1 DEF PoolInv, PoolTypeOK
  <2> QED BY <1>3, <1>4, <2>2 DEF StopNothing, StopReturn
<1>5. ASSUME NEW c \in Clients, Drained(c)
      PROVE  is_stop_flag_' = is_stop_flag_ /\ FindsEmpty(c)
      BY <1>5 DEF Drained, FindsEmpty, poolVars
<1>6. ASSUME NEW c \in Clients, StopQueue(c) PROVE Closes
      BY <1>6 DEF StopQueue, Stop, Closes, poolVars
<1>7. ASSUME NEW c \in Clients,
             \/ EnterCall(c) \/ StartStep(c) \/ ResizeStep(c)
             \/ StopLock(c) \/ StopNotify(c)
             \/ \E w \in Workers : ShutdownAsync(c, w)
             \/ \E limit \in Limits : change_task_limit_max_num_async(c, limit)
      PROVE  is_stop_flag_' = is_stop_flag_ /\ LeavesTasks
  <2> USE DEF poolVars, clientVars
  <2>1. CASE EnterCall(c)
        BY <2>1 DEF EnterCall, StartCall, StopCall, DrainCall, ResizeCall
  <2>2. CASE StartStep(c)
        BY <2>2 DEF StartStep, StartLock, StartLaunch, StartReturn
  <2>3. CASE ResizeStep(c)
        BY <2>3 DEF ResizeStep, ResizeReturn, ResizeGrow, ResizeShrink
  <2>4. CASE StopLock(c) \/ StopNotify(c)
        BY <2>4 DEF StopLock, StopNotify, StopStep, StopNotifyPush,
           StopNotifyPop
  <2>5. CASE \/ \E w \in Workers : ShutdownAsync(c, w)
             \/ \E limit \in Limits : change_task_limit_max_num_async(c, limit)
        BY <2>5 DEF ShutdownAsync, change_task_limit_max_num_async,
           change_limit_len_max
  <2> QED BY <1>7, <2>1, <2>2, <2>3, <2>4, <2>5
<1>8. ASSUME NEW t \in Threads, SpuriousWakeup(t)
      PROVE  is_stop_flag_' = is_stop_flag_ /\ LeavesTasks
      BY <1>8 DEF SpuriousWakeup, Spurious, poolVars, clientVars
<1>9. CASE UNCHANGED pVars
      BY <1>9 DEF pVars, poolVars, clientVars
<1> HIDE DEF LeavesTasks
<1> QED BY <1>1, <1>2, <1>4, <1>5, <1>6, <1>7, <1>8, <1>9
        DEF PoolNext, CallGoesOn, StopWork

LEMMA TakenNumbers ==
  ASSUME IInv
  PROVE  /\ accepted \in Nat /\ accepted <= MaxItems
         /\ taken \cup cleared \cup Numbers(inner_queue_) = 1 .. accepted
BY ListIs, ItemsAssumption DEF IInv, Accounted, TypeOK

LEMMA TasksStep ==
  ASSUME IInv, PoolInv, [PoolNext]_pVars
  PROVE  TasksInv' /\ DrainInv' /\ DrainedIsDone'
<1> DEFINE Goal == TasksInv' /\ DrainInv' /\ DrainedIsDone'
<1>1. /\ task \in [Workers -> Nat] /\ drained \in [Clients -> Nat]
      /\ promised \in Nat /\ ended \subseteq taken
      /\ TasksInv /\ DrainInv /\ DrainedIsDone
  <2>1. 0 .. accepted \subseteq Nat
        BY TakenNumbers
  <2> QED BY <2>1 DEF PoolInv, PoolTypeOK
<1>2. ASSUME NEW w \in Workers, Fetches(w) PROVE Goal
  <2>1. PICK n : n = Head(inner_queue_).n
        OBVIOUS
  <2>2. /\ n \notin taken /\ taken' = taken \cup {n} /\ cleared' = cleared
        /\ UNCHANGED <<ended, drained, promised>>
        /\ task' = [task EXCEPT ![w] = n]
        BY <1>2, <2>1 DEF Fetches, PopsTask, TakesItem
  <2>3. task'[w] = n /\ \A v \in Workers \ {w} : task'[v] = task[v]
        BY <1>1, <2>2
  <2>4. task[w] = 0
        BY <1>2 DEF Fetches
  <2>5. TasksInv'
    <3>1. taken' \subseteq ended' \cup {task'[v] : v \in Workers}
      <4> SUFFICES ASSUME NEW k \in taken', k \notin ended'
                   PROVE  \E v \in Workers : task'[v] = k
          OBVIOUS
      <4>1. CASE k = n
            BY <2>3, <4>1
      <4>2. CASE k # n
        <5>1. PICK v \in Workers : task[v] = k
              BY <1>1, <2>2, <4>2 DEF TasksInv
        <5>2. k # 0
              BY <2>2, <4>2, TakenNumbers
        <5> QED BY <2>3, <2>4, <5>1, <5>2
      <4> QED BY <4>1, <4>2
    <3>2. \A v \in Workers : task'[v] # 0 => task'[v] \in taken'
          BY <1>1, <2>2, <2>3 DEF TasksInv
    <3>3. \A u, v \in Workers : task'[u] = task'[v] => u = v \/ task'[u] = 0
          BY <1>1, <2>2, <2>3 DEF TasksInv
    <3> QED BY <1>1, <2>2, <3>1, <3>2, <3>3 DEF TasksInv
  <2> QED BY <1>1, <2>2, <2>5 DEF DrainInv, DrainedIsDone
<1>3. ASSUME NEW w \in Workers, Ends(w) PROVE Goal
  <2>1. /\ ended' = ended \cup {task[w]} /\ task[w] # 0
        /\ UNCHANGED <<taken, cleared, drained, promised>>
        BY <1>3 DEF Ends, LeavesList
  <2>2. task'[w] = 0 /\ \A v \in Workers \ {w} : task'[v] = task[v]
        BY <1>1, <1>3 DEF Ends
  <2>3. TasksInv'
        BY <1>1, <2>1, <2>2 DEF TasksInv
  <2> QED BY <1>1, <2>1, <2>3 DEF DrainInv, DrainedIsDone
<1>4. CASE Accepts
      BY <1>1, <1>4 DEF Accepts, PutsItem, TasksInv, DrainInv, DrainedIsDone
<1>5. ASSUME NEW c \in Clients, FindsEmpty(c) PROVE Goal
  <2>1. /\ UNCHANGED <<taken, cleared, task, ended, promised>> /\ Size = 0
        /\ drained' = [drained EXCEPT ![c] = accepted]
        BY <1>5 DEF FindsEmpty, LeavesList
  <2>2. Numbers(inner_queue_) = {}
        BY <2>1, ListIs DEF Numbers, IInv, Size
  <2>3. taken = 1 .. accepted
        BY <1>1, <2>2, TakenNumbers DEF TasksInv
  <2>4. DrainInv'
    <3> SUFFICES ASSUME NEW d \in Clients PROVE 1 .. drained'[d] \subseteq taken
        BY <2>1 DEF DrainInv
    <3> QED BY <1>1, <2>1, <2>3 DEF DrainInv
  <2> QED BY <1>1, <2>1, <2>4 DEF TasksInv, DrainedIsDone
<1>6. ASSUME NEW c \in Clients, Promises(c) PROVE Goal
  <2>1. /\ UNCHANGED <<taken, cleared, task, ended>>
        /\ \A w \in Workers : task[w] = 0
        /\ promised' = promised \/ promised' = drained[c]
        /\ drained' = [drained EXCEPT ![c] = 0]
        BY <1>6 DEF Promises, LeavesList
  <2>2. 1 .. drained[c] \subseteq ended
    <3>1. 1 .. drained[c] \subseteq taken /\ drained[c] \in Nat
          BY <1>1 DEF DrainInv
    <3>2. taken \subseteq ended \cup {0}
          BY <1>1, <2>1 DEF TasksInv
    <3> QED BY <3>1, <3>2
  <2>3. DrainInv'
    <3> SUFFICES ASSUME NEW d \in Clients PROVE 1 .. drained'[d] \subseteq taken
        BY <2>1 DEF DrainInv
    <3> QED BY <1>1, <2>1 DEF DrainInv
  <2>4. DrainedIsDone'
        BY <1>1, <2>1, <2>2 DEF DrainedIsDone
  <2> QED BY <1>1, <2>1, <2>3, <2>4 DEF TasksInv
<1>7. CASE LeavesTasks \/ Closes
      BY <1>1, <1>7 DEF LeavesTasks, Closes, LeavesList, TasksInv, DrainInv,
         DrainedIsDone
<1> QED BY <1>2, <1>3, <1>4, <1>5, <1>6, <1>7, TaskSteps

-----------------------------------------------------------------------------
(* The fields of the pool, and who makes which call.                       *)

(* A step of the queue moves its own thread, and wakes others that wait.   *)
OthersWoken(t) ==
  \A u \in Threads \ {t} :
    at'[u] = at[u] \/ (at[u] # "idle" /\ at'[u] # "idle")

SharedOK == 
  /\ worker_list_ \subseteq Workers
  /\ is_start_works_ \in BOOLEAN
  /\ work_list_mutex_ \in Clients \cup {"free"}
  /\ is_stop_run_ \in [Workers -> BOOLEAN]
  /\ workerPc \in [Workers -> WorkerPcs]
  /\ clientPc \in [Clients -> ClientPcs]
  /\ expect_num \in [Clients -> Int]
  /\ calls \in 0 .. MaxCalls

HistoryOK ==
  /\ task \in [Workers -> 0 .. accepted]
  /\ ended \subseteq taken
  /\ drained \in [Clients -> 0 .. accepted]
  /\ promised \in 0 .. accepted

WorkerOK(w) ==
  /\ w \in worker_list_ <=> workerPc[w] # "none"
  /\ task[w] # 0 <=> workerPc[w] = "run"
  /\ at[w] # "idle" => workerPc[w] = "pop"

Holding == {"starting", "stopping", "notify", "shutdown", "hang"}

ClientOK(c) ==
  /\ at[c] # "idle" => clientPc[c] \in {"idle", "notify"}
  /\ clientPc[c] \in Holding <=> work_list_mutex_ = c

LEMMA PoolTypeParts ==
  PoolTypeOK <=> /\ SharedOK /\ HistoryOK
                 /\ \A w \in Workers : WorkerOK(w)
                 /\ \A c \in Clients : ClientOK(c)
BY DEF PoolTypeOK, SharedOK, HistoryOK, WorkerOK, ClientOK, Holding

LEMMA HistoryStep ==
  ASSUME IInv, IInv', PoolInv, [PoolNext]_pVars
  PROVE  HistoryOK'
<1>1. HistoryOK /\ accepted \in Nat /\ accepted' \in Nat
  <2>1. accepted' \in Nat
        BY ItemsAssumption DEF IInv, TypeOK
  <2> QED BY <2>1, TakenNumbers, PoolTypeParts DEF PoolInv
<1>2. /\ 0 .. accepted \subseteq Nat /\ task \in [Workers -> Nat]
      /\ drained \in [Clients -> 0 .. accepted] /\ promised \in 0 .. accepted
      /\ ended \subseteq taken
      BY <1>1 DEF HistoryOK
<1>3. ASSUME NEW w \in Workers, Fetches(w) PROVE HistoryOK'
  <2>1. PICK n : n = Head(inner_queue_).n
        OBVIOUS
  <2>2. /\ accepted' = accepted /\ taken' = taken \cup {n}
        /\ task' = [task EXCEPT ![w] = n]
        /\ UNCHANGED <<ended, drained, promised>>
        BY <1>3, <2>1 DEF Fetches, PopsTask, TakesItem
  <2>3. n \in 0 .. accepted /\ n \in Nat
    <3>1. n \in 1 .. accepted'
          BY <2>2 DEF IInv, TypeOK
    <3> QED BY <1>1, <2>2, <3>1
  <2> QED BY <1>1, <1>2, <2>2, <2>3 DEF HistoryOK
<1>4. ASSUME NEW w \in Workers, Ends(w) PROVE HistoryOK'
  <2>1. task[w] \in taken
        BY <1>4 DEF Ends, PoolInv, TasksInv
  <2> QED BY <1>1, <1>2, <1>4, <2>1 DEF Ends, LeavesList, HistoryOK
<1>5. CASE Accepts
  <2>1. /\ accepted' = accepted + 1
        /\ UNCHANGED <<taken, task, ended, drained, promised>>
        BY <1>5 DEF Accepts, PutsItem
  <2>2. 0 .. accepted \subseteq 0 .. accepted'
        BY <1>1, <2>1
  <2> QED BY <1>1, <2>1, <2>2 DEF HistoryOK
<1>6. ASSUME NEW c \in Clients, FindsEmpty(c) \/ Promises(c) PROVE HistoryOK'
  <2>1. 0 \in 0 .. accepted /\ accepted \in 0 .. accepted
        /\ drained[c] \in 0 .. accepted
        BY <1>1, <1>2
  <2> QED BY <1>1, <1>2, <1>6, <2>1
          DEF FindsEmpty, Promises, LeavesList, HistoryOK
<1>7. CASE LeavesTasks \/ Closes
      BY <1>1, <1>7 DEF LeavesTasks, Closes, LeavesList, HistoryOK
<1> QED BY <1>3, <1>4, <1>5, <1>6, <1>7, TaskSteps

LEMMA PoolTypeStep ==
  ASSUME IInv, IInv', PoolInv, [PoolNext]_pVars
  PROVE  PoolTypeOK'
<1> DEFINE Fields == /\ SharedOK'
                     /\ \A w \in Workers : WorkerOK(w)'
                     /\ \A c \in Clients : ClientOK(c)'
<1> SUFFICES Fields
  <2>1. PoolTypeOK' <=> /\ SharedOK' /\ HistoryOK'
                        /\ \A w \in Workers : WorkerOK(w)'
                        /\ \A c \in Clients : ClientOK(c)'
        BY DEF PoolTypeOK, SharedOK, HistoryOK, WorkerOK, ClientOK, Holding
  <2> QED BY <2>1, HistoryStep
<1>1. /\ SharedOK /\ HistoryOK
      /\ \A w \in Workers : WorkerOK(w)
      /\ \A c \in Clients : ClientOK(c)
      /\ task \in [Workers -> Nat] /\ at \in [Threads -> Places]
  <2>1. /\ SharedOK /\ HistoryOK
        /\ \A w \in Workers : WorkerOK(w)
        /\ \A c \in Clients : ClientOK(c)
        BY PoolTypeParts DEF PoolInv
  <2>2. 0 .. accepted \subseteq Nat
        BY TakenNumbers
  <2> QED BY <2>1, <2>2 DEF HistoryOK, IInv, TypeOK
<1> USE PoolKinds
<1>2. ASSUME NEW t \in Threads, NEW k \in Calls, CallStep(t, k)
      PROVE  OthersWoken(t)
      BY <1>2, CallerMoves DEF OthersWoken, IInv
<1>3. ASSUME NEW w \in Workers, WorkerPop(w) PROVE Fields
  <2>1. /\ OthersWoken(w) /\ workerPc[w] = "pop"
        /\ PopsTask(w) \/ PopsNothing(w)
        BY <1>2, <1>3, WorkerPopIs DEF PoolInv, WorkerPop
  <2>2. UNCHANGED <<worker_list_, is_start_works_, work_list_mutex_,
                    is_stop_run_, clientPc, expect_num, calls>>
        BY <1>3 DEF WorkerPop, AfterPop, clientVars
  <2>3. SharedOK'
    <3>1. workerPc' \in [Workers -> WorkerPcs]
          BY <1>1, <2>1 DEF PopsTask, PopsNothing, SharedOK, WorkerPcs
    <3> QED BY <1>1, <2>2, <3>1 DEF SharedOK
  <2>4. \A c \in Clients : ClientOK(c)'
        BY <1>1, <2>1, <2>2 DEF ClientOK, OthersWoken
  <2>5. ASSUME NEW v \in Workers \ {w} PROVE WorkerOK(v)'
    <3>1. workerPc'[v] = workerPc[v] /\ task'[v] = task[v]
          BY <1>1, <2>1 DEF PopsTask, PopsNothing, SharedOK
    <3> QED BY <1>1, <2>1, <2>2, <3>1 DEF WorkerOK, OthersWoken
  <2>6. WorkerOK(w)'
    <3>1. w \in worker_list_'
          BY <1>1, <2>1, <2>2 DEF WorkerOK
    <3>2. CASE PopsTask(w)
      <4>1. PICK n : n = Head(inner_queue_).n
            OBVIOUS
      <4>2. workerPc'[w] = "run" /\ task'[w] = n /\ at'[w] = "idle"
            BY <1>1, <3>2, <4>1 DEF PopsTask, SharedOK
      <4>3. n # 0
        <5>1. n \in 1 .. accepted'
              BY <3>2, <4>1 DEF PopsTask, TakesItem, IInv, TypeOK
        <5> QED BY <5>1
      <4> QED BY <3>1, <4>2, <4>3 DEF WorkerOK
    <3>3. CASE PopsNothing(w)
      <4>1. /\ workerPc'[w] = IF at'[w] # "idle" THEN "pop" ELSE "top"
            /\ task'[w] = 0
            BY <1>1, <3>3 DEF PopsNothing, SharedOK
      <4> QED BY <3>1, <4>1 DEF WorkerOK
    <3> QED BY <2>1, <3>2, <3>3
  <2> QED BY <2>3, <2>4, <2>5, <2>6
<1>4. ASSUME NEW w \in Workers, WorkerTop(w) \/ TaskEnd(w) PROVE Fields
      BY <1>1, <1>4 DEF WorkerTop, TaskEnd, vars, clientVars, SharedOK,
         WorkerOK, ClientOK, WorkerPcs
<1>5. ASSUME NEW c \in Clients,
             \/ \E call_ \in Calls : enqueue_task(c, call_)
             \/ EnqueueTimesOut(c) \/ EnqueueGoesOn(c)
      PROVE  Fields
  <2>1. /\ \/ \E k \in Calls : k.how = "insert" /\ Call(c, k)
           \/ Resume(c) \/ TimedOut(c) \/ Passed(c)
        /\ UNCHANGED <<poolVars, clientVars>>
        BY <1>5 DEF enqueue_task, EnqueueTimesOut, EnqueueGoesOn
  <2>2. OthersWoken(c)
        BY <1>2, <2>1, ClientCallIs DEF PoolInv
  <2>3. clientPc[c] \in {"idle", "notify"}
        BY <1>1, <1>5 DEF enqueue_task, Free, EnqueueTimesOut, TimedOut,
           EnqueueGoesOn, Resume, Passed, ClientOK
  <2> QED BY <1>1, <2>1, <2>2, <2>3 DEF poolVars, clientVars, SharedOK,
          WorkerOK, ClientOK, OthersWoken
<1>6. ASSUME NEW t \in Threads, SpuriousWakeup(t) PROVE Fields
  <2>1. /\ UNCHANGED <<poolVars, clientVars>> /\ OthersWoken(t)
        /\ at[t] # "idle"
        BY <1>1, <1>6 DEF SpuriousWakeup, Spurious, OthersWoken
  <2> QED BY <1>1, <2>1 DEF poolVars, clientVars, SharedOK, WorkerOK,
          ClientOK, OthersWoken
<1>7. ASSUME NEW c \in Clients, StopQueue(c) \/ StopNotify(c) PROVE Fields
  <2>1. /\ UNCHANGED <<poolVars, expect_num, calls>>
        /\ clientPc[c] \in {"stopping", "notify"}
        /\ \E pc \in {"notify", "shutdown"} :
             /\ clientPc' = [clientPc EXCEPT ![c] = pc]
             /\ at'[c] # "idle" => pc = "notify"
    <3>1. CASE StopQueue(c)
          BY <3>1 DEF StopQueue, Goto
    <3>2. CASE StopNotify(c)
          BY <3>2 DEF StopNotify, Goto
    <3> QED BY <1>7, <3>1, <3>2
  <2>2. OthersWoken(c)
    <3>1. CASE StopQueue(c)
          BY <1>1, <3>1 DEF StopQueue, Stop, OthersWoken
    <3>2. CASE StopNotify(c)
          BY <1>1, <3>2 DEF StopNotify, StopStep, StopNotifyPush,
             StopNotifyPop, NotifyAll, Returned, OthersWoken
    <3> QED BY <1>7, <3>1, <3>2
  <2>3. SharedOK'
        BY <1>1, <2>1 DEF SharedOK, ClientPcs, poolVars
  <2>4. \A w \in Workers : WorkerOK(w)'
        BY <1>1, <2>1, <2>2 DEF WorkerOK, OthersWoken, poolVars
  <2>5. \A d \in Clients : ClientOK(d)'
        BY <1>1, <2>1, <2>2 DEF ClientOK, OthersWoken, poolVars, Holding,
           SharedOK
  <2> QED BY <2>3, <2>4, <2>5
(* The other calls of the pool leave the queue and its threads alone.      *)
<1>8. ASSUME NEW c \in Clients, NEW pc \in ClientPcs, Goto(c, pc),
             UNCHANGED <<at, task, worker_list_, workerPc, is_stop_run_>>,
             is_start_works_' \in BOOLEAN, expect_num' \in [Clients -> Int],
             calls' \in 0 .. MaxCalls,
             at[c] = "idle" \/ clientPc[c] \notin {"idle", "notify"},
             \/ /\ UNCHANGED work_list_mutex_
                /\ pc \notin Holding /\ clientPc[c] \notin Holding
             \/ Lock(c) /\ pc \in Holding
             \/ Unlock /\ pc \notin Holding /\ clientPc[c] \in Holding
      PROVE  Fields
  <2>1. /\ clientPc' \in [Clients -> ClientPcs] /\ clientPc'[c] = pc
        /\ \A d \in Clients \ {c} : clientPc'[d] = clientPc[d]
        BY <1>1, <1>8 DEF Goto, SharedOK
  <2>2. at[c] = "idle"
        BY <1>1, <1>8 DEF ClientOK
  <2>3. /\ work_list_mutex_' \in {work_list_mutex_, c, "free"}
        /\ pc \in Holding <=> work_list_mutex_' = c
        /\ \A d \in Clients \ {c} :
             work_list_mutex_' = d <=> work_list_mutex_ = d
        BY <1>1, <1>8 DEF Lock, Unlock, ClientOK
  <2>4. SharedOK'
        BY <1>1, <1>8, <2>1, <2>3 DEF SharedOK
  <2>5. \A w \in Workers : WorkerOK(w)'
        BY <1>1, <1>8 DEF WorkerOK
  <2>6. \A d \in Clients : ClientOK(d)'
    <3>1. ClientOK(c)'
          BY <1>8, <2>1, <2>2, <2>3 DEF ClientOK
    <3>2. ASSUME NEW d \in Clients \ {c} PROVE ClientOK(d)'
          BY <1>1, <1>8, <2>1, <2>3 DEF ClientOK
    <3> QED BY <3>1, <3>2
  <2> QED BY <2>4, <2>5, <2>6
<1>9. /\ {"idle", "to_start", "draining", "to_stop", "to_resize"}
           \subseteq ClientPcs \ Holding
      /\ Holding \subseteq ClientPcs
      BY DEF ClientPcs, Holding
<1>10. /\ is_start_works_ \in BOOLEAN /\ expect_num \in [Clients -> Int]
       /\ calls \in 0 .. MaxCalls
       BY <1>1 DEF SharedOK
<1> USE DEF vars
<1>11. ASSUME NEW c \in Clients, EnterCall(c) PROVE Fields
  <2>1. PICK pc \in {"to_start", "draining", "to_stop", "to_resize"} :
          Enter(c, pc)
        BY <1>11 DEF EnterCall, StartCall, StopCall, DrainCall, ResizeCall
  <2>2. /\ UNCHANGED <<vars, poolVars>> /\ expect_num' \in [Clients -> Int]
    <3>1. Cardinality(worker_list_) \in Nat
      <4>1. IsFiniteSet(worker_list_)
            BY <1>1, ThreadsAssumption, FS_Subset DEF SharedOK
      <4> QED BY <4>1, FS_CardinalityType
    <3>2. \A change \in Changes : Cardinality(worker_list_) + change \in Int
          BY <3>1, ChangesAssumption
    <3> QED BY <1>10, <1>11, <3>2 DEF EnterCall, StartCall, StopCall,
            DrainCall, ResizeCall
  <2>3. calls' \in 0 .. MaxCalls
        BY <1>10, <2>1, CallsAssumption DEF Enter
  <2> QED BY <1>8, <1>9, <1>10, <2>1, <2>2, <2>3 DEF Enter, Free, poolVars,
          Holding
<1>12. ASSUME NEW c \in Clients, NEW w \in Workers,
              Launch(w), UNCHANGED <<at, task, is_start_works_,
                                     work_list_mutex_, expect_num, calls>>,
              \/ UNCHANGED clientPc
              \/ Goto(c, "idle") /\ clientPc[c] = "to_resize"
       PROVE  Fields
  <2>1. /\ worker_list_' = worker_list_ \cup {w} /\ w \notin worker_list_
        /\ is_stop_run_' = [is_stop_run_ EXCEPT ![w] = FALSE]
        /\ workerPc' = [workerPc EXCEPT ![w] = "top"]
        BY <1>12 DEF Launch
  <2>2. SharedOK'
        BY <1>1, <1>12, <2>1 DEF SharedOK, WorkerPcs, ClientPcs, Goto
  <2>3. \A v \in Workers : WorkerOK(v)'
    <3>1. workerPc[w] = "none" /\ task[w] = 0 /\ at[w] = "idle"
          BY <1>1, <2>1 DEF WorkerOK
    <3>2. WorkerOK(w)'
          BY <1>1, <1>12, <2>1, <3>1 DEF WorkerOK, SharedOK
    <3>3. ASSUME NEW v \in Workers \ {w} PROVE WorkerOK(v)'
          BY <1>1, <1>12, <2>1, <3>3 DEF WorkerOK, SharedOK
    <3> QED BY <3>2, <3>3
  <2>4. \A d \in Clients : ClientOK(d)'
        BY <1>1, <1>12 DEF ClientOK, Goto, SharedOK, Holding
  <2> QED BY <2>2, <2>3, <2>4
<1>13. ASSUME NEW c \in Clients, StartStep(c) PROVE Fields
  <2>1. CASE StartLock(c)
        BY <1>8, <1>9, <1>10, <2>1 DEF StartLock, Holding
  <2>2. ASSUME NEW w \in Workers, StartLaunch(c, w) PROVE Fields
        BY <1>12, <2>2 DEF StartLaunch, clientVars
  <2>3. CASE StartReturn(c)
        BY <1>8, <1>9, <1>10, <2>3 DEF StartReturn, Holding
  <2> QED BY <1>13, <2>1, <2>2, <2>3 DEF StartStep
<1>14. ASSUME NEW c \in Clients, ResizeStep(c) PROVE Fields
  <2>1. CASE ResizeReturn(c)
        BY <1>8, <1>9, <1>10, <2>1 DEF ResizeReturn, Holding, poolVars
  <2>2. ASSUME NEW w \in Workers, ResizeGrow(c, w) PROVE Fields
        BY <1>12, <2>2 DEF ResizeGrow
  <2>3. CASE ResizeShrink(c)
        BY <1>8, <1>9, <1>10, <2>3 DEF ResizeShrink, Holding
  <2> QED BY <1>14, <2>1, <2>2, <2>3 DEF ResizeStep
<1>15. ASSUME NEW c \in Clients,
              Drained(c) \/ StopLock(c) \/ StopNothing(c) \/ StopReturn(c)
       PROVE  Fields
  <2>1. CASE Drained(c)
        BY <1>8, <1>9, <1>10, <2>1 DEF Drained, Holding, poolVars
  <2>2. CASE StopLock(c)
        BY <1>8, <1>9, <1>10, <2>2 DEF StopLock, Holding
  <2>3. CASE StopNothing(c)
        BY <1>8, <1>9, <1>10, <2>3 DEF StopNothing, Returns, Holding
  <2>4. CASE StopReturn(c)
        BY <1>8, <1>9, <1>10, <2>4 DEF StopReturn, Returns, Holding
  <2> QED BY <1>15, <2>1, <2>2, <2>3, <2>4
<1>16. ASSUME NEW c \in Clients, NEW w \in Workers, ShutdownAsync(c, w)
       PROVE  Fields
       BY <1>1, <1>16 DEF ShutdownAsync, clientVars, SharedOK, WorkerOK,
          ClientOK
<1>17. ASSUME NEW c \in Clients, NEW limit \in Limits,
              change_task_limit_max_num_async(c, limit)
       PROVE  Fields
  <2>1. /\ UNCHANGED <<poolVars, clientPc, expect_num, at>>
        /\ calls < MaxCalls /\ calls' = calls + 1
        BY <1>17 DEF change_task_limit_max_num_async, change_limit_len_max
  <2>2. calls' \in 0 .. MaxCalls
        BY <1>10, <2>1, CallsAssumption
  <2> QED BY <1>1, <2>1, <2>2 DEF poolVars, SharedOK, WorkerOK, ClientOK
<1>18. CASE UNCHANGED pVars
       BY <1>1, <1>18 DEF pVars, poolVars, clientVars, SharedOK, WorkerOK,
          ClientOK
<1> QED BY <1>3, <1>4, <1>5, <1>6, <1>7, <1>11, <1>13, <1>14, <1>15, <1>16,
           <1>17, <1>18 DEF PoolNext, WorkerStep, CallGoesOn, StopWork

(* What a call leaves pending is this call, or nothing.                    *)
LEMMA PendingCall ==
  ASSUME TypeOK, NEW t \in Threads, NEW k \in Calls, CallStep(t, k)
  PROVE  call'[t] \in {NoCall, k}
<1>1. CallOver(t) \/ call' = [call EXCEPT ![t] = k]
      BY DEF CallStep, PutsOne, Put, GetsOne, GetOne, GetsAll, GetList,
         GivesUp, Return, Waits, Wait, Passes, GoesWrong, Pause
<1> QED BY <1>1 DEF CallOver, TypeOK

LEMMA CallersStep ==
  ASSUME IInv, PoolInv, [PoolNext]_pVars
  PROVE  CallersInv'
<1>1. CallersInv /\ TypeOK
      BY DEF IInv, PoolInv
<1>2. ASSUME NEW t \in Threads, NEW k \in Calls, CallStep(t, k),
             t \in Workers => k = PopCall,
             t \in Clients => k.how = "insert"
      PROVE  CallersInv'
  <2>1. /\ call'[t] \in {NoCall, k}
        /\ \A u \in Threads \ {t} : call'[u] = call[u]
        BY <1>1, <1>2, PendingCall, CallerMoves
  <2> QED BY <1>1, <1>2, <2>1, PoolKinds, Kinds DEF CallersInv
<1>3. ASSUME NEW w \in Workers, WorkerPop(w) PROVE CallersInv'
      BY <1>1, <1>2, <1>3, PoolKinds, WorkerPopIs
<1>4. ASSUME NEW c \in Clients,
             \/ \E call_ \in Calls : enqueue_task(c, call_)
             \/ EnqueueTimesOut(c) \/ EnqueueGoesOn(c)
      PROVE  CallersInv'
  <2>1. \/ \E k \in Calls : k.how = "insert" /\ Call(c, k)
        \/ Resume(c) \/ TimedOut(c) \/ Passed(c)
        BY <1>4 DEF enqueue_task, EnqueueTimesOut, EnqueueGoesOn
  <2>2. PICK k \in Calls : k.how = "insert" /\ CallStep(c, k)
        BY <1>1, <2>1, ClientCallIs
  <2> QED BY <1>2, <2>2, PoolKinds
<1>5. UNCHANGED call => CallersInv'
      BY <1>1 DEF CallersInv
<1> USE DEF vars
<1>6. ASSUME NEW c \in Clients,
             \/ EnterCall(c) \/ StartStep(c) \/ ResizeStep(c) \/ Drained(c)
             \/ StopLock(c) \/ StopNothing(c)
             \/ \E w \in Workers : ShutdownAsync(c, w)
             \/ StopReturn(c)
      PROVE  UNCHANGED call
      BY <1>6 DEF EnterCall, StartCall, StopCall, DrainCall, ResizeCall,
         StartStep, StartLock, StartLaunch, StartReturn, ResizeStep,
         ResizeReturn, ResizeGrow, ResizeShrink, Drained, StopLock,
         StopNothing, Returns, ShutdownAsync, StopReturn
<1>7. ASSUME NEW c \in Clients,
             \/ StopQueue(c) \/ StopNotify(c)
             \/ \E limit \in Limits : change_task_limit_max_num_async(c, limit)
      PROVE  UNCHANGED call
      BY <1>7 DEF StopQueue, Stop, StopNotify, StopStep, StopNotifyPush,
         StopNotifyPop, change_task_limit_max_num_async, change_limit_len_max
<1>8. ASSUME NEW t \in Threads, SpuriousWakeup(t) PROVE UNCHANGED call
      BY <1>8 DEF SpuriousWakeup, Spurious
<1>9. ASSUME NEW w \in Workers, WorkerTop(w) \/ TaskEnd(w)
      PROVE  UNCHANGED call
      BY <1>9 DEF WorkerTop, TaskEnd
<1>10. CASE UNCHANGED pVars
       BY <1>5, <1>10 DEF pVars
<1> QED BY <1>3, <1>4, <1>5, <1>6, <1>7, <1>8, <1>9, <1>10
        DEF PoolNext, WorkerStep, CallGoesOn, StopWork

LEMMA InitPool == PoolInit => PoolInv
<1> SUFFICES ASSUME PoolInit PROVE PoolInv
    OBVIOUS
<1> USE DEF PoolInit
<1>1. /\ accepted = 0 /\ taken = {} /\ cleared = {}
      /\ \A t \in Threads : at[t] = "idle" /\ call[t] = NoCall
      BY DEF Init
<1>2. PoolTypeOK
  <2>1. SharedOK
    <3>1. /\ worker_list_ = {} /\ is_start_works_ = FALSE
          /\ work_list_mutex_ = "free" /\ calls = 0
          OBVIOUS
    <3>2. is_start_works_ \in BOOLEAN
          BY <3>1
    <3>3. is_stop_run_ \in [Workers -> BOOLEAN]
          OBVIOUS
    <3>4. calls \in 0 .. MaxCalls
          BY <3>1, CallsAssumption
    <3> QED BY <3>1, <3>2, <3>3, <3>4 DEF SharedOK, WorkerPcs, ClientPcs
  <2>2. HistoryOK
        BY <1>1 DEF HistoryOK
  <2>3. \A w \in Workers : WorkerOK(w)
        BY <1>1, PoolKinds DEF WorkerOK
  <2>4. \A c \in Clients : ClientOK(c)
        BY <1>1, PoolKinds DEF ClientOK, Holding
  <2> QED BY <2>1, <2>2, <2>3, <2>4, PoolTypeParts
<1>3. CallersInv
      BY <1>1, PoolKinds, Kinds DEF CallersInv
<1>4. TasksInv
      BY <1>1 DEF TasksInv
<1>5. DrainInv /\ DrainedIsDone
  <2>1. 1 .. 0 = {}
        OBVIOUS
  <2> QED BY <2>1 DEF DrainInv, DrainedIsDone
<1> QED BY <1>2, <1>3, <1>4, <1>5 DEF PoolInv

(* The invariant: that of the queue, the fields of the pool, and where the *)
(* tasks are that have left the queue.                                     *)
THEOREM PoolInvariance == PoolSpec => [](IInv /\ PoolInv)
<1>1. IInv /\ IInv' /\ PoolInv /\ [PoolNext]_pVars => PoolInv'
      BY PoolTypeStep, CallersStep, TasksStep DEF PoolInv
<1> QED BY <1>1, InitPool, PoolUsesQueue, QueueInvariance, PTL DEF PoolSpec

(* The fields of the pool and of its workers and clients have their types, *)
(* and work_list_mutex_ is held exactly by the client that is inside.      *)
THEOREM PoolTypeCorrect == PoolSpec => []PoolTypeOK
<1>1. PoolInv => PoolTypeOK
      BY DEF PoolInv
<1> QED BY <1>1, PoolInvariance, PTL

(* When wait_task_empty_shutdown returns, what had been accepted when it   *)
(* saw the queue empty has ended.                                          *)
THEOREM ShutdownIsDone == PoolSpec => []DrainedIsDone
<1>1. PoolInv => DrainedIsDone
      BY DEF PoolInv
<1> QED BY <1>1, PoolInvariance, PTL

-----------------------------------------------------------------------------
(* The pool implements TaskPool.                                           *)

Running == {task[w] : w \in Workers} \ {0}

(* TaskPool counts as this module does.                                    *)
LEMMA SameCardinality ==
  ASSUME NEW S
  PROVE  TP!Cardinality(S) = Cardinality(S)
BY DEF TP!Cardinality, Cardinality

LEMMA RunningCount ==
  ASSUME task \in [Workers -> Nat], NEW w \in Workers, task[w] = 0
  PROVE  Cardinality(Running) < Cardinality(Workers)
<1> DEFINE D == {v \in Workers : task[v] # 0}
           f == [v \in D |-> task[v]]
<1>1. f \in Surjection(D, Running)
      BY DEF Running, Surjection
<1>2. IsFiniteSet(Workers) /\ IsFiniteSet(Workers \ {w})
      BY ThreadsAssumption, WorkersAssumption, FS_Subset
<1>3. /\ Cardinality(Workers) \in Nat
      /\ Cardinality(Workers \ {w}) = Cardinality(Workers) - 1
      BY <1>2, FS_CardinalityType, FS_RemoveElement
<1>4. IsFiniteSet(D) /\ Cardinality(D) <= Cardinality(Workers \ {w})
  <2>1. D \in SUBSET (Workers \ {w})
        OBVIOUS
  <2> HIDE DEF D
  <2> QED BY <1>2, <2>1, FS_Subset
<1> HIDE DEF D, f
<1>5. IsFiniteSet(Running) /\ Cardinality(Running) <= Cardinality(D)
      BY <1>1, <1>4, FS_Surjection
<1>6. Cardinality(Running) \in Nat /\ Cardinality(D) \in Nat
      BY <1>4, <1>5, FS_CardinalityType
<1> QED BY <1>3, <1>4, <1>5, <1>6

LEMMA InitTaskPool == PoolInit => TP!Init
<1> SUFFICES ASSUME PoolInit PROVE TP!Init
    OBVIOUS
<1>1. Numbers(inner_queue_) = {} /\ is_stop_flag_ = FALSE
      BY DEF PoolInit, Init, Numbers
<1>2. {task[w] : w \in Workers} \ {0} = {} /\ ended = {}
      BY DEF PoolInit
<1> QED BY <1>1, <1>2 DEF TP!Init

LEMMA TaskPoolStep ==
  ASSUME IInv, IInv', PoolInv, [PoolNext]_pVars
  PROVE  [TP!Next]_(TP!vars)
<1> DEFINE N == Numbers(inner_queue_)
<1>1. /\ task \in [Workers -> Nat] /\ TasksInv /\ ended \subseteq taken
      /\ N \cup taken = 1 .. accepted /\ N \cap taken = {}
      /\ accepted \in Nat
  <2>1. 0 .. accepted \subseteq Nat
        BY TakenNumbers
  <2> QED BY <2>1, TakenNumbers DEF PoolInv, PoolTypeOK, TasksInv, IInv,
          Accounted
<1>2. UNCHANGED <<N, Running, ended, is_stop_flag_>> => UNCHANGED TP!vars
      BY DEF TP!vars, Running
<1>3. UNCHANGED <<N, Running, is_stop_flag_>> /\ ended' = ended
        => UNCHANGED TP!vars
      BY <1>2
<1>4. LeavesList => N' = N
      BY DEF LeavesList, Numbers
<1>5. task' = task => Running' = Running
      BY DEF Running
<1>6. ASSUME NEW w \in Workers, Fetches(w), is_stop_flag_' = is_stop_flag_
      PROVE  TP!Next
  <2>1. PICK n : n = Head(inner_queue_).n
        OBVIOUS
  <2>2. /\ ~is_stop_flag_ /\ task[w] = 0 /\ ended' = ended
        /\ task' = [task EXCEPT ![w] = n] /\ TakesItem
        BY <1>6, <2>1 DEF Fetches, PopsTask
  <2>3. n \in N /\ N' = N \ {n}
        BY <2>1, <2>2, TakeKeeps DEF IInv
  <2>4. n \in 1 .. MaxItems /\ n # 0
    <3>1. accepted <= MaxItems /\ MaxItems \in Nat /\ n \in 1 .. accepted
          BY <1>1, <2>3, TakenNumbers, ItemsAssumption
    <3> QED BY <1>1, <3>1
  <2>5. Running' = Running \cup {n}
    <3>1. task'[w] = n /\ \A v \in Workers \ {w} : task'[v] = task[v]
          BY <1>1, <2>2
    <3> QED BY <2>2, <2>4, <3>1 DEF Running
  <2>6. Cardinality(Running) < Cardinality(Workers)
        BY <1>1, <2>2, RunningCount
  <2>7. TP!Begin(n)
    <3>1. /\ Numbers(inner_queue_)' = Numbers(inner_queue_) \ {n}
          /\ n \in Numbers(inner_queue_)
          BY <2>3
    <3>2. /\ {task[v] : v \in Workers} \ {0} = Running
          /\ {task'[v] : v \in Workers} \ {0} = Running'
          BY DEF Running
    <3>3. (~is_stop_flag_)' = ~is_stop_flag_ /\ ~is_stop_flag_
          BY <1>6, <2>2
    <3>4. TP!Cardinality({task[v] : v \in Workers} \ {0})
            < Cardinality(Workers)
          BY <2>6, <3>2, SameCardinality
    <3> HIDE DEF N, Running
    <3> QED BY <2>2, <2>5, <3>1, <3>2, <3>3, <3>4 DEF TP!Begin
  <2> QED BY <2>4, <2>7 DEF TP!Next
<1>7. ASSUME NEW w \in Workers, Ends(w), is_stop_flag_' = is_stop_flag_
      PROVE  TP!Next
  <2>1. /\ task[w] # 0 /\ ended' = ended \cup {task[w]} /\ N' = N
        /\ task' = [task EXCEPT ![w] = 0]
        BY <1>4, <1>7 DEF Ends
  <2>2. task[w] \in Running /\ Running' = Running \ {task[w]}
    <3>1. task'[w] = 0 /\ \A v \in Workers \ {w} : task'[v] = task[v]
          BY <1>1, <2>1
    <3>2. \A v \in Workers \ {w} : task[v] # task[w]
          BY <1>1, <2>1 DEF TasksInv
    <3> QED BY <2>1, <3>1, <3>2 DEF Running
  <2>3. task[w] \in 1 .. MaxItems
    <3>1. accepted <= MaxItems /\ MaxItems \in Nat /\ task[w] \in 1 .. accepted
          BY <1>1, <2>1, TakenNumbers, ItemsAssumption DEF TasksInv
    <3> QED BY <1>1, <3>1
  <2>4. PICK n : n = task[w]
        OBVIOUS
  <2>5. TP!End(n)
    <3>1. Numbers(inner_queue_)' = Numbers(inner_queue_)
          BY <2>1
    <3>2. /\ {task[v] : v \in Workers} \ {0} = Running
          /\ {task'[v] : v \in Workers} \ {0} = Running'
          BY DEF Running
    <3>3. (~is_stop_flag_)' = ~is_stop_flag_
          BY <1>7
    <3>4. n \in Running /\ Running' = Running \ {n} /\ ended' = ended \cup {n}
          BY <2>1, <2>2, <2>4
    <3> QED BY <3>1, <3>2, <3>3, <3>4 DEF TP!End
  <2> QED BY <2>3, <2>4, <2>5 DEF TP!Next
<1>8. ASSUME Accepts, is_stop_flag_' = is_stop_flag_ PROVE TP!Next
  <2>1. PICK k \in Calls : PutsItem(k)
        BY <1>8 DEF Accepts
  <2>2. /\ ~is_stop_flag_ /\ accepted' = accepted + 1
        /\ task' = task /\ ended' = ended
        BY <1>8, <2>1 DEF Accepts, PutsItem
  <2>3. N' = N \cup {accepted + 1}
        BY <2>1, PutKeeps DEF IInv
  <2>4. Running \subseteq taken
        BY <1>1 DEF Running, TasksInv
  <2>5. accepted + 1 \notin N \cup Running \cup ended
        BY <1>1, <2>4
  <2>6. accepted + 1 \in 1 .. MaxItems
    <3>1. accepted' \in 0 .. MaxItems /\ MaxItems \in Nat
          BY ItemsAssumption DEF IInv, TypeOK
    <3> QED BY <1>1, <2>2, <3>1
  <2>7. TP!Accept(accepted + 1)
        BY <1>5, <1>8, <2>2, <2>3, <2>5 DEF TP!Accept, Running
  <2> QED BY <2>6, <2>7 DEF TP!Next
<1>9. ASSUME Closes PROVE TP!Next
  <2>1. N' = N /\ Running' = Running /\ ended' = ended /\ is_stop_flag_'
        BY <1>4, <1>5, <1>9 DEF Closes
  <2>2. TP!Close
        BY <2>1 DEF TP!Close, Running
  <2> QED BY <2>2 DEF TP!Next
<1>10. ASSUME NEW c \in Clients, FindsEmpty(c) \/ Promises(c),
              is_stop_flag_' = is_stop_flag_
       PROVE  UNCHANGED TP!vars
       BY <1>3, <1>4, <1>5, <1>10 DEF FindsEmpty, Promises
<1>11. ASSUME LeavesTasks, is_stop_flag_' = is_stop_flag_
       PROVE  UNCHANGED TP!vars
       BY <1>3, <1>4, <1>5, <1>11 DEF LeavesTasks
<1> QED BY <1>6, <1>7, <1>8, <1>9, <1>10, <1>11, TaskSteps

(* Each accepted task is begun once, by one worker, and ended by it, and   *)
(* nothing is accepted or begun once the queue is stopped: every step of   *)
(* the pool is one that TaskPool allows, or none of its business.          *)
THEOREM PoolIsTaskPool == PoolSpec => ImplementsTaskPool
<1>1. IInv /\ IInv' /\ PoolInv /\ [PoolNext]_pVars => [TP!Next]_(TP!vars)
      BY TaskPoolStep
<1> QED BY <1>1, InitTaskPool, PoolInvariance, PTL
        DEF PoolSpec, ImplementsTaskPool, TP!Spec
=============================================================================
