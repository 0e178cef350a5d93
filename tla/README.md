# Verification project for `o_pocket` (device broker)

TLA+ models of the service that runs on a test device (`src/src/target/o_pocket`),
checked with TLC on small instances, and theorems about them proved with TLAPS.

File names below are relative to `src/src/target/o_pocket/` unless they start
with `cfg/board...`, which is under `src/`.

## 1. The system

One process. `main.cpp` parses the command line and calls
`http_service_objective` (`context/logic/logic_impl_service.cpp`), which starts
two threads of control and later stops them:

```
 client --HTTP--> HTTP thread ----post_task----> TaskSuit slot ----> main loop thread
                  (handlers,                     (one task)          (task_filter, runs
                   one at a time)                                     the callable)
                     |  terminate_objective                               | run_objective
                     v                                                    v
                  terminate thread --to_task_terminate_--------------> poll loop
                  (detached)                                              | Get(msg, 0)
                                                                          v
 RabbitMQ <--fetch, no ack-- receiver thread --sem, queue--> MessageManage
                                                                          |
                  all of them write                                       v enqueue_task_sync
                  TaskStatus g_task_state            download pool -> run pool -> upload
```

| component | state | operations | what makes it correct | what is hard |
|---|---|---|---|---|
| TaskSuit, ThreadlooperBase, ThreadloopObjective | `task_entity_`, `task_type_`, a mutex and a condition variable, the loop's position | `post_task`, `wait_task_`, `task_filter`, `run_logic_` | an accepted task is run once, with its own type, and in order; a rejected one leaves no trace | `post_task` takes no lock: two plain stores and an unlocked notification against a waiting loop |
| SignalHandle, service start and stop | a counter per signal | handler, `http_service_objective` | SIGINT ends the server, then the loop, then `main` returns | one notification, sent without the mutex |
| HTTP handlers | none of their own | update, reboot, run, terminate, file pull, file clear, version, status | the status they report and leave behind is that of the device | they write the status after the task was posted |
| TaskStatus | device word, task word | `replace_*`, `get_*` | what is left when nothing runs is the truth | three writers, two separately written words |
| ObjectiveComponentManager | `is_running_`, `to_task_terminate_`, `is_terminating_`, `remain_num_`, the job's id | `run_objective`, `terminate_objective`, `terminate_impl_`, `reboot`, `objective_update_device_testbed` | a run stops when it is told to, and only then; at most one terminate thread | plain fields shared by three threads |
| SafeQueue | list, limit, stop flag | push, insert, pop, pop list (sync, timed, async), stop, clear, reset, change limit | no item lost or duplicated, order, the limit, no stranded waiter, stop wakes all | notify-one, timeouts, changes made without a notification or without the mutex |
| Threadpool, Worker, LoopMonitor | worker list, its mutex, task queue, monitor list | enqueue, start, stop, drain, resize, change limit | each accepted task run once and to its end, none after the stop, stop and drain come back | stopping against waiting and working threads, draining that looks at the queue only, resizing |
| MessageManage, Semaphore_ | FIFO, permits, `stop`, `state`, receiver thread | `Start`, `Add`, `Get`, `Put`, `Del`, `enable`, `disable`, `Stop`, destructor | bounded, in order, each message with one owner, the destructor ends | semaphore against drain, fetching without acknowledgement, instances that outlive their run |
| subtask pipeline | `g_task_end`, `updated_cnt`, three pools | download, run, upload, final reply | each message answered once, the last one cleans up | counters without a lock, bounded pools that feed each other and one that feeds itself, messages that outlive their run |
| update (files, archives) | cache, target and spare directories | space check, clean, download, extract, strip, replace | a reported success is a complete installation; a failed one loses nothing and can be repeated | failure or power loss between any two steps, what earlier attempts left |
| file pull and clear, Samba | files | pull, clear, download, upload | all or nothing | partial failure |
| message bus, semaphores of the pool library, I30 variant, SQLite, tests, logging, configuration | | | | not used by the service, or pure I/O and formatting |

`PROJECT.json` lists every component with its files and its status, and every
hazard found while reading at the line where it bites.

## 2. The modules

| module | models | kind |
|---|---|---|
| `TaskSlot` | what `post_task` promises: a device that holds one task | abstract specification |
| `TaskSuit` | `task_suit`, `threadloop`, SIGINT and the end of `main` | detailed, implements `TaskSlot` |
| `DeviceService` | the handlers, the callables, terminate threads and status words around it | extends `TaskSuit`: each step is one of its steps with something added, or leaves it alone |
| `SafeQueue` | `context/threadpool/safe_queue.hpp` | detailed |
| `MessageManage` | `io/message_manager.h` with the outcomes of `RabbitMQHandler::receiveMessage` | detailed, several instances on one broker queue |
| `TaskPool` | what a thread pool promises: accepted tasks are begun and ended once, none begun after closing | abstract specification |
| `Threadpool` | `context/threadpool/threadpool.hpp` | detailed, extends `SafeQueue`, implements `TaskPool` |
| `SubtaskPipeline` | the poll loop, the subtask stages and their pools in `logic_impl_http_service_objective.cpp` | detailed, over the pools' contract |
| `Installation` | the update: `logic_impl_file_opt.cpp` with `recursive_decompress`, `move_file`, `clean_folder` | detailed, with failures and cuts |
| `TaskSuitProofs`, `DeviceServiceProofs`, `SafeQueueProofs`, `ThreadpoolProofs`, `MessageManageProofs`, `SubtaskPipelineProofs`, `InstallationProofs` | theorems about the module each extends | TLAPS |
| `MCTaskSuit`, `MCDeviceService`, `MCSafeQueue`, `MCMessageManage`, `MCThreadpool`, `MCSubtaskPipeline`, `MCInstallation` | small instances | TLC |

### 2.1 TaskSuit

`post_task` tests the slot, stores the type, stores the callable and notifies,
none of it under `mtx_`: four steps (`PostAdmit`, `PostType`, `PostEntity`,
`PostNotify`; `PostReject` for a full slot). A callable is represented by the
number of its post, so that it can be told apart from every other. The loop
evaluates its predicate (`LoopPred`) and blocks (`LoopBlock`) in two steps,
because the other side does not take the mutex that joins them; `Notified` moves
it only when it is in the wait set. `task_filter` then runs the callable
(`TaskStart`, `TaskReturn`) and empties the slot (`LoopClear`). C++ gives the two
unsynchronised stores no order; `ReorderStores` says whether the build keeps the
program's. With `TRUE`, the callable can become visible before its type, the
loop then takes a stale type, or with none at all the default branch that drops
the task (`TaskUnknown`).

`main` (`mainPc`) notices SIGINT when no handler runs, notifies once
(`ServerStop`) and joins (`MainJoined`).

### 2.2 DeviceService

`httpPc` is the handler's position behind its `post_task` call or inside
`terminate_objective`; the HTTP server is one thread, so there is one. `entPc` is
the position of the callable inside `TaskSuit`'s `run`. `termPc[t]` is the
position of a detached terminate thread. The two status words are sets of flag
names; every `replace_*` is a step of its own, as between any two of them another
thread can write. `run_objective` is modelled line by line: the status, the job's
id and number of messages, `RunningLock` (two stores), loading (success, or the
failure that writes `FREE` and `RABBITMQ_FAIL`), the poll loop with a message
that arrives, does not parse, or does not arrive, waiting for room in the
download pool, the final status and `~RunningLock` (store, then notify).
`to_stop_signal` is called inside the wait predicate, so `is_running_` is read
twice there, in two steps. Here update and file operations end in success or
failure, and so does the set-up of a run; what an update does with the files is
`Installation`.

### 2.3 SafeQueue

A thread is idle, in one of the two wait sets, notified (`woken`), or on its way
through `stop` or `reset`. Since the list is only touched under the mutex, a
critical section is one step. There is one exception: `reset` stores the stop
flag without the mutex, so a call whose predicate was true because of the flag
(`passed`) may read it again as false. It then goes on with the list as it is; a
pop of an empty list is undefined behaviour and ends the thread's part in the
model (`undefined`, the mutex stays locked). Items carry the number of their
acceptance and a priority; `InsertPlace` is the predicate of
`Threadpool::enqueue_task_*`. `insert_async` is left out, because it cannot be
instantiated (it passes its predicate on as an lvalue).

### 2.4 MessageManage

Per instance: the four fields, the position of the receiver thread
(`RunThread`/`Add`), the message it has in hand, the threads in `Get(task, 1)`
and the owner's position in the destructor. The broker is external: a fetch gets
the oldest message, finds nothing (-1), gets it but cannot read it (-3), or
fails (-2) with or without the message being gone, and -2 stops the receiver.
These failures are always possible, which is what this code needs: the
connection object handed to `MessageManage` by `all_component_load_` is a local
that is disconnected before its first use. Calling `Start` twice would end the
process (assigning over a joinable `std::thread`) and a destructor without
`Start` dereferences null; no caller does either and the guards exclude them.
The plain `bool`s are read in a loop around opaque calls, so each read is one step.

### 2.5 Threadpool and TaskPool

The queue is `SafeQueue` itself: a step of the pool is a step of the queue made
by one of its threads with the pool's fields next to it, or leaves the queue
alone. A worker (`workerPc`) tests `is_stop_run_`, pops, returns to the test when
it came back with nothing (`AfterPop`: the queue was stopped), or runs the task to its
end (`TaskEnd`; a task that throws ends likewise, `packaged_task` keeps what it
throws). A client (`clientPc`) is in one call of the pool. `start_workers`,
`stop_workers_sync` and `change_works_num_sync` hold `work_list_mutex_`, so no
two of them overlap, but workers, enqueueing clients and
`wait_task_empty_shutdown`, which polls the queue without that mutex, do.
`stop_workers_sync` raises the queue's flag and notifies (`StopQueue`, two
`StopNotify`), tells the workers one by one (`ShutdownAsync`) and joins them
(`StopReturn`). Nothing clears the flag or the list afterwards: `start_workers` then
does nothing, a second stop goes through, a worker added by resizing finds the
queue closed. `change_works_num_sync` grows by one worker whatever was asked
for, and when it is to shrink, its search loop does not advance: the client stays
there with the mutex (`hang`).

`TaskPool` sees a task as waiting, running or ended, and the pool as open or
not. The mapping takes the numbers in the queue as waiting, those the workers
hold as running, `ended` as the history of completed tasks, and the stop flag of
the queue as closed: `StopQueue` is `Close`, a pop is `Begin`, `TaskEnd` is `End`.

`LoopMonitor` only prints what it sees and is left out, as are `Worker::block` and
`unblock`, which nobody calls.

### 2.6 SubtaskPipeline

The poll loop takes a message, counts it, and enqueues it into the download pool
(or drops it unparsed); the worker there enqueues it into the run pool, whose
only worker runs the testbed and enqueues the upload into *its own* pool
(`logic_impl_http_service_objective.cpp:396`; `threadpool_upload` is created and
never used). A pool is what sections 2.3 and 2.5 establish of it: a bounded
list with one worker. A stage (`StageEnd`) ends with the result of its last try
and a reply; a failed stage, or the upload, is counted (`CountLoad`,
`CountStore`: `g_task_end++` is done by two threads without a lock, so that
increments can be lost) and tested for the last message. The pools live as long as
the process, so messages of a run that has ended or was terminated go on under
the next one.

Two facts about the code as it is. `objective_rabbitmq_taskinfo_str_`, from which
the stages read the URL of the material, is assigned nowhere; every download
therefore fails, and only the first stage is ever reached. The constant
`DownloadResults` is `{"fail"}` for the code as built and `{"ok", "fail"}` to cover the later
stages as well, as the passing run does. And the self-feeding run pool is for that
reason a latent fault: once downloads succeed, its worker can wait for room that
only it could make. `RunnerBlocked` names that state, TLC reaches it, and the two
liveness properties say that it is the only way for a message or the poll loop to
get stuck. Which manager carries a reply is not modelled.

### 2.7 Installation

An update runs on the main thread and nothing else touches the directories, so
its interleavings are with failures and power loss only: `CutShort` ends it
after any step, `ExtractTorn` in the middle of writing a file, and the next update
starts from what is left. The disk is the cache, the target directory, the
archive's own directory in it while it exists (`root`), and the spare names:
`move_file` looks for a free name by appending `tmp_for_name` to the last one it
found, so what one attempt leaves there makes the next one nest under it
(`spares`). Directories are `<<>>` or one set of files, a file is its name and
the update it came with; `ver = Torn` is a file that was opened and not written.

Extraction (`OpenArchive`, `ExtractRoot`, `ExtractEntry`) first makes the
target, then goes through the entries of the archive, over what is in the target. If the first entry of the archive is
a directory, its content replaces the target: rename it out (`TryName`,
`RenameOut`), remove the target file by file, rename it in. Files beside that
directory are thereby lost although the update succeeds, which the comment at
`miniz_impl.inl:193` leaves open; an archive without such a directory is written over the
old files. `Wanted` says so. The license comes second, with the same room check and cache,
so a failure in between leaves the new testbed without any license. The status
words of an update are in `DeviceService`.

## 3. The runs

| run | bounds | shows |
|---|---|---|
| `suit_hand_over` | 3 posts of 2 types | `NothingLost`, `RunsWithItsType`, refinement of `TaskSlot`, and that a notification that meets a waiting loop suffices for a task and for the stop |
| `suit_reordered` | 3 posts of 2 types, stores in either order | `AtMostOnceInOrder`, also where a task is dropped for its type |
| `service_status` | 2 posts out of all five requests, 2 terminate threads, stores in either order | `SingleTerminator`; `EndsEarlyOnlyIfTerminated`; what the status words are when all is quiet: `NoStaleSuccess`, `RunLeavesFree` |
| `safe_queue` | 3 threads, 2 items, 2 priorities, limits 1 and 2, all operations | accounting, order, limit, no stranded thread, stop |
| `message_manage` | 2 instances, 1 getter, 3 messages, 2 permits | permits, accounting, order, no stranded getter, destructor |
| `threadpool` | 2 workers (1 at the start), 2 clients, 2 tasks, limits 1 and 2, 3 calls besides enqueueing | refinement of `TaskPool`; a drained pool has finished; accepted tasks are run; stopping comes back |
| `subtask_pipeline` | 2 runs of 2 messages, limits 1 and 2 | `RepliesTellStage`, `MessageEnds`, `FlaggedRunEnds` |
| `installation` | 3 updates, 2 failures or cuts, 2 files, 4 shapes of archive | `SuccessInstalls`, `CompleteSomewhere`, `RetrySucceeds` |
| `suit_lost_wakeup` | 2 posts | violated: an accepted task that is never run |
| `service_stuck` | 1 run | violated: the terminate thread sleeps after the run has ended |
| `service_update_covered` | 1 update | violated: after a successful update whose handler writes last the device says busy and updating |
| `subtask_not_cleaned` | 2 runs of 1 message, downloads as built | violated: the last message of a task does not clean up |

Why the bounds are enough. The slot holds one task, so two posts show every
meeting of an old and a new task and the third one that of a task with a slot
reset by the first; two runs are what a stale flag needs, and one terminate
thread more than `SingleTerminator` allows. In `SafeQueue` three threads let one
steal from another that a third has notified, with a list that can be empty,
partly full and full. In `MessageManage` three messages fill two permits and
leave one in the receiver's hand, and two receivers compete for the broker. In
`Threadpool` two tasks and a limit of one make clients wait, a worker can be
waiting, working or between the two while another is told to stop, and three
calls are a start, and a stop or drain with another call beside or after it. In
`SubtaskPipeline` four messages fill both pools (limits 1 and 2, the code has 3
and 2) and block the run pool, and each of two runs can begin with messages of
the other under way. In `Installation` the second and third update meet what one and two
failed ones left, which is how spares nest, and the last one can go undisturbed.
`service_status` with 3 posts, and `installation` with 4 updates and 3 failures,
pass as well; they are kept smaller for their running time.

`CHECK_DEADLOCK FALSE`: a service that has been stopped, and one whose clients
have nothing more to ask, does stop.

### Fairness

Only threads that can run are assumed to run: a handler that has begun, the
loop, the steps of a callable that depend on nobody else, a terminate thread, a
notified queue thread that can have the mutex, the receiver, a destructor that
has begun. Not assumed: that requests, messages, SIGINT, time-outs or spurious
wake-ups happen, that a task ends (`TaskReturn` of `TaskSuit`), or that the
download pool makes room (`PollEnqueued`). `receiveMessage` is taken to return, as
its get is a call with an answer. In `Threadpool` and `SubtaskPipeline`, where a
task is the pool's to run, tasks and stages are assumed to end (retries are
bounded loops around calls with an answer). `Threadpool` uses strong fairness,
per worker and per client: a mutex or a place in the queue that is free again and
again is got at last, as the scheduler and `std::mutex` give it to a thread that
keeps trying. A call that was made goes on, none has to be made. `Installation`
assumes that an update that has begun goes on, and `RetrySucceeds` only
speaks of one that no failure meets.

### What the violations say

1. *Lost wakeup* (`task_suit.cpp:20`). The notification can fall between the
   loop's predicate and its wait. The accepted task stays in the slot and every
   later request is refused until a spurious wake-up.
2. *Endless wait* (`logic_impl_http_service_objective.cpp:498`). The run ends
   between the two reads of `is_running_`, and notifies before the wait.
3. *Never the last message* (`logic_impl_http_service_objective.cpp:156`). The counter
   of ended messages has just been incremented when it is compared with
   `num_init`, which stays 0: neither `RABBITMQ_END` nor the removal of the material
   is ever reached.
4. *Successful update, still updating* (`http_service_handle_objective.cpp:134`).
   The handler writes `BUSY|UPDATINTG` after `post_task`; if the update is over by
   then, this covers the 25 of `cfg/board_service_errcode.md:69` until the next
   task (`AfterPostDevice` behind `UpdateDevice`).

Two more disagreements need no interleaving and are only stated here.
`to_stop_signal` returns `... || is_running_` (`logic_impl_http_service_objective.h:253`),
so the predicate is true while the run runs and the terminate thread writes
`DIVORCED` and `FREE` in the middle of the run that the comment at
`logic_impl_http_service_objective.cpp:493` has it wait for (`TermPredStop`); only the
race of 2 makes it wait. And both failures of an update return before any status
is written (the write of `UPDATE_FAIL` stands behind a `return`), where
`cfg/board_service_errcode.md:71` promises 41 (`UpdateStage`).

The models show some more that no property forbids, because no statement of the
code is about it; `PROJECT.json` lists them as hazards without a property. A
terminate thread that is slow to kill the testbed raises its flag in the next
job's run (`TermFlag`), where `EndsEarlyOnlyIfTerminated` allows it; a flag raised
for a run that begins can be lowered by it (`RunReset`); the stop notification of
SIGINT can be missed as the one of a post can, which `StopReachesWaiter`, about a
loop that already waits, leaves out; the mark of a rejected file request stays in
the device word, which `RunLeavesFree` excuses; a stopped `push_sync` drops its
item; `reset` lets a stopped pop take from an empty list; reducing a pool hangs,
which `StopReturns` excuses; and the run pool can block on its own queue
(`RunnerBlocked`), which `MessageEnds` and `FlaggedRunEnds` excuse. `~MessageManage`
drains before it joins, so that one message can be left in the queue
(`DtorDrained`); `AtMostOneLeftBehind` and its proof bound it.

### Properties of little depth

Each module has one type invariant. `SingleTerminator` is a local guard, as one HTTP
thread both tests and sets `is_terminating_`; `NoStaleSuccess` and `RunLeavesFree`
speak only of the quiet state, and `InsertOrder` and `RepliesTellStage` follow largely from the one operation each is
about. All other properties need several steps to fail, of at least two actors
or (in `Installation`) of several updates and the failures between them; every
one has a mutant (a plausible slip in one
definition, in the module next to what it alters) under which TLC finds it
violated.

## 4. The proofs

Every invariant and every safety property that a run checks is also a theorem,
and so are both refinements. A run shows it on a small instance; the theorem holds
for every value of the constants, that is for any number of threads, requests,
messages, updates and failures, and any sizes. Only the assumptions next to the
constants are used, and TLC evaluates them on every run. They say that:

- the constants have their types (`LimitsAssumption`, `MessagesAssumption`,
  `RequestAssumption`, ...);
- the threads of a queue and the getters of an instance are finitely many
  (`ThreadsAssumption`, `GettersAssumption`), as notified threads are counted;
- the queue of a pool can be popped and waited for, as `Worker` does
  (`PopAssumption`), its workers are among the threads, and "free" is none of
  them (`FreeAssumption`);
- the license is none of the archives' own files (`NamesAssumption`): it has its
  own URL and name;
- the requests are the five kinds that the service posts (`KindsAssumption`).

In each module the argument is an inductive invariant: the initial states have it,
every step keeps it, and it implies what is to be shown. TLC has checked each of
them on the small instances, too.

**`TaskSuitProofs`** (any task types and number of posts, both settings of
`ReorderStores` where nothing else is said):

| theorem | statement |
|---|---|
| `TypeCorrect` | `Spec => []TypeOK`, which includes that no empty callable is called |
| `InOrder` | `Spec => []AtMostOnceInOrder`: nothing runs twice, nothing overtakes |
| `NoTaskLost` | `~ReorderStores`: `Spec => []NothingLost` |
| `RightType` | `~ReorderStores`: `Spec => []RunsWithItsType` |
| `ImplementsSlot` | `~ReorderStores`: `Spec => SlotSpec`, the refinement of `TaskSlot` |

`AtMostOnceInOrder` is not inductive: that the loop does not call a callable
again needs to know which ones the slot can hold. `IInv` adds `ControlInv` (what
the two program counters say of the slot: the poster stores into an empty slot,
the loop is only past its predicate when the slot was full) and `ExecutedInv`
(every callable that was called belongs to an earlier post than the one in the
slot or about to be stored). With program-order stores `OrderInv` adds that the
type is stored before the callable, so that the loop, which waits for the
callable, sees the type that belongs to it; this is what a build that reorders
the two stores takes away, and the three theorems have `~ReorderStores` as a
hypothesis. The refinement maps the slot's phase from the program counters
(`SlotPhase`): `PostAdmit` is `Accept`, `TaskStart` is `Start`, `LoopClear` is
`Finish`, every other step is a stutter.

**`DeviceServiceProofs`** (any number of posts, jobs and terminate threads):

| theorem | statement |
|---|---|
| `ServiceIsSuit` | `DSSpec => Spec`: each step of the service is one of the hand-over or leaves it alone |
| `ServiceInOrder`, `ServiceImplementsSlot` | what this carries over from `TaskSuitProofs` |
| `ServiceTypeCorrect` | `DSSpec => []DSTypeOK` |
| `OneTerminator` | `DSSpec => []SingleTerminator` |
| `NoLeftoverTermination` | `DSSpec => []EndsEarlyOnlyIfTerminated` |
| `SuccessIsLatest` | `DSSpec => []NoStaleSuccess` |
| `FreeAfterRun` | `DSSpec => []RunLeavesFree` |

`DSIInv` consists of the hand-over's `IInv` and five parts. `FlowInv` ties the
positions of handler and callable to each other and to the latest post: all
later arguments start from "which request is this". `FlagInv`: from `RunReset`
on, a raised flag, or a terminate thread about to raise it, has been seen by this
run. `SuccessInv` says who wrote `UPDATE_SUCCESS` when it is in the device word, and
that a handler that is about to write will cover a stale one. `HistoryInv` says when the
last task that ended is the last one posted. `RunInv` follows the two status words over
the end of a run: whatever handlers and terminate threads still write behind
`RunEndDevice` leaves the device free, or is the mark of a rejected file request.

**`SafeQueueProofs`** (any threads, kinds of call, priorities, limits, number of items):

| theorem | statement |
|---|---|
| `QueueTypeCorrect` | `Spec => []TypeOK` |
| `ItemsAccounted` | `Spec => []Accounted` |
| `ItemsOrdered` | `Spec => []InsertOrder` |
| `NoPopperStranded`, `NoPusherStranded` | `Spec => []PopperNotStranded`, `Spec => []PusherNotStranded` |
| `LimitHolds` | `Spec => LimitRespected`, an action property |

Every call of the queue goes through the same few steps, whichever way it waits;
`CallStep` and its lemmas reduce the actions to what they do to the list and to the waiting
threads, and the invariants are shown for these effects. `DistinctInv` (no
number twice in the list) turns sets of numbers into lengths, `PendingInv`
bounds the numbers given out, and `StopInv` says that while the queue is stopped a
thread only waits to pop as long as the stop has not notified it: without it the
two properties about stranded threads are not kept by the steps of `reset`.

**`ThreadpoolProofs`** extends `SafeQueueProofs` (any workers, clients, sizes):

| theorem | statement |
|---|---|
| `PoolUsesQueue` | `PoolSpec => Spec`: the theorems about the queue hold in the pool |
| `PoolTypeCorrect` | `PoolSpec => []PoolTypeOK` |
| `ShutdownIsDone` | `PoolSpec => []DrainedIsDone` |
| `PoolIsTaskPool` | `PoolSpec => ImplementsTaskPool`, the refinement of `TaskPool` |

`TasksInv`: a task that has left the queue has ended or is in the hand of exactly
one worker. `DrainInv`: what a draining client saw accepted has left the queue.
`stop_workers_sync` returns when all workers of the list have exited, a worker that has
exited holds no task, and so what has left the queue has ended: this is
`DrainedIsDone`. For the refinement, `Begin` needs a free place among
the running: a worker that pops has none, so fewer than all workers run
(`RunningCount`).

**`MessageManageProofs`** (any instances, getters, messages, permits):

| theorem | statement |
|---|---|
| `TypeCorrect` | `Spec => []TypeOK` |
| `QueueBounded` | `Spec => []PermitsBalance`, and the queue is never longer than `lengthQueueMax` |
| `OneLeftBehind` | `Spec => []AtMostOneLeftBehind` |
| `MessagesAccounted` | `Spec => []Accounted` |
| `MessagesInOrder` | `Spec => []GotInOrder` |
| `NoGetterStranded` | `Spec => []GetterNotStranded` |

`TypeOK` alone is not inductive, as `TakeFront` adds a permit: that it does not
exceed `lengthQueueMax` is the balance of permits. `AtMostOneLeftBehind` needs to
know that a receiver which meets an instance in destruction will read `stop` as
true: `Destroyed` counts what is in the queue together with what a receiver past
its test of `stop` may still push. A message takes one path, from the broker over the
receiver's hand and the queue to a getter; `OrderInv` states the order of the path
part by part, as a step moves one message from the front of a part to the
end of the next, and `AccountInv` adds to `Accounted` that a lost message is
not in the broker. `WaitInv` adds that no getter is in the wait set and notified.

**`SubtaskPipelineProofs`** (any runs, messages per run, limits):

| theorem | statement |
|---|---|
| `PipelineTypeCorrect` | `Spec => []TypeOK` |
| `RepliesAreTrue` | `Spec => []RepliesTellStage` |
| `NeverCleans` | `Spec => [](cleaned = {})`: the third violation of section 3, in runs of any length |

`PlaceInv`: a message that was polled and has not ended is at exactly one place, and
was answered there as often as it has stages behind it, without a failure until
it is on its way to being counted; any other message is nowhere. Putting a task in
front of a list, and taking the first one, moves all others along: `PushMoves`
and `TakeMoves` show that each message is taken from its one place to one. `ToldInv` is about the
replies themselves. `DataInv` bounds `g_task_end` by the number of messages that
have ended: although increments can be lost, the counter is never ahead.

**`InstallationProofs`** (any files, archives, number of updates and failures):

| theorem | statement |
|---|---|
| `UpdateTypeCorrect` | `Spec => []TypeOK` |
| `SuccessIsComplete` | `Spec => []SuccessInstalls`, for the files that are `Wanted` |
| `NeverWithoutTestbed` | `Spec => []CompleteSomewhere` |

`StageInv` says which directories each step of an update finds, `InstalledInv`
where the new files are at each step (under the archive's directory, under the
last spare name, in the target) and that those which are due by then are there in the new
version, and `CleanInv` that nothing else is there as long as no update failed.
`CompleteSomewhere` is inductive with these: the old version is only removed when
the new one is complete under a spare name.

### Only model-checked

Liveness under fairness and `ENABLED` are out of the prover's reach:
`NotifiedTaskStarts`, `StopReachesWaiter`, `StopWakes`,
`DestructorEnds`, `AcceptedRuns`, `StopReturns`, `MessageEnds`, `FlaggedRunEnds`
and `RetrySucceeds` stay with TLC, as do the four violations. No definition is
`RECURSIVE`, and no theorem is about what a recursion computes.

## 5. Not modelled, and the plan

Done: all modules of section 2 and the proofs of section 4. What is left are
smaller things: the safety parts behind the liveness properties (that a thread
which waits always has somebody who will notify it) as invariants of their own,
with proofs, for `MessageManage`'s destructor and for a pool that is stopped.

Not modelled:

- *File pull and clear*, beyond success and failure with their status words.
  The code gives little to state: `file_pull` uploads the fixed path
  `/var/run` (`file_pull.cpp:8`), clearing the log files is called with an empty directory
  and always fails, and `clear_file` stops at the first failure.
- *Samba* (`DownloadOne`, `UploadAll`, connection handling): calls of
  libsmbclient around a mutex; what the service sees is the result of a try.
- *RabbitMQ set-up and sending*: the outcome of `all_component_load_`, of a fetch
  and of a reply are modelled, the library calls are not.
- *Message bus* and *counting semaphores*: nothing in the service calls them.
- *The other parts of `ThreadlooperBase`* (`signal_stop`): the service stops its loop
  through SIGINT only. *The signal handler's mutex*: it needs a handler that
  runs inside any other call.
- JSON, TOML and string conversions, command lines of the testbed, logging,
  error codes, clocks, the SQLite wrapper (never opened), the I30 variant (its
  handlers are empty), the mock testbed, `main`'s component tests. The bodies of
  HTTP responses are left out, and with them the torn reading of the two status
  words.
- Vendored libraries: `sqlite3.h`, `ghc/filesystem.hpp`, the headers of samba and
  rabbitmq-c, json, spdlog, CLI11 and miniz make up most of the lines in the
  repository. They are used as described where the service calls them.
