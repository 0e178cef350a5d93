----------------------------- MODULE SafeQueue ------------------------------
(***************************************************************************)
(* The bounded blocking queue SafeQueue (context/threadpool/safe_queue.hpp)*)
(* under the thread pools and their monitor: one mutex, one condition      *)
(* variable for threads that push and one for threads that pop, a limit    *)
(* that can be changed and a stop flag.                                    *)
(*                                                                         *)
(* A critical section is one step, because every access to the list is     *)
(* made with mutex_ held.  stop notifies after it has released the mutex,  *)
(* and reset and change_limit_len_max store their atomic without it: those *)
(* are steps of their own.  A waiting call reads the stop flag twice, in   *)
(* its predicate and after it; only reset can change it in between, so the *)
(* section is split there when the predicate has found the flag set.       *)
(***************************************************************************)
EXTENDS Integers, Sequences, FiniteSets

CONSTANTS
  Threads,     (* the callers                                              *)
  Puts,        (* ways to put an item: "push" (at the back), "insert"      *)
  Gets,        (* ways to get items: "pop" (one), "list" (all)             *)
  Modes,       (* "sync", "try" (with a timeout), "async" (never waits)    *)
  Priorities,  (* of inserted items; the smaller number is taken first     *)
  Limits,      (* values limit_len_max_ is set to                          *)
  Controls,    (* further calls that are made: "stop", "clear", "reset"    *)
  MaxItems     (* bound: how many items are put in a behaviour             *)

ASSUME ThreadsAssumption    == IsFiniteSet(Threads)
ASSUME PutsAssumption       == Puts \subseteq {"push", "insert"}
ASSUME GetsAssumption       == Gets \subseteq {"pop", "list"}
ASSUME ModesAssumption      == Modes \subseteq {"sync", "try", "async"}
ASSUME PrioritiesAssumption == Priorities \subseteq Int
ASSUME LimitsAssumption     == Limits \subseteq Nat
ASSUME ControlsAssumption   == Controls \subseteq {"stop", "clear", "reset"}
ASSUME ItemsAssumption      == MaxItems \in Nat

VARIABLES
  inner_queue_,   (* the list: items [n |-> acceptance number, p |-> priority] *)
  limit_len_max_,
  is_stop_flag_,
  at,             (* where each thread is                                  *)
  call,           (* the waiting call of each thread                       *)
  accepted,       (* history: how many items were put into the list        *)
  taken,          (* history: the numbers of the items that were delivered *)
  cleared,        (* history: the numbers of the items clear discarded     *)
  silent          (* history: was room made without a notification?        *)

queueVars == <<inner_queue_, limit_len_max_, is_stop_flag_>>
histVars  == <<accepted, taken, cleared, silent>>
vars      == <<queueVars, at, call, histVars>>

NoCall == [how |-> "none", mode |-> "none", p |-> 0]
Places == {"idle", "push", "pop", "woken", "passed", "undefined",
           "stop_push", "stop_pop", "reset"}

(* insert_async is no call of a program: it hands its predicate on as an   *)
(* lvalue, and does not compile when it is used.                           *)
Calls  == {c \in [how : Puts, mode : Modes, p : Priorities] :
             c.how = "insert" => c.mode # "async"}
            \cup [how : Gets, mode : Modes, p : {0}]

Init ==
  /\ inner_queue_ = <<>>
  /\ limit_len_max_ \in Limits
  /\ is_stop_flag_ = FALSE
  /\ at = [t \in Threads |-> "idle"]
  /\ call = [t \in Threads |-> NoCall]
  /\ accepted = 0
  /\ taken = {}
  /\ cleared = {}
  /\ silent = FALSE

-----------------------------------------------------------------------------
(* The list.                                                               *)

Size == Len(inner_queue_)
Numbers(q) == {q[i].n : i \in 1 .. Len(q)}

(* Mutant: the limit itself is taken for room.                             *)
RoomOverLimit == Size <= limit_len_max_
Room == Size < limit_len_max_

(* The place in front of the first item with a priority that is not        *)
(* smaller; the back, if there is none.                                    *)
InsertPlace(p) ==
  CHOOSE i \in 1 .. Size + 1 :
    /\ \A j \in 1 .. i - 1 : inner_queue_[j].p < p
    /\ i = Size + 1 \/ inner_queue_[i].p >= p

(* Mutant: a smaller priority number goes behind a larger one.             *)
PlacedBack(c, item) == Append(inner_queue_, item)
Placed(c, item) ==
  IF c.how = "push" THEN Append(inner_queue_, item)
  ELSE LET i == InsertPlace(c.p) IN
       [j \in 1 .. Size + 1 |->
          IF j < i THEN inner_queue_[j]
          ELSE IF j = i THEN item ELSE inner_queue_[j - 1]]

-----------------------------------------------------------------------------
(* Condition variables: at[t] = "push" or "pop" while t is in the wait set *)
(* of condition_push_ or condition_pop_; a notified thread has to take the *)
(* mutex and evaluate its predicate again.                                 *)

Waiting(cv, place) == {t \in Threads : place[t] = cv}

(* Mutant: a notified thread does not evaluate its predicate again.        *)
NotifyOneUnchecked(cv, place) ==
  IF Waiting(cv, place) = {} THEN {place}
  ELSE {[place EXCEPT ![t] = "idle"] : t \in Waiting(cv, place)}
NotifyOne(cv, place) ==
  IF Waiting(cv, place) = {} THEN {place}
  ELSE {[place EXCEPT ![t] = "woken"] : t \in Waiting(cv, place)}

NotifyAll(cv, place) ==
  [t \in Threads |-> IF place[t] = cv THEN "woken" ELSE place[t]]

IsPut(c) == c.how \in Puts
CvOf(c) == IF IsPut(c) THEN "push" ELSE "pop"
Ready(c) == is_stop_flag_ \/ (IF IsPut(c) THEN Room ELSE Size > 0)

Returned(t) == [at EXCEPT ![t] = "idle"]
CallOver(t) == call' = [call EXCEPT ![t] = NoCall]

(* mutex_ is held across a step by a thread that has passed its predicate, *)
(* and for good by one whose behaviour is undefined.                       *)
MutexFree == \A t \in Threads : at[t] \notin {"passed", "undefined"}

(* A call ends without touching the list: the queue is stopped, or an      *)
(* async or try call fails.                                                *)
Return(t) ==
  /\ at' = Returned(t)
  /\ CallOver(t)
  /\ UNCHANGED <<queueVars, histVars>>

(* Mutant: the thread that waits to pop is not notified.                   *)
PutSilent(t, c) ==
  /\ inner_queue_' = Placed(c, [n |-> accepted + 1, p |-> c.p])
  /\ accepted' = accepted + 1
  /\ at' = Returned(t)
  /\ CallOver(t)
  /\ UNCHANGED <<limit_len_max_, is_stop_flag_, taken, cleared, silent>>
Put(t, c) ==
  /\ inner_queue_' = Placed(c, [n |-> accepted + 1, p |-> c.p])
  /\ accepted' = accepted + 1
  /\ at' \in NotifyOne("pop", Returned(t))
  /\ CallOver(t)
  /\ UNCHANGED <<limit_len_max_, is_stop_flag_, taken, cleared, silent>>

(* Mutants: the item stays in the list; taking one item notifies nobody.   *)
GetOneKeeps(t) ==
  /\ taken' = taken \cup {Head(inner_queue_).n}
  /\ at' \in NotifyOne("push", Returned(t))
  /\ CallOver(t)
  /\ UNCHANGED <<queueVars, accepted, cleared, silent>>
GetOneSilent(t) ==
  /\ inner_queue_' = Tail(inner_queue_)
  /\ taken' = taken \cup {Head(inner_queue_).n}
  /\ at' = Returned(t)
  /\ CallOver(t)
  /\ UNCHANGED <<limit_len_max_, is_stop_flag_, accepted, cleared, silent>>
GetOne(t) ==
  /\ inner_queue_' = Tail(inner_queue_)
  /\ taken' = taken \cup {Head(inner_queue_).n}
  /\ at' \in NotifyOne("push", Returned(t))
  /\ CallOver(t)
  /\ UNCHANGED <<limit_len_max_, is_stop_flag_, accepted, cleared, silent>>

GetList(t) ==
  /\ inner_queue_' = <<>>
  /\ taken' = taken \cup Numbers(inner_queue_)
  /\ at' = NotifyAll("push", Returned(t))
  /\ CallOver(t)
  /\ UNCHANGED <<limit_len_max_, is_stop_flag_, accepted, cleared, silent>>

(* What follows a predicate that is true because of the list.              *)
Work(t, c) ==
  \/ IsPut(c) /\ Put(t, c)
  \/ c.how = "pop" /\ Size > 0 /\ GetOne(t)
  \/ c.how = "list" /\ GetList(t)

Pause(t, c, place) ==
  /\ at' = [at EXCEPT ![t] = place]
  /\ call' = [call EXCEPT ![t] = c]
  /\ UNCHANGED <<queueVars, histVars>>

(* What follows a true predicate.                                          *)
Finish(t, c) ==
  \/ ~is_stop_flag_ /\ Work(t, c)
  \/ is_stop_flag_ /\ c.mode = "async" /\ Return(t)
  \/ is_stop_flag_ /\ c.mode # "async" /\ Pause(t, c, "passed")

Wait(t, c) == Pause(t, c, CvOf(c))

-----------------------------------------------------------------------------
(* push_*, insert_*, pop_* and pop_*_list.                                 *)

Pending == {t \in Threads : call[t].how \in Puts}

Call(t, c) ==
  /\ MutexFree
  /\ at[t] = "idle"
  /\ IsPut(c) => accepted + Cardinality(Pending) < MaxItems
  /\ \/ Ready(c) /\ Finish(t, c)
     \/ ~Ready(c) /\ c.mode = "async" /\ Return(t)
     \/ ~Ready(c) /\ c.mode # "async" /\ Wait(t, c)

(* A notified thread has the mutex again.                                  *)
Resume(t) ==
  /\ MutexFree
  /\ at[t] = "woken"
  /\ \/ Ready(call[t]) /\ Finish(t, call[t])
     \/ ~Ready(call[t]) /\ Wait(t, call[t])

(* wait_for gives up, but looks at its predicate once more.                *)
TimedOut(t) ==
  /\ MutexFree
  /\ at[t] \in {"push", "pop"}
  /\ call[t].mode = "try"
  /\ \/ Ready(call[t]) /\ Finish(t, call[t])
     \/ ~Ready(call[t]) /\ Return(t)

(* The second look at the flag: reset may have stored FALSE since, and     *)
(* then the call goes on, even if there is nothing to pop.                 *)
Passed(t) ==
  /\ at[t] = "passed"
  /\ \/ is_stop_flag_ /\ Return(t)
     \/ ~is_stop_flag_ /\ Work(t, call[t])
     \/ /\ ~is_stop_flag_
        /\ call[t].how = "pop"
        /\ Size = 0
        /\ Pause(t, call[t], "undefined")

Spurious(t) ==
  /\ at[t] \in {"push", "pop"}
  /\ at' = [at EXCEPT ![t] = "woken"]
  /\ UNCHANGED <<queueVars, call, histVars>>

-----------------------------------------------------------------------------
(* stop, clear, reset and change_limit_len_max.                            *)

Stop(t) ==
  /\ "stop" \in Controls
  /\ MutexFree
  /\ at[t] = "idle"
  /\ is_stop_flag_' = TRUE
  /\ at' = [at EXCEPT ![t] = "stop_push"]
  /\ UNCHANGED <<inner_queue_, limit_len_max_, call, histVars>>

(* Mutant: stop does not notify the threads that wait to push.             *)
StopNotifyPushNot(t) ==
  /\ at[t] = "stop_push"
  /\ at' = [at EXCEPT ![t] = "stop_pop"]
  /\ UNCHANGED <<queueVars, call, histVars>>
StopNotifyPush(t) ==
  /\ at[t] = "stop_push"
  /\ at' = NotifyAll("push", [at EXCEPT ![t] = "stop_pop"])
  /\ UNCHANGED <<queueVars, call, histVars>>

StopNotifyPop(t) ==
  /\ at[t] = "stop_pop"
  /\ at' = NotifyAll("pop", Returned(t))
  /\ UNCHANGED <<queueVars, call, histVars>>

(* clear, alone or as the first half of reset.                             *)
Clear(t, next) ==
  /\ MutexFree
  /\ at[t] = "idle"
  /\ at' = [at EXCEPT ![t] = next]
  /\ inner_queue_' = <<>>
  /\ cleared' = cleared \cup Numbers(inner_queue_)
  /\ silent' = TRUE
  /\ UNCHANGED <<limit_len_max_, is_stop_flag_, call, accepted, taken>>

ResetFlag(t) ==
  /\ at[t] = "reset"
  /\ is_stop_flag_' = FALSE
  /\ at' = Returned(t)
  /\ UNCHANGED <<inner_queue_, limit_len_max_, call, histVars>>

change_limit_len_max(t, limit) ==
  /\ at[t] = "idle"
  /\ limit_len_max_' = limit
  /\ silent' = (silent \/ limit > limit_len_max_)
  /\ UNCHANGED <<inner_queue_, is_stop_flag_, at, call, accepted, taken,
                 cleared>>

StopStep(t) == StopNotifyPush(t) \/ StopNotifyPop(t)

Next ==
  \E t \in Threads :
    \/ \E c \in Calls : Call(t, c)
    \/ Resume(t)
    \/ TimedOut(t)
    \/ Passed(t)
    \/ Spurious(t)
    \/ Stop(t)
    \/ StopStep(t)
    \/ "clear" \in Controls /\ Clear(t, "idle")
    \/ "reset" \in Controls /\ Clear(t, "reset")
    \/ ResetFlag(t)
    \/ \E limit \in Limits : change_limit_len_max(t, limit)

(* A notified thread gets the mutex and uses it, and stop goes on to       *)
(* notify; calls, timeouts and spurious wake-ups are free.                 *)
Fairness ==
  \A t \in Threads :
    WF_vars(Resume(t)) /\ WF_vars(Passed(t)) /\ WF_vars(StopStep(t))

Spec == Init /\ [][Next]_vars
FairSpec == Spec /\ Fairness

-----------------------------------------------------------------------------
Items == [n : 1 .. accepted, p : Priorities]

(* The fields hold values of their types, and a thread has a pending call  *)
(* exactly while it waits for its predicate.                               *)
TypeOK ==
  /\ accepted \in 0 .. MaxItems
  /\ inner_queue_ \in Seq(Items)
  /\ limit_len_max_ \in Limits
  /\ is_stop_flag_ \in BOOLEAN
  /\ at \in [Threads -> Places]
  /\ call \in [Threads -> Calls \cup {NoCall}]
  /\ taken \subseteq 1 .. accepted
  /\ cleared \subseteq 1 .. accepted
  /\ silent \in BOOLEAN
  /\ \A t \in Threads :
       /\ at[t] = "push" => IsPut(call[t])
       /\ at[t] = "pop" => call[t].how \in Gets
       /\ at[t] \in {"woken", "passed"} => call[t] \in Calls
       /\ at[t] = "undefined" => call[t].how = "pop"
       /\ at[t] \in {"idle", "stop_push", "stop_pop", "reset"} =>
            call[t] = NoCall

(* Whatever calls wait, time out or are stopped, an item that was put is   *)
(* in the list once, or was delivered, or was cleared, and never two of    *)
(* these.                                                                  *)
Accounted ==
  /\ Cardinality(Numbers(inner_queue_)) = Size
  /\ Numbers(inner_queue_) \cup taken \cup cleared = 1 .. accepted
  /\ taken \cap cleared = {}
  /\ Numbers(inner_queue_) \cap (taken \cup cleared) = {}

(* While all items come by insert, the list is ordered by priority, and of *)
(* two items of one priority the later one comes first.                    *)
InsertOrder ==
  "push" \notin Puts =>
    \A i, j \in 1 .. Size : i < j =>
      \/ inner_queue_[i].p < inner_queue_[j].p
      \/ /\ inner_queue_[i].p = inner_queue_[j].p
         /\ inner_queue_[i].n > inner_queue_[j].n

(* The list never grows beyond the limit in force, even when the limit has *)
(* been lowered below its length while threads wait to push.  One step is  *)
(* left out: the put of a thread that was stopped in a full list and finds *)
(* the flag reset behind its predicate.                                    *)
LimitRespected ==
  [][Len(inner_queue_') > Size /\ MutexFree =>
       Len(inner_queue_') <= limit_len_max_]_vars

Woken(hows) == {t \in Threads : at[t] = "woken" /\ call[t].how \in hows}
StopPending == \E t \in Threads : at[t] \in {"stop_push", "stop_pop"}

(* notify_one is enough for threads that pop: when one of them is in the   *)
(* wait set, each item in the list has a notified thread coming for it,    *)
(* although others may take it first and waits may time out.               *)
PopperNotStranded ==
  Waiting("pop", at) # {} /\ ~is_stop_flag_ /\ ~StopPending =>
    Size <= Cardinality(Woken(Gets))

(* The same for threads that push and for free places, as long as nobody   *)
(* has cleared the list or raised the limit.                               *)
PusherNotStranded ==
  Waiting("push", at) # {} /\ ~is_stop_flag_ /\ ~StopPending /\ ~silent =>
    limit_len_max_ - Size <= Cardinality(Woken(Puts))

(* stop wakes every thread that waits, also one that began to wait just    *)
(* before the flag was set: the notification comes after the store.        *)
StopWakes ==
  \A t \in Threads :
    (is_stop_flag_ /\ at[t] \in {"push", "pop"})
      ~> (at[t] \notin {"push", "pop"})
=============================================================================
