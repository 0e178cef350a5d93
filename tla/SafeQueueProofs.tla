-------------------------- MODULE SafeQueueProofs ---------------------------
(***************************************************************************)
(* Proofs about SafeQueue, for any finite set of threads, any ways to call *)
(* it, and any limits and priorities.                                      *)
(*                                                                         *)
(* The calls that wait go through the same few steps whichever way they    *)
(* come to them: CallStep names these steps, and the invariants are shown  *)
(* for them once.                                                          *)
(***************************************************************************)
EXTENDS SafeQueue, FiniteSetTheorems, SequenceTheorems, WellFoundedInduction,
        TLAPS

(* The items that callers still mean to put have their numbers reserved.   *)
PendingInv == accepted + Cardinality(Pending) <= MaxItems

(* No two items of the list have one number.                               *)
DistinctInv ==
  \A i, j \in 1 .. Size : inner_queue_[i].n = inner_queue_[j].n => i = j

(* While the queue is stopped a thread waits to pop only before the stop   *)
(* has notified it; and only a reset, which clears, ends that.             *)
StopInv ==
  /\ is_stop_flag_ /\ Waiting("pop", at) # {} => StopPending
  /\ ~silent => /\ \A t \in Threads : at[t] # "reset"
                /\ StopPending => is_stop_flag_

IInv == /\ TypeOK /\ PendingInv /\ DistinctInv /\ StopInv
        /\ Accounted /\ InsertOrder /\ PopperNotStranded /\ PusherNotStranded

-----------------------------------------------------------------------------
(* The steps of a call: one that begins, or one that has waited.           *)
Begins(t, c) ==
  at[t] = "idle" /\ (IsPut(c) => accepted + Cardinality(Pending) < MaxItems)
GoesOn(t, c) == at[t] \in {"push", "pop", "woken", "passed"} /\ c = call[t]

PutsOne(t, c) ==
  /\ ~is_stop_flag_ /\ IsPut(c) /\ (at[t] # "passed" => Room)
  /\ Put(t, c)
GetsOne(t, c) == ~is_stop_flag_ /\ c.how = "pop" /\ Size > 0 /\ GetOne(t)
GetsAll(t, c) == ~is_stop_flag_ /\ c.how = "list" /\ GetList(t)
GivesUp(t, c) ==
  (is_stop_flag_ \/ at[t] \in {"idle", "push", "pop"}) /\ Return(t)
Waits(t, c) == ~Ready(c) /\ Wait(t, c)
Passes(t, c) == is_stop_flag_ /\ Pause(t, c, "passed")
GoesWrong(t, c) ==
  /\ ~is_stop_flag_ /\ at[t] = "passed" /\ c.how = "pop"
  /\ Pause(t, c, "undefined")

CallStep(t, c) ==
  /\ Begins(t, c) \/ GoesOn(t, c)
  /\ \/ PutsOne(t, c)
     \/ GetsOne(t, c)
     \/ GetsAll(t, c)
     \/ GivesUp(t, c)
     \/ Waits(t, c)
     \/ Passes(t, c)
     \/ GoesWrong(t, c)

(* A way to put is none to get, and a thread without a call does neither.  *)
LEMMA Kinds ==
  /\ \A c \in Calls : /\ c.how \in Puts \cup Gets
                      /\ IsPut(c) <=> c.how \notin Gets
                      /\ IsPut(c) => c.p \in Priorities
  /\ "none" \notin Puts /\ "none" \notin Gets
  /\ "pop" \notin Puts /\ "list" \notin Puts
  /\ NoCall.how = "none"
BY PutsAssumption, GetsAssumption DEF Calls, IsPut, NoCall

(* A call that begins with c, and one that goes on, take such a step.      *)
LEMMA StepOfCall ==
  ASSUME TypeOK, NEW t \in Threads
  PROVE  /\ \A c \in Calls : Call(t, c) => CallStep(t, c)
         /\ Resume(t) \/ TimedOut(t) \/ Passed(t) =>
              call[t] \in Calls /\ CallStep(t, call[t])
<1> USE DEF CallStep, PutsOne, GetsOne, GetsAll, GivesUp, Waits, Passes,
            GoesWrong
<1>1. ASSUME NEW c \in Calls, Call(t, c) PROVE CallStep(t, c)
  <2>1. Begins(t, c) /\ at[t] = "idle"
        BY <1>1 DEF Call, Begins
  <2>2. CASE Ready(c) /\ Finish(t, c)
        BY <2>1, <2>2, Kinds DEF Finish, Work, Ready
  <2>3. CASE ~Ready(c) /\ Return(t)
        BY <2>1, <2>3
  <2>4. CASE ~Ready(c) /\ Wait(t, c)
        BY <2>1, <2>4
  <2> QED BY <1>1, <2>2, <2>3, <2>4 DEF Call
<1>2. ASSUME at[t] \in {"push", "pop", "woken", "passed"}
      PROVE  call[t] \in Calls /\ GoesOn(t, call[t])
  <2>1. call[t] \in Calls \cup {NoCall}
        BY DEF TypeOK
  <2>2. at[t] \in {"push", "pop"} => call[t].how # "none"
        BY Kinds DEF TypeOK, IsPut
  <2>3. at[t] \in {"woken", "passed"} => call[t] \in Calls
        BY DEF TypeOK
  <2> QED BY <1>2, <2>1, <2>2, <2>3, Kinds DEF GoesOn
<1>3. ASSUME Resume(t) PROVE call[t] \in Calls /\ CallStep(t, call[t])
  <2>1. call[t] \in Calls /\ GoesOn(t, call[t]) /\ at[t] = "woken"
        BY <1>2, <1>3 DEF Resume
  <2>2. CASE Ready(call[t]) /\ Finish(t, call[t])
        BY <2>1, <2>2, Kinds DEF Finish, Work, Ready
  <2>3. CASE ~Ready(call[t]) /\ Wait(t, call[t])
        BY <2>1, <2>3
  <2> QED BY <1>3, <2>2, <2>3 DEF Resume
<1>4. ASSUME TimedOut(t) PROVE call[t] \in Calls /\ CallStep(t, call[t])
  <2>1. /\ call[t] \in Calls /\ GoesOn(t, call[t])
        /\ at[t] \in {"push", "pop"}
        BY <1>2, <1>4 DEF TimedOut
  <2>2. CASE Ready(call[t]) /\ Finish(t, call[t])
        BY <2>1, <2>2, Kinds DEF Finish, Work, Ready
  <2>3. CASE Return(t)
        BY <2>1, <2>3
  <2> QED BY <1>4, <2>2, <2>3 DEF TimedOut
<1>5. ASSUME Passed(t) PROVE call[t] \in Calls /\ CallStep(t, call[t])
  <2>1. /\ call[t] \in Calls /\ GoesOn(t, call[t])
        /\ at[t] = "passed"
        BY <1>2, <1>5 DEF Passed
  <2>2. CallStep(t, call[t])
        BY <1>5, <2>1, Kinds DEF Passed, Work
  <2> QED BY <2>1, <2>2
<1> HIDE DEF CallStep
<1> QED BY <1>1, <1>3, <1>4, <1>5

LEMMA CallSteps ==
  ASSUME TypeOK, NEW t \in Threads,
         \/ \E c \in Calls : Call(t, c)
         \/ Resume(t)
         \/ TimedOut(t)
         \/ Passed(t)
  PROVE  \E c \in Calls : CallStep(t, c)
BY StepOfCall

-----------------------------------------------------------------------------
(* Where an item is placed.                                                *)

(* A set of numbers has a smallest one.                                    *)
LEMMA Smallest ==
  ASSUME NEW T \in SUBSET Nat, T # {}
  PROVE  \E x \in T : \A y \in T : x <= y
<1> DEFINE R == OpToRel(<, Nat)
<1>1. IsWellFoundedOn(R, Nat)
      BY NatLessThanWellFounded
<1>2. \A x, y \in Nat : y < x => <<y, x>> \in R
      BY DEF OpToRel
<1> HIDE DEF R
<1>3. PICK x \in T : \A y \in T : ~ (<<y, x>> \in R)
      BY <1>1, WFMin
<1>4. ASSUME NEW y \in T PROVE x <= y
  <2>1. x \in Nat /\ y \in Nat
        OBVIOUS
  <2>2. ~(y < x)
        BY <1>2, <1>3, <2>1
  <2> QED BY <2>1, <2>2
<1> QED BY <1>4

LEMMA ListIs ==
  ASSUME TypeOK
  PROVE  /\ Size = Len(inner_queue_) /\ Size \in Nat /\ accepted \in Nat
         /\ inner_queue_ \in Seq(Items)
         /\ \A i \in 1 .. Size :
              /\ inner_queue_[i] \in Items
              /\ inner_queue_[i].n \in 1 .. accepted
              /\ inner_queue_[i].p \in Priorities
<1>1. /\ Size = Len(inner_queue_) /\ Size \in Nat /\ accepted \in Nat
      /\ inner_queue_ \in Seq(Items)
      BY DEF TypeOK, Size
<1>2. \A i \in 1 .. Size : inner_queue_[i] \in Items
      BY <1>1, ElementOfSeq
<1> QED BY <1>1, <1>2 DEF Items

(* The place of an item that is inserted exists: nothing in front of it is *)
(* as late, and what follows is.                                           *)
LEMMA InsertPlaceIs ==
  ASSUME TypeOK, NEW p \in Priorities
  PROVE  /\ InsertPlace(p) \in 1 .. Size + 1
         /\ \A j \in 1 .. InsertPlace(p) - 1 : inner_queue_[j].p < p
         /\ \/ InsertPlace(p) = Size + 1
            \/ inner_queue_[InsertPlace(p)].p >= p
<1> DEFINE Late == {i \in 1 .. Size : inner_queue_[i].p >= p}
           IsPlace(i) == /\ \A j \in 1 .. i - 1 : inner_queue_[j].p < p
                         /\ i = Size + 1 \/ inner_queue_[i].p >= p
<1>0. /\ Size \in Nat /\ p \in Int
      /\ \A i \in 1 .. Size : inner_queue_[i].p \in Int
      BY ListIs, PrioritiesAssumption
<1>1. CASE Late = {}
  <2>1. \A j \in 1 .. Size : inner_queue_[j].p < p
        BY <1>0, <1>1
  <2>2. Size + 1 \in 1 .. Size + 1 /\ IsPlace(Size + 1)
    <3>1. (Size + 1) - 1 = Size /\ Size + 1 \in 1 .. Size + 1
          BY <1>0
    <3> QED BY <2>1, <3>1
  <2>3. InsertPlace(p) = CHOOSE i \in 1 .. Size + 1 : IsPlace(i)
        BY DEF InsertPlace
  <2>4. InsertPlace(p) \in 1 .. Size + 1 /\ IsPlace(InsertPlace(p))
    <3> HIDE DEF IsPlace
    <3> QED BY <2>2, <2>3, Zenon
  <2> QED BY <2>4
<1>2. CASE Late # {}
  <2>1. PICK i \in Late : \A j \in Late : i <= j
    <3>1. Late \in SUBSET Nat
          BY <1>0
    <3> HIDE DEF Late
    <3> QED BY <1>2, <3>1, Smallest
  <2>2. ASSUME NEW j \in 1 .. i - 1 PROVE inner_queue_[j].p < p
    <3>1. j \in 1 .. Size /\ j < i
          BY <1>0, <2>1
    <3>2. j \notin Late
          BY <1>0, <2>1, <3>1
    <3> QED BY <1>0, <3>1, <3>2
  <2>3. i \in 1 .. Size + 1 /\ IsPlace(i)
        BY <1>0, <2>1, <2>2
  <2> QED BY <2>3 DEF InsertPlace
<1> QED BY <1>1, <1>2

(* The list with an item more, whichever way it was put.                   *)
IsPlaced(q, item, i) ==
  /\ Len(q) = Size + 1
  /\ q[i] = item
  /\ \A j \in 1 .. i - 1 : q[j] = inner_queue_[j]
  /\ \A j \in i + 1 .. Size + 1 : q[j] = inner_queue_[j - 1]

LEMMA PlacedIs ==
  ASSUME TypeOK, NEW c \in Calls, IsPut(c), NEW item
  PROVE  \E i \in 1 .. Size + 1 :
           /\ IsPlaced(Placed(c, item), item, i)
           /\ c.how = "insert" =>
                /\ \A j \in 1 .. i - 1 : inner_queue_[j].p < c.p
                /\ i = Size + 1 \/ inner_queue_[i].p >= c.p
<1>0. Size \in Nat /\ inner_queue_ \in Seq(Items) /\ Size = Len(inner_queue_)
      BY DEF TypeOK, Size
<1>1. CASE c.how = "push"
  <2>1. Placed(c, item) = Append(inner_queue_, item)
        BY <1>1 DEF Placed
  <2>2. IsPlaced(Placed(c, item), item, Size + 1)
        BY <1>0, <2>1 DEF IsPlaced
  <2> QED BY <1>0, <1>1, <2>2
<1>2. CASE c.how # "push"
  <2>1. c.p \in Priorities
        BY Kinds
  <2> DEFINE i == InsertPlace(c.p)
  <2>2. /\ i \in 1 .. Size + 1
        /\ \A j \in 1 .. i - 1 : inner_queue_[j].p < c.p
        /\ i = Size + 1 \/ inner_queue_[i].p >= c.p
        BY <2>1, InsertPlaceIs
  <2> HIDE DEF i
  <2>3. Placed(c, item) =
          [j \in 1 .. Size + 1 |->
             IF j < i THEN inner_queue_[j]
             ELSE IF j = i THEN item ELSE inner_queue_[j - 1]]
        BY <1>2 DEF Placed, i
  <2>4. IsPlaced(Placed(c, item), item, i)
        BY <1>0, <2>2, <2>3 DEF IsPlaced
  <2> QED BY <2>2, <2>4
<1> QED BY <1>1, <1>2

(* The type of the list with an item more.                                 *)
LEMMA PlacedType ==
  ASSUME TypeOK, NEW c \in Calls, IsPut(c)
  PROVE  Placed(c, [n |-> accepted + 1, p |-> c.p])
           \in Seq([n : 1 .. accepted + 1, p : Priorities])
<1> DEFINE item == [n |-> accepted + 1, p |-> c.p]
           More == [n : 1 .. accepted + 1, p : Priorities]
           q == Placed(c, item)
<1> SUFFICES q \in Seq(More)
    OBVIOUS
<1>0. /\ Size \in Nat /\ inner_queue_ \in Seq(Items) /\ accepted \in Nat
      /\ Size = Len(inner_queue_)
      BY ListIs
<1>1. item \in More
      BY <1>0, Kinds
<1>2. Items \subseteq More
      BY <1>0 DEF Items
<1>5. \A j \in 1 .. Size : inner_queue_[j] \in More
       BY <1>2, ListIs
<1>3. CASE c.how = "push"
  <2>1. q = Append(inner_queue_, item)
        BY <1>3 DEF Placed
  <2>2. inner_queue_ \in Seq(More)
    <3> HIDE DEF More
    <3> QED BY <1>0, <1>2, SeqMonotonic
  <2> HIDE DEF More, item
  <2> QED BY <1>1, <2>1, <2>2, AppendProperties
<1>4. CASE c.how # "push"
  <2> DEFINE i == InsertPlace(c.p)
  <2>1. i \in 1 .. Size + 1
        BY Kinds, InsertPlaceIs
  <2> HIDE DEF i
  <2>2. q = [j \in 1 .. Size + 1 |->
               IF j < i THEN inner_queue_[j]
               ELSE IF j = i THEN item ELSE inner_queue_[j - 1]]
        BY <1>4 DEF Placed, i
  <2>3. ASSUME NEW j \in 1 .. Size + 1
        PROVE  (IF j < i THEN inner_queue_[j]
                ELSE IF j = i THEN item ELSE inner_queue_[j - 1]) \in More
    <3>1. j < i => j \in 1 .. Size
          BY <1>0, <2>1
    <3>2. j > i => j - 1 \in 1 .. Size
          BY <1>0, <2>1
    <3> HIDE DEF More, item
    <3> QED BY <1>0, <1>1, <1>5, <2>1, <3>1, <3>2
  <2> HIDE DEF More, item
  <2>4. q \in [1 .. Size + 1 -> More]
        BY <2>2, <2>3
  <2>5. Seq(More) = UNION {[1 .. n -> More] : n \in Nat}
        BY SeqDef
  <2>6. Size + 1 \in Nat
        BY <1>0
  <2> QED BY <2>4, <2>5, <2>6
<1> QED BY <1>3, <1>4

-----------------------------------------------------------------------------
(* Who is notified, and whose calls are pending.                           *)

LEMMA OneNotified ==
  ASSUME NEW place \in [Threads -> Places], NEW cv,
         NEW new \in NotifyOne(cv, place)
  PROVE  \/ Waiting(cv, place) = {} /\ new = place
         \/ \E u \in Threads :
              place[u] = cv /\ new = [place EXCEPT ![u] = "woken"]
BY DEF NotifyOne, Waiting

LEMMA NotifyFrame ==
  ASSUME NEW place \in [Threads -> Places], NEW cv,
         NEW new, new \in NotifyOne(cv, place) \/ new = NotifyAll(cv, place)
  PROVE  /\ new \in [Threads -> Places]
         /\ \A u \in Threads :
              \/ new[u] = place[u]
              \/ place[u] = cv /\ new[u] = "woken"
<1>1. CASE new \in NotifyOne(cv, place)
  <2>1. CASE new = place
        BY <2>1
  <2>2. ASSUME NEW u \in Threads, place[u] = cv,
               new = [place EXCEPT ![u] = "woken"]
        PROVE  /\ new \in [Threads -> Places]
               /\ \A v \in Threads :
                    \/ new[v] = place[v]
                    \/ place[v] = cv /\ new[v] = "woken"
        BY <2>2 DEF Places
  <2> QED BY <1>1, <2>1, <2>2, OneNotified
<1>2. CASE new = NotifyAll(cv, place)
      BY <1>2 DEF NotifyAll, Places
<1> QED BY <1>1, <1>2

(* The threads with a pending call that puts.                              *)
LEMMA PendingIs ==
  ASSUME TypeOK, NEW t \in Threads
  PROVE  /\ IsFiniteSet(Pending) /\ Cardinality(Pending) \in Nat
         /\ UNCHANGED call => Pending' = Pending
         /\ CallOver(t) => Pending' = Pending \ {t}
         /\ \A c \in Calls : call' = [call EXCEPT ![t] = c] =>
              Pending' = IF IsPut(c) THEN Pending \cup {t} ELSE Pending \ {t}
<1>1. /\ IsFiniteSet(Pending)
      /\ Cardinality(Pending) \in Nat
  <2>1. Pending \in SUBSET Threads
        BY DEF Pending
  <2>2. IsFiniteSet(Pending)
        BY <2>1, ThreadsAssumption, FS_Subset
  <2> QED BY <2>2, FS_CardinalityType
<1>2. UNCHANGED call => Pending' = Pending
      BY DEF Pending
<1>3. CallOver(t) => Pending' = Pending \ {t}
      BY Kinds DEF CallOver, Pending, TypeOK
<1>4. ASSUME NEW c \in Calls, call' = [call EXCEPT ![t] = c]
      PROVE  Pending' = IF IsPut(c) THEN Pending \cup {t} ELSE Pending \ {t}
      BY <1>4 DEF Pending, TypeOK, IsPut
<1> QED BY <1>1, <1>2, <1>3, <1>4

LEMMA PendingCount ==
  ASSUME TypeOK, NEW t \in Threads
  PROVE  /\ Cardinality(Pending \cup {t}) =
              IF t \in Pending THEN Cardinality(Pending)
                               ELSE Cardinality(Pending) + 1
         /\ Cardinality(Pending \ {t}) =
              IF t \in Pending THEN Cardinality(Pending) - 1
                               ELSE Cardinality(Pending)
         /\ Cardinality(Pending \ {t}) \in Nat
         /\ Cardinality(Pending \ {t}) <= Cardinality(Pending)
         /\ Cardinality(Pending) \in Nat
         /\ accepted \in Nat /\ MaxItems \in Nat
<1>1. IsFiniteSet(Pending) /\ IsFiniteSet(Pending \ {t})
      BY PendingIs, FS_RemoveElement
<1>2. Cardinality(Pending \ {t}) \in Nat /\ Cardinality(Pending) \in Nat
      BY <1>1, FS_CardinalityType
<1>3. accepted \in Nat /\ MaxItems \in Nat
      BY ItemsAssumption, ListIs
<1>4. Cardinality(Pending \cup {t}) =
        IF t \in Pending THEN Cardinality(Pending)
                         ELSE Cardinality(Pending) + 1
      BY <1>1, FS_AddElement
<1>5. Cardinality(Pending \ {t}) =
        IF t \in Pending THEN Cardinality(Pending) - 1
                         ELSE Cardinality(Pending)
      BY <1>1, FS_RemoveElement
<1>6. Cardinality(Pending \ {t}) <= Cardinality(Pending)
      BY <1>2, <1>5
<1> QED BY <1>2, <1>3, <1>4, <1>5, <1>6

(* What the steps of a call do to the thread itself.                       *)
LEMMA CallerIs ==
  ASSUME TypeOK, NEW t \in Threads, NEW c \in Calls, CallStep(t, c)
  PROVE  /\ at[t] \in {"idle", "push", "pop", "woken", "passed"}
         /\ at[t] = "idle" => call[t] = NoCall /\ t \notin Pending
         /\ at[t] # "idle" =>
              /\ call[t] = c
              /\ t \in Pending <=> IsPut(c)
              /\ at[t] = "push" => IsPut(c)
              /\ at[t] = "pop" => c.how \in Gets
BY Kinds DEF CallStep, Begins, GoesOn, TypeOK, Pending, IsPut

(* Where the threads are, and their calls, when one thread returns and     *)
(* perhaps others are notified, and when it waits.                         *)
LEMMA ReturnedType ==
  ASSUME TypeOK, NEW t \in Threads, CallOver(t), NEW cv \in {"push", "pop"},
         \/ at' = Returned(t)
         \/ at' \in NotifyOne(cv, Returned(t))
         \/ at' = NotifyAll(cv, Returned(t)),
         UNCHANGED <<limit_len_max_, is_stop_flag_>>,
         accepted' \in 0 .. MaxItems,
         inner_queue_' \in Seq(Items'),
         taken' \subseteq 1 .. accepted', cleared' \subseteq 1 .. accepted',
         silent' \in BOOLEAN
  PROVE  TypeOK'
<1>1. /\ Returned(t) \in [Threads -> Places]
      /\ Returned(t)[t] = "idle"
      /\ \A u \in Threads \ {t} : Returned(t)[u] = at[u]
      BY DEF Returned, TypeOK, Places
<1>2. /\ at' \in [Threads -> Places]
      /\ \A u \in Threads :
           \/ at'[u] = Returned(t)[u]
           \/ Returned(t)[u] = cv /\ at'[u] = "woken"
  <2>1. CASE at' = Returned(t)
        BY <1>1, <2>1
  <2>2. CASE \/ at' \in NotifyOne(cv, Returned(t))
             \/ at' = NotifyAll(cv, Returned(t))
        BY <1>1, <2>2, NotifyFrame
  <2> QED BY <2>1, <2>2
<1>3. /\ call' \in [Threads -> Calls \cup {NoCall}]
      /\ call'[t] = NoCall
      /\ \A u \in Threads \ {t} : call'[u] = call[u]
      BY DEF CallOver, TypeOK
<1>4. ASSUME NEW u \in Threads
      PROVE  /\ at'[u] = "push" => IsPut(call'[u])
             /\ at'[u] = "pop" => call'[u].how \in Gets
             /\ at'[u] \in {"woken", "passed"} => call'[u] \in Calls
             /\ at'[u] = "undefined" => call'[u].how = "pop"
             /\ at'[u] \in {"idle", "stop_push", "stop_pop", "reset"} =>
                  call'[u] = NoCall
  <2>1. CASE u = t
        BY <1>1, <1>2, <1>3, <2>1
  <2>2. CASE u # t
    <3>1. /\ call'[u] = call[u]
          /\ \/ at'[u] = at[u]
             \/ at[u] \in {"push", "pop"} /\ at'[u] = "woken"
          BY <1>1, <1>2, <1>3, <2>2
    <3>2. at[u] \in {"push", "pop"} => call[u] \in Calls
      <4>1. call[u] \in Calls \cup {NoCall}
            BY DEF TypeOK
      <4> QED BY <4>1, Kinds DEF TypeOK, IsPut
    <3> QED BY <3>1, <3>2 DEF TypeOK
  <2> QED BY <2>1, <2>2
<1> QED BY <1>2, <1>3, <1>4 DEF TypeOK, IsPut

LEMMA PausedType ==
  ASSUME TypeOK, NEW t \in Threads, NEW c \in Calls, NEW place,
         Pause(t, c, place),
         \/ place = CvOf(c) \/ place = "passed"
         \/ place = "undefined" /\ c.how = "pop"
  PROVE  TypeOK'
<1>1. /\ place \in {"push", "pop", "passed", "undefined"}
      /\ place = "push" => IsPut(c)
      /\ place = "pop" => c.how \in Gets
      /\ place = "undefined" => c.how = "pop"
      BY Kinds DEF CvOf
<1>2. /\ at' \in [Threads -> Places]
      /\ at'[t] = place
      /\ \A u \in Threads \ {t} : at'[u] = at[u]
      BY <1>1 DEF Pause, TypeOK, Places
<1>3. /\ call' \in [Threads -> Calls \cup {NoCall}]
      /\ call'[t] = c
      /\ \A u \in Threads \ {t} : call'[u] = call[u]
      BY DEF Pause, TypeOK
<1>4. ASSUME NEW u \in Threads
      PROVE  /\ at'[u] = "push" => IsPut(call'[u])
             /\ at'[u] = "pop" => call'[u].how \in Gets
             /\ at'[u] \in {"woken", "passed"} => call'[u] \in Calls
             /\ at'[u] = "undefined" => call'[u].how = "pop"
             /\ at'[u] \in {"idle", "stop_push", "stop_pop", "reset"} =>
                  call'[u] = NoCall
  <2>1. CASE u = t
        BY <1>1, <1>2, <1>3, <2>1
  <2>2. CASE u # t
        BY <1>2, <1>3, <2>2 DEF TypeOK
  <2> QED BY <2>1, <2>2
<1> QED BY <1>2, <1>3, <1>4
        DEF Pause, TypeOK, IsPut, queueVars, histVars, Items

-----------------------------------------------------------------------------
(* The limit on the number of items leaves room for the pending calls.     *)
LEMMA RoomToPut ==
  ASSUME TypeOK, PendingInv, NEW t \in Threads, NEW c \in Calls,
         CallStep(t, c), IsPut(c)
  PROVE  accepted + 1 + Cardinality(Pending \ {t}) <= MaxItems
<1>1. /\ accepted \in Nat /\ MaxItems \in Nat
      /\ Cardinality(Pending) \in Nat
      BY ItemsAssumption, PendingIs DEF TypeOK
<1>2. CASE at[t] = "idle"
  <2>1. t \notin Pending /\ accepted + Cardinality(Pending) < MaxItems
        BY <1>2, CallerIs DEF CallStep, Begins, GoesOn
  <2> QED BY <1>1, <2>1, PendingCount
<1>3. CASE at[t] # "idle"
  <2>1. t \in Pending
        BY <1>3, CallerIs
  <2> QED BY <1>1, <2>1, PendingCount DEF PendingInv
<1> QED BY <1>2, <1>3

LEMMA PutStep ==
  ASSUME TypeOK, PendingInv, NEW t \in Threads, NEW c \in Calls,
         CallStep(t, c), PutsOne(t, c)
  PROVE  TypeOK' /\ PendingInv'
<1>1. accepted + 1 + Cardinality(Pending \ {t}) <= MaxItems
      BY RoomToPut DEF PutsOne
<1>2. Pending' = Pending \ {t}
      BY PendingIs DEF PutsOne, Put
<1>3. /\ accepted' = accepted + 1 /\ accepted \in Nat /\ MaxItems \in Nat
      /\ Cardinality(Pending \ {t}) \in Nat
      BY PendingCount DEF PutsOne, Put
<1>4. PendingInv'
      BY <1>1, <1>2, <1>3 DEF PendingInv
<1>5. inner_queue_' \in Seq(Items')
      BY <1>3, PlacedType DEF PutsOne, Put, Items
<1>6. /\ accepted' \in 0 .. MaxItems
      /\ taken' \subseteq 1 .. accepted' /\ cleared' \subseteq 1 .. accepted'
      BY <1>1, <1>3 DEF PutsOne, Put, TypeOK
<1>7. /\ CallOver(t) /\ at' \in NotifyOne("pop", Returned(t))
      /\ UNCHANGED <<limit_len_max_, is_stop_flag_, silent>>
      BY DEF PutsOne, Put
<1>8. TypeOK'
      BY <1>5, <1>6, <1>7, ReturnedType DEF TypeOK
<1> QED BY <1>4, <1>8

(* A call that is over without a put leaves room for the others.           *)
LEMMA PendingOver ==
  ASSUME TypeOK, PendingInv, NEW t \in Threads, CallOver(t),
         UNCHANGED accepted
  PROVE  PendingInv'
<1>1. Pending' = Pending \ {t}
      BY PendingIs
<1> QED BY <1>1, PendingCount DEF PendingInv

LEMMA GetStep ==
  ASSUME TypeOK, PendingInv, NEW t \in Threads, NEW c \in Calls,
         GetsOne(t, c) \/ GetsAll(t, c)
  PROVE  TypeOK' /\ PendingInv'
<1>0. CallOver(t) /\ UNCHANGED <<limit_len_max_, is_stop_flag_, accepted,
                                 cleared, silent>>
      BY DEF GetsOne, GetOne, GetsAll, GetList
<1>1. PendingInv'
      BY <1>0, PendingOver
<1>2. Items' = Items
      BY <1>0 DEF Items
<1>3. CASE GetsOne(t, c)
  <2>1. inner_queue_ # <<>>
        BY <1>3, ListIs DEF GetsOne
  <2>2. Tail(inner_queue_) \in Seq(Items) /\ Head(inner_queue_) \in Items
        BY <2>1, ListIs, HeadTailProperties
  <2>3. taken' \subseteq 1 .. accepted
        BY <1>3, <2>2 DEF GetsOne, GetOne, Items, TypeOK
  <2>4. inner_queue_' \in Seq(Items')
        BY <1>2, <1>3, <2>2 DEF GetsOne, GetOne
  <2>5. at' \in NotifyOne("push", Returned(t))
        BY <1>3 DEF GetsOne, GetOne
  <2> QED BY <1>0, <1>1, <2>3, <2>4, <2>5, ReturnedType DEF TypeOK
<1>4. CASE GetsAll(t, c)
  <2>1. taken' \subseteq 1 .. accepted
        BY <1>4, ListIs DEF GetsAll, GetList, Numbers, TypeOK
  <2>2. inner_queue_' \in Seq(Items')
        BY <1>4, EmptySeq DEF GetsAll, GetList
  <2>3. at' = NotifyAll("push", Returned(t))
        BY <1>4 DEF GetsAll, GetList
  <2> QED BY <1>0, <1>1, <2>1, <2>2, <2>3, ReturnedType DEF TypeOK
<1> QED BY <1>3, <1>4

LEMMA PauseStep ==
  ASSUME TypeOK, PendingInv, NEW t \in Threads, NEW c \in Calls,
         CallStep(t, c),
         Waits(t, c) \/ Passes(t, c) \/ GoesWrong(t, c)
  PROVE  TypeOK' /\ PendingInv'
<1>1. PICK place : /\ Pause(t, c, place)
                   /\ \/ place = CvOf(c) \/ place = "passed"
                      \/ place = "undefined" /\ c.how = "pop"
      BY DEF Waits, Wait, Passes, GoesWrong
<1>2. TypeOK'
      BY <1>1, PausedType
<1>3. /\ Pending' = IF IsPut(c) THEN Pending \cup {t} ELSE Pending \ {t}
      /\ UNCHANGED accepted
      BY <1>1, PendingIs DEF Pause, histVars
<1>4. CASE IsPut(c)
  <2>1. accepted + 1 + Cardinality(Pending \ {t}) <= MaxItems
        BY <1>4, RoomToPut
  <2> QED BY <1>2, <1>3, <1>4, <2>1, PendingCount DEF PendingInv
<1>5. CASE ~IsPut(c)
  <2>1. Pending' = Pending \ {t} /\ accepted' = accepted
        BY <1>3, <1>5
  <2>2. /\ Cardinality(Pending') <= Cardinality(Pending)
        /\ Cardinality(Pending') \in Nat /\ Cardinality(Pending) \in Nat
        /\ accepted \in Nat /\ MaxItems \in Nat
        BY <2>1, PendingCount
  <2>3. PendingInv'
        BY <2>1, <2>2 DEF PendingInv
  <2> QED BY <1>2, <2>3
<1> QED BY <1>4, <1>5

(* The threads with a control of their own have no call.                   *)
LEMMA MovedType ==
  ASSUME TypeOK, NEW t \in Threads, UNCHANGED call,
         at' \in [Threads -> Places],
         call[t] = NoCall,
         at'[t] \in {"idle", "stop_push", "stop_pop", "reset"},
         \A u \in Threads \ {t} :
           \/ at'[u] = at[u]
           \/ at[u] \in {"push", "pop"} /\ at'[u] = "woken",
         UNCHANGED <<limit_len_max_, accepted, taken>>,
         inner_queue_' \in Seq(Items), is_stop_flag_' \in BOOLEAN,
         cleared' \subseteq 1 .. accepted, silent' \in BOOLEAN
  PROVE  TypeOK'
<1>1. ASSUME NEW u \in Threads
      PROVE  /\ at'[u] = "push" => IsPut(call[u])
             /\ at'[u] = "pop" => call[u].how \in Gets
             /\ at'[u] \in {"woken", "passed"} => call[u] \in Calls
             /\ at'[u] = "undefined" => call[u].how = "pop"
             /\ at'[u] \in {"idle", "stop_push", "stop_pop", "reset"} =>
                  call[u] = NoCall
  <2>1. CASE u = t
        BY <2>1
  <2>2. CASE u # t
    <3>1. at[u] \in {"push", "pop"} => call[u] \in Calls
      <4>1. call[u] \in Calls \cup {NoCall}
            BY DEF TypeOK
      <4> QED BY <4>1, Kinds DEF TypeOK, IsPut
    <3> QED BY <2>2, <3>1 DEF TypeOK
  <2> QED BY <2>1, <2>2
<1>2. Items' = Items
      BY DEF Items
<1> QED BY <1>1, <1>2 DEF TypeOK, IsPut

LEMMA TypeStep ==
  TypeOK /\ PendingInv /\ [Next]_vars => TypeOK' /\ PendingInv'
<1> SUFFICES ASSUME TypeOK, PendingInv, [Next]_vars
             PROVE  TypeOK' /\ PendingInv'
    OBVIOUS
<1>0. UNCHANGED <<call, accepted>> => PendingInv'
  <2>1. UNCHANGED call => Pending' = Pending
        BY DEF Pending
  <2> QED BY <2>1 DEF PendingInv
<1>1. ASSUME NEW t \in Threads, NEW c \in Calls, CallStep(t, c)
      PROVE  TypeOK' /\ PendingInv'
  <2>1. CASE PutsOne(t, c)
        BY <1>1, <2>1, PutStep
  <2>2. CASE GetsOne(t, c) \/ GetsAll(t, c)
        BY <2>2, GetStep
  <2>3. CASE GivesUp(t, c)
    <3>1. /\ CallOver(t) /\ at' = Returned(t)
          /\ UNCHANGED <<queueVars, histVars>>
          BY <2>3 DEF GivesUp, Return
    <3>2. Items' = Items
          BY <3>1 DEF Items, histVars
    <3>3. TypeOK'
          BY <3>1, <3>2, ReturnedType DEF TypeOK, queueVars, histVars
    <3> QED BY <3>1, <3>3, PendingOver DEF histVars
  <2>4. CASE Waits(t, c) \/ Passes(t, c) \/ GoesWrong(t, c)
        BY <1>1, <2>4, PauseStep
  <2> QED BY <1>1, <2>1, <2>2, <2>3, <2>4 DEF CallStep
<1>2. ASSUME NEW t \in Threads, Spurious(t) PROVE TypeOK'
  <2>1. call[t] \in Calls
    <3>1. call[t] \in Calls \cup {NoCall}
          BY DEF TypeOK
    <3> QED BY <1>2, <3>1, Kinds DEF Spurious, TypeOK, IsPut
  <2>2. Items' = Items
        BY <1>2 DEF Spurious, Items, histVars
  <2>3. /\ at' \in [Threads -> Places] /\ at'[t] = "woken"
        /\ \A u \in Threads \ {t} : at'[u] = at[u]
        BY <1>2 DEF Spurious, TypeOK, Places
  <2>4. ASSUME NEW u \in Threads
        PROVE  /\ at'[u] = "push" => IsPut(call[u])
               /\ at'[u] = "pop" => call[u].how \in Gets
               /\ at'[u] \in {"woken", "passed"} => call[u] \in Calls
               /\ at'[u] = "undefined" => call[u].how = "pop"
               /\ at'[u] \in {"idle", "stop_push", "stop_pop", "reset"} =>
                    call[u] = NoCall
        BY <2>1, <2>3 DEF TypeOK
  <2>5. UNCHANGED <<queueVars, call, histVars>>
        BY <1>2 DEF Spurious
  <2> QED BY <2>2, <2>3, <2>4, <2>5 DEF TypeOK, IsPut, queueVars, histVars
<1>3. ASSUME NEW t \in Threads, Stop(t) PROVE TypeOK'
  <2>1. at' = [at EXCEPT ![t] = "stop_push"] /\ call[t] = NoCall
        BY <1>3 DEF Stop, TypeOK
  <2>2. at' \in [Threads -> Places] /\ at'[t] = "stop_push"
        /\ \A u \in Threads \ {t} : at'[u] = at[u]
        BY <2>1 DEF TypeOK, Places
  <2> QED BY <1>3, <2>1, <2>2, MovedType DEF Stop, TypeOK, histVars
<1>4. ASSUME NEW t \in Threads, NEW cv \in {"push", "pop"},
             NEW next \in {"idle", "stop_pop"},
             at[t] \in {"stop_push", "stop_pop"},
             at' = NotifyAll(cv, [at EXCEPT ![t] = next]),
             UNCHANGED <<queueVars, call, histVars>>
      PROVE  TypeOK'
  <2> DEFINE place == [at EXCEPT ![t] = next]
  <2>1. /\ place \in [Threads -> Places] /\ place[t] = next
        /\ \A u \in Threads \ {t} : place[u] = at[u]
        BY DEF TypeOK, Places
  <2>2. /\ at' \in [Threads -> Places]
        /\ \A u \in Threads :
             at'[u] = place[u] \/ (place[u] = cv /\ at'[u] = "woken")
    <3>1. at' = NotifyAll(cv, place)
          BY <1>4
    <3> HIDE DEF place
    <3> QED BY <2>1, <3>1, NotifyFrame
  <2> HIDE DEF place
  <2>3. /\ at'[t] = next /\ call[t] = NoCall
        /\ \A u \in Threads \ {t} :
             \/ at'[u] = at[u]
             \/ at[u] \in {"push", "pop"} /\ at'[u] = "woken"
        BY <1>4, <2>1, <2>2 DEF TypeOK
  <2> QED BY <1>4, <2>2, <2>3, MovedType DEF TypeOK, queueVars, histVars
<1>5. ASSUME NEW t \in Threads, StopStep(t) PROVE TypeOK'
      BY <1>4, <1>5 DEF StopStep, StopNotifyPush, StopNotifyPop, Returned
<1>6. ASSUME NEW t \in Threads, NEW next \in {"idle", "reset"},
             Clear(t, next)
      PROVE  TypeOK'
  <2>1. at' = [at EXCEPT ![t] = next] /\ call[t] = NoCall
        BY <1>6 DEF Clear, TypeOK
  <2>2. at' \in [Threads -> Places] /\ at'[t] = next
        /\ \A u \in Threads \ {t} : at'[u] = at[u]
        BY <2>1 DEF TypeOK, Places
  <2>3. inner_queue_' \in Seq(Items) /\ cleared' \subseteq 1 .. accepted
        BY <1>6, ListIs, EmptySeq DEF Clear, TypeOK, Numbers
  <2> QED BY <1>6, <2>1, <2>2, <2>3, MovedType DEF Clear, TypeOK
<1>7. ASSUME NEW t \in Threads, ResetFlag(t) PROVE TypeOK'
  <2>1. at' = [at EXCEPT ![t] = "idle"] /\ call[t] = NoCall
        BY <1>7 DEF ResetFlag, Returned, TypeOK
  <2>2. at' \in [Threads -> Places] /\ at'[t] = "idle"
        /\ \A u \in Threads \ {t} : at'[u] = at[u]
        BY <2>1 DEF TypeOK, Places
  <2> QED BY <1>7, <2>1, <2>2, MovedType DEF ResetFlag, TypeOK, histVars
<1>8. ASSUME NEW t \in Threads, NEW limit \in Limits,
             change_limit_len_max(t, limit)
      PROVE  TypeOK'
      BY <1>8 DEF change_limit_len_max, TypeOK, Items, IsPut
<1>9. ASSUME UNCHANGED vars PROVE TypeOK'
  <2>1. UNCHANGED <<queueVars, at, call, histVars>>
        BY <1>9 DEF vars
  <2>2. Items' = Items
        BY <2>1 DEF histVars, Items
  <2>3. UNCHANGED <<inner_queue_, limit_len_max_, is_stop_flag_, at, call,
                    accepted, taken, cleared, silent>>
        BY <2>1 DEF queueVars, histVars
  <2> QED BY <2>2, <2>3 DEF TypeOK, IsPut
<1>10. ASSUME NEW t \in Threads,
              \/ Spurious(t) \/ Stop(t) \/ StopStep(t)
              \/ \E next \in {"idle", "reset"} : Clear(t, next)
              \/ ResetFlag(t)
              \/ \E limit \in Limits : change_limit_len_max(t, limit)
       PROVE  UNCHANGED <<call, accepted>>
       BY <1>10 DEF Spurious, Stop, StopStep, StopNotifyPush, StopNotifyPop,
          Clear, ResetFlag, change_limit_len_max, histVars
<1>11. UNCHANGED vars => UNCHANGED <<call, accepted>>
       BY DEF vars, histVars
<1>12. CASE \E t \in Threads : \/ \E c \in Calls : Call(t, c)
                               \/ Resume(t) \/ TimedOut(t) \/ Passed(t)
       BY <1>1, <1>12, CallSteps
<1> QED BY <1>0, <1>2, <1>3, <1>5, <1>6, <1>7, <1>8, <1>9, <1>10, <1>11,
           <1>12 DEF Next

-----------------------------------------------------------------------------
(* What the steps do to the list.                                          *)

PutsItem(c) ==
  /\ IsPut(c)
  /\ inner_queue_' = Placed(c, [n |-> accepted + 1, p |-> c.p])
  /\ accepted' = accepted + 1
  /\ UNCHANGED <<taken, cleared, limit_len_max_>>
TakesItem ==
  /\ Size > 0
  /\ inner_queue_' = Tail(inner_queue_)
  /\ taken' = taken \cup {Head(inner_queue_).n}
  /\ UNCHANGED <<accepted, cleared>>
Empties ==
  /\ inner_queue_' = <<>>
  /\ \/ taken' = taken \cup Numbers(inner_queue_) /\ cleared' = cleared
     \/ cleared' = cleared \cup Numbers(inner_queue_) /\ taken' = taken
  /\ UNCHANGED accepted
LeavesList == UNCHANGED <<inner_queue_, accepted, taken, cleared>>

LEMMA ListSteps ==
  ASSUME TypeOK, [Next]_vars
  PROVE  \/ \E c \in Calls : PutsItem(c) /\ (MutexFree => Room)
         \/ TakesItem
         \/ Empties
         \/ LeavesList
<1>1. ASSUME NEW t \in Threads, NEW c \in Calls, CallStep(t, c)
      PROVE  \/ PutsItem(c) /\ (MutexFree => Room)
             \/ TakesItem
             \/ Empties
             \/ LeavesList
  <2>1. CASE PutsOne(t, c)
        BY <2>1 DEF PutsOne, Put, PutsItem, MutexFree
  <2>2. CASE GetsOne(t, c)
        BY <2>2 DEF GetsOne, GetOne, TakesItem
  <2>3. CASE GetsAll(t, c)
        BY <2>3 DEF GetsAll, GetList, Empties
  <2>4. CASE \/ GivesUp(t, c) \/ Waits(t, c) \/ Passes(t, c)
             \/ GoesWrong(t, c)
        BY <2>4 DEF GivesUp, Return, Waits, Wait, Passes, GoesWrong, Pause,
           LeavesList, queueVars, histVars
  <2> QED BY <1>1, <2>1, <2>2, <2>3, <2>4 DEF CallStep
<1>2. CASE \E t \in Threads : \/ \E c \in Calls : Call(t, c)
                              \/ Resume(t) \/ TimedOut(t) \/ Passed(t)
      BY <1>1, <1>2, CallSteps
<1>3. ASSUME NEW t \in Threads,
             \/ Spurious(t) \/ Stop(t) \/ StopStep(t) \/ ResetFlag(t)
             \/ \E limit \in Limits : change_limit_len_max(t, limit)
      PROVE  LeavesList
      BY <1>3 DEF Spurious, Stop, StopStep, StopNotifyPush, StopNotifyPop,
         ResetFlag, change_limit_len_max, LeavesList, queueVars, histVars
<1>4. ASSUME NEW t \in Threads, NEW next, Clear(t, next)
      PROVE  Empties
      BY <1>4 DEF Clear, Empties
<1>5. UNCHANGED vars => LeavesList
      BY DEF vars, queueVars, histVars, LeavesList
<1> QED BY <1>2, <1>3, <1>4, <1>5 DEF Next

-----------------------------------------------------------------------------
(* The items of the list: they are distinct, and with those that were      *)
(* taken or cleared they are the ones that were put.                       *)

AccountInv ==
  /\ Numbers(inner_queue_) \cup taken \cup cleared = 1 .. accepted
  /\ taken \cap cleared = {}
  /\ Numbers(inner_queue_) \cap (taken \cup cleared) = {}

LEMMA NumbersCount ==
  ASSUME TypeOK, DistinctInv
  PROVE  Cardinality(Numbers(inner_queue_)) = Size
<1> DEFINE f == [i \in 1 .. Size |-> inner_queue_[i].n]
           N == Numbers(inner_queue_)
<1>1. f \in [1 .. Size -> N]
      BY DEF Numbers, Size
<1>2. \A i, j \in 1 .. Size : f[i] = f[j] => i = j
      BY DEF DistinctInv
<1>3. \A n \in N : \E i \in 1 .. Size : f[i] = n
      BY DEF Numbers, Size
<1> HIDE DEF f, N
<1>4. f \in Bijection(1 .. Size, N)
      BY <1>1, <1>2, <1>3 DEF Bijection, Injection, Surjection, IsInjective
<1>5. ExistsBijection(1 .. Size, N)
      BY <1>4 DEF ExistsBijection
<1>6. Cardinality(N) = Size
      BY <1>5, ListIs, FS_CountingElements
<1> QED BY <1>6 DEF N

(* An item more in the list, and its number.                               *)
LEMMA PutKeeps ==
  ASSUME TypeOK, DistinctInv, NEW c \in Calls, PutsItem(c)
  PROVE  /\ Numbers(inner_queue_)' = Numbers(inner_queue_) \cup {accepted + 1}
         /\ DistinctInv'
<1> DEFINE item == [n |-> accepted + 1, p |-> c.p]
<1>1. PICK k \in 1 .. Size + 1 : IsPlaced(inner_queue_', item, k)
      BY PlacedIs DEF PutsItem
<1>2. /\ Len(inner_queue_') = Size + 1 /\ Size' = Size + 1
      /\ inner_queue_'[k].n = accepted + 1
      /\ \A j \in 1 .. k - 1 : inner_queue_'[j] = inner_queue_[j]
      /\ \A j \in k + 1 .. Size + 1 : inner_queue_'[j] = inner_queue_[j - 1]
      BY <1>1 DEF IsPlaced, Size
<1>3. /\ Size \in Nat /\ accepted \in Nat /\ Size = Len(inner_queue_)
      /\ \A i \in 1 .. Size : inner_queue_[i].n \in 1 .. accepted
      BY ListIs
<1>4. Numbers(inner_queue_') \subseteq Numbers(inner_queue_) \cup {accepted + 1}
  <2>1. ASSUME NEW j \in 1 .. Size + 1
        PROVE  inner_queue_'[j].n
                 \in Numbers(inner_queue_) \cup {accepted + 1}
    <3>1. CASE j = k
          BY <1>2, <3>1
    <3>2. CASE j < k
          BY <1>2, <1>3, <3>2 DEF Numbers
    <3>3. CASE j > k
      <4>1. j \in k + 1 .. Size + 1 /\ j - 1 \in 1 .. Size
            BY <1>3, <3>3
      <4> QED BY <1>2, <1>3, <4>1 DEF Numbers
    <3> QED BY <3>1, <3>2, <3>3
  <2> QED BY <1>2, <2>1 DEF Numbers
<1>5. Numbers(inner_queue_) \cup {accepted + 1} \subseteq Numbers(inner_queue_')
  <2>1. accepted + 1 \in Numbers(inner_queue_')
        BY <1>2 DEF Numbers
  <2>2. ASSUME NEW j \in 1 .. Size
        PROVE  inner_queue_[j].n \in Numbers(inner_queue_')
    <3>1. CASE j < k
      <4>1. j \in 1 .. k - 1 /\ j \in 1 .. Size + 1
            BY <1>3, <3>1
      <4> QED BY <1>2, <4>1 DEF Numbers
    <3>2. CASE j >= k
      <4>1. j + 1 \in k + 1 .. Size + 1 /\ j + 1 \in 1 .. Size + 1
            /\ (j + 1) - 1 = j
            BY <1>3, <3>2
      <4> QED BY <1>2, <4>1 DEF Numbers
    <3> QED BY <1>3, <3>1, <3>2
  <2> QED BY <1>3, <2>1, <2>2 DEF Numbers
<1>6. ASSUME NEW i \in 1 .. Size + 1, NEW j \in 1 .. Size + 1,
             inner_queue_'[i].n = inner_queue_'[j].n, i < j
      PROVE  FALSE
  <2>1. \A l \in 1 .. Size : inner_queue_[l].n # accepted + 1
        BY <1>3
  <2>2. CASE i = k
    <3>1. j \in k + 1 .. Size + 1 /\ j - 1 \in 1 .. Size
          BY <1>3, <1>6, <2>2
    <3> QED BY <1>2, <1>6, <2>1, <2>2, <3>1
  <2>3. CASE j = k
    <3>1. i \in 1 .. k - 1 /\ i \in 1 .. Size
          BY <1>3, <1>6, <2>3
    <3> QED BY <1>2, <1>6, <2>1, <2>3, <3>1
  <2>4. CASE i < k /\ k < j
    <3>1. /\ i \in 1 .. k - 1 /\ i \in 1 .. Size
          /\ j \in k + 1 .. Size + 1 /\ j - 1 \in 1 .. Size /\ i # j - 1
          BY <1>3, <2>4
    <3> QED BY <1>2, <1>6, <3>1 DEF DistinctInv
  <2>5. CASE j < k
    <3>1. /\ i \in 1 .. k - 1 /\ i \in 1 .. Size
          /\ j \in 1 .. k - 1 /\ j \in 1 .. Size /\ i # j
          BY <1>3, <1>6, <2>5
    <3> QED BY <1>2, <1>6, <3>1 DEF DistinctInv
  <2>6. CASE k < i
    <3>1. /\ i \in k + 1 .. Size + 1 /\ i - 1 \in 1 .. Size
          /\ j \in k + 1 .. Size + 1 /\ j - 1 \in 1 .. Size /\ i - 1 # j - 1
          BY <1>3, <1>6, <2>6
    <3> QED BY <1>2, <1>6, <3>1 DEF DistinctInv
  <2> QED BY <1>3, <1>6, <2>2, <2>3, <2>4, <2>5, <2>6
<1>7. DistinctInv'
  <2>1. \A i, j \in 1 .. Size + 1 :
          inner_queue_'[i].n = inner_queue_'[j].n => ~(i < j) /\ ~(j < i)
        BY <1>6
  <2> QED BY <1>2, <1>3, <2>1 DEF DistinctInv
<1> QED BY <1>4, <1>5, <1>7

(* The list without its first item.                                        *)
LEMMA TakeKeeps ==
  ASSUME TypeOK, DistinctInv, TakesItem
  PROVE  LET n == Head(inner_queue_).n IN
         /\ n \in Numbers(inner_queue_)
         /\ Numbers(inner_queue_)' = Numbers(inner_queue_) \ {n}
         /\ DistinctInv'
         /\ Size' = Size - 1
         /\ \A i \in 1 .. Size - 1 : inner_queue_'[i] = inner_queue_[i + 1]
<1> DEFINE n == Head(inner_queue_).n
<1>1. /\ Size \in Nat /\ Size > 0 /\ Size = Len(inner_queue_)
      /\ inner_queue_ # <<>>
      BY ListIs DEF TakesItem
<1>2. /\ Len(inner_queue_') = Size - 1 /\ Size' = Size - 1
      /\ \A i \in 1 .. Size - 1 : inner_queue_'[i] = inner_queue_[i + 1]
      BY <1>1, ListIs, HeadTailProperties DEF TakesItem, Size
<1>3. n = inner_queue_[1].n /\ 1 \in 1 .. Size
      BY <1>1
<1> HIDE DEF n
<1>4. n \in Numbers(inner_queue_)
      BY <1>1, <1>3 DEF Numbers
<1>5. \A i \in 1 .. Size - 1 : i + 1 \in 1 .. Size /\ i + 1 # 1
      BY <1>1
<1>6. \A j \in 1 .. Size : j # 1 => j - 1 \in 1 .. Size - 1 /\ (j - 1) + 1 = j
      BY <1>1
<1>7. Numbers(inner_queue_') \subseteq Numbers(inner_queue_) \ {n}
      BY <1>1, <1>2, <1>3, <1>5 DEF Numbers, DistinctInv
<1>8. ASSUME NEW j \in 1 .. Size, inner_queue_[j].n # n
      PROVE  inner_queue_[j].n \in Numbers(inner_queue_')
  <2>1. j # 1
        BY <1>3, <1>8
  <2> QED BY <1>2, <1>6, <2>1 DEF Numbers
<1>9. Numbers(inner_queue_) \ {n} \subseteq Numbers(inner_queue_')
      BY <1>1, <1>8 DEF Numbers
<1>10. DistinctInv'
  <2>1. ASSUME NEW i \in 1 .. Size - 1, NEW j \in 1 .. Size - 1,
               inner_queue_'[i].n = inner_queue_'[j].n
        PROVE  i = j
    <3>1. i + 1 = j + 1
          BY <1>2, <1>5, <2>1 DEF DistinctInv
    <3> QED BY <1>1, <3>1
  <2> QED BY <1>2, <2>1 DEF DistinctInv
<1> QED BY <1>2, <1>4, <1>7, <1>9, <1>10 DEF n

LEMMA AccountStep ==
  TypeOK /\ DistinctInv /\ AccountInv /\ [Next]_vars
    => DistinctInv' /\ AccountInv'
<1> SUFFICES ASSUME TypeOK, DistinctInv, AccountInv, [Next]_vars
             PROVE  DistinctInv' /\ AccountInv'
    OBVIOUS
<1> DEFINE N == Numbers(inner_queue_)
<1>0. accepted \in Nat /\ accepted + 1 \notin 1 .. accepted
      /\ 1 .. accepted + 1 = (1 .. accepted) \cup {accepted + 1}
      BY ListIs
<1>1. ASSUME NEW c \in Calls, PutsItem(c) PROVE DistinctInv' /\ AccountInv'
  <2>1. N' = N \cup {accepted + 1} /\ DistinctInv'
        BY <1>1, PutKeeps
  <2>2. /\ accepted' = accepted + 1 /\ taken' = taken /\ cleared' = cleared
        BY <1>1 DEF PutsItem
  <2>3. /\ N \cup taken \cup cleared = 1 .. accepted
        /\ taken \cap cleared = {} /\ N \cap (taken \cup cleared) = {}
        BY DEF AccountInv
  <2> HIDE DEF N
  <2>4. /\ N' \cup taken' \cup cleared' = 1 .. accepted'
        /\ taken' \cap cleared' = {} /\ N' \cap (taken' \cup cleared') = {}
        BY <1>0, <2>1, <2>2, <2>3
  <2> QED BY <2>1, <2>4 DEF AccountInv, N
<1>2. CASE TakesItem
  <2>1. PICK n : /\ n \in N /\ N' = N \ {n} /\ DistinctInv'
                 /\ taken' = taken \cup {n}
        BY <1>2, TakeKeeps DEF TakesItem
  <2>2. accepted' = accepted /\ cleared' = cleared
        BY <1>2 DEF TakesItem
  <2> QED BY <2>1, <2>2 DEF AccountInv
<1>3. CASE Empties
  <2>1. N' = {} /\ Size' = 0
        BY <1>3 DEF Empties, Numbers, Size
  <2>2. DistinctInv'
        BY <2>1 DEF DistinctInv
  <2>3. /\ \/ taken' = taken \cup N /\ cleared' = cleared
           \/ cleared' = cleared \cup N /\ taken' = taken
        /\ accepted' = accepted
        BY <1>3 DEF Empties
  <2>4. /\ N \cup taken \cup cleared = 1 .. accepted
        /\ taken \cap cleared = {} /\ N \cap (taken \cup cleared) = {}
        BY DEF AccountInv
  <2> QED BY <2>1, <2>2, <2>3, <2>4 DEF AccountInv
<1>4. CASE LeavesList
      BY <1>4 DEF LeavesList, DistinctInv, AccountInv, Size, Numbers
<1> QED BY <1>1, <1>2, <1>3, <1>4, ListSteps

-----------------------------------------------------------------------------
(* The order of the list while all items are inserted.                     *)

Before(a, b) == a.p < b.p \/ (a.p = b.p /\ a.n > b.n)
Ordered ==
  \A i, j \in 1 .. Size : i < j => Before(inner_queue_[i], inner_queue_[j])

LEMMA OrderIs == InsertOrder <=> ("push" \notin Puts => Ordered)
BY DEF InsertOrder, Ordered, Before

LEMMA InsertKeeps ==
  ASSUME TypeOK, Ordered, NEW c \in Calls, c.how = "insert", PutsItem(c)
  PROVE  Ordered'
<1> DEFINE item == [n |-> accepted + 1, p |-> c.p]
<1>1. PICK k \in 1 .. Size + 1 :
        /\ IsPlaced(inner_queue_', item, k)
        /\ \A j \in 1 .. k - 1 : inner_queue_[j].p < c.p
        /\ k = Size + 1 \/ inner_queue_[k].p >= c.p
      BY PlacedIs DEF PutsItem
<1>2. /\ Size' = Size + 1
      /\ inner_queue_'[k].n = accepted + 1 /\ inner_queue_'[k].p = c.p
      /\ \A j \in 1 .. k - 1 : inner_queue_'[j] = inner_queue_[j]
      /\ \A j \in k + 1 .. Size + 1 : inner_queue_'[j] = inner_queue_[j - 1]
      BY <1>1 DEF IsPlaced, Size
<1>3. /\ Size \in Nat /\ accepted \in Nat /\ c.p \in Int
      /\ \A i \in 1 .. Size : /\ inner_queue_[i].n \in 1 .. accepted
                              /\ inner_queue_[i].p \in Int
      BY ListIs, Kinds, PrioritiesAssumption DEF PutsItem
<1>4. ASSUME NEW i \in 1 .. Size + 1, NEW j \in 1 .. Size + 1, i < j
      PROVE  Before(inner_queue_'[i], inner_queue_'[j])
  <2>1. CASE j = k
    <3>1. i \in 1 .. k - 1
          BY <1>3, <1>4, <2>1
    <3> QED BY <1>1, <1>2, <2>1, <3>1 DEF Before
  <2>2. CASE i = k
    <3>1. /\ j \in k + 1 .. Size + 1 /\ j - 1 \in 1 .. Size
          /\ k \in 1 .. Size /\ k # Size + 1
          /\ k = j - 1 \/ k < j - 1
          BY <1>3, <1>4, <2>2
    <3>2. inner_queue_[j - 1].p >= c.p
      <4>1. CASE k = j - 1
            BY <1>1, <3>1, <4>1
      <4>2. CASE k < j - 1
        <5>1. Before(inner_queue_[k], inner_queue_[j - 1])
              BY <3>1, <4>2 DEF Ordered
        <5>2. inner_queue_[k].p >= c.p
              BY <1>1, <3>1
        <5> QED BY <1>3, <3>1, <5>1, <5>2 DEF Before
      <4> QED BY <3>1, <4>1, <4>2
    <3>3. inner_queue_[j - 1].n < accepted + 1
          BY <1>3, <3>1
    <3> QED BY <1>2, <1>3, <2>2, <3>1, <3>2, <3>3 DEF Before
  <2>3. CASE j < k
    <3>1. i \in 1 .. k - 1 /\ j \in 1 .. k - 1 /\ i \in 1 .. Size
          /\ j \in 1 .. Size
          BY <1>3, <1>4, <2>3
    <3> QED BY <1>2, <1>4, <3>1 DEF Ordered
  <2>4. CASE i < k /\ k < j
    <3>1. /\ i \in 1 .. k - 1 /\ i \in 1 .. Size
          /\ j \in k + 1 .. Size + 1 /\ j - 1 \in 1 .. Size /\ i < j - 1
          BY <1>3, <2>4
    <3> QED BY <1>2, <3>1 DEF Ordered
  <2>5. CASE k < i
    <3>1. /\ i \in k + 1 .. Size + 1 /\ i - 1 \in 1 .. Size
          /\ j \in k + 1 .. Size + 1 /\ j - 1 \in 1 .. Size /\ i - 1 < j - 1
          BY <1>3, <1>4, <2>5
    <3> QED BY <1>2, <3>1 DEF Ordered
  <2> QED BY <1>3, <1>4, <2>1, <2>2, <2>3, <2>4, <2>5
<1> QED BY <1>2, <1>4 DEF Ordered

LEMMA OrderStep ==
  TypeOK /\ DistinctInv /\ InsertOrder /\ [Next]_vars => InsertOrder'
<1> SUFFICES ASSUME TypeOK, DistinctInv, InsertOrder, [Next]_vars,
                    "push" \notin Puts
             PROVE  Ordered'
    BY DEF InsertOrder, Ordered, Before
<1>0. Ordered
      BY OrderIs
<1>1. ASSUME NEW c \in Calls, PutsItem(c) PROVE Ordered'
  <2>1. c.how = "insert"
        BY <1>1, PutsAssumption DEF PutsItem, IsPut
  <2> QED BY <1>0, <1>1, <2>1, InsertKeeps
<1>2. CASE TakesItem
  <2>1. /\ Size' = Size - 1 /\ Size \in Nat
        /\ \A i \in 1 .. Size - 1 : inner_queue_'[i] = inner_queue_[i + 1]
        BY <1>2, TakeKeeps, ListIs
  <2>2. ASSUME NEW i \in 1 .. Size - 1, NEW j \in 1 .. Size - 1, i < j
        PROVE  Before(inner_queue_'[i], inner_queue_'[j])
    <3>1. i + 1 \in 1 .. Size /\ j + 1 \in 1 .. Size /\ i + 1 < j + 1
          BY <2>1, <2>2
    <3> QED BY <1>0, <2>1, <3>1 DEF Ordered
  <2> QED BY <2>1, <2>2 DEF Ordered
<1>3. CASE Empties
  <2>1. Size' = 0
        BY <1>3 DEF Empties, Size
  <2> QED BY <2>1 DEF Ordered
<1>4. CASE LeavesList
      BY <1>0, <1>4 DEF LeavesList, Ordered, Size
<1> QED BY <1>1, <1>2, <1>3, <1>4, ListSteps

-----------------------------------------------------------------------------
(* A step that makes the list longer puts one item, and had room for it.   *)
LEMMA LimitStep ==
  TypeOK /\ DistinctInv /\ [Next]_vars =>
    (Len(inner_queue_') > Size /\ MutexFree =>
       Len(inner_queue_') <= limit_len_max_)
<1> SUFFICES ASSUME TypeOK, DistinctInv, [Next]_vars,
                    Len(inner_queue_') > Size, MutexFree
             PROVE  Len(inner_queue_') <= limit_len_max_
    OBVIOUS
<1>0. Size \in Nat /\ limit_len_max_ \in Nat
      BY ListIs, LimitsAssumption DEF TypeOK
<1>1. ASSUME NEW c \in Calls, PutsItem(c), Room
      PROVE  Len(inner_queue_') <= limit_len_max_
  <2>1. Len(inner_queue_') = Size + 1
        BY <1>1, PlacedIs DEF PutsItem, IsPlaced
  <2> QED BY <1>0, <1>1, <2>1 DEF Room
<1>2. ~TakesItem
      BY <1>0, TakeKeeps DEF Size
<1>3. ~Empties
      BY <1>0 DEF Empties
<1>4. ~LeavesList
      BY <1>0 DEF LeavesList, Size
<1> QED BY <1>1, <1>2, <1>3, <1>4, ListSteps

-----------------------------------------------------------------------------
(* Which threads a step of a call moves.                                   *)
LEMMA CallerMoves ==
  ASSUME TypeOK, NEW t \in Threads, NEW c \in Calls, CallStep(t, c)
  PROVE  /\ at' \in [Threads -> Places]
         /\ \A u \in Threads \ {t} :
              /\ call'[u] = call[u]
              /\ \/ at'[u] = at[u]
                 \/ at[u] \in {"push", "pop"} /\ at'[u] = "woken"
         /\ at'[t] \in {"idle", "push", "pop", "passed", "undefined"}
         /\ is_stop_flag_ => at'[t] \notin {"push", "pop"}
         /\ UNCHANGED <<is_stop_flag_, limit_len_max_, silent>>
<1> DEFINE Goal ==
      /\ at' \in [Threads -> Places]
      /\ \A u \in Threads \ {t} :
           /\ call'[u] = call[u]
           /\ \/ at'[u] = at[u]
              \/ at[u] \in {"push", "pop"} /\ at'[u] = "woken"
      /\ at'[t] \in {"idle", "push", "pop", "passed", "undefined"}
      /\ is_stop_flag_ => at'[t] \notin {"push", "pop"}
<1>1. ASSUME CallOver(t), NEW cv \in {"push", "pop"},
             \/ at' = Returned(t)
             \/ at' \in NotifyOne(cv, Returned(t))
             \/ at' = NotifyAll(cv, Returned(t))
      PROVE  Goal
  <2>1. /\ Returned(t) \in [Threads -> Places]
        /\ Returned(t)[t] = "idle"
        /\ \A u \in Threads \ {t} : Returned(t)[u] = at[u]
        BY DEF Returned, TypeOK, Places
  <2>2. /\ at' \in [Threads -> Places]
        /\ \A u \in Threads :
             \/ at'[u] = Returned(t)[u]
             \/ Returned(t)[u] = cv /\ at'[u] = "woken"
    <3>1. CASE at' = Returned(t)
          BY <2>1, <3>1
    <3>2. CASE at' \in NotifyOne(cv, Returned(t))
          BY <2>1, <3>2, NotifyFrame
    <3>3. CASE at' = NotifyAll(cv, Returned(t))
          BY <2>1, <3>3, NotifyFrame
    <3> QED BY <1>1, <3>1, <3>2, <3>3
  <2>3. \A u \in Threads \ {t} : call'[u] = call[u]
        BY <1>1 DEF CallOver, TypeOK
  <2> QED BY <2>1, <2>2, <2>3
<1>2. ASSUME NEW place \in {"push", "pop", "passed", "undefined"},
             Pause(t, c, place),
             is_stop_flag_ => place \notin {"push", "pop"}
      PROVE  Goal
      BY <1>2 DEF Pause, TypeOK, Places
<1>3. CASE PutsOne(t, c)
      BY <1>1, <1>3 DEF PutsOne, Put
<1>4. CASE GetsOne(t, c)
      BY <1>1, <1>4 DEF GetsOne, GetOne
<1>5. CASE GetsAll(t, c)
      BY <1>1, <1>5 DEF GetsAll, GetList
<1>6. CASE GivesUp(t, c)
      BY <1>1, <1>6 DEF GivesUp, Return, queueVars, histVars
<1>7. CASE Waits(t, c)
      BY <1>2, <1>7 DEF Waits, Wait, Ready, CvOf, Pause, queueVars, histVars
<1>8. CASE Passes(t, c) \/ GoesWrong(t, c)
      BY <1>2, <1>8 DEF Passes, GoesWrong, Pause, queueVars, histVars
<1> QED BY <1>3, <1>4, <1>5, <1>6, <1>7, <1>8 DEF CallStep

LEMMA CallerKeepsControls ==
  ASSUME TypeOK, NEW t \in Threads, NEW c \in Calls, CallStep(t, c)
  PROVE  /\ StopPending' <=> StopPending
         /\ (\E u \in Threads : at'[u] = "reset")
              <=> (\E u \in Threads : at[u] = "reset")
BY CallerMoves, CallerIs DEF StopPending

(* Who waits to pop while the queue is stopped is yet to be notified, and  *)
(* only a thread that has cleared the queue will end the stop.             *)
LEMMA StopStepKeeps ==
  TypeOK /\ StopInv /\ [Next]_vars => StopInv'
<1> SUFFICES ASSUME TypeOK, StopInv, [Next]_vars PROVE StopInv'
    OBVIOUS
<1>1. ASSUME NEW t \in Threads, NEW c \in Calls, CallStep(t, c)
      PROVE  StopInv'
  <2>1. is_stop_flag_ =>
          Waiting("pop", at') \subseteq Waiting("pop", at)
        BY <1>1, CallerMoves DEF Waiting
  <2>2. UNCHANGED <<is_stop_flag_, silent>>
        BY <1>1, CallerMoves
  <2>3. /\ StopPending' <=> StopPending
        /\ (\E u \in Threads : at'[u] = "reset")
             <=> (\E u \in Threads : at[u] = "reset")
        BY <1>1, CallerKeepsControls
  <2> QED BY <2>1, <2>2, <2>3 DEF StopInv
<1>2. ASSUME NEW t \in Threads, Spurious(t) PROVE StopInv'
  <2>1. /\ \A u \in Threads \ {t} : at'[u] = at[u]
        /\ at'[t] = "woken" /\ at[t] \in {"push", "pop"}
        /\ UNCHANGED <<is_stop_flag_, silent>>
        BY <1>2 DEF Spurious, TypeOK, queueVars, histVars
  <2> QED BY <2>1 DEF StopInv, Waiting, StopPending
<1>3. ASSUME NEW t \in Threads, Stop(t) PROVE StopInv'
  <2>1. /\ \A u \in Threads \ {t} : at'[u] = at[u]
        /\ at'[t] = "stop_push"
        /\ is_stop_flag_' = TRUE /\ silent' = silent
        BY <1>3 DEF Stop, TypeOK, histVars
  <2> QED BY <2>1 DEF StopInv, StopPending
<1>4. ASSUME NEW t \in Threads, StopStep(t) PROVE StopInv'
  <2>0. UNCHANGED <<is_stop_flag_, silent>>
        BY <1>4 DEF StopStep, StopNotifyPush, StopNotifyPop, queueVars,
           histVars
  <2>1. CASE StopNotifyPush(t)
    <3>1. /\ at'[t] = "stop_pop" /\ at[t] = "stop_push"
          /\ \A u \in Threads \ {t} : at'[u] = at[u] \/ at'[u] = "woken"
          BY <2>1 DEF StopNotifyPush, NotifyAll, TypeOK
    <3> QED BY <2>0, <3>1 DEF StopInv, StopPending
  <2>2. CASE StopNotifyPop(t)
    <3>1. /\ at'[t] = "idle" /\ at[t] = "stop_pop"
          /\ \A u \in Threads \ {t} : at'[u] = at[u] \/ at'[u] = "woken"
          /\ \A u \in Threads : at'[u] # "pop"
          BY <2>2 DEF StopNotifyPop, NotifyAll, Returned, TypeOK
    <3> QED BY <2>0, <3>1 DEF StopInv, StopPending, Waiting
  <2> QED BY <1>4, <2>1, <2>2 DEF StopStep
<1>5. ASSUME NEW t \in Threads, NEW next \in {"idle", "reset"},
             Clear(t, next)
      PROVE  StopInv'
  <2>1. /\ \A u \in Threads \ {t} : at'[u] = at[u]
        /\ at'[t] = next /\ at[t] = "idle"
        /\ is_stop_flag_' = is_stop_flag_ /\ silent' = TRUE
        BY <1>5 DEF Clear, TypeOK
  <2> QED BY <2>1 DEF StopInv, StopPending, Waiting
<1>6. ASSUME NEW t \in Threads, ResetFlag(t) PROVE StopInv'
  <2>1. silent /\ silent' = silent /\ is_stop_flag_' = FALSE
        BY <1>6 DEF ResetFlag, StopInv, histVars, TypeOK
  <2> QED BY <2>1 DEF StopInv
<1>7. ASSUME NEW t \in Threads, NEW limit \in Limits,
             change_limit_len_max(t, limit)
      PROVE  StopInv'
  <2>1. UNCHANGED <<at, is_stop_flag_>> /\ (~silent' => ~silent)
        BY <1>7 DEF change_limit_len_max
  <2> QED BY <2>1 DEF StopInv, StopPending, Waiting
<1>8. CASE UNCHANGED vars
      BY <1>8 DEF vars, queueVars, histVars, StopInv, StopPending, Waiting
<1>9. CASE \E t \in Threads : \/ \E c \in Calls : Call(t, c)
                              \/ Resume(t) \/ TimedOut(t) \/ Passed(t)
      BY <1>1, <1>9, CallSteps
<1> QED BY <1>2, <1>3, <1>4, <1>5, <1>6, <1>7, <1>8, <1>9 DEF Next

-----------------------------------------------------------------------------
(* Notified threads are counted.                                           *)
LEMMA WokenCount ==
  ASSUME NEW A \in SUBSET Threads, NEW B \in SUBSET Threads
  PROVE  /\ Cardinality(A) \in Nat /\ Cardinality(B) \in Nat
         /\ A \subseteq B => Cardinality(A) <= Cardinality(B)
         /\ \A t : A \ {t} \subseteq B => Cardinality(A) - 1 <= Cardinality(B)
         /\ \A t : t \in B /\ t \notin A /\ A \subseteq B =>
              Cardinality(A) + 1 <= Cardinality(B)
<1>1. IsFiniteSet(A) /\ IsFiniteSet(B)
      BY ThreadsAssumption, FS_Subset
<1>2. Cardinality(A) \in Nat /\ Cardinality(B) \in Nat
      BY <1>1, FS_CardinalityType
<1>3. A \subseteq B => Cardinality(A) <= Cardinality(B)
      BY <1>1, FS_Subset
<1>4. ASSUME NEW t, A \ {t} \subseteq B
      PROVE  Cardinality(A) - 1 <= Cardinality(B)
  <2>1. Cardinality(A \ {t}) <= Cardinality(B)
        BY <1>1, <1>4, FS_Subset
  <2>2. Cardinality(A \ {t}) = IF t \in A THEN Cardinality(A) - 1
                                          ELSE Cardinality(A)
        BY <1>1, FS_RemoveElement
  <2> QED BY <1>2, <2>1, <2>2
<1>5. ASSUME NEW t, t \in B, t \notin A, A \subseteq B
      PROVE  Cardinality(A) + 1 <= Cardinality(B)
  <2>1. A \cup {t} \in SUBSET B
        BY <1>5
  <2>2. Cardinality(A \cup {t}) <= Cardinality(B)
        BY <1>1, <2>1, FS_Subset
  <2>3. Cardinality(A \cup {t}) = Cardinality(A) + 1
        BY <1>1, <1>5, FS_AddElement
  <2> QED BY <2>2, <2>3
<1> QED BY <1>2, <1>3, <1>4, <1>5

LEMMA WokenIs ==
  \A hows : Woken(hows) \in SUBSET Threads /\ Woken(hows)' \in SUBSET Threads
BY DEF Woken

(* A notified thread in the place of the one that had returned.            *)
LEMMA NotifiedIs ==
  ASSUME TypeOK, NEW t \in Threads, NEW cv \in {"push", "pop"},
         CallOver(t), at' \in NotifyOne(cv, Returned(t)),
         Waiting(cv, at') # {}
  PROVE  \E u \in Threads \ {t} :
           /\ at[u] = cv /\ at'[u] = "woken" /\ call'[u] = call[u]
           /\ at'[t] = "idle"
           /\ \A v \in Threads \ {t, u} : at'[v] = at[v] /\ call'[v] = call[v]
<1>1. /\ Returned(t) \in [Threads -> Places]
      /\ Returned(t)[t] = "idle"
      /\ \A v \in Threads \ {t} : Returned(t)[v] = at[v]
      BY DEF Returned, TypeOK, Places
<1>2. \A v \in Threads \ {t} : call'[v] = call[v]
      BY DEF CallOver, TypeOK
<1>3. CASE Waiting(cv, Returned(t)) = {} /\ at' = Returned(t)
      BY <1>3
<1>4. ASSUME NEW u \in Threads, Returned(t)[u] = cv,
             at' = [Returned(t) EXCEPT ![u] = "woken"]
      PROVE  /\ u # t /\ at[u] = cv /\ at'[u] = "woken" /\ at'[t] = "idle"
             /\ \A v \in Threads \ {t, u} : at'[v] = at[v]
      BY <1>1, <1>4
<1> QED BY <1>1, <1>2, <1>3, <1>4, OneNotified

(* A thread that waits to pop while it could: one that was notified is on  *)
(* its way for each item.                                                  *)
LEMMA PopperStep ==
  TypeOK /\ StopInv /\ PopperNotStranded /\ [Next]_vars
    => PopperNotStranded'
<1> SUFFICES ASSUME TypeOK, StopInv, PopperNotStranded, [Next]_vars,
                    Waiting("pop", at') # {}, ~is_stop_flag_', ~StopPending'
             PROVE  Size' <= Cardinality(Woken(Gets)')
    BY DEF PopperNotStranded, Waiting
<1> DEFINE W == Woken(Gets)
           V == Waiting("pop", at)
<1>0. /\ Cardinality(W) \in Nat /\ Cardinality(W') \in Nat
      /\ W \in SUBSET Threads /\ W' \in SUBSET Threads
      /\ Size \in Nat
      BY WokenIs, WokenCount, ListIs
<1>1. V # {} /\ ~is_stop_flag_ /\ ~StopPending => Size <= Cardinality(W)
      BY DEF PopperNotStranded
<1>2. ASSUME V # {}, ~is_stop_flag_, ~StopPending, Size' = Size, W \subseteq W'
      PROVE  Size' <= Cardinality(W')
  <2>1. Cardinality(W) <= Cardinality(W')
        BY <1>0, <1>2, WokenCount
  <2> QED BY <1>0, <1>1, <1>2, <2>1
<1>3. ASSUME NEW t \in Threads, NEW c \in Calls, CallStep(t, c)
      PROVE  Size' <= Cardinality(W')
  <2>1. ~is_stop_flag_ /\ ~StopPending
        BY <1>3, CallerMoves, CallerKeepsControls
  <2>2. at[t] = "woken" => call[t] = c
        BY <1>3, CallerIs
  <2>3. CASE PutsOne(t, c)
    <3>1. /\ CallOver(t) /\ at' \in NotifyOne("pop", Returned(t))
          /\ c.how \notin Gets
          BY <2>3, Kinds DEF PutsOne, Put
    <3>2. PICK u \in Threads \ {t} :
            /\ at[u] = "pop" /\ at'[u] = "woken" /\ call'[u] = call[u]
            /\ at'[t] = "idle"
            /\ \A v \in Threads \ {t, u} :
                 at'[v] = at[v] /\ call'[v] = call[v]
          BY <3>1, NotifiedIs
    <3>3. V # {} /\ u \notin W
          BY <3>2 DEF Waiting, Woken
    <3>4. u \in W'
          BY <3>2 DEF Woken, TypeOK
    <3>5. W \subseteq W'
          BY <2>2, <3>1, <3>2 DEF Woken
    <3>6. Cardinality(W) + 1 <= Cardinality(W')
          BY <1>0, <3>3, <3>4, <3>5, WokenCount
    <3>7. Size' = Size + 1
          BY <2>3, PlacedIs DEF PutsOne, Put, Size, IsPlaced
    <3> QED BY <1>0, <1>1, <2>1, <3>3, <3>6, <3>7
  <2>4. CASE GetsOne(t, c)
    <3>1. Size' = Size - 1
          BY <2>4, ListIs, HeadTailProperties DEF GetsOne, GetOne, Size
    <3>2. at'[t] = "idle"
      <4>1. /\ Returned(t) \in [Threads -> Places]
            /\ Returned(t)[t] = "idle"
            BY DEF Returned, TypeOK, Places
      <4> QED BY <2>4, <4>1, NotifyFrame DEF GetsOne, GetOne
    <3>3. V # {} /\ W \ {t} \subseteq W'
          BY <1>3, <3>2, CallerMoves DEF Waiting, Woken
    <3>4. Cardinality(W) - 1 <= Cardinality(W')
          BY <1>0, <3>3, WokenCount
    <3> QED BY <1>0, <1>1, <2>1, <3>1, <3>3, <3>4
  <2>5. CASE GetsAll(t, c)
    <3>1. Size' = 0
          BY <2>5 DEF GetsAll, GetList, Size
    <3> QED BY <1>0, <3>1
  <2>6. CASE GivesUp(t, c)
    <3>1. /\ at[t] \in {"idle", "push", "pop"} /\ at'[t] = "idle"
          /\ Size' = Size
          BY <2>1, <2>6 DEF GivesUp, Return, Returned, TypeOK, Size, queueVars
    <3>2. V # {} /\ W \subseteq W'
          BY <1>3, <3>1, CallerMoves DEF Waiting, Woken
    <3> QED BY <1>2, <2>1, <3>1, <3>2
  <2>7. CASE Waits(t, c)
    <3>1. Size' = Size
          BY <2>7 DEF Waits, Wait, Pause, Size, queueVars
    <3>2. CASE IsPut(c)
      <4>1. at'[t] = "push" /\ c.how \notin Gets
            BY <2>7, <3>2, Kinds DEF Waits, Wait, Pause, CvOf, TypeOK
      <4>2. V # {} /\ W \subseteq W'
            BY <1>3, <2>2, <4>1, CallerMoves DEF Waiting, Woken
      <4> QED BY <1>2, <2>1, <3>1, <4>2
    <3>3. CASE ~IsPut(c)
      <4>1. Size = 0
            BY <1>0, <2>7, <3>3 DEF Waits, Ready
      <4> QED BY <1>0, <3>1, <4>1
    <3> QED BY <3>2, <3>3
  <2>8. CASE GoesWrong(t, c)
    <3>1. at[t] = "passed" /\ at'[t] = "undefined" /\ Size' = Size
          BY <2>8 DEF GoesWrong, Pause, TypeOK, Size, queueVars
    <3>2. V # {} /\ W \subseteq W'
          BY <1>3, <3>1, CallerMoves DEF Waiting, Woken
    <3> QED BY <1>2, <2>1, <3>1, <3>2
  <2>9. ~Passes(t, c)
        BY <2>1 DEF Passes
  <2> QED BY <1>3, <2>3, <2>4, <2>5, <2>6, <2>7, <2>8, <2>9 DEF CallStep
<1>4. ASSUME NEW t \in Threads, Spurious(t) PROVE Size' <= Cardinality(W')
  <2>1. /\ \A u \in Threads \ {t} : at'[u] = at[u]
        /\ at'[t] = "woken" /\ at[t] \in {"push", "pop"}
        /\ UNCHANGED <<call, is_stop_flag_, inner_queue_>>
        BY <1>4 DEF Spurious, TypeOK, queueVars
  <2>2. V # {} /\ W \subseteq W' /\ ~StopPending /\ Size' = Size
        BY <2>1 DEF Waiting, Woken, StopPending, Size
  <2> QED BY <1>2, <2>1, <2>2
<1>5. ASSUME NEW t \in Threads, Stop(t) PROVE FALSE
      BY <1>5 DEF Stop
<1>6. ASSUME NEW t \in Threads, StopStep(t) PROVE FALSE
  <2>1. CASE StopNotifyPush(t)
    <3>1. at'[t] = "stop_pop"
          BY <2>1 DEF StopNotifyPush, NotifyAll, TypeOK
    <3> QED BY <3>1 DEF StopPending
  <2>2. CASE StopNotifyPop(t)
    <3>1. \A u \in Threads : at'[u] # "pop"
          BY <2>2 DEF StopNotifyPop, NotifyAll, Returned, TypeOK
    <3> QED BY <3>1 DEF Waiting
  <2> QED BY <1>6, <2>1, <2>2 DEF StopStep
<1>7. ASSUME NEW t \in Threads, NEW next, Clear(t, next)
      PROVE  Size' <= Cardinality(W')
  <2>1. Size' = 0
        BY <1>7 DEF Clear, Size
  <2> QED BY <1>0, <2>1
<1>8. ASSUME NEW t \in Threads, ResetFlag(t) PROVE Size' <= Cardinality(W')
  <2>1. /\ \A u \in Threads \ {t} : at'[u] = at[u]
        /\ at'[t] = "idle" /\ at[t] = "reset"
        /\ UNCHANGED <<call, inner_queue_>>
        BY <1>8 DEF ResetFlag, Returned, TypeOK
  <2>2. V # {} /\ W \subseteq W' /\ ~StopPending /\ Size' = Size
        BY <2>1 DEF Waiting, Woken, StopPending, Size
  <2>3. ~is_stop_flag_
        BY <2>2 DEF StopInv
  <2> QED BY <1>2, <2>2, <2>3
<1>9. ASSUME \/ UNCHANGED vars
             \/ \E t \in Threads, limit \in Limits :
                  change_limit_len_max(t, limit)
      PROVE  Size' <= Cardinality(W')
  <2>1. UNCHANGED <<at, call, is_stop_flag_, inner_queue_>>
        BY <1>9 DEF change_limit_len_max, vars, queueVars
  <2>2. V # {} /\ W \subseteq W' /\ ~StopPending /\ Size' = Size
        BY <2>1 DEF Waiting, Woken, StopPending, Size
  <2> QED BY <1>2, <2>1, <2>2
<1>10. CASE \E t \in Threads : \/ \E c \in Calls : Call(t, c)
                               \/ Resume(t) \/ TimedOut(t) \/ Passed(t)
       BY <1>3, <1>10, CallSteps
<1> QED BY <1>4, <1>5, <1>6, <1>7, <1>8, <1>9, <1>10 DEF Next

(* A thread that waits to push while there is room: one that was notified  *)
(* is on its way for each free place, unless the room came without a       *)
(* notification.                                                           *)
FreePlaces == limit_len_max_ - Size

LEMMA PusherStep ==
  TypeOK /\ StopInv /\ PusherNotStranded /\ [Next]_vars
    => PusherNotStranded'
<1> SUFFICES ASSUME TypeOK, StopInv, PusherNotStranded, [Next]_vars,
                    Waiting("push", at') # {}, ~is_stop_flag_',
                    ~StopPending', ~silent'
             PROVE  FreePlaces' <= Cardinality(Woken(Puts)')
    BY DEF PusherNotStranded, Waiting, FreePlaces
<1> DEFINE W == Woken(Puts)
           V == Waiting("push", at)
<1>0. /\ Cardinality(W) \in Nat /\ Cardinality(W') \in Nat
      /\ W \in SUBSET Threads /\ W' \in SUBSET Threads
      /\ Size \in Nat /\ limit_len_max_ \in Nat /\ FreePlaces \in Int
      /\ FreePlaces = limit_len_max_ - Size
      BY WokenIs, WokenCount, ListIs, LimitsAssumption DEF TypeOK, FreePlaces
<1>1. V # {} /\ ~is_stop_flag_ /\ ~StopPending /\ ~silent =>
        FreePlaces <= Cardinality(W)
      BY DEF PusherNotStranded, FreePlaces
<1>2. ASSUME V # {}, ~is_stop_flag_, ~StopPending, ~silent,
             FreePlaces' \in Int, FreePlaces' <= FreePlaces, W \subseteq W'
      PROVE  FreePlaces' <= Cardinality(W')
  <2>1. Cardinality(W) <= Cardinality(W')
        BY <1>0, <1>2, WokenCount
  <2> QED BY <1>0, <1>1, <1>2, <2>1
<1>3. ASSUME NEW t \in Threads, NEW c \in Calls, CallStep(t, c)
      PROVE  FreePlaces' <= Cardinality(W')
  <2>1. /\ ~is_stop_flag_ /\ ~StopPending /\ ~silent
        /\ limit_len_max_' = limit_len_max_
        BY <1>3, CallerMoves, CallerKeepsControls
  <2>2. at[t] = "woken" => call[t] = c
        BY <1>3, CallerIs
  <2>3. UNCHANGED inner_queue_ => FreePlaces' = FreePlaces
        BY <2>1 DEF FreePlaces, Size
  <2>4. CASE PutsOne(t, c)
    <3>1. Size' = Size + 1
          BY <2>4, PlacedIs DEF PutsOne, Put, Size, IsPlaced
    <3>2. FreePlaces' = FreePlaces - 1
          BY <1>0, <2>1, <3>1 DEF FreePlaces
    <3>3. at'[t] = "idle"
      <4>1. /\ Returned(t) \in [Threads -> Places]
            /\ Returned(t)[t] = "idle"
            BY DEF Returned, TypeOK, Places
      <4> QED BY <2>4, <4>1, NotifyFrame DEF PutsOne, Put
    <3>4. V # {} /\ W \ {t} \subseteq W'
          BY <1>3, <3>3, CallerMoves DEF Waiting, Woken
    <3>5. Cardinality(W) - 1 <= Cardinality(W')
          BY <1>0, <3>4, WokenCount
    <3> QED BY <1>0, <1>1, <2>1, <3>2, <3>4, <3>5
  <2>5. CASE GetsOne(t, c)
    <3>1. /\ CallOver(t) /\ at' \in NotifyOne("push", Returned(t))
          /\ c.how \notin Puts
          BY <2>5, Kinds DEF GetsOne, GetOne
    <3>2. PICK u \in Threads \ {t} :
            /\ at[u] = "push" /\ at'[u] = "woken" /\ call'[u] = call[u]
            /\ at'[t] = "idle"
            /\ \A v \in Threads \ {t, u} :
                 at'[v] = at[v] /\ call'[v] = call[v]
          BY <3>1, NotifiedIs
    <3>3. V # {} /\ u \notin W
          BY <3>2 DEF Waiting, Woken
    <3>4. u \in W'
          BY <3>2 DEF Woken, TypeOK, IsPut
    <3>5. W \subseteq W'
          BY <2>2, <3>1, <3>2 DEF Woken
    <3>6. Cardinality(W) + 1 <= Cardinality(W')
          BY <1>0, <3>3, <3>4, <3>5, WokenCount
    <3>7. Size' = Size - 1
          BY <2>5, ListIs, HeadTailProperties DEF GetsOne, GetOne, Size
    <3>8. FreePlaces' = FreePlaces + 1
          BY <1>0, <2>1, <3>7 DEF FreePlaces
    <3> QED BY <1>0, <1>1, <2>1, <3>3, <3>6, <3>8
  <2>6. CASE GetsAll(t, c)
    <3>1. at' = NotifyAll("push", Returned(t))
          BY <2>6 DEF GetsAll, GetList
    <3>2. \A u \in Threads : at'[u] # "push"
          BY <3>1 DEF NotifyAll
    <3> QED BY <3>2 DEF Waiting
  <2>7. CASE GivesUp(t, c)
    <3>1. /\ at[t] \in {"idle", "push", "pop"} /\ at'[t] = "idle"
          /\ FreePlaces' = FreePlaces
          BY <2>1, <2>3, <2>7
          DEF GivesUp, Return, Returned, TypeOK, queueVars
    <3>2. V # {} /\ W \subseteq W'
          BY <1>3, <3>1, CallerMoves DEF Waiting, Woken
    <3> QED BY <1>0, <1>2, <2>1, <3>1, <3>2
  <2>8. CASE Waits(t, c)
    <3>1. FreePlaces' = FreePlaces
          BY <2>3, <2>8 DEF Waits, Wait, Pause, queueVars
    <3>2. CASE IsPut(c)
      <4>1. ~(Size < limit_len_max_)
            BY <2>8, <3>2 DEF Waits, Ready, Room
      <4> QED BY <1>0, <3>1, <4>1
    <3>3. CASE ~IsPut(c)
      <4>1. at'[t] = "pop" /\ c.how \notin Puts
            BY <2>8, <3>3, Kinds DEF Waits, Wait, Pause, CvOf, TypeOK, IsPut
      <4>2. V # {} /\ W \subseteq W'
            BY <1>3, <2>2, <4>1, CallerMoves DEF Waiting, Woken
      <4> QED BY <1>0, <1>2, <2>1, <3>1, <4>2
    <3> QED BY <3>2, <3>3
  <2>9. CASE GoesWrong(t, c)
    <3>1. at[t] = "passed" /\ at'[t] = "undefined" /\ FreePlaces' = FreePlaces
          BY <2>3, <2>9 DEF GoesWrong, Pause, TypeOK, queueVars
    <3>2. V # {} /\ W \subseteq W'
          BY <1>3, <3>1, CallerMoves DEF Waiting, Woken
    <3> QED BY <1>0, <1>2, <2>1, <3>1, <3>2
  <2>10. ~Passes(t, c)
         BY <2>1 DEF Passes
  <2> QED BY <1>3, <2>4, <2>5, <2>6, <2>7, <2>8, <2>9, <2>10 DEF CallStep
<1>4. ASSUME NEW t \in Threads, Spurious(t) PROVE FreePlaces' <= Cardinality(W')
  <2>1. /\ \A u \in Threads \ {t} : at'[u] = at[u]
        /\ at'[t] = "woken" /\ at[t] \in {"push", "pop"}
        /\ UNCHANGED <<call, is_stop_flag_, limit_len_max_, inner_queue_,
                       silent>>
        BY <1>4 DEF Spurious, TypeOK, queueVars, histVars
  <2>2. V # {} /\ W \subseteq W' /\ ~StopPending /\ FreePlaces' = FreePlaces
        BY <2>1 DEF Waiting, Woken, StopPending, Size, FreePlaces
  <2> QED BY <1>0, <1>2, <2>1, <2>2
<1>5. ASSUME NEW t \in Threads, Stop(t) PROVE FALSE
      BY <1>5 DEF Stop
<1>6. ASSUME NEW t \in Threads, StopStep(t) PROVE FALSE
  <2>1. ~silent /\ ~is_stop_flag_ /\ StopPending
        BY <1>6 DEF StopStep, StopNotifyPush, StopNotifyPop, queueVars,
           histVars, StopPending
  <2> QED BY <2>1 DEF StopInv
<1>7. ASSUME NEW t \in Threads, NEW next, Clear(t, next) PROVE FALSE
      BY <1>7 DEF Clear
<1>8. ASSUME NEW t \in Threads, ResetFlag(t) PROVE FALSE
      BY <1>8 DEF ResetFlag, StopInv, histVars
<1>9. ASSUME \/ UNCHANGED vars
             \/ \E t \in Threads, limit \in Limits :
                  change_limit_len_max(t, limit)
      PROVE  FreePlaces' <= Cardinality(W')
  <2>1. /\ UNCHANGED <<at, call, is_stop_flag_, inner_queue_>> /\ ~silent
        /\ limit_len_max_' \in Nat /\ limit_len_max_' <= limit_len_max_
    <3>1. CASE UNCHANGED vars
          BY <1>0, <3>1 DEF vars, queueVars, histVars
    <3>2. ASSUME NEW t \in Threads, NEW limit \in Limits,
                 change_limit_len_max(t, limit)
          PROVE  /\ UNCHANGED <<at, call, is_stop_flag_, inner_queue_>>
                 /\ ~silent
                 /\ limit_len_max_' \in Nat
                 /\ limit_len_max_' <= limit_len_max_
      <4>1. /\ UNCHANGED <<at, call, is_stop_flag_, inner_queue_>>
            /\ limit_len_max_' = limit /\ limit \in Nat
            /\ silent' = (silent \/ limit > limit_len_max_)
            BY <3>2, LimitsAssumption DEF change_limit_len_max
      <4>2. ~silent /\ ~(limit > limit_len_max_)
            BY <1>0, <4>1
      <4>3. limit <= limit_len_max_
            BY <1>0, <4>1, <4>2
      <4> QED BY <4>1, <4>2, <4>3
    <3> QED BY <1>9, <3>1, <3>2
  <2>2. V # {} /\ W \subseteq W' /\ ~StopPending /\ Size' = Size
        BY <2>1 DEF Waiting, Woken, StopPending, Size
  <2>3. FreePlaces' \in Int /\ FreePlaces' <= FreePlaces
    <3>1. FreePlaces' = limit_len_max_' - Size'
          BY DEF FreePlaces
    <3>2. FreePlaces' = limit_len_max_' - Size
          BY <2>2, <3>1
    <3> QED BY <1>0, <2>1, <3>2 DEF FreePlaces
  <2> QED BY <1>2, <2>1, <2>2, <2>3
<1>10. CASE \E t \in Threads : \/ \E c \in Calls : Call(t, c)
                               \/ Resume(t) \/ TimedOut(t) \/ Passed(t)
       BY <1>3, <1>10, CallSteps
<1> QED BY <1>4, <1>5, <1>6, <1>7, <1>8, <1>9, <1>10 DEF Next

-----------------------------------------------------------------------------
LEMMA InitInv ==
  Init => /\ TypeOK /\ PendingInv /\ DistinctInv /\ StopInv
          /\ AccountInv /\ InsertOrder /\ PopperNotStranded /\ PusherNotStranded
<1> SUFFICES ASSUME Init
             PROVE  /\ TypeOK /\ PendingInv /\ DistinctInv /\ StopInv
                    /\ AccountInv /\ InsertOrder
                    /\ PopperNotStranded /\ PusherNotStranded
    OBVIOUS
<1>1. /\ Size = 0 /\ Numbers(inner_queue_) = {} /\ Pending = {}
      /\ ~StopPending /\ \A cv \in {"push", "pop"} : Waiting(cv, at) = {}
      BY Kinds DEF Init, Size, Numbers, Pending, StopPending, Waiting
<1>2. inner_queue_ \in Seq(Items)
      BY EmptySeq DEF Init
<1>3. /\ at \in [Threads -> Places] /\ call \in [Threads -> Calls \cup {NoCall}]
      /\ \A t \in Threads : at[t] = "idle" /\ call[t] = NoCall
      BY DEF Init, Places
<1>4. TypeOK
  <2>1. /\ accepted = 0 /\ accepted \in 0 .. MaxItems
        /\ limit_len_max_ \in Limits /\ is_stop_flag_ \in BOOLEAN
        /\ silent \in BOOLEAN /\ taken = {} /\ cleared = {}
    <3>1. accepted = 0 /\ taken = {} /\ cleared = {}
          BY DEF Init
    <3>2. limit_len_max_ \in Limits
          BY DEF Init
    <3>3. is_stop_flag_ \in BOOLEAN /\ silent \in BOOLEAN
      <4>1. is_stop_flag_ = FALSE /\ silent = FALSE
            BY DEF Init
      <4> QED BY <4>1
    <3>4. accepted \in 0 .. MaxItems
          BY <3>1, ItemsAssumption
    <3> QED BY <3>1, <3>2, <3>3, <3>4
  <2>2. /\ taken \subseteq 1 .. accepted /\ cleared \subseteq 1 .. accepted
        BY <2>1
  <2>3. \A t \in Threads :
          /\ at[t] = "push" => IsPut(call[t])
          /\ at[t] = "pop" => call[t].how \in Gets
          /\ at[t] \in {"woken", "passed"} => call[t] \in Calls
          /\ at[t] = "undefined" => call[t].how = "pop"
          /\ at[t] \in {"idle", "stop_push", "stop_pop", "reset"} =>
               call[t] = NoCall
        BY <1>3
  <2> QED BY <1>2, <1>3, <2>1, <2>2, <2>3 DEF TypeOK
<1>5. PendingInv
      BY <1>1, FS_EmptySet, ItemsAssumption DEF Init, PendingInv
<1>6. DistinctInv /\ InsertOrder
      BY <1>1 DEF DistinctInv, InsertOrder
<1>7. StopInv
      BY <1>1, <1>3 DEF Init, StopInv
<1>8. AccountInv
  <2>1. 1 .. 0 = {}
        OBVIOUS
  <2> QED BY <1>1, <2>1 DEF Init, AccountInv
<1>9. PopperNotStranded /\ PusherNotStranded
      BY <1>1 DEF PopperNotStranded, PusherNotStranded
<1> QED BY <1>4, <1>5, <1>6, <1>7, <1>8, <1>9

(* The invariant: with its types, that reserved numbers are left for the   *)
(* pending calls, that numbers are distinct, and what a stop and a reset   *)
(* leave of the wait sets.                                                 *)
THEOREM QueueInvariance == Spec => []IInv
<1> DEFINE Inv == /\ TypeOK /\ PendingInv /\ DistinctInv /\ StopInv
                  /\ AccountInv /\ InsertOrder
                  /\ PopperNotStranded /\ PusherNotStranded
<1>1. Init => Inv
      BY InitInv
<1>2. Inv /\ [Next]_vars => Inv'
      BY TypeStep, AccountStep, StopStepKeeps, OrderStep, PopperStep,
         PusherStep
<1>3. Inv => IInv
      BY NumbersCount DEF IInv, Accounted, AccountInv
<1> QED BY <1>1, <1>2, <1>3, PTL DEF Spec

(* The variables have their types, and a thread has a pending call exactly *)
(* while it waits for its predicate.                                       *)
THEOREM QueueTypeCorrect == Spec => []TypeOK
<1>1. IInv => TypeOK
      BY DEF IInv
<1> QED BY <1>1, QueueInvariance, PTL

(* An item that was put is in the list once, or was delivered, or cleared. *)
THEOREM ItemsAccounted == Spec => []Accounted
<1>1. IInv => Accounted
      BY DEF IInv
<1> QED BY <1>1, QueueInvariance, PTL

(* Inserted items are ordered by priority, and the later one of two with   *)
(* one priority comes first.                                               *)
THEOREM ItemsOrdered == Spec => []InsertOrder
<1>1. IInv => InsertOrder
      BY DEF IInv
<1> QED BY <1>1, QueueInvariance, PTL

(* notify_one is enough for the threads that wait to pop.                  *)
THEOREM NoPopperStranded == Spec => []PopperNotStranded
<1>1. IInv => PopperNotStranded
      BY DEF IInv
<1> QED BY <1>1, QueueInvariance, PTL

(* notify_one is enough for the threads that wait to push, as long as no   *)
(* room is made without it.                                                *)
THEOREM NoPusherStranded == Spec => []PusherNotStranded
<1>1. IInv => PusherNotStranded
      BY DEF IInv
<1> QED BY <1>1, QueueInvariance, PTL

(* The list does not grow beyond the limit in force.                       *)
THEOREM LimitHolds == Spec => LimitRespected
<1>1. IInv /\ [Next]_vars =>
        [Len(inner_queue_') > Size /\ MutexFree =>
           Len(inner_queue_') <= limit_len_max_]_vars
      BY LimitStep DEF IInv
<1> QED BY <1>1, QueueInvariance, PTL DEF Spec, LimitRespected
=============================================================================
