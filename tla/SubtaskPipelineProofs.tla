----------------------- MODULE SubtaskPipelineProofs ------------------------
(***************************************************************************)
(* Proofs about SubtaskPipeline, for any number of runs and messages and   *)
(* any limits: the types of its fields, and that the replies of a message  *)
(* tell which stages it has behind it.                                     *)
(***************************************************************************)
EXTENDS SubtaskPipeline, SequenceTheorems, FiniteSetTheorems, TLAPS

(* x is a place of message m.                                              *)
On(m, x) ==
  \/ x = <<"hand">> /\ hand = m
  \/ \E p \in Pools : \E i \in 1 .. Len(queue[p]) :
       x = <<p, i>> /\ queue[p][i].m = m
  \/ \E p \in Pools : x = <<p, 0>> /\ item[p].m = m

(* A worker has that message and is done with it but for counting.         *)
ToCount(x) ==
  /\ x # <<"hand">>
  /\ x[2] = 0
  /\ pc[x[1]] \in {"count", "store"}

(* A message at x was answered once for each stage behind it; as long as   *)
(* it goes on, all went well.                                              *)
Settled(m, x) ==
  /\ Len(replies[m]) = Behind(x)
  /\ IF ToCount(x) THEN Len(replies[m]) = 3 \/ ~AllOk(replies[m])
                   ELSE AllOk(replies[m])

UnderWay(m) == m <= received /\ m \notin ended

(* A message that has not come was not answered, and of one that has come, *)
(* only the last reply tells of a failure; one that has ended was not      *)
(* answered, has all stages behind it, or has failed.                      *)
Told(m) ==
  LET s == replies[m] IN
  /\ m > received => s = <<>>
  /\ \A i \in 1 .. Len(s) - 1 : s[i] = "ok"
  /\ m \in ended => s = <<>> \/ Len(s) = 3 \/ ~AllOk(s)

-----------------------------------------------------------------------------
(* What the proof of TypeOK needs besides: the upload is the last stage,   *)
(* and a counter is never ahead of the messages that were counted.         *)
DataInv ==
  /\ TypeOK
  /\ queue \in [Pools -> Seq(Items)]
  /\ item \in [Pools -> Items \cup {NoItem}]
  /\ \A p \in Pools : pc[p] = "enqueue" => item[p].stage < 3
  /\ cleaned = {}
  /\ g_task_end <= Cardinality(ended)
  /\ \A p \in Pools : seen[p] <= Cardinality(ended)

(* A message under way is at one place, any other is nowhere.              *)
Placed(m) ==
  IF UnderWay(m)
  THEN \E x \in Places(m) : Places(m) = {x} /\ Settled(m, x)
  ELSE Places(m) = {}

PlaceInv == \A m \in Msgs : Placed(m)

ToldInv == \A m \in Msgs : Told(m)

(* With these, RepliesTellStage is kept by every step.                     *)
IInv == DataInv /\ PlaceInv /\ ToldInv

-----------------------------------------------------------------------------
(* Facts about the constants, the lists and the places.                    *)

LEMMA Numbers ==
  /\ MaxRuns * metrial_number \in Nat
  /\ Msgs \subseteq Nat \ {0}
  /\ Cardinality(Msgs) = MaxRuns * metrial_number
  /\ Msgs = 1 .. Cardinality(Msgs)
  /\ DownLimit \in Nat \ {0} /\ RunLimit \in Nat \ {0}
<1>1. MaxRuns * metrial_number \in Nat
      BY RunsAssumption
<1>2. PICK k \in Nat : k = MaxRuns * metrial_number
      BY <1>1
<1>3. Cardinality(1 .. k) = k
      BY <1>2, FS_Interval
<1> QED BY <1>1, <1>2, <1>3, LimitsAssumption DEF Msgs

LEMMA PoolNames ==
  /\ Pools = {"down", "testbed"} /\ "down" # "testbed"
  /\ \A p \in Pools : Limit(p) \in Nat /\ p # "hand"
BY LimitsAssumption DEF Pools, Limit

LEMMA ItemParts ==
  /\ \A it \in Items : it.m \in Msgs /\ it.m # 0 /\ it.stage \in 1 .. 3
  /\ NoItem.m = 0 /\ NoItem \notin Items
BY Numbers DEF Items, NoItem

(* Putting in front, and taking from there.                                *)
LEMMA PutInFront ==
  ASSUME NEW s \in Seq(Items), NEW it \in Items, NEW r, r = <<it>> \o s
  PROVE  /\ r \in Seq(Items) /\ Len(r) = Len(s) + 1 /\ r[1] = it
         /\ \A i \in 1 .. Len(s) : r[i + 1] = s[i]
         /\ \A i \in 2 .. Len(r) : i - 1 \in 1 .. Len(s) /\ r[i] = s[i - 1]
<1>1. <<it>> \in Seq(Items) /\ Len(<<it>>) = 1 /\ <<it>>[1] = it
      OBVIOUS
<1>2. /\ r \in Seq(Items) /\ Len(r) = Len(<<it>>) + Len(s)
      /\ \A i \in 1 .. Len(<<it>>) + Len(s) :
           r[i] = IF i <= Len(<<it>>) THEN <<it>>[i] ELSE s[i - Len(<<it>>)]
      BY <1>1, ConcatProperties
<1>3. Len(s) \in Nat
      BY LenProperties
<1>4. /\ Len(r) = Len(s) + 1
      /\ \A i \in 1 .. Len(s) + 1 : r[i] = IF i <= 1 THEN <<it>>[i] ELSE s[i - 1]
      BY <1>1, <1>2, <1>3
<1> QED BY <1>1, <1>2, <1>3, <1>4

LEMMA TakeFromFront ==
  ASSUME NEW s \in Seq(Items), s # <<>>, NEW r, r = Tail(s)
  PROVE  /\ r \in Seq(Items) /\ Len(r) = Len(s) - 1 /\ Len(s) \in Nat \ {0}
         /\ Head(s) = s[1] /\ Head(s) \in Items
         /\ \A i \in 1 .. Len(r) : i + 1 \in 1 .. Len(s) /\ r[i] = s[i + 1]
         /\ \A i \in 2 .. Len(s) : i - 1 \in 1 .. Len(r) /\ r[i - 1] = s[i]
<1>1. /\ Head(s) \in Items /\ r \in Seq(Items)
      /\ Head(s) = s[1]
      /\ Len(r) = Len(s) - 1
      /\ \A i \in 1 .. Len(r) : r[i] = s[i + 1]
      BY HeadTailProperties
<1>2. Len(s) \in Nat \ {0}
      BY LenProperties, EmptySeq
<1> QED BY <1>1, <1>2

LEMMA Where == \A m, x : x \in Places(m) <=> On(m, x)
<1>1. ASSUME NEW m, NEW x PROVE x \in Places(m) <=> On(m, x)
  <2> DEFINE H == IF hand = m THEN {<<"hand">>} ELSE {}
             L(p) == {<<p, i>> : i \in {j \in 1 .. Len(queue[p]) : queue[p][j].m = m}}
             W == {<<p, 0>> : p \in {q \in Pools : item[q].m = m}}
  <2>1. x \in H <=> x = <<"hand">> /\ hand = m
        OBVIOUS
  <2>2. \A p : x \in L(p)
          <=> \E i \in 1 .. Len(queue[p]) : x = <<p, i>> /\ queue[p][i].m = m
        OBVIOUS
  <2>3. x \in W <=> \E p \in Pools : x = <<p, 0>> /\ item[p].m = m
        OBVIOUS
  <2>4. x \in Places(m)
          <=> x \in H \/ (\E p \in Pools : x \in L(p)) \/ x \in W
    <3> DEFINE U == UNION {L(p) : p \in Pools}
    <3>1. Places(m) = H \cup U \cup W
          BY DEF Places
    <3> HIDE DEF H, L, W
    <3>2. x \in U <=> \E p \in Pools : x \in L(p)
      <4>1. ASSUME NEW p \in Pools, x \in L(p) PROVE x \in U
        <5>1. L(p) \in {L(q) : q \in Pools}
              OBVIOUS
        <5> QED BY <4>1, <5>1
      <4>2. ASSUME x \in U PROVE \E p \in Pools : x \in L(p)
            BY <4>2
      <4> QED BY <4>1, <4>2
    <3> HIDE DEF U
    <3> QED BY <3>1, <3>2
  <2> HIDE DEF H, L, W
  <2> QED BY <2>1, <2>2, <2>3, <2>4 DEF On
<1> QED BY <1>1

LEMMA WhereNext == (\A m, x : x \in Places(m) <=> On(m, x))'
BY Where, PTL

(* The message a worker has is under way, and so is one in a list.         *)
LEMMA HeldIsUnderWay ==
  ASSUME DataInv, PlaceInv, NEW p \in Pools, item[p] # NoItem
  PROVE  item[p].m \in Msgs /\ UnderWay(item[p].m)
<1>1. item[p].m \in Msgs
      BY ItemParts DEF DataInv
<1>2. <<p, 0>> \in Places(item[p].m)
      BY Where DEF On
<1> QED BY <1>1, <1>2 DEF PlaceInv, Placed

LEMMA WorkerHolds ==
  ASSUME DataInv, NEW p \in Pools
  PROVE  IF pc[p] = "take" THEN item[p] = NoItem ELSE item[p] \in Items
BY DEF DataInv, TypeOK

-----------------------------------------------------------------------------
(* How messages move.                                                      *)

(* Message m stays nowhere, or is taken along from its one place to one    *)
(* with as many stages behind it.                                          *)
Kept(m) ==
  /\ Places(m) = {} => Places(m)' = {}
  /\ \A x : Places(m) = {x} =>
       \E y : /\ Places(m)' = {y}
              /\ Behind(y)' = Behind(x)
              /\ (ToCount(y)' <=> ToCount(x))

(* Where what was at x is, when the message at src is put in front of list *)
(* p, and when the first one of list p is taken.                           *)
Pushed(src, p, x) ==
  IF x = src THEN <<p, 1>>
  ELSE IF x[1] = p /\ x[2] # 0 THEN <<p, x[2] + 1>> ELSE x

Taken(p, x) == IF x[1] = p /\ x[2] # 0 THEN <<p, x[2] - 1>> ELSE x

LEMMA Pairs ==
  /\ \A p, i : <<p, i>> # <<"hand">> /\ <<p, i>>[1] = p /\ <<p, i>>[2] = i
  /\ <<"hand">>[1] = "hand"
  /\ \A p, i, q, j : <<p, i>> = <<q, j>> <=> p = q /\ i = j
OBVIOUS

LEMMA MovesToOne ==
  ASSUME NEW m, NEW x, NEW y, Places(m) = {x}, On(m, y)',
         \A z : On(m, z)' => z = y
  PROVE  Places(m)' = {y}
<1>1. \A z : z \in Places(m)' <=> z = y
      BY WhereNext
<1> QED BY <1>1

LEMMA PushMoves ==
  ASSUME DataInv, NEW p \in Pools, NEW it \in Items,
         queue' = [queue EXCEPT ![p] = <<it>> \o @],
         NEW src, On(it.m, src), it.stage = Behind(src) + 1, ~ToCount(src),
         \/ /\ src = <<"hand">>
            /\ hand' = 0 /\ item' = item /\ pc' = pc
         \/ \E q \in Pools : /\ src = <<q, 0>>
                             /\ hand' = hand
                             /\ item' = [item EXCEPT ![q] = NoItem]
                             /\ pc' = [pc EXCEPT ![q] = "take"]
  PROVE  \A m \in Msgs : Kept(m)
<1>1. /\ queue[p] \in Seq(Items) /\ queue'[p] = <<it>> \o queue[p]
      /\ \A q \in Pools \ {p} : queue'[q] = queue[q]
      BY DEF DataInv
<1>2. /\ Len(queue'[p]) = Len(queue[p]) + 1 /\ queue'[p][1] = it
      /\ \A i \in 1 .. Len(queue[p]) : queue'[p][i + 1] = queue[p][i]
      /\ \A i \in 2 .. Len(queue'[p]) :
           i - 1 \in 1 .. Len(queue[p]) /\ queue'[p][i] = queue[p][i - 1]
      BY <1>1, PutInFront
<1>3. /\ \A q \in Pools : Len(queue[q]) \in Nat /\ q # "hand"
      /\ \A m \in Msgs : m # 0
      BY Numbers, PoolNames, LenProperties DEF DataInv
<1>4. src = <<"hand">> => it.m = hand
      BY Pairs DEF On
<1>5. \A q \in Pools : src = <<q, 0>> => it.m = item[q].m
      BY <1>3, Pairs DEF On
<1>6. \A q \in Pools : \A i \in 1 .. Len(queue[q]) : src # <<q, i>>
      BY <1>3, Pairs
<1>7. \A q \in Pools : src # <<q, 0>> => item'[q] = item[q] /\ pc'[q] = pc[q]
      BY Pairs DEF DataInv, TypeOK
<1>8. \A q \in Pools : src = <<q, 0>> => item'[q] = NoItem
      BY Pairs DEF DataInv, TypeOK
<1>9. /\ src = <<"hand">> => hand' = 0
      /\ src # <<"hand">> => hand' = hand
  <2>1. \A q \in Pools : <<q, 0>> # <<"hand">>
        BY Pairs
  <2> QED BY <2>1
<1>10. ASSUME NEW m \in Msgs, NEW x, On(m, x)
       PROVE  On(m, Pushed(src, p, x))'
  <2>1. CASE x = src
    <3>1. m = it.m
          BY <1>3, <1>4, <1>5, <1>6, <1>10, <2>1, Pairs DEF On
    <3>2. Pushed(src, p, x) = <<p, 1>> /\ 1 \in 1 .. Len(queue'[p])
          BY <1>2, <1>3, <2>1 DEF Pushed
    <3> QED BY <1>2, <3>1, <3>2 DEF On
  <2>2. CASE x # src /\ x = <<"hand">> /\ hand = m
    <3>1. Pushed(src, p, x) = x
          BY <1>3, <2>2, Pairs DEF Pushed
    <3> QED BY <1>9, <2>2, <3>1 DEF On
  <2>3. ASSUME x # src, NEW q \in Pools, NEW i \in 1 .. Len(queue[q]),
               x = <<q, i>>, queue[q][i].m = m
        PROVE  On(m, Pushed(src, p, x))'
    <3>1. i # 0
          BY <1>3
    <3>2. CASE q = p
      <4>1. Pushed(src, p, x) = <<p, i + 1>>
            BY <2>3, <3>1, <3>2, Pairs DEF Pushed
      <4>2. i + 1 \in 1 .. Len(queue'[p]) /\ queue'[p][i + 1].m = m
            BY <1>2, <1>3, <2>3, <3>2
      <4> QED BY <4>1, <4>2 DEF On
    <3>3. CASE q # p
      <4>1. Pushed(src, p, x) = x
            BY <2>3, <3>3, Pairs DEF Pushed
      <4> QED BY <1>1, <2>3, <3>3, <4>1 DEF On
    <3> QED BY <3>2, <3>3
  <2>4. ASSUME x # src, NEW q \in Pools, x = <<q, 0>>, item[q].m = m
        PROVE  On(m, Pushed(src, p, x))'
    <3>1. Pushed(src, p, x) = x
          BY <2>4, Pairs DEF Pushed
    <3> QED BY <1>7, <2>4, <3>1 DEF On
  <2> QED BY <1>10, <2>1, <2>2, <2>3, <2>4 DEF On
<1>11. ASSUME NEW m \in Msgs, NEW y, On(m, y)'
       PROVE  \E x : On(m, x) /\ y = Pushed(src, p, x)
  <2>1. CASE y = <<"hand">> /\ hand' = m
    <3>1. y # src /\ hand = m
          BY <1>3, <1>9, <2>1
    <3>2. Pushed(src, p, y) = y
          BY <1>3, <2>1, <3>1, Pairs DEF Pushed
    <3> QED BY <2>1, <3>1, <3>2 DEF On
  <2>2. ASSUME NEW q \in Pools, NEW i \in 1 .. Len(queue'[q]),
               y = <<q, i>>, queue'[q][i].m = m
        PROVE  \E x : On(m, x) /\ y = Pushed(src, p, x)
    <3>1. CASE q # p
      <4>1. i \in 1 .. Len(queue[q]) /\ queue[q][i].m = m
            BY <1>1, <2>2, <3>1
      <4>2. Pushed(src, p, y) = y
            BY <1>6, <2>2, <3>1, <4>1, Pairs DEF Pushed
      <4> QED BY <2>2, <4>1, <4>2 DEF On
    <3>2. CASE q = p /\ i = 1
      <4>1. On(m, src) /\ y = Pushed(src, p, src)
            BY <1>2, <2>2, <3>2 DEF Pushed
      <4> QED BY <4>1
    <3>3. CASE q = p /\ i # 1
      <4>1. i - 1 \in 1 .. Len(queue[p]) /\ queue[p][i - 1].m = m /\ i - 1 # 0
        <5>1. i \in 2 .. Len(queue'[p])
              BY <1>2, <1>3, <2>2, <3>3
        <5> QED BY <1>2, <1>3, <2>2, <3>3, <5>1
      <4>2. PICK j \in 1 .. Len(queue[p]) : j = i - 1
            BY <4>1
      <4>3. On(m, <<p, j>>)
            BY <4>1, <4>2 DEF On
      <4>4. Pushed(src, p, <<p, j>>) = <<p, j + 1>>
            BY <1>6, <4>1, <4>2, Pairs DEF Pushed
      <4>5. j + 1 = i
            BY <1>2, <1>3, <2>2, <3>3, <4>2
      <4> QED BY <2>2, <3>3, <4>3, <4>4, <4>5
    <3> QED BY <3>1, <3>2, <3>3
  <2>3. ASSUME NEW q \in Pools, y = <<q, 0>>, item'[q].m = m
        PROVE  \E x : On(m, x) /\ y = Pushed(src, p, x)
    <3>1. y # src /\ item[q].m = m
          BY <1>3, <1>7, <1>8, <2>3, ItemParts
    <3>2. Pushed(src, p, y) = y
          BY <2>3, <3>1, Pairs DEF Pushed
    <3> QED BY <2>3, <3>1, <3>2 DEF On
  <2> QED BY <1>11, <2>1, <2>2, <2>3 DEF On
<1>12. ASSUME NEW m \in Msgs, NEW x, On(m, x)
       PROVE  /\ Behind(Pushed(src, p, x))' = Behind(x)
              /\ (ToCount(Pushed(src, p, x))' <=> ToCount(x))
  <2>1. CASE x = src
    <3>1. Pushed(src, p, x) = <<p, 1>>
          BY <2>1 DEF Pushed
    <3>2. Behind(<<p, 1>>)' = it.stage - 1
          BY <1>2, Pairs DEF Behind
    <3>3. it.stage - 1 = Behind(x)
      <4>1. it.stage \in Int
            BY ItemParts
      <4>2. Behind(src) \in Int
        <5>1. \A q \in Pools : item[q].stage \in Int
              BY ItemParts DEF DataInv, NoItem
        <5>2. CASE src = <<"hand">>
              BY <5>2 DEF Behind
        <5>3. ASSUME NEW q \in Pools, src = <<q, 0>>
              PROVE  Behind(src) \in Int
              BY <5>1, <5>3, Pairs DEF Behind
        <5> QED BY <5>2, <5>3
      <4> QED BY <2>1, <4>1, <4>2
    <3>4. ~ToCount(<<p, 1>>)'
          BY Pairs DEF ToCount
    <3> QED BY <2>1, <3>1, <3>2, <3>3, <3>4
  <2>2. CASE x # src /\ x = <<"hand">>
    <3>1. Pushed(src, p, x) = x
          BY <1>3, <2>2, Pairs DEF Pushed
    <3> QED BY <2>2, <3>1 DEF Behind, ToCount
  <2>3. ASSUME x # src, NEW q \in Pools, NEW i \in 1 .. Len(queue[q]),
               x = <<q, i>>
        PROVE  /\ Behind(Pushed(src, p, x))' = Behind(x)
               /\ (ToCount(Pushed(src, p, x))' <=> ToCount(x))
    <3>1. i # 0 /\ i + 1 # 0
          BY <1>3
    <3>2. CASE q = p
      <4>1. Pushed(src, p, x) = <<p, i + 1>>
            BY <2>3, <3>1, <3>2, Pairs DEF Pushed
      <4>2. queue'[p][i + 1] = queue[p][i]
            BY <1>2, <2>3, <3>2
      <4> QED BY <2>3, <3>1, <3>2, <4>1, <4>2, Pairs DEF Behind, ToCount
    <3>3. CASE q # p
      <4>1. Pushed(src, p, x) = x
            BY <2>3, <3>3, Pairs DEF Pushed
      <4>2. queue'[q] = queue[q]
            BY <1>1, <3>3
      <4>3. /\ x # <<"hand">> /\ x[1] = q /\ x[2] = i
            BY <2>3, Pairs
      <4>4. Behind(x)' = Behind(x)
        <5>1. queue'[x[1]] = queue[x[1]] /\ x # <<"hand">> /\ x[2] # 0
              BY <3>1, <4>2, <4>3
        <5>2. /\ Behind(x) = queue[x[1]][x[2]].stage - 1
              /\ Behind(x)' = queue'[x[1]][x[2]].stage - 1
              BY <5>1 DEF Behind
        <5> QED BY <5>1, <5>2
      <4>5. ToCount(x)' <=> ToCount(x)
            BY <3>1, <4>3 DEF ToCount
      <4> QED BY <4>1, <4>4, <4>5
    <3> QED BY <3>2, <3>3
  <2>4. ASSUME x # src, NEW q \in Pools, x = <<q, 0>>
        PROVE  /\ Behind(Pushed(src, p, x))' = Behind(x)
               /\ (ToCount(Pushed(src, p, x))' <=> ToCount(x))
    <3>1. Pushed(src, p, x) = x
          BY <2>4, Pairs DEF Pushed
    <3> QED BY <1>7, <2>4, <3>1, Pairs DEF Behind, ToCount
  <2> QED BY <1>12, <2>1, <2>2, <2>3, <2>4 DEF On
<1>13. ASSUME NEW m \in Msgs PROVE Kept(m)
  <2>1. Places(m) = {} => Places(m)' = {}
        BY <1>11, Where, WhereNext
  <2>2. ASSUME NEW x, Places(m) = {x}
        PROVE  \E y : /\ Places(m)' = {y}
                      /\ Behind(y)' = Behind(x)
                      /\ (ToCount(y)' <=> ToCount(x))
    <3>1. On(m, x) /\ \A z : On(m, z) => z = x
          BY <2>2, Where
    <3>2. PICK y : y = Pushed(src, p, x)
          OBVIOUS
    <3>3. On(m, y)' /\ \A z : On(m, z)' => z = y
          BY <1>10, <1>11, <3>1, <3>2
    <3>4. Places(m)' = {y}
          BY <2>2, <3>3, MovesToOne
    <3> QED BY <1>12, <3>1, <3>2, <3>4
  <2> QED BY <2>1, <2>2 DEF Kept
<1> QED BY <1>13

LEMMA TakeMoves ==
  ASSUME DataInv, NEW p \in Pools, Take(p)
  PROVE  \A m \in Msgs : Kept(m)
<1>1. /\ queue[p] \in Seq(Items) /\ queue[p] # <<>>
      /\ queue'[p] = Tail(queue[p]) /\ item[p] = NoItem
      /\ item'[p] = Head(queue[p]) /\ pc'[p] = "work" /\ hand' = hand
      /\ \A q \in Pools \ {p} :
           queue'[q] = queue[q] /\ item'[q] = item[q] /\ pc'[q] = pc[q]
      BY WorkerHolds DEF Take, DataInv, TypeOK, mainVars
<1>2. /\ Len(queue'[p]) = Len(queue[p]) - 1 /\ Len(queue[p]) \in Nat \ {0}
      /\ item'[p] = queue[p][1]
      /\ \A i \in 1 .. Len(queue'[p]) :
           i + 1 \in 1 .. Len(queue[p]) /\ queue'[p][i] = queue[p][i + 1]
      /\ \A i \in 2 .. Len(queue[p]) :
           i - 1 \in 1 .. Len(queue'[p]) /\ queue'[p][i - 1] = queue[p][i]
      BY <1>1, TakeFromFront
<1>3. /\ \A q \in Pools : Len(queue[q]) \in Nat /\ q # "hand"
      /\ \A m \in Msgs : m # 0 /\ item[p].m # m
      BY <1>1, Numbers, PoolNames, ItemParts, LenProperties DEF DataInv
<1>4. Taken(p, <<"hand">>) = <<"hand">>
      BY <1>3, Pairs DEF Taken
<1>5. \A q : Taken(p, <<q, 0>>) = <<q, 0>>
      BY Pairs DEF Taken
<1>6. \A q : \A i : q # p => Taken(p, <<q, i>>) = <<q, i>>
      BY Pairs DEF Taken
<1>7. \A i \in 1 .. Len(queue[p]) : Taken(p, <<p, i>>) = <<p, i - 1>>
      BY <1>3, Pairs DEF Taken
<1>8. ASSUME NEW m \in Msgs, NEW x, On(m, x)
      PROVE  /\ On(m, Taken(p, x))'
             /\ Behind(Taken(p, x))' = Behind(x)
             /\ ToCount(Taken(p, x))' <=> ToCount(x)
  <2>1. ASSUME x = <<"hand">>, hand = m
        PROVE  /\ On(m, Taken(p, x))'
               /\ Behind(Taken(p, x))' = Behind(x)
               /\ ToCount(Taken(p, x))' <=> ToCount(x)
        BY <1>1, <1>4, <2>1 DEF On, Behind, ToCount
  <2>2. ASSUME NEW q \in Pools, x = <<q, 0>>, item[q].m = m
        PROVE  /\ On(m, Taken(p, x))'
               /\ Behind(Taken(p, x))' = Behind(x)
               /\ ToCount(Taken(p, x))' <=> ToCount(x)
    <3>1. q # p /\ Taken(p, x) = x
          BY <1>3, <1>5, <2>2
    <3>2. item'[q] = item[q] /\ pc'[q] = pc[q]
          BY <1>1, <3>1
    <3> QED BY <2>2, <3>1, <3>2, Pairs DEF On, Behind, ToCount
  <2>3. ASSUME NEW q \in Pools \ {p}, NEW i \in 1 .. Len(queue[q]),
               x = <<q, i>>, queue[q][i].m = m
        PROVE  /\ On(m, Taken(p, x))'
               /\ Behind(Taken(p, x))' = Behind(x)
               /\ ToCount(Taken(p, x))' <=> ToCount(x)
    <3>1. Taken(p, x) = x /\ queue'[q] = queue[q] /\ i # 0
          BY <1>1, <1>3, <1>6, <2>3
    <3>2. On(m, x)'
          BY <2>3, <3>1 DEF On
    <3>3. Behind(x) = queue[q][i].stage - 1 /\ ~ToCount(x)
          BY <2>3, <3>1, Pairs DEF Behind, ToCount
    <3>4. Behind(x)' = queue'[q][i].stage - 1 /\ ~ToCount(x)'
          BY <2>3, <3>1, Pairs DEF Behind, ToCount
    <3> QED BY <3>1, <3>2, <3>3, <3>4
  <2>4. ASSUME NEW i \in 1 .. Len(queue[p]), x = <<p, i>>, queue[p][i].m = m
        PROVE  /\ On(m, Taken(p, x))'
               /\ Behind(Taken(p, x))' = Behind(x)
               /\ ToCount(Taken(p, x))' <=> ToCount(x)
    <3>1. Taken(p, x) = <<p, i - 1>> /\ i # 0
          BY <1>3, <1>7, <2>4
    <3>2. Behind(x) = queue[p][i].stage - 1 /\ ~ToCount(x)
          BY <2>4, <3>1, Pairs DEF Behind, ToCount
    <3>3. CASE i = 1
      <4>1. Taken(p, x) = <<p, 0>> /\ item'[p] = queue[p][i]
            BY <1>2, <3>1, <3>3
      <4>2. On(m, <<p, 0>>)'
            BY <2>4, <4>1 DEF On
      <4>3. Behind(<<p, 0>>)' = item'[p].stage - 1 /\ ~ToCount(<<p, 0>>)'
            BY <1>1, Pairs DEF Behind, ToCount
      <4> QED BY <3>2, <4>1, <4>2, <4>3
    <3>4. CASE i # 1
      <4>1. PICK j : j = i - 1
            OBVIOUS
      <4>2. i \in 2 .. Len(queue[p])
            BY <1>2, <3>4
      <4>3. j \in 1 .. Len(queue'[p]) /\ queue'[p][j] = queue[p][i] /\ j # 0
            BY <1>2, <4>1, <4>2
      <4>4. On(m, <<p, j>>)'
            BY <2>4, <4>3 DEF On
      <4>5. Behind(<<p, j>>)' = queue'[p][j].stage - 1 /\ ~ToCount(<<p, j>>)'
            BY <4>3, Pairs DEF Behind, ToCount
      <4> QED BY <3>1, <3>2, <4>1, <4>3, <4>4, <4>5
    <3> QED BY <3>3, <3>4
  <2> QED BY <1>8, <2>1, <2>2, <2>3, <2>4 DEF On
<1>9. ASSUME NEW m \in Msgs, NEW y, On(m, y)'
      PROVE  \E x : On(m, x) /\ y = Taken(p, x)
  <2>1. CASE y = <<"hand">> /\ hand' = m
        BY <1>1, <1>4, <2>1 DEF On
  <2>2. ASSUME NEW q \in Pools \ {p}, y = <<q, 0>>, item'[q].m = m
        PROVE  \E x : On(m, x) /\ y = Taken(p, x)
    <3>1. item[q] = item'[q] /\ Taken(p, y) = y
          BY <1>1, <1>5, <2>2
    <3> QED BY <2>2, <3>1 DEF On
  <2>3. ASSUME y = <<p, 0>>, item'[p].m = m
        PROVE  \E x : On(m, x) /\ y = Taken(p, x)
    <3>1. 1 \in 1 .. Len(queue[p]) /\ queue[p][1].m = m
          BY <1>2, <2>3
    <3>2. On(m, <<p, 1>>)
          BY <3>1 DEF On
    <3>3. Taken(p, <<p, 1>>) = <<p, 1 - 1>>
          BY <1>7, <3>1
    <3> QED BY <2>3, <3>2, <3>3
  <2>4. ASSUME NEW q \in Pools \ {p}, NEW i \in 1 .. Len(queue'[q]),
               y = <<q, i>>, queue'[q][i].m = m
        PROVE  \E x : On(m, x) /\ y = Taken(p, x)
    <3>1. queue[q] = queue'[q] /\ Taken(p, y) = y
          BY <1>1, <1>6, <2>4
    <3> QED BY <2>4, <3>1 DEF On
  <2>5. ASSUME NEW i \in 1 .. Len(queue'[p]), y = <<p, i>>, queue'[p][i].m = m
        PROVE  \E x : On(m, x) /\ y = Taken(p, x)
    <3>1. PICK j \in 1 .. Len(queue[p]) : j = i + 1
          BY <1>2
    <3>2. queue[p][j].m = m /\ j - 1 = i
      <4>1. queue'[p][i] = queue[p][j]
            BY <1>2, <3>1
      <4>2. i \in Int
            BY <1>2
      <4> QED BY <2>5, <3>1, <4>1, <4>2
    <3>3. On(m, <<p, j>>) /\ Taken(p, <<p, j>>) = <<p, j - 1>>
          BY <1>7, <3>2 DEF On
    <3> QED BY <2>5, <3>2, <3>3
  <2> QED BY <1>9, <2>1, <2>2, <2>3, <2>4, <2>5 DEF On
<1>10. ASSUME NEW m \in Msgs PROVE Kept(m)
  <2>1. Places(m) = {} => Places(m)' = {}
        BY <1>9, Where, WhereNext
  <2>2. ASSUME NEW x, Places(m) = {x}
        PROVE  \E y : /\ Places(m)' = {y}
                      /\ Behind(y)' = Behind(x)
                      /\ (ToCount(y)' <=> ToCount(x))
    <3>1. On(m, x) /\ \A z : On(m, z) => z = x
          BY <2>2, Where
    <3>2. PICK y : y = Taken(p, x)
          OBVIOUS
    <3>3. On(m, y)' /\ \A z : On(m, z)' => z = y
          BY <1>8, <1>9, <3>1, <3>2
    <3>4. Places(m)' = {y}
          BY <2>2, <3>3, MovesToOne
    <3> QED BY <1>8, <3>1, <3>2, <3>4
  <2> QED BY <2>1, <2>2 DEF Kept
<1> QED BY <1>10

(* The message is where it was, and nothing is done with it but counting.  *)
LEMMA StaysPut ==
  ASSUME NEW m, \A x : On(m, x)' <=> On(m, x), queue' = queue,
         \A p \in Pools : item[p].m = m =>
           /\ item'[p] = item[p]
           /\ pc'[p] = pc[p] \/ (pc[p] = "count" /\ pc'[p] = "store")
  PROVE  Kept(m)
<1>1. Places(m)' = Places(m)
      BY Where, WhereNext
<1>2. ASSUME NEW x, On(m, x)
      PROVE  Behind(x)' = Behind(x) /\ (ToCount(x)' <=> ToCount(x))
  <2>1. CASE x = <<"hand">>
        BY <2>1 DEF Behind, ToCount
  <2>2. ASSUME NEW p \in Pools, NEW i \in 1 .. Len(queue[p]), x = <<p, i>>
        PROVE  Behind(x)' = Behind(x) /\ (ToCount(x)' <=> ToCount(x))
    <3>1. x[1] = p /\ x[2] = i /\ x # <<"hand">> /\ i # 0
          BY <2>2, Pairs
    <3> QED BY <3>1 DEF Behind, ToCount
  <2>3. ASSUME NEW p \in Pools, x = <<p, 0>>, item[p].m = m
        PROVE  Behind(x)' = Behind(x) /\ (ToCount(x)' <=> ToCount(x))
    <3>1. x[1] = p /\ x[2] = 0 /\ x # <<"hand">>
          BY <2>3, Pairs
    <3>2. /\ pc'[p] = "work" <=> pc[p] = "work"
          /\ pc'[p] \in {"count", "store"} <=> pc[p] \in {"count", "store"}
          /\ item'[p] = item[p]
          BY <2>3
    <3> QED BY <3>1, <3>2 DEF Behind, ToCount
  <2> QED BY <1>2, <2>1, <2>2, <2>3 DEF On
<1> QED BY <1>1, <1>2, Where DEF Kept

(* What was taken along and answered no more is settled where it is now.   *)
LEMMA KeptIsPlaced ==
  ASSUME NEW m \in Msgs, Placed(m), Kept(m), replies'[m] = replies[m],
         UnderWay(m)' <=> UnderWay(m)
  PROVE  Placed(m)'
<1>1. CASE ~UnderWay(m)
      BY <1>1 DEF Placed, Kept
<1>2. CASE UnderWay(m)
  <2>1. PICK x : Places(m) = {x} /\ Settled(m, x)
        BY <1>2 DEF Placed
  <2>2. PICK y : /\ Places(m)' = {y}
                 /\ Behind(y)' = Behind(x)
                 /\ (ToCount(y)' <=> ToCount(x))
        BY <2>1 DEF Kept
  <2>3. Settled(m, y)'
        BY <2>1, <2>2 DEF Settled, AllOk
  <2> QED BY <1>2, <2>2, <2>3 DEF Placed
<1> QED BY <1>1, <1>2

-----------------------------------------------------------------------------
(* PlaceInv, step by step.                                                 *)

LEMMA PlaceInit == Init => PlaceInv
<1> SUFFICES ASSUME Init, NEW m \in Msgs PROVE Placed(m)
    BY DEF PlaceInv
<1>1. m \in Nat /\ m # 0 /\ ~UnderWay(m)
      BY Numbers DEF Init, UnderWay
<1>2. \A p \in Pools : Len(queue[p]) = 0 /\ item[p].m = 0
      BY DEF Init, NoItem
<1>3. \A p \in Pools : 1 .. Len(queue[p]) = {}
      BY <1>2
<1>4. \A x : ~On(m, x)
      BY <1>1, <1>2, <1>3 DEF On, Init
<1> QED BY <1>1, <1>4, Where DEF Placed

(* The step of each action but StageEnd leaves the replies alone.          *)
LEMMA PollMessagePlaced ==
  ASSUME IInv, PollMessage
  PROVE  PlaceInv'
<1>1. /\ hand = 0 /\ hand' = received + 1 /\ received' = received + 1
      /\ received \in Nat /\ ended' = ended /\ ended \subseteq 1 .. received
      /\ UNCHANGED <<queue, item, pc, replies>>
      BY DEF PollMessage, Receive, IInv, DataInv, TypeOK, workVars, doneVars
<1>2. ASSUME NEW m \in Msgs, m # received + 1
      PROVE  Placed(m)'
  <2>1. m # 0 /\ m \in Nat
        BY Numbers
  <2>2. \A x : On(m, x)' <=> On(m, x)
        BY <1>1, <1>2, <2>1 DEF On
  <2>3. Kept(m)
        BY <1>1, <2>2, StaysPut
  <2>4. UnderWay(m)' <=> UnderWay(m)
        BY <1>1, <1>2, <2>1 DEF UnderWay
  <2> QED BY <1>1, <2>3, <2>4, KeptIsPlaced DEF IInv, PlaceInv
<1>3. ASSUME NEW m \in Msgs, m = received + 1
      PROVE  Placed(m)'
  <2>1. ~UnderWay(m) /\ UnderWay(m)' /\ replies[m] = <<>>
        BY <1>1, <1>3 DEF UnderWay, IInv, ToldInv, Told
  <2>2. \A x : ~On(m, x)
        BY <2>1, Where DEF IInv, PlaceInv, Placed
  <2>3. \A x : On(m, x)' <=> x = <<"hand">>
        BY <1>1, <1>3, <2>2 DEF On
  <2>4. Places(m)' = {<<"hand">>}
        BY <2>3, WhereNext
  <2>5. Settled(m, <<"hand">>)'
    <3>1. Len(<<>>) = 0 /\ AllOk(<<>>)
          BY DEF AllOk
    <3> QED BY <1>1, <2>1, <3>1 DEF Settled, Behind, ToCount
  <2> QED BY <2>1, <2>4, <2>5 DEF Placed
<1> QED BY <1>2, <1>3 DEF PlaceInv

LEMMA PollUnparsedPlaced ==
  ASSUME IInv, PollUnparsed
  PROVE  PlaceInv'
<1>1. /\ received' = received + 1 /\ received \in Nat
      /\ ended' = ended \cup {received + 1}
      /\ UNCHANGED <<hand, queue, item, pc, replies>>
      BY DEF PollUnparsed, Receive, IInv, DataInv, TypeOK, workVars
<1>2. ASSUME NEW m \in Msgs PROVE Placed(m)'
  <2>1. m \in Nat
        BY Numbers
  <2>2. \A x : On(m, x)' <=> On(m, x)
        BY <1>1 DEF On
  <2>3. Kept(m)
        BY <1>1, <2>2, StaysPut
  <2>4. UnderWay(m)' <=> UnderWay(m)
        BY <1>1, <2>1 DEF UnderWay
  <2> QED BY <1>1, <2>3, <2>4, KeptIsPlaced DEF IInv, PlaceInv
<1> QED BY <1>2 DEF PlaceInv

LEMMA PollEnqueuePlaced ==
  ASSUME IInv, PollEnqueue
  PROVE  PlaceInv'
<1>1. PICK it : it = [m |-> hand, stage |-> 1]
      OBVIOUS
<1>2. /\ hand \in Msgs /\ hand' = 0
      /\ queue' = [queue EXCEPT !["down"] = <<it>> \o @]
      /\ UNCHANGED <<item, pc, replies, received, ended>>
      BY <1>1 DEF PollEnqueue, Enqueue, IInv, DataInv, TypeOK, workVars,
         doneVars
<1>3. it \in Items /\ it.m = hand /\ it.stage = 1
      BY <1>1, <1>2 DEF Items
<1>4. On(it.m, <<"hand">>) /\ Behind(<<"hand">>) = 0 /\ ~ToCount(<<"hand">>)
      BY <1>3 DEF On, Behind, ToCount
<1>5. \A m \in Msgs : Kept(m)
  <2>1. it.stage = Behind(<<"hand">>) + 1
        BY <1>3, <1>4
  <2> QED BY <1>2, <1>3, <1>4, <2>1, PoolNames, PushMoves DEF IInv
<1> QED BY <1>2, <1>5, KeptIsPlaced DEF IInv, PlaceInv, UnderWay

LEMMA TakePlaced ==
  ASSUME IInv, NEW p \in Pools, Take(p)
  PROVE  PlaceInv'
<1>1. \A m \in Msgs : Kept(m)
      BY TakeMoves DEF IInv
<1>2. UNCHANGED <<replies, received, ended>>
      BY DEF Take, mainVars, doneVars
<1> QED BY <1>1, <1>2, KeptIsPlaced DEF IInv, PlaceInv, UnderWay

LEMMA NextStagePlaced ==
  ASSUME IInv, NEW p \in Pools, NextStage(p)
  PROVE  PlaceInv'
<1>1. PICK it : it = [item[p] EXCEPT !.stage = @ + 1]
      OBVIOUS
<1>2. /\ item[p] \in Items /\ item[p].stage < 3 /\ pc[p] = "enqueue"
      /\ queue' = [queue EXCEPT !["testbed"] = <<it>> \o @]
      /\ item' = [item EXCEPT ![p] = NoItem]
      /\ pc' = [pc EXCEPT ![p] = "take"]
      /\ UNCHANGED <<hand, replies, received, ended>>
      BY <1>1, WorkerHolds DEF NextStage, Enqueue, IInv, DataInv, mainVars,
         doneVars
<1>3. it \in Items /\ it.m = item[p].m /\ it.stage = item[p].stage + 1
      BY <1>1, <1>2 DEF Items
<1>4. /\ On(it.m, <<p, 0>>)
      /\ Behind(<<p, 0>>) = item[p].stage
      /\ ~ToCount(<<p, 0>>)
      BY <1>2, <1>3, Pairs DEF On, Behind, ToCount
<1>5. \A m \in Msgs : Kept(m)
  <2>1. it.stage = Behind(<<p, 0>>) + 1
        BY <1>3, <1>4
  <2>2. "testbed" \in Pools
        BY PoolNames
  <2> QED BY <1>2, <1>3, <1>4, <2>1, <2>2, PushMoves DEF IInv
<1> QED BY <1>2, <1>5, KeptIsPlaced DEF IInv, PlaceInv, UnderWay
LEMMA QuietPlaced ==
  ASSUME IInv, RunBegin \/ Terminate \/ RunEnd \/ (\E p \in Pools : CountLoad(p))
  PROVE  PlaceInv'
<1>1. UNCHANGED <<hand, queue, item, replies, received, ended>>
      BY DEF RunBegin, Terminate, RunEnd, CountLoad, mainVars, workVars,
         doneVars
<1>2. \A q \in Pools : pc'[q] = pc[q] \/ (pc[q] = "count" /\ pc'[q] = "store")
      BY DEF RunBegin, Terminate, RunEnd, CountLoad, workVars, IInv, DataInv,
         TypeOK
<1>3. ASSUME NEW m \in Msgs PROVE Kept(m)
  <2>1. \A x : On(m, x)' <=> On(m, x)
        BY <1>1 DEF On
  <2> QED BY <1>1, <1>2, <2>1, StaysPut
<1> QED BY <1>1, <1>3, KeptIsPlaced DEF IInv, PlaceInv, UnderWay

(* One reply more, for one stage more.                                     *)
LEMMA StageEndPlaced ==
  ASSUME IInv, NEW p \in Pools, NEW result \in {"ok", "fail"},
         StageEnd(p, result)
  PROVE  PlaceInv'
<1>1. /\ item[p] \in Items /\ pc[p] = "work" /\ item' = item /\ hand' = hand
      /\ UNCHANGED <<queue, received, ended>>
      /\ pc' = [pc EXCEPT ![p] = AfterStage(item[p].stage, result)]
      /\ replies' = [replies EXCEPT ![item[p].m] = Append(@, result)]
      BY WorkerHolds DEF StageEnd, IInv, DataInv, mainVars, doneVars
<1>2. PICK n \in Msgs : n = item[p].m
      BY <1>1, ItemParts
<1>3. \A m : \A x : On(m, x)' <=> On(m, x)
      BY <1>1 DEF On
<1>4. ASSUME NEW m \in Msgs, m # n PROVE Placed(m)'
  <2>1. \A q \in Pools : item[q].m = m => pc'[q] = pc[q]
        BY <1>1, <1>2, <1>4 DEF IInv, DataInv, TypeOK
  <2>2. replies'[m] = replies[m]
        BY <1>1, <1>2, <1>4 DEF IInv, DataInv, TypeOK
  <2>3. Kept(m)
        BY <1>1, <1>3, <2>1, StaysPut
  <2> QED BY <1>1, <2>2, <2>3, KeptIsPlaced DEF IInv, PlaceInv, UnderWay
<1>5. Placed(n)'
  <2>1. On(n, <<p, 0>>)
        BY <1>2 DEF On
  <2>2. Places(n) = {<<p, 0>>} /\ Settled(n, <<p, 0>>) /\ UnderWay(n)
        BY <2>1, Where DEF IInv, PlaceInv, Placed
  <2>3. Places(n)' = {<<p, 0>>} /\ UnderWay(n)'
    <3>1. On(n, <<p, 0>>)' /\ \A z : On(n, z)' => z = <<p, 0>>
          BY <1>3, <2>1, <2>2, Where
    <3> QED BY <1>1, <2>2, <3>1, MovesToOne DEF UnderWay
  <2>4. /\ replies[n] \in Seq({"ok", "fail"})
        /\ replies'[n] = Append(replies[n], result)
        BY <1>1, <1>2 DEF IInv, DataInv, TypeOK
  <2>5. /\ Len(replies'[n]) = Len(replies[n]) + 1 /\ Len(replies[n]) \in Nat
        /\ \A i \in 1 .. Len(replies[n]) : replies'[n][i] = replies[n][i]
        /\ replies'[n][Len(replies[n]) + 1] = result
        BY <2>4, AppendProperties, LenProperties
  <2>6. AllOk(replies[n]) /\ Len(replies[n]) = item[p].stage - 1
        BY <1>1, <2>2, Pairs DEF Settled, Behind, ToCount
  <2>7. Behind(<<p, 0>>)' = item[p].stage /\ item[p].stage \in 1 .. 3
    <3>1. pc'[p] = AfterStage(item[p].stage, result)
          BY <1>1 DEF IInv, DataInv, TypeOK
    <3>2. pc'[p] # "work"
          BY <3>1 DEF AfterStage
    <3>3. item'[p].stage = item[p].stage /\ item[p].stage \in 1 .. 3
          BY <1>1, ItemParts
    <3> QED BY <3>2, <3>3, Pairs DEF Behind
  <2>8. Len(replies'[n]) = item[p].stage
        BY <2>5, <2>6, <2>7
  <2>9. result = "ok" => AllOk(replies'[n])
    <3>1. \A i \in 1 .. Len(replies[n]) + 1 :
            i \in 1 .. Len(replies[n]) \/ i = Len(replies[n]) + 1
          BY <2>5
    <3> QED BY <2>5, <2>6, <3>1 DEF AllOk
  <2>10. result # "ok" => ~AllOk(replies'[n])
    <3>1. Len(replies[n]) + 1 \in 1 .. Len(replies'[n])
          BY <2>5
    <3> QED BY <2>5, <3>1 DEF AllOk
  <2>11. ToCount(<<p, 0>>)' <=> (result # "ok" \/ item[p].stage = 3)
    <3>1. pc'[p] = AfterStage(item[p].stage, result)
          BY <1>1 DEF IInv, DataInv, TypeOK
    <3>2. Stages[item[p].stage] = "upload" <=> item[p].stage = 3
          BY <2>7 DEF Stages
    <3>3. pc'[p] \in {"count", "store"} <=> (result # "ok" \/ item[p].stage = 3)
          BY <3>1, <3>2 DEF AfterStage
    <3> QED BY <3>3, Pairs DEF ToCount
  <2>12. Settled(n, <<p, 0>>)'
        BY <2>7, <2>8, <2>9, <2>10, <2>11 DEF Settled, AllOk
  <2> QED BY <2>3, <2>12 DEF Placed
<1> QED BY <1>4, <1>5 DEF PlaceInv

(* The message is nowhere any more.                                        *)
LEMMA CountStorePlaced ==
  ASSUME IInv, NEW p \in Pools, CountStore(p)
  PROVE  PlaceInv'
<1>1. /\ item[p] \in Items /\ pc[p] = "store" /\ hand' = hand
      /\ UNCHANGED <<queue, received, replies>>
      /\ item' = [item EXCEPT ![p] = NoItem]
      /\ pc' = [pc EXCEPT ![p] = "take"]
      /\ ended' = ended \cup {item[p].m}
      BY WorkerHolds DEF CountStore, IInv, DataInv, mainVars
<1>2. PICK n \in Msgs : n = item[p].m
      BY <1>1, ItemParts
<1>3. /\ item'[p] = NoItem
      /\ \A q \in Pools \ {p} : item'[q] = item[q] /\ pc'[q] = pc[q]
      BY <1>1 DEF IInv, DataInv, TypeOK
<1>4. On(n, <<p, 0>>)
      BY <1>2 DEF On
<1>5. \A x : On(n, x) => x = <<p, 0>>
      BY <1>4, Where DEF IInv, PlaceInv, Placed
<1>6. ASSUME NEW m \in Msgs, m # n PROVE Placed(m)'
  <2>1. \A q \in Pools : item[q].m = m \/ item'[q].m = m => q # p
        BY <1>2, <1>3, <1>6, ItemParts, Numbers
  <2>2. \A x : On(m, x)' <=> On(m, x)
        BY <1>1, <1>3, <2>1 DEF On
  <2>3. Kept(m)
        BY <1>1, <1>3, <2>1, <2>2, StaysPut
  <2>4. UnderWay(m)' <=> UnderWay(m)
        BY <1>1, <1>2, <1>6 DEF UnderWay
  <2> QED BY <1>1, <2>3, <2>4, KeptIsPlaced DEF IInv, PlaceInv
<1>7. Placed(n)'
  <2>1. ~UnderWay(n)'
        BY <1>1, <1>2 DEF UnderWay
  <2>2. ASSUME NEW x, On(n, x)' PROVE FALSE
    <3>1. \A q \in Pools : item'[q].m = n => q # p
          BY <1>2, <1>3, ItemParts, Numbers
    <3>2. On(n, x) /\ (\A i : x = <<p, i>> => i # 0)
      <4>1. CASE x = <<"hand">> /\ hand = n
            BY <4>1, Pairs DEF On
      <4>2. ASSUME NEW q \in Pools, NEW i \in 1 .. Len(queue[q]),
                   x = <<q, i>>, queue[q][i].m = n
            PROVE  On(n, x) /\ (\A j : x = <<p, j>> => j # 0)
            BY <4>2, Pairs DEF On
      <4>3. ASSUME NEW q \in Pools, x = <<q, 0>>, item'[q].m = n
            PROVE  On(n, x) /\ (\A j : x = <<p, j>> => j # 0)
            BY <1>3, <3>1, <4>3, Pairs DEF On
      <4> QED BY <1>1, <2>2, <4>1, <4>2, <4>3 DEF On
    <3> QED BY <1>5, <3>2
  <2> QED BY <2>1, <2>2, WhereNext DEF Placed
<1> QED BY <1>6, <1>7 DEF PlaceInv

LEMMA PlaceStep == IInv /\ [Next]_vars => PlaceInv'
<1> SUFFICES ASSUME IInv, [Next]_vars PROVE PlaceInv'
    OBVIOUS
<1>1. CASE UNCHANGED vars
  <2>1. UNCHANGED <<hand, queue, item, pc, replies, received, ended>>
        BY <1>1 DEF vars, mainVars, workVars, doneVars
  <2>2. \A m \in Msgs : Kept(m)
    <3>1. \A m : \A x : On(m, x)' <=> On(m, x)
          BY <2>1 DEF On
    <3> QED BY <2>1, <3>1, StaysPut
  <2> QED BY <2>1, <2>2, KeptIsPlaced DEF IInv, PlaceInv, UnderWay
<1>2. CASE Next
      BY <1>2, PollMessagePlaced, PollUnparsedPlaced, PollEnqueuePlaced,
         TakePlaced, NextStagePlaced, QuietPlaced, StageEndPlaced,
         CountStorePlaced DEF Next, WorkerStep
<1> QED BY <1>1, <1>2

-----------------------------------------------------------------------------
(* ToldInv.                                                                *)

LEMMA ToldInit == Init => ToldInv
<1> SUFFICES ASSUME Init, NEW m \in Msgs PROVE Told(m)
    BY DEF ToldInv
<1>1. replies[m] = <<>> /\ Len(<<>>) = 0 /\ ended = {}
      BY DEF Init
<1>2. 1 .. 0 - 1 = {}
      OBVIOUS
<1> QED BY <1>1, <1>2 DEF Told

(* Messages came, were moved or ended; those that ended were not answered, *)
(* or were with a worker that had only to count them.                      *)
LEMMA UnansweredTold ==
  ASSUME ToldInv, replies' = replies, NEW m \in Msgs,
         m > received' => m > received,
         m \in ended' => \/ m \in ended \/ replies[m] = <<>>
                         \/ Len(replies[m]) = 3 \/ ~AllOk(replies[m])
  PROVE  Told(m)'
BY DEF ToldInv, Told, AllOk

LEMMA ToldStep == IInv /\ [Next]_vars => ToldInv'
<1> SUFFICES ASSUME IInv, [Next]_vars, NEW m \in Msgs PROVE Told(m)'
    BY DEF ToldInv
<1>1. received \in Nat /\ m \in Nat /\ ToldInv
      BY Numbers DEF IInv, DataInv, TypeOK
<1>2. CASE UNCHANGED <<received, ended, replies>>
      BY <1>1, <1>2, UnansweredTold
<1>3. CASE PollMessage
      BY <1>1, <1>3, UnansweredTold DEF PollMessage, Receive, doneVars
<1>4. CASE PollUnparsed
  <2>1. /\ received' = received + 1 /\ ended' = ended \cup {received + 1}
        /\ replies' = replies
        BY <1>4 DEF PollUnparsed, Receive
  <2>2. m = received + 1 => replies[m] = <<>>
        BY <1>1 DEF ToldInv, Told
  <2> QED BY <1>1, <2>1, <2>2, UnansweredTold
<1>5. ASSUME NEW p \in Pools, NEW result \in {"ok", "fail"},
             StageEnd(p, result)
      PROVE  Told(m)'
  <2>1. /\ item[p] \in Items /\ pc[p] = "work"
        /\ UNCHANGED <<received, ended>>
        /\ replies' = [replies EXCEPT ![item[p].m] = Append(@, result)]
        BY <1>5, WorkerHolds DEF StageEnd, IInv, DataInv, mainVars, doneVars
  <2>2. CASE m # item[p].m
    <3>1. replies'[m] = replies[m]
          BY <2>1, <2>2 DEF IInv, DataInv, TypeOK
    <3> QED BY <1>1, <2>1, <3>1 DEF ToldInv, Told, AllOk
  <2>3. CASE m = item[p].m
    <3>1. On(m, <<p, 0>>)
          BY <2>3 DEF On
    <3>2. UnderWay(m) /\ Settled(m, <<p, 0>>)
          BY <3>1, Where DEF IInv, PlaceInv, Placed
    <3>3. AllOk(replies[m])
          BY <2>1, <3>2, Pairs DEF Settled, ToCount
    <3>4. /\ replies[m] \in Seq({"ok", "fail"})
          /\ replies'[m] = Append(replies[m], result)
          BY <2>1, <2>3 DEF IInv, DataInv, TypeOK
    <3>5. /\ Len(replies'[m]) = Len(replies[m]) + 1 /\ Len(replies[m]) \in Nat
          /\ \A i \in 1 .. Len(replies[m]) : replies'[m][i] = replies[m][i]
          BY <3>4, AppendProperties, LenProperties
    <3>6. \A i \in 1 .. Len(replies'[m]) - 1 : replies'[m][i] = "ok"
          BY <3>3, <3>5 DEF AllOk
    <3>7. m <= received' /\ m \notin ended'
          BY <2>1, <3>2 DEF UnderWay
    <3> QED BY <1>1, <2>1, <3>6, <3>7 DEF Told
  <2> QED BY <2>2, <2>3
<1>6. ASSUME NEW p \in Pools, CountStore(p) PROVE Told(m)'
  <2>1. /\ pc[p] = "store" /\ UNCHANGED <<received, replies>>
        /\ ended' = ended \cup {item[p].m}
        BY <1>6 DEF CountStore, mainVars
  <2>2. ASSUME m = item[p].m
        PROVE  Len(replies[m]) = 3 \/ ~AllOk(replies[m])
    <3>1. On(m, <<p, 0>>)
          BY <2>2 DEF On
    <3>2. Settled(m, <<p, 0>>)
          BY <3>1, Where DEF IInv, PlaceInv, Placed
    <3> QED BY <2>1, <3>2, Pairs DEF Settled, ToCount
  <2> QED BY <1>1, <2>1, <2>2, UnansweredTold
<1>7. CASE RunBegin \/ Terminate \/ RunEnd \/ PollEnqueue
      BY <1>2, <1>7 DEF RunBegin, Terminate, RunEnd, PollEnqueue, doneVars
<1>8. CASE \E p \in Pools : Take(p) \/ NextStage(p) \/ CountLoad(p)
      BY <1>2, <1>8 DEF Take, NextStage, CountLoad, mainVars, doneVars
<1>9. CASE UNCHANGED vars
      BY <1>2, <1>9 DEF vars, mainVars, doneVars
<1> QED BY <1>3, <1>4, <1>5, <1>6, <1>7, <1>8, <1>9 DEF Next, WorkerStep

-----------------------------------------------------------------------------
(* DataInv.                                                                *)

LEMMA DataInit == Init => DataInv
<1> SUFFICES ASSUME Init PROVE DataInv
    OBVIOUS
<1>1. 0 \in 0 .. MaxRuns /\ 0 \in 0 .. metrial_number
      BY RunsAssumption
<1>2. 0 \in 0 .. Cardinality(Msgs) /\ Cardinality({}) = 0
      BY Numbers, FS_EmptySet
<1>3. <<>> \in Seq(Items) /\ Len(<<>>) = 0 /\ <<>> \in Seq({"ok", "fail"})
      OBVIOUS
<1>4. to_task_terminate_ = FALSE /\ to_task_terminate_ \in BOOLEAN
      BY DEF Init
<1>5. \A p \in Pools : queue[p] = <<>> /\ Len(queue[p]) <= Limit(p)
      BY <1>3, PoolNames DEF Init
<1>6. TypeOK
      BY <1>1, <1>2, <1>3, <1>4, <1>5 DEF Init, TypeOK, WorkerPcs
<1> QED BY <1>2, <1>3, <1>6 DEF Init, DataInv

(* The parts of DataInv that speak of the poll loop, of the lists and      *)
(* workers, and of what is counted.                                        *)
LoopOK ==
  /\ run \in 0 .. MaxRuns
  /\ mainPc \in {"idle", "poll", "enqueue"}
  /\ remain_num_ \in 0 .. metrial_number
  /\ to_task_terminate_ \in BOOLEAN
  /\ hand \in Msgs \cup {0}
  /\ hand # 0 <=> mainPc = "enqueue"
  /\ received \in 0 .. Cardinality(Msgs)

ListsOK ==
  /\ queue \in [Pools -> Seq(Items)]
  /\ \A p \in Pools : Len(queue[p]) <= Limit(p)
  /\ pc \in [Pools -> WorkerPcs]
  /\ item \in [Pools -> Items \cup {NoItem}]
  /\ \A p \in Pools : item[p] \in IF pc[p] = "take" THEN {NoItem} ELSE Items
  /\ \A p \in Pools : pc[p] = "enqueue" => item[p].stage < 3

CountsOK ==
  /\ seen \in [Pools -> 0 .. received]
  /\ g_task_end \in 0 .. received
  /\ ended \subseteq 1 .. received
  /\ cleaned = {}
  /\ g_task_end <= Cardinality(ended)
  /\ \A p \in Pools : seen[p] <= Cardinality(ended)

RepliesOK == replies \in [Msgs -> Seq({"ok", "fail"})]

LEMMA DataParts ==
  /\ DataInv <=> LoopOK /\ ListsOK /\ CountsOK /\ RepliesOK
  /\ DataInv' <=> LoopOK' /\ ListsOK' /\ CountsOK' /\ RepliesOK'
<1>1. {} \subseteq 1 .. MaxRuns
      OBVIOUS
<1>2. DataInv <=> LoopOK /\ ListsOK /\ CountsOK /\ RepliesOK
      BY <1>1 DEF DataInv, TypeOK, LoopOK, ListsOK, CountsOK, RepliesOK
<1>3. DataInv' <=> LoopOK' /\ ListsOK' /\ CountsOK' /\ RepliesOK'
      BY <1>1 DEF DataInv, TypeOK, LoopOK, ListsOK, CountsOK, RepliesOK
<1> QED BY <1>2, <1>3

LEMMA LoopStep == DataInv /\ [Next]_vars => LoopOK'
<1> SUFFICES ASSUME DataInv, [Next]_vars PROVE LoopOK'
    OBVIOUS
<1>1. LoopOK
      BY DataParts
<1>2. CASE UNCHANGED mainVars
      BY <1>1, <1>2 DEF LoopOK, mainVars
<1>3. CASE RunBegin
  <2>1. run + 1 \in 0 .. MaxRuns /\ metrial_number \in 0 .. metrial_number
        BY <1>1, <1>3, RunsAssumption DEF RunBegin, LoopOK
  <2>2. to_task_terminate_' = FALSE /\ to_task_terminate_' \in BOOLEAN
        BY <1>3 DEF RunBegin
  <2> QED BY <1>1, <1>3, <2>1, <2>2 DEF RunBegin, LoopOK
<1>4. CASE Terminate
  <2>1. to_task_terminate_' = TRUE /\ to_task_terminate_' \in BOOLEAN
        BY <1>4 DEF Terminate
  <2> QED BY <1>1, <1>4, <2>1 DEF Terminate, LoopOK
<1>5. ASSUME Receive
      PROVE  /\ received' = received + 1 /\ received + 1 \in Msgs
             /\ received + 1 # 0
             /\ received' \in 0 .. Cardinality(Msgs)
             /\ remain_num_' \in 0 .. metrial_number
  <2>1. /\ received' = received + 1 /\ received < Cardinality(Msgs)
        /\ remain_num_' = remain_num_ - 1 /\ remain_num_ >= 1
        BY <1>5 DEF Receive, GoesOn
  <2>2. /\ Cardinality(Msgs) \in Nat /\ received \in 0 .. Cardinality(Msgs)
        /\ Msgs = 1 .. Cardinality(Msgs)
        BY <1>1, Numbers DEF LoopOK
  <2>3. received + 1 \in 1 .. Cardinality(Msgs) /\ received + 1 # 0
        BY <2>1, <2>2
  <2>4. remain_num_' \in 0 .. metrial_number
        BY <1>1, <2>1, RunsAssumption DEF LoopOK
  <2> QED BY <2>1, <2>2, <2>3, <2>4
<1>6. CASE PollMessage
      BY <1>1, <1>5, <1>6 DEF PollMessage, LoopOK
<1>7. CASE PollUnparsed
  <2>1. Receive /\ UNCHANGED <<run, mainPc, to_task_terminate_, hand>>
        BY <1>7 DEF PollUnparsed
  <2> QED BY <1>1, <1>5, <2>1 DEF LoopOK
<1>8. CASE PollEnqueue \/ RunEnd
      BY <1>1, <1>8 DEF PollEnqueue, RunEnd, LoopOK
<1>9. ASSUME NEW p \in Pools, WorkerStep(p) PROVE UNCHANGED mainVars
      BY <1>9 DEF WorkerStep, Take, StageEnd, NextStage, CountLoad, CountStore
<1> QED BY <1>2, <1>3, <1>4, <1>6, <1>7, <1>8, <1>9 DEF Next, vars

(* A list keeps its type and its limit when a task is put in front.        *)
LEMMA EnqueueLists ==
  ASSUME ListsOK, NEW p \in Pools, NEW it \in Items, Enqueue(p, it)
  PROVE  /\ queue' \in [Pools -> Seq(Items)]
         /\ \A q \in Pools : Len(queue'[q]) <= Limit(q)
<1>1. /\ queue[p] \in Seq(Items) /\ Len(queue[p]) < Limit(p)
      /\ queue'[p] = <<it>> \o queue[p]
      /\ queue' = [queue EXCEPT ![p] = <<it>> \o queue[p]]
      BY DEF Enqueue, ListsOK
<1>2. queue'[p] \in Seq(Items) /\ Len(queue'[p]) = Len(queue[p]) + 1
      BY <1>1, PutInFront
<1>3. Len(queue'[p]) <= Limit(p)
      BY <1>1, <1>2, PoolNames, LenProperties
<1>4. \A q \in Pools \ {p} : queue'[q] = queue[q]
      BY <1>1 DEF ListsOK
<1> QED BY <1>1, <1>2, <1>3, <1>4 DEF ListsOK

LEMMA ListsStep == DataInv /\ [Next]_vars => ListsOK'
<1> SUFFICES ASSUME DataInv, [Next]_vars PROVE ListsOK'
    OBVIOUS
<1>1. ListsOK /\ LoopOK
      BY DataParts
<1>2. CASE UNCHANGED <<queue, pc, item>>
      BY <1>1, <1>2 DEF ListsOK
<1>3. CASE PollEnqueue
  <2>1. PICK it : it = [m |-> hand, stage |-> 1]
        OBVIOUS
  <2>2. it \in Items /\ Enqueue("down", it) /\ UNCHANGED <<pc, item>>
        BY <1>1, <1>3, <2>1 DEF PollEnqueue, LoopOK, Items, workVars
  <2> QED BY <1>1, <2>2, EnqueueLists, PoolNames DEF ListsOK
<1>4. ASSUME NEW p \in Pools, Take(p) PROVE ListsOK'
  <2>1. /\ queue[p] \in Seq(Items) /\ queue[p] # <<>>
        /\ queue' = [queue EXCEPT ![p] = Tail(queue[p])]
        /\ item' = [item EXCEPT ![p] = Head(queue[p])]
        /\ pc' = [pc EXCEPT ![p] = "work"]
        BY <1>1, <1>4 DEF Take, ListsOK
  <2>2. PICK r : r = Tail(queue[p])
        OBVIOUS
  <2>3. /\ r \in Seq(Items) /\ Len(r) = Len(queue[p]) - 1
        /\ Len(queue[p]) \in Nat \ {0} /\ Head(queue[p]) \in Items
        BY <2>1, <2>2, TakeFromFront
  <2>4. Len(r) <= Limit(p)
        BY <1>1, <2>3, PoolNames DEF ListsOK
  <2>5. /\ queue' \in [Pools -> Seq(Items)]
        /\ \A q \in Pools : Len(queue'[q]) <= Limit(q)
        BY <1>1, <2>1, <2>2, <2>3, <2>4 DEF ListsOK
  <2> QED BY <1>1, <2>1, <2>3, <2>5 DEF ListsOK, WorkerPcs
<1>5. ASSUME NEW p \in Pools, NEW result \in {"ok", "fail"},
             StageEnd(p, result)
      PROVE  ListsOK'
  <2>1. /\ pc[p] = "work" /\ UNCHANGED <<queue, item>>
        /\ pc' = [pc EXCEPT ![p] = AfterStage(item[p].stage, result)]
        BY <1>5 DEF StageEnd
  <2>2. item[p] \in Items /\ item[p].stage \in 1 .. 3
        BY <1>1, <2>1, ItemParts DEF ListsOK
  <2>3. PICK new : new = AfterStage(item[p].stage, result)
        OBVIOUS
  <2>4. new \in {"enqueue", "count"} /\ (new = "enqueue" => item[p].stage < 3)
        BY <2>2, <2>3 DEF AfterStage, Stages
  <2> QED BY <1>1, <2>1, <2>2, <2>3, <2>4 DEF ListsOK, WorkerPcs
<1>6. ASSUME NEW p \in Pools, NextStage(p) PROVE ListsOK'
  <2>1. PICK it : it = [item[p] EXCEPT !.stage = @ + 1]
        OBVIOUS
  <2>2. /\ pc[p] = "enqueue" /\ Enqueue("testbed", it)
        /\ pc' = [pc EXCEPT ![p] = "take"]
        /\ item' = [item EXCEPT ![p] = NoItem]
        BY <1>6, <2>1 DEF NextStage
  <2>3. it \in Items
    <3>1. item[p] \in Items /\ item[p].stage < 3
          BY <1>1, <2>2 DEF ListsOK
    <3> QED BY <2>1, <3>1 DEF Items
  <2>4. /\ queue' \in [Pools -> Seq(Items)]
        /\ \A q \in Pools : Len(queue'[q]) <= Limit(q)
    <3>1. "testbed" \in Pools
          BY PoolNames
    <3> QED BY <1>1, <2>2, <2>3, <3>1, EnqueueLists
  <2> QED BY <1>1, <2>2, <2>4 DEF ListsOK, WorkerPcs
<1>7. ASSUME NEW p \in Pools, CountLoad(p) \/ CountStore(p) PROVE ListsOK'
      BY <1>1, <1>7 DEF CountLoad, CountStore, ListsOK, WorkerPcs
<1>8. CASE RunBegin \/ Terminate \/ PollMessage \/ PollUnparsed \/ RunEnd
           \/ UNCHANGED vars
      BY <1>2, <1>8 DEF RunBegin, Terminate, PollMessage, PollUnparsed,
         RunEnd, vars, workVars
<1> QED BY <1>3, <1>4, <1>5, <1>6, <1>7, <1>8 DEF Next, WorkerStep

(* More was counted, or is polled, or nothing.                             *)
LEMMA CountsGrow ==
  ASSUME CountsOK, received \in Nat, UNCHANGED <<seen, g_task_end, cleaned>>,
         received' \in {received, received + 1},
         \/ ended' = ended
         \/ received' = received + 1 /\ ended' = ended \cup {received + 1}
  PROVE  CountsOK'
<1>1. IsFiniteSet(ended) /\ Cardinality(ended) \in Nat
  <2>1. IsFiniteSet(1 .. received)
        BY FS_Interval
  <2> QED BY <2>1, FS_Subset, FS_CardinalityType DEF CountsOK
<1>2. Cardinality(ended') \in Nat /\ Cardinality(ended) <= Cardinality(ended')
      BY <1>1, FS_AddElement
<1>3. 0 .. received \subseteq 0 .. received' /\ ended' \subseteq 1 .. received'
  <2>1. received' \in Nat /\ received <= received'
        OBVIOUS
  <2>2. /\ 0 .. received \subseteq 0 .. received'
        /\ 1 .. received \subseteq 1 .. received'
        BY <2>1
  <2>3. received' = received + 1 => received + 1 \in 1 .. received'
        OBVIOUS
  <2> QED BY <2>2, <2>3 DEF CountsOK
<1>4. g_task_end \in Nat /\ \A p \in Pools : seen[p] \in Nat
      BY DEF CountsOK
<1>5. g_task_end <= Cardinality(ended')
      BY <1>1, <1>2, <1>4 DEF CountsOK
<1>6. \A p \in Pools : seen[p] <= Cardinality(ended')
      BY <1>1, <1>2, <1>4 DEF CountsOK
<1>7. seen' \in [Pools -> 0 .. received'] /\ g_task_end' \in 0 .. received'
      BY <1>3 DEF CountsOK
<1> QED BY <1>3, <1>5, <1>6, <1>7 DEF CountsOK

LEMMA CountsStep == DataInv /\ PlaceInv /\ [Next]_vars => CountsOK'
<1> SUFFICES ASSUME DataInv, PlaceInv, [Next]_vars PROVE CountsOK'
    OBVIOUS
<1>1. CountsOK /\ received \in Nat
  <2>1. received \in 0 .. Cardinality(Msgs) /\ CountsOK
        BY DataParts DEF LoopOK
  <2> QED BY <2>1
<1>2. CASE UNCHANGED <<received, seen, doneVars>>
      BY <1>1, <1>2, CountsGrow DEF doneVars
<1>3. CASE PollMessage \/ PollUnparsed
      BY <1>1, <1>3, CountsGrow
         DEF PollMessage, PollUnparsed, Receive, workVars, doneVars
<1>4. ASSUME NEW p \in Pools, CountLoad(p) PROVE CountsOK'
  <2>1. /\ seen' = [seen EXCEPT ![p] = g_task_end]
        /\ UNCHANGED <<received, g_task_end, ended, cleaned>>
        BY <1>4 DEF CountLoad, mainVars, doneVars
  <2> QED BY <1>1, <2>1 DEF CountsOK
<1>5. ASSUME NEW p \in Pools, CountStore(p) PROVE CountsOK'
  <2>1. /\ pc[p] = "store" /\ received' = received
        /\ g_task_end' = seen[p] + 1
        /\ cleaned' = IF g_task_end' = num_init
                      THEN cleaned \cup {parent_task_id(item[p].m)} ELSE cleaned
        /\ ended' = ended \cup {item[p].m}
        /\ seen' = [seen EXCEPT ![p] = 0]
        BY <1>5 DEF CountStore, check_msg_serial_to_clean_, mainVars
  <2>2. PICK n \in Msgs : n = item[p].m /\ UnderWay(n)
    <3>1. item[p] # NoItem
          BY <2>1, WorkerHolds, ItemParts
    <3> QED BY <3>1, HeldIsUnderWay
  <2>3. n \in 1 .. received /\ n \notin ended
        BY <1>1, <2>2, Numbers DEF UnderWay
  <2>4. IsFiniteSet(ended) /\ Cardinality(ended) \in Nat
    <3>1. IsFiniteSet(1 .. received)
          BY <1>1, FS_Interval
    <3> QED BY <1>1, <3>1, FS_Subset, FS_CardinalityType DEF CountsOK
  <2>5. Cardinality(ended') = Cardinality(ended) + 1
        BY <2>1, <2>2, <2>3, <2>4, FS_AddElement
  <2>6. ended' \subseteq 1 .. received
        BY <1>1, <2>1, <2>2, <2>3 DEF CountsOK
  <2>7. Cardinality(ended') <= received
    <3>1. IsFiniteSet(1 .. received) /\ Cardinality(1 .. received) = received
          BY <1>1, FS_Interval
    <3> QED BY <2>6, <3>1, FS_Subset
  <2>8. seen[p] \in Nat /\ seen[p] <= Cardinality(ended)
        BY <1>1 DEF CountsOK
  <2>9. /\ g_task_end' \in 0 .. received /\ g_task_end' # num_init
        /\ g_task_end' <= Cardinality(ended')
        BY <1>1, <2>1, <2>4, <2>5, <2>7, <2>8 DEF num_init
  <2>10. seen' \in [Pools -> 0 .. received]
    <3>1. 0 \in 0 .. received
          BY <1>1
    <3> QED BY <1>1, <2>1, <3>1 DEF CountsOK
  <2>11. \A q \in Pools : seen'[q] <= Cardinality(ended')
    <3>1. \A q \in Pools : seen[q] \in Nat /\ seen[q] <= Cardinality(ended)
          BY <1>1 DEF CountsOK
    <3>2. \A q \in Pools : seen'[q] = IF q = p THEN 0 ELSE seen[q]
          BY <1>1, <2>1 DEF CountsOK
    <3> QED BY <2>4, <2>5, <3>1, <3>2
  <2> QED BY <1>1, <2>1, <2>6, <2>9, <2>10, <2>11 DEF CountsOK
<1>6. CASE \/ RunBegin \/ Terminate \/ PollEnqueue \/ RunEnd
           \/ \E p \in Pools : Take(p) \/ NextStage(p)
           \/ UNCHANGED vars
      BY <1>2, <1>6 DEF RunBegin, Terminate, PollEnqueue, RunEnd, Take,
         NextStage, vars, mainVars, workVars
<1>7. ASSUME NEW p \in Pools, NEW result \in {"ok", "fail"},
             StageEnd(p, result)
      PROVE  CountsOK'
      BY <1>2, <1>7 DEF StageEnd, mainVars
<1> QED BY <1>3, <1>4, <1>5, <1>6, <1>7 DEF Next, WorkerStep

LEMMA RepliesStep == DataInv /\ [Next]_vars => RepliesOK'
<1> SUFFICES ASSUME DataInv, [Next]_vars PROVE RepliesOK'
    OBVIOUS
<1>1. RepliesOK
      BY DataParts
<1>2. CASE UNCHANGED replies
      BY <1>1, <1>2 DEF RepliesOK
<1>3. ASSUME NEW p \in Pools, NEW result \in {"ok", "fail"},
             StageEnd(p, result)
      PROVE  RepliesOK'
  <2>1. item[p].m \in Msgs
        BY <1>3, WorkerHolds, ItemParts DEF StageEnd
  <2>2. Append(replies[item[p].m], result) \in Seq({"ok", "fail"})
        BY <1>1, <2>1, AppendProperties DEF RepliesOK
  <2>3. replies' = [replies EXCEPT ![item[p].m] =
                      Append(replies[item[p].m], result)]
        BY <1>3 DEF StageEnd
  <2> QED BY <1>1, <2>2, <2>3 DEF RepliesOK
<1>4. ASSUME NEW p \in Pools,
             Take(p) \/ NextStage(p) \/ CountLoad(p) \/ CountStore(p)
      PROVE  UNCHANGED replies
      BY <1>4 DEF Take, NextStage, CountLoad, CountStore
<1>5. CASE \/ RunBegin \/ Terminate \/ PollMessage \/ PollUnparsed
           \/ PollEnqueue \/ RunEnd \/ UNCHANGED vars
      BY <1>2, <1>5 DEF RunBegin, Terminate, PollMessage, PollUnparsed,
         PollEnqueue, RunEnd, vars
<1> QED BY <1>2, <1>3, <1>4, <1>5 DEF Next, WorkerStep

-----------------------------------------------------------------------------
(* The invariant: types and counters, the one place of every message under *)
(* way, and what its replies tell.                                         *)
THEOREM PipelineInvariance == Spec => []IInv
<1>1. Init => IInv
      BY DataInit, PlaceInit, ToldInit DEF IInv
<1>2. IInv /\ [Next]_vars => IInv'
  <2> SUFFICES ASSUME IInv, [Next]_vars PROVE IInv'
      OBVIOUS
  <2>1. DataInv'
        BY LoopStep, ListsStep, CountsStep, RepliesStep, DataParts DEF IInv
  <2> QED BY <2>1, PlaceStep, ToldStep DEF IInv
<1> QED BY <1>1, <1>2, PTL DEF Spec

(* The fields hold values of their types, the lists respect their limits,  *)
(* and no run polls more messages than it counts.                          *)
THEOREM PipelineTypeCorrect == Spec => []TypeOK
<1>1. IInv => TypeOK
      BY DEF IInv, DataInv
<1> QED BY <1>1, PipelineInvariance, PTL

(* check_msg_serial_to_clean_ compares a counter that it finds incremented *)
(* with 0: nothing is ever cleaned, in no run of any length.               *)
THEOREM NeverCleans == Spec => [](cleaned = {})
<1>1. IInv => cleaned = {}
      BY DEF IInv, DataInv
<1> QED BY <1>1, PipelineInvariance, PTL

LEMMA PlacesTellStage == IInv => RepliesTellStage
<1> SUFFICES ASSUME IInv, NEW m \in 1 .. received
             PROVE  LET s == replies[m] IN
    /\ Cardinality(Places(m)) = IF m \in ended THEN 0 ELSE 1
    /\ \A place \in Places(m) : Len(s) = Behind(place)
    /\ s # <<>> => AllOk(SubSeq(s, 1, Len(s) - 1))
    /\ m \in ended => s = <<>> \/ Len(s) = 3 \/ ~AllOk(s)
    /\ \A p \in Pools :
         pc[p] \in {"work", "enqueue"} /\ item[p].m = m => AllOk(s)
    BY DEF RepliesTellStage
<1>1. m \in Msgs /\ m <= received
  <2>1. /\ received \in 0 .. Cardinality(Msgs) /\ Cardinality(Msgs) \in Nat
        /\ Msgs = 1 .. Cardinality(Msgs)
        BY Numbers DEF IInv, DataInv, TypeOK
  <2> QED BY <2>1
<1>2. Placed(m) /\ Told(m) /\ (UnderWay(m) <=> m \notin ended)
      BY <1>1 DEF IInv, PlaceInv, ToldInv, UnderWay
<1>3. PICK s : s = replies[m]
      OBVIOUS
<1>4. s \in Seq({"ok", "fail"}) /\ Len(s) \in Nat
      BY <1>1, <1>3, LenProperties DEF IInv, DataInv, TypeOK
<1>5. s # <<>> => AllOk(SubSeq(s, 1, Len(s) - 1))
  <2> SUFFICES ASSUME s # <<>> PROVE AllOk(SubSeq(s, 1, Len(s) - 1))
      OBVIOUS
  <2>1. Len(s) \in Nat \ {0}
        BY <1>4, EmptySeq
  <2>2. PICK k \in Nat : k = Len(s) - 1
        BY <2>1
  <2>3. \A i \in 1 .. k : i \in 1 .. Len(s) /\ s[i] = "ok"
        BY <1>2, <1>3, <2>1, <2>2 DEF Told
  <2>4. /\ Len(SubSeq(s, 1, k)) = k
        /\ \A i \in 1 .. k : SubSeq(s, 1, k)[i] = s[i]
        BY <1>4, <2>1, <2>2, <2>3
  <2> QED BY <2>2, <2>3, <2>4 DEF AllOk
<1>6. m \in ended => s = <<>> \/ Len(s) = 3 \/ ~AllOk(s)
      BY <1>2, <1>3 DEF Told
<1>7. CASE m \in ended
  <2>1. Places(m) = {} /\ Cardinality({}) = 0
        BY <1>2, <1>7, FS_EmptySet DEF Placed
  <2>2. \A p \in Pools : item[p].m # m
        BY <2>1, Where DEF On
  <2> QED BY <1>3, <1>5, <1>6, <1>7, <2>1, <2>2
<1>8. CASE m \notin ended
  <2>1. PICK x : Places(m) = {x} /\ Settled(m, x)
        BY <1>2, <1>8 DEF Placed
  <2>2. Cardinality({x}) = 1
        BY FS_Singleton
  <2>3. \A place \in Places(m) : Len(s) = Behind(place)
        BY <1>3, <2>1 DEF Settled
  <2>4. ASSUME NEW p \in Pools, pc[p] \in {"work", "enqueue"}, item[p].m = m
        PROVE  AllOk(s)
    <3>1. x = <<p, 0>>
          BY <2>1, <2>4, Where DEF On
    <3>2. ~ToCount(x)
          BY <2>4, <3>1, Pairs DEF ToCount
    <3> QED BY <1>3, <2>1, <3>2 DEF Settled
  <2> QED BY <1>3, <1>5, <1>6, <1>8, <2>1, <2>2, <2>3, <2>4
<1> QED BY <1>7, <1>8

(* A message that was polled is at one place or has ended, and its replies *)
(* tell the stages it has behind it, whichever run is polling.             *)
THEOREM RepliesAreTrue == Spec => []RepliesTellStage
BY PlacesTellStage, PipelineInvariance, PTL
=============================================================================
