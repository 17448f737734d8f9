---------------------- MODULE FreeRTOSQueueItems_proof ----------------------
(***************************************************************************)
(* Proof that a queue of messages of FreeRTOSQueue is a bounded            *)
(* first-in-first-out queue: every step is one of BoundedQueue's, or       *)
(* leaves its messages and what was read from it as they are.              *)
(***************************************************************************)
EXTENDS FreeRTOSQueue_proof

AllMessages == Messages \cup {NoMessage}

\* the messages in a queue's storage, the front first
ItemsOf(r, x) ==
  [i \in 1 .. r.uxMessagesWaiting |-> r.store[(r.pcReadFrom + i) % uxLength[x]]]

AllItems == [x \in DataQueues |-> Items(x)]

---------------------------------------------------------------------------
(* What the operations of a queue do to its messages *)

LEMMA Sizes ==
  ASSUME NEW x \in Queues, NEW r, QueueOK(x, r)
  PROVE  /\ uxLength[x] \in Nat \ {0} /\ r.uxMessagesWaiting \in 0 .. uxLength[x]
         /\ r.pcReadFrom \in 0 .. uxLength[x] - 1
         /\ r.store \in [0 .. uxLength[x] - 1 -> AllMessages]
  BY Lengths DEF QueueOK, QueueRecords, Cells, AllMessages

LEMMA ItemsSeq ==
  ASSUME NEW x \in Queues, NEW r, QueueOK(x, r)
  PROVE  /\ ItemsOf(r, x) \in Seq(AllMessages)
         /\ Len(ItemsOf(r, x)) = r.uxMessagesWaiting
         /\ \A i \in 1 .. r.uxMessagesWaiting :
              ItemsOf(r, x)[i] = r.store[(r.pcReadFrom + i) % uxLength[x]]
<1> DEFINE n == r.uxMessagesWaiting  L == uxLength[x]  p == r.pcReadFrom
<1>1. L \in Nat \ {0} /\ n \in Nat /\ p \in Nat /\ r.store \in [0 .. L - 1 -> AllMessages]
  BY Sizes
<1>2. ASSUME NEW i \in 1 .. n PROVE r.store[(p + i) % L] \in AllMessages
  <2>1. (p + i) % L \in 0 .. L - 1
    BY <1>1, SMT
  <2> QED BY <1>1, <2>1
<1> HIDE DEF n, L, p
<1>3. [i \in 1 .. n |-> r.store[(p + i) % L]] \in Seq(AllMessages)
  BY <1>1, <1>2, IsASeq
<1>4. ItemsOf(r, x) = [i \in 1 .. n |-> r.store[(p + i) % L]]
  BY DEF ItemsOf, n, L, p
<1>5. Len(ItemsOf(r, x)) = n
  <2>1. DOMAIN ItemsOf(r, x) = 1 .. n
    BY <1>4
  <2> QED BY <1>1, <1>3, <1>4, <2>1, LenProperties
<1> QED BY <1>3, <1>4, <1>5 DEF n, L, p

LEMMA EmptyItems ==
  ASSUME NEW x \in Queues, NEW r, QueueOK(x, r)
  PROVE  ItemsOf(r, x) = <<>> <=> r.uxMessagesWaiting = 0
  BY ItemsSeq, EmptySeq, Sizes, SeqEqual

LEMMA SameItems ==
  ASSUME NEW r, NEW r1, SameContents(r1, r), NEW x PROVE ItemsOf(r1, x) = ItemsOf(r, x)
  BY DEF SameContents, ItemsOf

\* two places in the storage, less than a round apart, are not the same
LEMMA Apart ==
  ASSUME NEW L \in Nat \ {0}, NEW p \in 0 .. L - 1, NEW i \in 1 .. L, NEW j \in 1 .. L, i # j
  PROVE  (p + i) % L # (p + j) % L
<1> DEFINE a == p + i  b == p + j
<1>1. a \in 0 .. 2 * L /\ b \in 0 .. 2 * L /\ a # b /\ a < b + L /\ b < a + L /\ a < 2 * L /\ b < 2 * L
  OBVIOUS
<1>2. a % L = IF a < L THEN a ELSE IF a < 2 * L THEN a - L ELSE 0
  BY <1>1, Remainders
<1>3. b % L = IF b < L THEN b ELSE IF b < 2 * L THEN b - L ELSE 0
  BY <1>1, Remainders
<1> HIDE DEF a, b
<1>4. a % L # b % L
  BY <1>1, <1>2, <1>3
<1> QED BY <1>4 DEF a, b

\* counting on from the cell after, or before, one
LEMMA AfterOn ==
  ASSUME NEW L \in Nat \ {0}, NEW p \in 0 .. L - 1, NEW i \in 1 .. L - 1
  PROVE  (((p + 1) % L) + i) % L = (p + (i + 1)) % L
<1> DEFINE a == p + 1  b == p + (i + 1)  c == ((p + 1) % L) + i
<1>1. a \in 0 .. 2 * L /\ b \in 0 .. 2 * L /\ b = a + i /\ a <= L /\ b < 2 * L
  OBVIOUS
<1>2. a % L = IF a < L THEN a ELSE IF a < 2 * L THEN a - L ELSE 0
  BY <1>1, Remainders
<1>3. b % L = IF b < L THEN b ELSE IF b < 2 * L THEN b - L ELSE 0
  BY <1>1, Remainders
<1>4. c = IF a < L THEN b ELSE i
  <2>1. c = (a % L) + i
    OBVIOUS
  <2> HIDE DEF a, b, c
  <2> QED BY <1>1, <1>2, <2>1
<1>5. c \in 0 .. 2 * L
  <2> HIDE DEF a, b, c
  <2> QED BY <1>1, <1>4
<1>6. c % L = IF c < L THEN c ELSE IF c < 2 * L THEN c - L ELSE 0
  <2> HIDE DEF c
  <2> QED BY <1>5, Remainders
<1> HIDE DEF a, b, c
<1>7. c % L = b % L
  BY <1>1, <1>3, <1>4, <1>6
<1> QED BY <1>7 DEF b, c

LEMMA BeforeOn ==
  ASSUME NEW L \in Nat \ {0}, NEW p \in 0 .. L - 1, NEW i \in 2 .. L
  PROVE  (p + i) % L = (((p + 1) % L) + (i - 1)) % L
<1>1. i - 1 \in 1 .. L - 1 /\ (i - 1) + 1 = i
  OBVIOUS
<1>2. (((p + 1) % L) + (i - 1)) % L = (p + ((i - 1) + 1)) % L
  BY <1>1, AfterOn
<1> QED BY <1>1, <1>2

\* What is sent to the back of a queue with room comes after its messages.
LEMMA BackItems ==
  ASSUME NEW x \in DataQueues, QueueOK(x, queue[x]), HasRoom(x), NEW m \in Messages
  PROVE  ItemsOf(prvCopyDataToQueue(x, "back", m), x) = Append(Items(x), m)
<1> DEFINE r == queue[x]  n == r.uxMessagesWaiting  L == uxLength[x]  p == r.pcReadFrom
           w == r.pcWriteTo
           r1 == [r EXCEPT !.uxMessagesWaiting = @ + 1, !.store[w] = m, !.pcWriteTo = After(x, @)]
<1>1. /\ x \in Queues /\ x \notin Mutexes /\ x \notin Semaphores /\ m \in AllMessages
      /\ r \in QueueRecords(x)
  BY Lengths DEF AllMessages, QueueOK
<1>2. /\ L \in Nat \ {0} /\ n \in 0 .. L - 1 /\ p \in 0 .. L - 1
      /\ r.store \in [0 .. L - 1 -> AllMessages] /\ w = (p + (n + 1)) % L /\ w \in 0 .. L - 1
  <2>1. /\ L \in Nat \ {0} /\ n \in 0 .. L /\ p \in 0 .. L - 1
        /\ r.store \in [0 .. L - 1 -> AllMessages]
    BY <1>1, Sizes
  <2>2. n < L
    BY DEF HasRoom
  <2>3. w = (p + 1 + n) % L /\ w \in 0 .. L - 1
    BY <1>1 DEF QueueOK, QueueRecords, Cells
  <2> HIDE DEF n, L, p, w
  <2>4. p + 1 + n = p + (n + 1)
    BY <2>1
  <2> QED BY <2>1, <2>2, <2>3, <2>4
<1>3. prvCopyDataToQueue(x, "back", m) = r1
  BY <1>1 DEF prvCopyDataToQueue
<1>4. QueueOK(x, r1)
  <2>1. QueueOK(x, prvCopyDataToQueue(x, "back", m))
    BY <1>1, CopyOK
  <2> QED BY <1>3, <2>1
<1>5. r1.uxMessagesWaiting = n + 1 /\ r1.pcReadFrom = p /\ r1.store = [r.store EXCEPT ![w] = m]
  BY <1>1 DEF QueueRecords
<1>6. /\ Items(x) \in Seq(AllMessages) /\ Len(Items(x)) = n
      /\ \A i \in 1 .. n : Items(x)[i] = r.store[(p + i) % L]
  <2>1. Items(x) = ItemsOf(r, x)
    BY DEF Items, ItemsOf
  <2> QED BY <1>1, <2>1, ItemsSeq
<1> HIDE DEF r1, r
<1>7. /\ ItemsOf(r1, x) \in Seq(AllMessages) /\ Len(ItemsOf(r1, x)) = n + 1
      /\ \A i \in 1 .. n + 1 : ItemsOf(r1, x)[i] = r1.store[(p + i) % L]
  <2>1. /\ ItemsOf(r1, x) \in Seq(AllMessages) /\ Len(ItemsOf(r1, x)) = r1.uxMessagesWaiting
        /\ \A i \in 1 .. r1.uxMessagesWaiting :
             ItemsOf(r1, x)[i] = r1.store[(r1.pcReadFrom + i) % uxLength[x]]
    BY <1>1, <1>4, ItemsSeq
  <2> QED BY <1>5, <2>1
<1>8. /\ Append(Items(x), m) \in Seq(AllMessages) /\ Len(Append(Items(x), m)) = n + 1
      /\ \A i \in 1 .. n : Append(Items(x), m)[i] = Items(x)[i]
      /\ Append(Items(x), m)[n + 1] = m
  BY <1>1, <1>6, AppendProperties
<1> HIDE DEF n, L, p, w
<1>9. ASSUME NEW i \in 1 .. n + 1 PROVE ItemsOf(r1, x)[i] = Append(Items(x), m)[i]
  <2>1. (p + i) % L \in 0 .. L - 1
    BY <1>2, SMT
  <2>2. CASE i = n + 1
    BY <1>2, <1>5, <1>7, <1>8, <2>2
  <2>3. CASE i # n + 1
    <3>1. i \in 1 .. n /\ i \in 1 .. L /\ n + 1 \in 1 .. L
      BY <1>2, <2>3
    <3>2. (p + i) % L # w
      BY <1>2, <2>3, <3>1, Apart
    <3>3. r1.store[(p + i) % L] = r.store[(p + i) % L]
      BY <1>2, <1>5, <2>1, <3>2
    <3> QED BY <1>6, <1>7, <1>8, <3>1, <3>3
  <2> QED BY <2>2, <2>3
<1>10. ItemsOf(r1, x) = Append(Items(x), m)
  BY <1>7, <1>8, <1>9, SeqEqual
<1> QED BY <1>3, <1>10

\* What is sent to the front comes before them; where it overwrites the one
\* message there is, it takes its place.
LEMMA FrontItems ==
  ASSUME NEW x \in DataQueues, QueueOK(x, queue[x]), NEW m \in Messages,
         NEW how, how # "back", HasRoom(x) \/ how = "overwrite",
         how = "overwrite" => uxLength[x] = 1
  PROVE  ItemsOf(prvCopyDataToQueue(x, how, m), x)
           = IF how = "overwrite" THEN <<m>> ELSE <<m>> \o Items(x)
<1> DEFINE r == queue[x]  n == r.uxMessagesWaiting  L == uxLength[x]  p == r.pcReadFrom
           n1 == IF how = "overwrite" /\ n > 0 THEN n ELSE n + 1
           p1 == Before(x, p)
           r1 == [r EXCEPT !.uxMessagesWaiting = n1, !.store[p] = m, !.pcReadFrom = p1]
           before == IF how = "overwrite" THEN <<>> ELSE Items(x)
           items == <<m>> \o before
<1>1. /\ x \in Queues /\ x \notin Mutexes /\ x \notin Semaphores /\ m \in AllMessages
      /\ r \in QueueRecords(x)
  BY Lengths DEF AllMessages, QueueOK
<1>2. /\ L \in Nat \ {0} /\ n \in 0 .. L /\ p \in 0 .. L - 1
      /\ r.store \in [0 .. L - 1 -> AllMessages]
      /\ how # "overwrite" => n < L
  BY <1>1, Sizes DEF HasRoom
<1>3. p1 \in 0 .. L - 1 /\ (p1 + 1) % L = p
  BY <1>1, <1>2, BeforeIs DEF Cells
<1>4. prvCopyDataToQueue(x, how, m) = r1
  BY <1>1 DEF prvCopyDataToQueue, QueueRecords
<1>5. QueueOK(x, r1)
  <2>1. QueueOK(x, prvCopyDataToQueue(x, how, m))
    BY <1>1, CopyOK
  <2> QED BY <1>4, <2>1
<1>6. r1.uxMessagesWaiting = n1 /\ r1.pcReadFrom = p1 /\ r1.store = [r.store EXCEPT ![p] = m]
  BY <1>1 DEF QueueRecords
<1>7. /\ Items(x) \in Seq(AllMessages) /\ Len(Items(x)) = n
      /\ \A i \in 1 .. n : Items(x)[i] = r.store[(p + i) % L]
  <2>1. Items(x) = ItemsOf(r, x)
    BY DEF Items, ItemsOf
  <2> QED BY <1>1, <2>1, ItemsSeq
<1> HIDE DEF r1, r
<1>8. /\ ItemsOf(r1, x) \in Seq(AllMessages) /\ Len(ItemsOf(r1, x)) = n1
      /\ \A i \in 1 .. n1 : ItemsOf(r1, x)[i] = r1.store[(p1 + i) % L]
  <2>1. /\ ItemsOf(r1, x) \in Seq(AllMessages) /\ Len(ItemsOf(r1, x)) = r1.uxMessagesWaiting
        /\ \A i \in 1 .. r1.uxMessagesWaiting :
             ItemsOf(r1, x)[i] = r1.store[(r1.pcReadFrom + i) % uxLength[x]]
    BY <1>1, <1>5, ItemsSeq
  <2> QED BY <1>6, <2>1
<1>9. /\ before \in Seq(AllMessages) /\ Len(before) = n1 - 1
      /\ \A i \in 1 .. n1 - 1 : before[i] = r.store[(p + i) % L]
  <2>1. CASE how = "overwrite"
    <3>1. n1 = 1
      BY <1>2, <2>1
    <3>2. <<>> \in Seq(AllMessages) /\ Len(<<>>) = 0
      BY EmptySeq
    <3> HIDE DEF n1
    <3> QED BY <2>1, <3>1, <3>2
  <2>2. CASE how # "overwrite"
    BY <1>2, <1>7, <2>2
  <2> QED BY <2>1, <2>2
<1>10. /\ items \in Seq(AllMessages) /\ Len(items) = n1
       /\ items[1] = m /\ \A i \in 2 .. n1 : items[i] = before[i - 1]
  <2>0. n1 \in Nat \ {0}
    BY <1>2
  <2> HIDE DEF before, n1
  <2>1. <<m>> \in Seq(AllMessages) /\ Len(<<m>>) = 1 /\ <<m>>[1] = m
    BY <1>1
  <2>2. /\ items \in Seq(AllMessages) /\ Len(items) = 1 + (n1 - 1)
        /\ \A i \in 1 .. 1 + (n1 - 1) : items[i] = IF i <= 1 THEN <<m>>[i] ELSE before[i - 1]
    BY <1>9, <2>1, ConcatProperties
  <2> HIDE DEF items
  <2> QED BY <2>0, <2>1, <2>2
<1>11. n1 \in 1 .. L
  BY <1>2
<1> HIDE DEF n, L, p, p1, n1, before, items
<1>12. ASSUME NEW i \in 1 .. n1 PROVE ItemsOf(r1, x)[i] = items[i]
  <2>1. CASE i = 1
    BY <1>2, <1>3, <1>6, <1>8, <1>10, <2>1
  <2>2. CASE i # 1
    <3>1. i \in 1 .. L /\ 1 \in 1 .. L /\ i - 1 \in 1 .. n1 - 1
      BY <1>2, <1>11, <2>2
    <3>2. (p1 + i) % L # p /\ (p1 + i) % L \in 0 .. L - 1
      <4>1. (p1 + i) % L # (p1 + 1) % L
        BY <1>2, <1>3, <2>2, <3>1, Apart
      <4>2. (p1 + i) % L \in 0 .. L - 1
        BY <1>2, <1>3, SMT
      <4> QED BY <1>3, <4>1, <4>2
    <3>3. (p1 + i) % L = (p + (i - 1)) % L
      <4>1. i \in 2 .. L
        BY <2>2, <3>1
      <4>2. (p1 + i) % L = (((p1 + 1) % L) + (i - 1)) % L
        BY <1>2, <1>3, <4>1, BeforeOn
      <4> QED BY <1>3, <4>2
    <3>4. r1.store[(p1 + i) % L] = r.store[(p1 + i) % L]
      BY <1>2, <1>6, <3>2
    <3> QED BY <1>8, <1>9, <1>10, <2>2, <3>1, <3>3, <3>4
  <2> QED BY <2>1, <2>2
<1>13. ItemsOf(r1, x) = items
  BY <1>8, <1>10, <1>12, SeqEqual
<1>14. items = IF how = "overwrite" THEN <<m>> ELSE <<m>> \o Items(x)
  <2>1. <<m>> \o <<>> = <<m>>
    BY <1>1, ConcatEmptySeq
  <2> QED BY <2>1 DEF items, before
<1> QED BY <1>4, <1>13, <1>14

\* What is taken is the first message, and the others stay.
LEMMA TakenItems ==
  ASSUME NEW x \in DataQueues, QueueOK(x, queue[x]), ~IsEmpty(x)
  PROVE  /\ Items(x) # <<>> /\ FrontMessage(x) = Head(Items(x))
         /\ ItemsOf(TakeFront(x), x) = Tail(Items(x))
<1> DEFINE r == queue[x]  n == r.uxMessagesWaiting  L == uxLength[x]  p == r.pcReadFrom
           p1 == After(x, p)
           r1 == [r EXCEPT !.uxMessagesWaiting = n - 1, !.pcReadFrom = p1]
<1>1. x \in Queues /\ r \in QueueRecords(x)
  BY Lengths DEF QueueOK
<1>2. /\ L \in Nat \ {0} /\ n \in 1 .. L /\ p \in 0 .. L - 1
      /\ r.store \in [0 .. L - 1 -> AllMessages]
  BY <1>1, Sizes DEF IsEmpty
<1>3. p1 \in 0 .. L - 1 /\ p1 = (p + 1) % L
  BY <1>1, <1>2, AfterIs DEF Cells
<1>4. TakeFront(x) = r1
  BY <1>1 DEF TakeFront, QueueRecords
<1>5. QueueOK(x, r1)
  <2>1. QueueOK(x, TakeFront(x))
    BY <1>1, TakeOK
  <2> QED BY <1>4, <2>1
<1>6. r1.uxMessagesWaiting = n - 1 /\ r1.pcReadFrom = p1 /\ r1.store = r.store
  BY <1>1 DEF QueueRecords
<1>7. /\ Items(x) \in Seq(AllMessages) /\ Len(Items(x)) = n
      /\ \A i \in 1 .. n : Items(x)[i] = r.store[(p + i) % L]
  <2>1. Items(x) = ItemsOf(r, x)
    BY DEF Items, ItemsOf
  <2> QED BY <1>1, <2>1, ItemsSeq
<1>8. FrontMessage(x) = r.store[p1]
  BY DEF FrontMessage
<1> HIDE DEF r1, r
<1>9. /\ ItemsOf(r1, x) \in Seq(AllMessages) /\ Len(ItemsOf(r1, x)) = n - 1
      /\ \A i \in 1 .. n - 1 : ItemsOf(r1, x)[i] = r.store[(p1 + i) % L]
  <2>1. /\ ItemsOf(r1, x) \in Seq(AllMessages) /\ Len(ItemsOf(r1, x)) = r1.uxMessagesWaiting
        /\ \A i \in 1 .. r1.uxMessagesWaiting :
             ItemsOf(r1, x)[i] = r1.store[(r1.pcReadFrom + i) % uxLength[x]]
    BY <1>1, <1>5, ItemsSeq
  <2> QED BY <1>6, <2>1
<1> HIDE DEF n, L, p, p1
<1>10. Items(x) # <<>> /\ Head(Items(x)) = Items(x)[1]
  BY <1>2, <1>7, EmptySeq
<1>11. /\ Tail(Items(x)) \in Seq(AllMessages) /\ Len(Tail(Items(x))) = n - 1
       /\ \A i \in 1 .. n - 1 : Tail(Items(x))[i] = Items(x)[i + 1]
  BY <1>7, <1>10, HeadTailProperties
<1>12. ASSUME NEW i \in 1 .. n - 1 PROVE ItemsOf(r1, x)[i] = Tail(Items(x))[i]
  <2>1. i + 1 \in 1 .. n /\ i \in Int
    BY <1>2
  <2>2. (p1 + i) % L = (p + (i + 1)) % L
    BY <1>2, <1>3, <2>1, AfterOn
  <2> QED BY <1>7, <1>9, <1>11, <2>1, <2>2
<1>13. ItemsOf(r1, x) = Tail(Items(x))
  BY <1>9, <1>11, <1>12, SeqEqual
<1>14. FrontMessage(x) = Head(Items(x))
  <2>1. 1 \in 1 .. n
    BY <1>2
  <2> QED BY <1>3, <1>7, <1>8, <1>10, <2>1
<1> QED BY <1>4, <1>10, <1>13, <1>14

---------------------------------------------------------------------------
(* Every step is a step of BoundedQueue *)

LEMMA ItemsPut ==
  ASSUME QueuesInv, NEW x \in DataQueues, NEW r, QueueOK(x, r), queue' = [queue EXCEPT ![x] = r]
  PROVE  AllItems' = [AllItems EXCEPT ![x] = ItemsOf(r, x)]
<1>1. x \in Queues /\ DataQueues \subseteq Queues
  BY Lengths
<1>2. queue'[x] = r /\ \A y \in Queues : y # x => queue'[y] = queue[y]
  BY <1>1, PutOK
<1>3. ASSUME NEW y \in DataQueues
      PROVE  Items(y)' = IF y = x THEN ItemsOf(r, x) ELSE Items(y)
  <2>1. Items(y)' = [i \in 1 .. queue'[y].uxMessagesWaiting |->
                       queue'[y].store[(queue'[y].pcReadFrom + i) % uxLength[y]]]
    BY DEF Items
  <2>2. CASE y = x
    BY <1>2, <2>1, <2>2 DEF ItemsOf
  <2>3. CASE y # x
    BY <1>1, <1>2, <1>3, <2>1, <2>3 DEF Items
  <2> QED BY <2>2, <2>3
<1> QED BY <1>3 DEF AllItems

LEMMA ItemsStay ==
  ASSUME \A y \in DataQueues : queue'[y].uxMessagesWaiting = queue[y].uxMessagesWaiting
                              /\ queue'[y].store = queue[y].store
                              /\ queue'[y].pcReadFrom = queue[y].pcReadFrom
  PROVE  UNCHANGED AllItems
<1>1. ASSUME NEW y \in DataQueues PROVE Items(y)' = Items(y)
  BY <1>1 DEF Items
<1> QED BY <1>1 DEF AllItems

LEMMA OtherItems ==
  ASSUME QueuesInv, NEW x \in Queues, x \notin DataQueues, NEW r, QueueOK(x, r),
         queue' = [queue EXCEPT ![x] = r]
  PROVE  UNCHANGED AllItems
<1>1. \A y \in Queues : y # x => queue'[y] = queue[y]
  BY PutOK
<1> QED BY <1>1, ItemsStay, Lengths

LEMMA SameContentsStay ==
  ASSUME QueuesInv, NEW x \in Queues, NEW r, QueueOK(x, r), queue' = [queue EXCEPT ![x] = r],
         SameContents(r, queue[x])
  PROVE  UNCHANGED AllItems
<1>1. queue'[x] = r /\ \A y \in Queues : y # x => queue'[y] = queue[y]
  BY PutOK
<1> QED BY <1>1, ItemsStay, Lengths DEF SameContents

ItemsMap == Bounded!Next \/ UNCHANGED <<AllItems, copied>>

\* What leaves a queue as a message copied into it leaves it, is a sending.
LEMMA SendMaps ==
  ASSUME QueuesInv, NEW x \in Queues, NEW how, NEW m, NEW r,
         x \in DataQueues => m \in Messages, HasRoom(x) \/ how = "overwrite",
         how = "overwrite" => x \in DataQueues /\ uxLength[x] = 1,
         QueueOK(x, r), queue' = [queue EXCEPT ![x] = r],
         SameContents(r, prvCopyDataToQueue(x, how, m)), UNCHANGED copied
  PROVE  ItemsMap
<1>1. CASE x \notin DataQueues
  BY <1>1, OtherItems DEF ItemsMap
<1>2. CASE x \in DataQueues
  <2> DEFINE r1 == prvCopyDataToQueue(x, how, m)
  <2>1. QueueOK(x, queue[x]) /\ m \in Messages
    BY <1>2, QueueTypes
  <2>2. AllItems' = [AllItems EXCEPT ![x] = ItemsOf(r1, x)]
    <3>1. ItemsOf(r, x) = ItemsOf(r1, x)
      BY SameItems
    <3> QED BY <1>2, <3>1, ItemsPut
  <2>3. AllItems[x] = Items(x) /\ (HasRoom(x) => Len(Items(x)) < uxLength[x])
    <3>1. Items(x) = ItemsOf(queue[x], x)
      BY DEF Items, ItemsOf
    <3>2. Len(Items(x)) = queue[x].uxMessagesWaiting
      BY <2>1, <3>1, ItemsSeq
    <3> QED BY <1>2, <3>2 DEF AllItems, HasRoom
  <2>4. CASE how = "back"
    <3>1. ItemsOf(r1, x) = Append(Items(x), m)
      BY <1>2, <2>1, <2>4, BackItems
    <3>2. Bounded!SendToBack(x, m)
      BY <2>2, <2>3, <2>4, <3>1 DEF Bounded!SendToBack, AllItems
    <3> QED BY <1>2, <2>1, <3>2 DEF ItemsMap, Bounded!Next
  <2>5. CASE how = "overwrite"
    <3>1. ItemsOf(r1, x) = <<m>>
      BY <1>2, <2>1, <2>5, FrontItems
    <3>2. Bounded!Overwrite(x, m)
      BY <2>2, <2>5, <3>1 DEF Bounded!Overwrite, AllItems
    <3> QED BY <1>2, <2>1, <3>2 DEF ItemsMap, Bounded!Next
  <2>6. CASE how # "back" /\ how # "overwrite"
    <3>1. ItemsOf(r1, x) = <<m>> \o Items(x)
      BY <1>2, <2>1, <2>6, FrontItems
    <3>2. Bounded!SendToFront(x, m)
      BY <2>2, <2>3, <2>6, <3>1 DEF Bounded!SendToFront, AllItems
    <3> QED BY <1>2, <2>1, <3>2 DEF ItemsMap, Bounded!Next
  <2> QED BY <2>4, <2>5, <2>6
<1> QED BY <1>1, <1>2

\* So for taking the first message, and for reading it.
LEMMA ReceiveMaps ==
  ASSUME QueuesInv, NEW x \in DataQueues, ~IsEmpty(x), NEW r, QueueOK(x, r),
         queue' = [queue EXCEPT ![x] = r], SameContents(r, TakeFront(x)),
         copied' = [copied EXCEPT ![x] = FrontMessage(x)]
  PROVE  ItemsMap
<1>1. QueueOK(x, queue[x])
  BY Lengths, QueueTypes
<1>2. /\ Items(x) # <<>> /\ FrontMessage(x) = Head(Items(x))
      /\ ItemsOf(TakeFront(x), x) = Tail(Items(x))
  BY <1>1, TakenItems
<1>3. AllItems' = [AllItems EXCEPT ![x] = Tail(Items(x))]
  <2>1. ItemsOf(r, x) = Tail(Items(x))
    BY <1>2, SameItems
  <2> QED BY <2>1, ItemsPut
<1>4. AllItems[x] = Items(x)
  BY DEF AllItems
<1>5. Bounded!Receive(x)
  BY <1>2, <1>3, <1>4 DEF Bounded!Receive, AllItems
<1> QED BY <1>5 DEF ItemsMap, Bounded!Next

LEMMA PeekMaps ==
  ASSUME QueuesInv, NEW x \in DataQueues, ~IsEmpty(x), UNCHANGED queue,
         copied' = [copied EXCEPT ![x] = FrontMessage(x)]
  PROVE  ItemsMap
<1>1. QueueOK(x, queue[x])
  BY Lengths, QueueTypes
<1>2. Items(x) # <<>> /\ FrontMessage(x) = Head(Items(x))
  BY <1>1, TakenItems
<1>3. UNCHANGED AllItems
  BY ItemsStay
<1>4. AllItems[x] = Items(x)
  BY DEF AllItems
<1>5. Bounded!Peek(x)
  BY <1>2, <1>3, <1>4 DEF Bounded!Peek, AllItems
<1> QED BY <1>5 DEF ItemsMap, Bounded!Next

LEMMA SendCallMaps ==
  ASSUME IInv, NEW t \in Tasks, xQueueGenericSend(t) PROVE ItemsMap
<1>1. PICK c \in Attempting(t, {"send", "give"}) :
        /\ \/ /\ HasRoom(c.on) \/ c.how = "overwrite"
              /\ queue' = [queue EXCEPT ![c.on] = prvCopyDataToQueue(c.on, c.how, c.arg)]
           \/ UNCHANGED queue
        /\ UNCHANGED copied
  BY DEF xQueueGenericSend
<1>2. /\ c.on \in Queues /\ (c.on \in DataQueues => c.arg \in Messages)
      /\ c.how = "overwrite" => c.on \in DataQueues /\ uxLength[c.on] = 1
  BY AttemptingOK, Lengths DEF IInv, Allowed, Queues
<1>3. CASE UNCHANGED queue
  BY <1>1, <1>3, ItemsStay DEF ItemsMap
<1>4. CASE queue' # queue
  <2> DEFINE r == prvCopyDataToQueue(c.on, c.how, c.arg)
  <2>1. QueueOK(c.on, r)
    BY <1>1, <1>2, <1>4, CopyOK DEF IInv, QueuesInv
  <2>2. SameContents(r, prvCopyDataToQueue(c.on, c.how, c.arg))
    BY DEF SameContents
  <2>3. QueuesInv /\ queue' = [queue EXCEPT ![c.on] = r] /\ (HasRoom(c.on) \/ c.how = "overwrite")
    BY <1>1, <1>4 DEF IInv
  <2> HIDE DEF r
  <2> QED BY <1>1, <1>2, <2>1, <2>2, <2>3, SendMaps
<1> QED BY <1>3, <1>4

LEMMA ReadCallMaps ==
  ASSUME IInv, NEW t \in Tasks, xQueueReceive(t) \/ xQueuePeek(t) PROVE ItemsMap
<1>1. PICK c \in Attempting(t, {"receive"}) \cup Attempting(t, {"peek"}) :
        \/ /\ ~IsEmpty(c.on) /\ queue' = [queue EXCEPT ![c.on] = TakeFront(c.on)]
           /\ copied' = [copied EXCEPT ![c.on] = FrontMessage(c.on)]
        \/ /\ ~IsEmpty(c.on) /\ UNCHANGED queue
           /\ copied' = [copied EXCEPT ![c.on] = FrontMessage(c.on)]
        \/ UNCHANGED <<queue, copied>>
  BY DEF xQueueReceive, xQueuePeek
<1>2. c.on \in DataQueues /\ QueuesInv
  BY AttemptingOK DEF IInv, Allowed
<1>3. CASE UNCHANGED <<queue, copied>>
  BY <1>3, ItemsStay DEF ItemsMap
<1>4. CASE ~IsEmpty(c.on) /\ UNCHANGED queue /\ copied' = [copied EXCEPT ![c.on] = FrontMessage(c.on)]
  BY <1>2, <1>4, PeekMaps
<1>5. CASE /\ ~IsEmpty(c.on) /\ queue' = [queue EXCEPT ![c.on] = TakeFront(c.on)]
           /\ copied' = [copied EXCEPT ![c.on] = FrontMessage(c.on)]
  <2> DEFINE r == TakeFront(c.on)
  <2>1. QueueOK(c.on, r)
    BY <1>2, <1>5, TakeOK, QueueTypes, Lengths
  <2>2. SameContents(r, TakeFront(c.on))
    BY DEF SameContents
  <2>3. queue' = [queue EXCEPT ![c.on] = r]
    BY <1>5
  <2> HIDE DEF r
  <2> QED BY <1>2, <1>5, <2>1, <2>2, <2>3, ReceiveMaps
<1> QED BY <1>1, <1>3, <1>4, <1>5

\* Semaphores and mutexes hold no messages.
LEMMA TakeCallMaps ==
  ASSUME IInv, NEW t \in Tasks,
         xQueueSemaphoreTake(t) \/ xQueueTakeMutexRecursive(t) \/ xQueueGiveMutexRecursive(t)
  PROVE  ItemsMap
<1>1. PICK x : /\ x \notin DataQueues /\ UNCHANGED copied
               /\ \A y \in DataQueues : queue'[y] = queue[y]
  <2>1. CASE xQueueSemaphoreTake(t)
    <3>1. PICK c \in Attempting(t, {"take", "takeRecursive"}) :
            /\ (\E n : queue' = [queue EXCEPT ![c.on].uxMessagesWaiting = @ - 1,
                            ![c.on].xMutexHolder = IF c.on \in Mutexes THEN t ELSE @,
                            ![c.on].uxRecursiveCallCount = @ + n])
               \/ UNCHANGED queue
            /\ UNCHANGED copied
      BY <2>1, Zenon DEF xQueueSemaphoreTake
    <3>2. c.on \notin DataQueues
      BY AttemptingOK, Lengths DEF IInv, Allowed
    <3>3. \A y \in DataQueues : queue'[y] = queue[y]
      BY <3>1, <3>2, Lengths DEF IInv, QueuesInv
    <3> QED BY <3>1, <3>2, <3>3
  <2>2. CASE xQueueTakeMutexRecursive(t)
    <3>1. PICK c \in CallsOf(t, "takeRecursive") :
            /\ queue' = [queue EXCEPT ![c.on].uxRecursiveCallCount = @ + 1]
            /\ UNCHANGED copied
      BY <2>2 DEF xQueueTakeMutexRecursive
    <3>2. c.on \notin DataQueues
      BY CallsOfOK, Lengths DEF IInv, Allowed
    <3> QED BY <3>1, <3>2, Lengths DEF IInv, QueuesInv
  <2>3. CASE xQueueGiveMutexRecursive(t)
    <3>1. PICK c \in CallsOf(t, "giveRecursive") :
            /\ queue' = [queue EXCEPT ![c.on].uxRecursiveCallCount = @ - 1] \/ UNCHANGED queue
            /\ UNCHANGED copied
      BY <2>3 DEF xQueueGiveMutexRecursive
    <3>2. c.on \notin DataQueues
      BY CallsOfOK, Lengths DEF IInv, Allowed
    <3> QED BY <3>1, <3>2, Lengths DEF IInv, QueuesInv
  <2> QED BY <2>1, <2>2, <2>3
<1> QED BY <1>1, ItemsStay DEF ItemsMap

LEMMA ResetMaps ==
  ASSUME IInv, NEW t \in Tasks, xQueueGenericReset(t) PROVE ItemsMap
<1>. PICK x \in DataQueues :
        \E r : /\ QueueOK(x, r) /\ queue' = [queue EXCEPT ![x] = r] /\ r.uxMessagesWaiting = 0
               /\ UNCHANGED copied
  BY ResetIs
<1>1. PICK r :
        /\ QueueOK(x, r) /\ queue' = [queue EXCEPT ![x] = r] /\ r.uxMessagesWaiting = 0
        /\ UNCHANGED copied
  OBVIOUS
<1>2. ItemsOf(r, x) = <<>>
  BY <1>1, EmptyItems, Lengths
<1>3. AllItems' = [AllItems EXCEPT ![x] = <<>>]
  <2>1. AllItems' = [AllItems EXCEPT ![x] = ItemsOf(r, x)]
    BY <1>1, ItemsPut DEF IInv
  <2> QED BY <1>2, <2>1
<1>4. Bounded!Reset(x)
  BY <1>1, <1>3 DEF Bounded!Reset, AllItems
<1> QED BY <1>4 DEF ItemsMap, Bounded!Next

LEMMA StepMaps ==
  ASSUME IInv, kernel.xTickCount \in Int, NEW t \in Tasks, QueueStep(t) PROVE ItemsMap
<1>1. UNCHANGED copied
  BY StepsAre
<1>2. CASE UNCHANGED queue
  BY <1>1, <1>2, ItemsStay DEF ItemsMap
<1>3. ASSUME NEW x \in Queues, NEW r, QueueOK(x, r), queue' = [queue EXCEPT ![x] = r],
             SameContents(r, queue[x])
      PROVE  ItemsMap
  BY <1>1, <1>3, SameContentsStay DEF IInv, ItemsMap
<1> QED BY <1>2, <1>3, StepQueue

LEMMA InterruptMaps ==
  ASSUME IInv, xQueueGenericSendFromISR \/ xQueueReceiveFromISR PROVE ItemsMap
<1>0. QueuesInv
  BY DEF IInv
<1>1. CASE xQueueGenericSendFromISR
  <2>1. PICK c, r1 :
          /\ c \in Interrupts("sendFromISR")
          /\ c.on \in DataQueues \cup Semaphores
          /\ c.on \in DataQueues => c.arg \in Messages
          /\ c.how = "overwrite" => c.on \in DataQueues /\ uxLength[c.on] = 1
          /\ HasRoom(c.on) \/ c.how = "overwrite"
          /\ QueueOK(c.on, r1) /\ queue' = [queue EXCEPT ![c.on] = r1]
          /\ SameContents(r1, prvCopyDataToQueue(c.on, c.how, c.arg))
          /\ UNCHANGED <<thread, scenario, owns, copied>>
    BY <1>1, SendFromISRIs
  <2>2. c.on \in Queues
    BY <2>1, Lengths
  <2> QED BY <1>0, <2>1, <2>2, SendMaps
<1>2. CASE xQueueReceiveFromISR
  <2>1. PICK c, r1 :
          /\ c \in Interrupts("receiveFromISR")
          /\ c.on \in DataQueues /\ ~IsEmpty(c.on)
          /\ QueueOK(c.on, r1) /\ queue' = [queue EXCEPT ![c.on] = r1]
          /\ SameContents(r1, TakeFront(c.on))
          /\ copied' = [copied EXCEPT ![c.on] = FrontMessage(c.on)]
          /\ UNCHANGED <<thread, scenario, owns>>
    BY <1>2, ReceiveFromISRIs
  <2> QED BY <1>0, <2>1, ReceiveMaps
<1> QED BY <1>1, <1>2

LEMMA NextMaps == IInv /\ KernelInv /\ [Next]_vars => ItemsMap
<1> SUFFICES ASSUME IInv, KernelInv, [Next]_vars PROVE ItemsMap
  OBVIOUS
<1>0. kernel.xTickCount \in Int
  BY GoodTypes DEF KernelInv
<1>1. CASE UNCHANGED <<queue, copied>>
  BY <1>1, ItemsStay DEF ItemsMap
<1>2. CASE xQueueGenericSendFromISR \/ xQueueReceiveFromISR
  BY <1>2, InterruptMaps
<1>3. ASSUME NEW t \in Tasks,
             QueueCall(t) \/ QueueStep(t) \/ xQueueGenericReset(t)
             \/ xQueueTakeMutexRecursive(t) \/ xQueueGiveMutexRecursive(t)
      PROVE  ItemsMap
  BY <1>0, <1>3, SendCallMaps, ReadCallMaps, TakeCallMaps, StepMaps, ResetMaps DEF QueueCall
<1>4. \/ UNCHANGED <<queue, copied>> \/ xQueueGenericSendFromISR \/ xQueueReceiveFromISR
      \/ \E t \in Tasks : QueueCall(t) \/ QueueStep(t) \/ xQueueGenericReset(t)
                          \/ xQueueTakeMutexRecursive(t) \/ xQueueGiveMutexRecursive(t)
  BY DEF Next, vars
<1> QED BY <1>1, <1>2, <1>3, <1>4

LEMMA InitMaps == Init => Bounded!Init
<1> SUFFICES ASSUME Init PROVE Bounded!Init
  OBVIOUS
<1>1. ASSUME NEW x \in DataQueues PROVE Items(x) = <<>>
  <2>1. x \in Queues /\ QueueOK(x, queue[x]) /\ queue[x].uxMessagesWaiting = 0
    BY InitInv, QueueTypes, Lengths DEF IInv, Init
  <2>2. Items(x) = ItemsOf(queue[x], x)
    BY DEF Items, ItemsOf
  <2> QED BY <2>1, <2>2, EmptyItems
<1> QED BY <1>1 DEF Bounded!Init, Init

\* Whatever tasks and interrupts use a queue of messages, however their calls
\* interleave and wherever they wait, it holds what a bounded first-in-first-out
\* queue would hold, and every reading gets the message at its front.
THEOREM QueuesAreQueues == Spec => ImplementsQueue
<1>1. IInv /\ KernelInv /\ [Next]_vars => [Bounded!Next]_<<AllItems, copied>>
  BY NextMaps DEF ItemsMap
<1>2. AllItems = [x \in DataQueues |-> Items(x)]
  BY DEF AllItems
<1>3. Init => Bounded!Init
  BY InitMaps
<1> QED BY <1>1, <1>3, Invariance, PTL DEF Spec, ImplementsQueue, Bounded!Spec, AllItems
=============================================================================
