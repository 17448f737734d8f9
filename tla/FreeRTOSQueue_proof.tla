------------------------ MODULE FreeRTOSQueue_proof ------------------------
(***************************************************************************)
(* Proofs about FreeRTOSQueue: the mutexes exclude; a task is in one of    *)
(* the lists of tasks.c at most; no tick is lost; a priority that was lent *)
(* is taken back with the last mutex; a task that sleeps wakes on time;    *)
(* and a call to a queue gives up when its time is over and not before.    *)
(*                                                                         *)
(* The invariant is that of the threads and queues (IInv), and that of the *)
(* kernel they share (KernelInv: each step takes a good kernel to a good   *)
(* one, KernelSteps).  For the times it is strengthened by OnTime: the     *)
(* ticks a task has still to wait are those the delayed lists say.         *)
(***************************************************************************)
EXTENDS FreeRTOSQueue, FreeRTOSKernel_proof, FiniteSetTheorems

\* where a task is in a call of queue.c
QueuePlaces == {"attempt", "suspend", "lock", "check", "poll", "inherit", "place",
                "unlockTx", "unlockRx", "recheck", "disinherit"}

\* a thread is in a call of the scenario, if in any
ThreadOK(th) ==
  /\ DOMAIN th = {"at", "call", "next", "yields", "timed", "since", "overflows", "due",
                  "inherited"}
  /\ Allowed(th.call) /\ th.since \in Int
  /\ {th.at, th.next} \cap QueuePlaces # {} => th.call.on \in Queues

\* the idle task makes no calls
ThreadsInv ==
  /\ scenario \in Scenarios
  /\ thread = [t \in AllTasks |-> thread[t]] /\ thread[Idle] = UserThread
  /\ \A t \in AllTasks : ThreadOK(thread[t])

---------------------------------------------------------------------------
(* The threads *)

LEMMA UserThreadOK == ThreadOK(UserThread) /\ UserThread.call = NoCall
  BY Bounds DEF ThreadOK, UserThread, NoCall, Allowed, QueuePlaces

\* Setting a thread's place, or any field but its call, leaves it in its call.
LEMMA PlaceOK ==
  ASSUME NEW th, ThreadOK(th), NEW v, v \in QueuePlaces => th.call.on \in Queues
  PROVE  ThreadOK([th EXCEPT !.at = v]) /\ ThreadOK([th EXCEPT !.next = v])
  BY DEF ThreadOK, Allowed

LEMMA FieldsOK ==
  ASSUME NEW th, ThreadOK(th), NEW v
  PROVE  /\ ThreadOK([th EXCEPT !.yields = v]) /\ ThreadOK([th EXCEPT !.timed = v])
         /\ ThreadOK([th EXCEPT !.overflows = v]) /\ ThreadOK([th EXCEPT !.due = v])
         /\ ThreadOK([th EXCEPT !.inherited = v])
  BY DEF ThreadOK, Allowed

\* A thread in a call of queue.c goes on in it.
LEMMA InCallOK ==
  ASSUME NEW th, ThreadOK(th), th.call.on \in Queues, NEW at
  PROVE  /\ ThreadOK([th EXCEPT !.at = at])
         /\ \A v : ThreadOK([th EXCEPT !.at = at, !.inherited = v])
         /\ \A next, v : ThreadOK([th EXCEPT !.at = at, !.next = next, !.yields = v])
  BY DEF ThreadOK, Allowed

LEMMA WaitsOK ==
  ASSUME NEW th, ThreadOK(th), th.call.on \in Queues, NEW at, NEW next, NEW v,
         NEW since \in Int, NEW wait \in Ticks
  PROVE  /\ ThreadOK([th EXCEPT !.at = at, !.call.wait = wait, !.yields = v, !.next = next])
         /\ ThreadOK([th EXCEPT !.at = at, !.call.wait = wait, !.since = since, !.overflows = v])
  BY DEF ThreadOK, Allowed

LEMMA CallingOK ==
  ASSUME NEW c, Allowed(c), NEW where, where \in QueuePlaces => c.on \in Queues
  PROVE  ThreadOK(Calling(c, where))
  BY DEF ThreadOK, Calling, UserThread, QueuePlaces

LEMMA TimedOK ==
  ASSUME NEW th, ThreadOK(th), NEW ticks, kernel.xTickCount \in Int
  PROVE  ThreadOK(Timed(th, ticks)) /\ ThreadOK(TimedUnlessForEver(th, ticks))
  BY DEF ThreadOK, Timed, TimedUnlessForEver

LEMMA ContinuedOK ==
  ASSUME NEW th, ThreadOK(th) PROVE ThreadOK(Continued(th))
  BY UserThreadOK DEF ThreadOK, Continued

\* One thread goes on, and the scenario stays.
LEMMA ProceedOK ==
  ASSUME ThreadsInv, NEW t \in Tasks, NEW k, NEW th, ThreadOK(th),
         Proceed(t, k, th), UNCHANGED scenario
  PROVE  ThreadsInv'
  BY Bounds DEF ThreadsInv, Proceed

LEMMA ReturnOK ==
  ASSUME ThreadsInv, NEW t \in AllTasks, NEW k, Return(t, k), UNCHANGED scenario
  PROVE  ThreadsInv'
  BY UserThreadOK, Bounds DEF ThreadsInv, Return, Proceed

LEMMA CallsOfOK ==
  ASSUME ThreadsInv, NEW t, NEW op, NEW c \in CallsOf(t, op)
  PROVE  t \in Tasks /\ Allowed(c) /\ c.op = op /\ DOMAIN c = {"op", "on", "wait", "arg", "how"}
  BY ScenariosAssumption DEF ThreadsInv, CallsOf, Allowed

LEMMA InterruptsOK ==
  ASSUME ThreadsInv, NEW op, NEW c \in Interrupts(op)
  PROVE  Allowed(c) /\ c.op = op
  BY ScenariosAssumption DEF ThreadsInv, Interrupts

LEMMA AgedOK ==
  ASSUME ThreadsInv, NEW k, NEW k1
  PROVE  (\A t \in AllTasks : ThreadOK(Aged(k, k1)[t])) /\ Aged(k, k1)[Idle] = UserThread
  BY Bounds DEF ThreadsInv, ThreadOK, Aged, UserThread

LEMMA TasksInAll == Tasks \subseteq AllTasks /\ Idle \in AllTasks
  BY DEF AllTasks

\* only the application's tasks are in a call
LEMMA AtTask ==
  ASSUME ThreadsInv, NEW t \in AllTasks, NEW where, At(t, where), where # "user" PROVE t \in Tasks
  BY DEF ThreadsInv, At, UserThread, AllTasks

\* The calls of an application keep its threads in calls of the scenario.
LEMMA CallThreads ==
  ASSUME ThreadsInv, kernel.xTickCount \in Int, NEW t \in AllTasks, Call(t) PROVE ThreadsInv'
<1>1. CASE taskYIELD(t)
  BY <1>1, ReturnOK DEF taskYIELD, Unchanged
<1>2. CASE SuspendScheduler(t)
  BY <1>2, ReturnOK DEF SuspendScheduler, Unchanged
<1>3. CASE StartDelay(t)
  <2>1. PICK c \in CallsOf(t, "delay") \cup CallsOf(t, "delayUntil") :
          /\ Proceed(t, vTaskSuspendAll(kernel),
                     [Calling(c, c.op) EXCEPT !.next = "return", !.yields = TRUE])
          /\ Unchanged
    BY <1>3 DEF StartDelay
  <2>2. t \in Tasks /\ ThreadOK([Calling(c, c.op) EXCEPT !.next = "return", !.yields = TRUE])
    <3>1. t \in Tasks /\ Allowed(c) /\ c.op \notin QueuePlaces
      BY CallsOfOK DEF QueuePlaces
    <3>2. ThreadOK(Calling(c, c.op))
      BY <3>1, CallingOK
    <3>3. ThreadOK([Calling(c, c.op) EXCEPT !.next = "return"])
      BY <3>2, PlaceOK DEF QueuePlaces
    <3> QED BY <3>1, <3>3, FieldsOK
  <2> QED BY <2>1, <2>2, ProceedOK DEF Unchanged
<1>4. CASE vTaskSuspend(t)
  <2>1. PICK c \in CallsOf(t, "suspend") : (\E k : Proceed(t, k, Calling(c, "suspended"))) /\ Unchanged
    BY <1>4 DEF vTaskSuspend
  <2> QED BY <2>1, CallsOfOK, CallingOK, ProceedOK DEF Unchanged, QueuePlaces
<1>5. CASE vTaskResume(t)
  <2>1. (\E k : Return(t, k)) /\ Unchanged
    BY <1>5 DEF vTaskResume
  <2> QED BY <2>1, ReturnOK DEF Unchanged
<1>6. CASE vTaskPrioritySet(t)
  <2>1. (\E k : Return(t, k)) /\ Unchanged
    BY <1>6 DEF vTaskPrioritySet
  <2> QED BY <2>1, ReturnOK DEF Unchanged
<1>7. CASE vTaskDelete(t)
  <2>1. PICK c \in CallsOf(t, "delete") :
          /\ \/ \E k : Proceed(t, k, Calling(c, "yield"))
             \/ thread' = [thread EXCEPT ![c.on] = UserThread]
          /\ Unchanged
    BY <1>7 DEF vTaskDelete
  <2>2. CASE \E k : Proceed(t, k, Calling(c, "yield"))
    BY <2>1, <2>2, CallsOfOK, CallingOK, ProceedOK DEF Unchanged, QueuePlaces
  <2>3. CASE thread' = [thread EXCEPT ![c.on] = UserThread]
    BY <2>1, <2>3, UserThreadOK DEF ThreadsInv, Unchanged
  <2> QED BY <2>1, <2>2, <2>3
<1>8. CASE xTaskCreate(t)
  <2>1. PICK c \in CallsOf(t, "create") :
          /\ \E k : Proceed(t, k, Calling(c, "yield")) \/ Return(t, k)
          /\ Unchanged
    BY <1>8 DEF xTaskCreate
  <2> QED BY <2>1, CallsOfOK, CallingOK, ProceedOK, ReturnOK DEF Unchanged, QueuePlaces
<1>9. CASE ulTaskGenericNotifyTake(t)
  <2>1. PICK c \in CallsOf(t, "notifyTake") :
          /\ \E k : \/ Proceed(t, k, TimedUnlessForEver(Calling(c, "notifyTaken"), c.wait))
                    \/ Proceed(t, k, Calling(c, "notifyTaken"))
          /\ Unchanged
    BY <1>9 DEF ulTaskGenericNotifyTake, WaitForNotification
  <2> QED BY <2>1, CallsOfOK, CallingOK, TimedOK, ProceedOK DEF Unchanged, QueuePlaces
<1>10. CASE xTaskGenericNotifyWait(t)
  <2>1. PICK c \in CallsOf(t, "notifyWait") :
          /\ \E k : \/ Proceed(t, k, TimedUnlessForEver(Calling(c, "notifyWaited"), c.wait))
                    \/ Proceed(t, k, Calling(c, "notifyWaited"))
          /\ Unchanged
    BY <1>10 DEF xTaskGenericNotifyWait, WaitForNotification
  <2> QED BY <2>1, CallsOfOK, CallingOK, TimedOK, ProceedOK DEF Unchanged, QueuePlaces
<1>11. CASE xTaskGenericNotify(t)
  <2>1. (\E k : Return(t, k)) /\ Unchanged
    BY <1>11 DEF xTaskGenericNotify
  <2> QED BY <2>1, ReturnOK DEF Unchanged
<1> QED BY <1>1, <1>2, <1>3, <1>4, <1>5, <1>6, <1>7, <1>8, <1>9, <1>10, <1>11 DEF Call

\* So does the rest of a call.
LEMMA StepThreads ==
  ASSUME ThreadsInv, kernel.xTickCount \in Int, NEW t \in AllTasks, Step(t) PROVE ThreadsInv'
<1> ThreadOK(thread[t])
  BY DEF ThreadsInv
<1>1. CASE portYIELD(t)
  BY <1>1, AtTask, ProceedOK, ContinuedOK DEF portYIELD, Unchanged
<1>2. CASE ResumeScheduler(t)
  <2>1. PICK k1 :
          /\ LET th == Aged(kernel, k1)[t]
             IN  \/ thread' = [Aged(kernel, k1) EXCEPT ![t] = [th EXCEPT !.at = "yield"]]
                 \/ thread' = [Aged(kernel, k1) EXCEPT ![t] = Continued(th)]
          /\ UNCHANGED scenario
    BY <1>2 DEF ResumeScheduler, Unchanged
  <2>0. t \in Tasks /\ t # Idle
    BY <1>2, AtTask, CallsOfOK, Bounds DEF ResumeScheduler
  <2>2. (\A x \in AllTasks : ThreadOK(Aged(kernel, k1)[x])) /\ Aged(kernel, k1)[Idle] = UserThread
    BY AgedOK
  <2>3. /\ ThreadOK([Aged(kernel, k1)[t] EXCEPT !.at = "yield"])
        /\ ThreadOK(Continued(Aged(kernel, k1)[t]))
    BY <2>2, PlaceOK, ContinuedOK DEF QueuePlaces
  <2>4. DOMAIN Aged(kernel, k1) = AllTasks /\ Aged(kernel, k1) = [x \in AllTasks |-> Aged(kernel, k1)[x]]
    BY DEF Aged
  <2> DEFINE a == Aged(kernel, k1)
  <2>5. PICK v : ThreadOK(v) /\ thread' = [a EXCEPT ![t] = v]
    BY <2>1, <2>3
  <2>6. a = [x \in AllTasks |-> a[x]] /\ (\A x \in AllTasks : ThreadOK(a[x])) /\ a[Idle] = UserThread
    BY <2>2, <2>4
  <2> HIDE DEF a
  <2> QED BY <2>0, <2>1, <2>5, <2>6 DEF ThreadsInv
<1>3. CASE ReturnFromCall(t)
  BY <1>3, ReturnOK DEF ReturnFromCall, Unchanged
<1>4. CASE vTaskDelay(t)
  <2>1. /\ \E k, ticks : Proceed(t, k, [Timed(thread[t], ticks) EXCEPT !.at = "resume"])
        /\ Unchanged /\ t \in Tasks
    BY <1>4, AtTask DEF vTaskDelay
  <2> QED BY <2>1, TimedOK, PlaceOK, ProceedOK DEF Unchanged, QueuePlaces
<1>5. CASE xTaskDelayUntil(t)
  <2>1. /\ \E k, left : \/ Proceed(t, k, [Timed(thread[t], left) EXCEPT !.at = "resume"])
                        \/ Proceed(t, k, [thread[t] EXCEPT !.at = "resume"])
        /\ UNCHANGED scenario /\ t \in Tasks
    BY <1>5, AtTask DEF xTaskDelayUntil
  <2> QED BY <2>1, TimedOK, PlaceOK, ProceedOK DEF QueuePlaces
<1>6. CASE SuspendedTask(t)
  <2>1. /\ \E k : Proceed(t, k, [thread[t] EXCEPT !.at = "yield"]) \/ Return(t, k)
        /\ Unchanged /\ t \in Tasks
    BY <1>6, AtTask DEF SuspendedTask
  <2> QED BY <2>1, PlaceOK, ProceedOK, ReturnOK DEF Unchanged, QueuePlaces
<1>7. CASE NotifyTaken(t)
  <2>1. (\E k : Return(t, k)) /\ Unchanged
    BY <1>7 DEF NotifyTaken
  <2> QED BY <2>1, ReturnOK DEF Unchanged
<1>8. CASE NotifyWaited(t)
  <2>1. (\E k : Return(t, k)) /\ Unchanged
    BY <1>8 DEF NotifyWaited
  <2> QED BY <2>1, ReturnOK DEF Unchanged
<1> QED BY <1>1, <1>2, <1>3, <1>4, <1>5, <1>6, <1>7, <1>8 DEF Step

\* Whatever the scheduler, the idle task and the application's calls do, the
\* threads are in calls of the scenario.
LEMMA NextTasksThreads ==
  ASSUME ThreadsInv, kernel.xTickCount \in Int, NextTasks PROVE ThreadsInv'
<1>1. CASE Tick
  <2>1. PICK k1 : thread' = Aged(kernel, k1) /\ UNCHANGED scenario
    BY <1>1 DEF Tick
  <2>2. Aged(kernel, k1) = [x \in AllTasks |-> Aged(kernel, k1)[x]]
    BY DEF Aged
  <2> QED BY <2>1, <2>2, AgedOK DEF ThreadsInv
<1>2. CASE Interrupt
  <2>1. UNCHANGED <<thread, scenario>>
    BY <1>2 DEF Interrupt, xTaskGenericNotifyFromISR, xTaskResumeFromISR, EndInterrupt, Unchanged
  <2> QED BY <2>1 DEF ThreadsInv
<1>3. CASE IdleStep
  <2>1. CASE prvCheckTasksWaitingTermination
    <3>1. (\E x : thread' = [thread EXCEPT ![x] = UserThread]) /\ UNCHANGED scenario
      BY <2>1 DEF prvCheckTasksWaitingTermination, Unchanged
    <3> QED BY <3>1, UserThreadOK DEF ThreadsInv
  <2>2. CASE prvIdleTask
    BY <2>2, ReturnOK, TasksInAll DEF prvIdleTask, Unchanged
  <2> QED BY <1>3, <2>1, <2>2 DEF IdleStep
<1>4. CASE \E t \in AllTasks : Call(t) \/ Step(t)
  BY <1>4, CallThreads, StepThreads
<1> QED BY <1>1, <1>2, <1>3, <1>4 DEF NextTasks

---------------------------------------------------------------------------
(* The invariant of the queues *)

Cells(q) == 0 .. uxLength[q] - 1

QueueRecords(q) ==
  [uxMessagesWaiting : 0 .. uxLength[q], store : [Cells(q) -> Messages \cup {NoMessage}],
   pcReadFrom : Cells(q), pcWriteTo : Cells(q), xMutexHolder : Tasks \cup {NoTask},
   uxRecursiveCallCount : Int, cRxLock : Int, cTxLock : Int]

\* A queue's fields have their types, pcWriteTo is behind its last message, and
\* only a mutex has a holder.
QueueOK(q, r) ==
  /\ r \in QueueRecords(q)
  /\ q \notin Mutexes => r.xMutexHolder = NoTask
  /\ q \in DataQueues =>
       r.pcWriteTo = (r.pcReadFrom + 1 + r.uxMessagesWaiting) % uxLength[q]

QueuesInv ==
  /\ queue = [q \in Queues |-> queue[q]]
  /\ \A q \in Queues : QueueOK(q, queue[q])

\* a mutex is there when no task has it
MutexInv ==
  /\ owns \in [Tasks -> SUBSET Mutexes]
  /\ \A x \in Mutexes : Holder(x) = NoTask <=> queue[x].uxMessagesWaiting = 1

IInv == ThreadsInv /\ QueuesInv /\ MutexInv /\ MutualExclusion

LEMMA Lengths ==
  /\ \A q \in Queues : uxLength[q] \in Nat \ {0}
  /\ \A q \in Mutexes : q \in Queues /\ uxLength[q] = 1 /\ q \notin DataQueues /\ q \notin Semaphores
  /\ \A q \in DataQueues : q \in Queues /\ q \notin Semaphores /\ q \notin Mutexes
  /\ \A q \in Semaphores : q \in Queues /\ q \notin DataQueues /\ q \notin Mutexes
  /\ NoTask \notin Tasks
  BY QueuesAssumption, TasksAssumption DEF Queues

\* the remainders of what is counted from a cell
LEMMA Remainders ==
  ASSUME NEW L \in Nat \ {0}, NEW x \in 0 .. 2 * L
  PROVE  x % L = IF x < L THEN x ELSE IF x < 2 * L THEN x - L ELSE 0
<1>1. CASE x < L
  BY <1>1, SMT
<1>2. CASE x >= L /\ x < 2 * L
  BY <1>2, SMT
<1>3. CASE x = 2 * L
  BY <1>3, SMT
<1> QED BY <1>1, <1>2, <1>3

\* the same place, one cell and one message on
LEMMA BehindBack ==
  ASSUME NEW L \in Nat \ {0}, NEW p \in 0 .. L - 1, NEW n \in 0 .. L - 1
  PROVE  (IF ((p + 1 + n) % L) + 1 = L THEN 0 ELSE ((p + 1 + n) % L) + 1) = (p + 1 + (n + 1)) % L
<1> DEFINE x == p + 1 + n  y == p + 1 + (n + 1)
<1>1. x \in 0 .. 2 * L /\ y \in 0 .. 2 * L /\ y = x + 1
  OBVIOUS
<1>2. x % L = IF x < L THEN x ELSE IF x < 2 * L THEN x - L ELSE 0
  BY <1>1, Remainders
<1>3. y % L = IF y < L THEN y ELSE IF y < 2 * L THEN y - L ELSE 0
  BY <1>1, Remainders
<1> HIDE DEF x, y
<1> QED BY <1>1, <1>2, <1>3

LEMMA BeforeFront ==
  ASSUME NEW L \in Nat \ {0}, NEW p \in 0 .. L - 1, NEW n \in 0 .. L - 1
  PROVE  (p + 1 + n) % L = ((IF p = 0 THEN L - 1 ELSE p - 1) + 1 + (n + 1)) % L
<1> DEFINE x == p + 1 + n
           y == (IF p = 0 THEN L - 1 ELSE p - 1) + 1 + (n + 1)
<1>1. x \in 0 .. 2 * L /\ y \in 0 .. 2 * L /\ (y = x \/ (p = 0 /\ y = x + L))
  OBVIOUS
<1>2. x % L = IF x < L THEN x ELSE IF x < 2 * L THEN x - L ELSE 0
  BY <1>1, Remainders
<1>3. y % L = IF y < L THEN y ELSE IF y < 2 * L THEN y - L ELSE 0
  BY <1>1, Remainders
<1>4. p = 0 => x <= L
  OBVIOUS
<1> HIDE DEF x, y
<1> QED BY <1>1, <1>2, <1>3, <1>4

LEMMA AfterFront ==
  ASSUME NEW L \in Nat \ {0}, NEW p \in 0 .. L - 1, NEW n \in 1 .. L
  PROVE  ((IF p + 1 = L THEN 0 ELSE p + 1) + 1 + (n - 1)) % L = (p + 1 + n) % L
<1> DEFINE x == p + 1 + n
           y == (IF p + 1 = L THEN 0 ELSE p + 1) + 1 + (n - 1)
<1>1. x \in 0 .. 2 * L /\ y \in 0 .. 2 * L /\ (y = x \/ (p + 1 = L /\ y = x - L))
  OBVIOUS
<1>2. x % L = IF x < L THEN x ELSE IF x < 2 * L THEN x - L ELSE 0
  BY <1>1, Remainders
<1>3. y % L = IF y < L THEN y ELSE IF y < 2 * L THEN y - L ELSE 0
  BY <1>1, Remainders
<1>4. p + 1 = L => x >= L
  OBVIOUS
<1> HIDE DEF x, y
<1> QED BY <1>1, <1>2, <1>3, <1>4

LEMMA AfterIs ==
  ASSUME NEW q \in Queues, NEW cell \in Cells(q)
  PROVE  After(q, cell) = (cell + 1) % uxLength[q] /\ After(q, cell) \in Cells(q)
  BY Lengths, Remainders DEF After, Cells

LEMMA BeforeIs ==
  ASSUME NEW q \in Queues, NEW cell \in Cells(q)
  PROVE  Before(q, cell) \in Cells(q) /\ (Before(q, cell) + 1) % uxLength[q] = cell
  BY Lengths, Remainders DEF Before, Cells

\* What is copied into a queue leaves it as it should be.
LEMMA CopyOK ==
  ASSUME NEW q \in Queues, QueueOK(q, queue[q]), NEW how, NEW message,
         q \in DataQueues => message \in Messages,
         HasRoom(q) \/ how = "overwrite",
         how = "overwrite" => q \in DataQueues /\ uxLength[q] = 1
  PROVE  QueueOK(q, prvCopyDataToQueue(q, how, message))
<1> DEFINE r == queue[q]  L == uxLength[q]  n == r.uxMessagesWaiting
<1>0. L \in Nat \ {0}
  BY Lengths
<1>1. r \in QueueRecords(q)
  BY DEF QueueOK, QueueRecords
<1>2. /\ n \in 0 .. L /\ r.pcReadFrom \in 0 .. L - 1 /\ r.pcWriteTo \in 0 .. L - 1
      /\ how # "overwrite" => n < L
  BY <1>0, <1>1 DEF QueueRecords, Cells, HasRoom
<1>3. q \in DataQueues => r.pcWriteTo = (r.pcReadFrom + 1 + n) % L
  BY DEF QueueOK
<1>4. CASE q \notin DataQueues
  <2>1. how # "overwrite" /\ (q \in Mutexes \/ q \in Semaphores)
    BY <1>4 DEF Queues
  <2>2. n + 1 \in 0 .. L
    BY <1>0, <1>2, <2>1
  <2> QED BY <1>1, <1>4, <2>1, <2>2 DEF QueueOK, QueueRecords, prvCopyDataToQueue
<1>5. CASE q \in DataQueues /\ how = "back"
  <2>1. n + 1 \in 0 .. L /\ n \in 0 .. L - 1
    BY <1>0, <1>2, <1>5
  <2>2. After(q, r.pcWriteTo) = (r.pcReadFrom + 1 + (n + 1)) % L
    <3>1. (r.pcReadFrom + 1 + n) % L = r.pcWriteTo
      BY <1>3, <1>5
    <3> HIDE DEF r, L, n
    <3>2. (IF ((r.pcReadFrom + 1 + n) % L) + 1 = L THEN 0 ELSE ((r.pcReadFrom + 1 + n) % L) + 1)
            = (r.pcReadFrom + 1 + (n + 1)) % L
      BY <1>0, <1>2, <2>1, BehindBack
    <3> QED BY <3>1, <3>2, Zenon DEF After, L
  <2>3. After(q, r.pcWriteTo) \in Cells(q)
    BY <1>2, AfterIs DEF Cells
  <2> QED BY <1>1, <1>5, <2>1, <2>2, <2>3, Lengths DEF QueueOK, QueueRecords, prvCopyDataToQueue
<1>6. CASE q \in DataQueues /\ how # "back"
  <2> DEFINE m == IF how = "overwrite" /\ n > 0 THEN n ELSE n + 1
  <2>1. m \in 0 .. L
    BY <1>0, <1>2, <1>6
  <2>2. r.pcWriteTo = (Before(q, r.pcReadFrom) + 1 + m) % L
    <3>1. CASE m = n + 1 /\ n < L
      <4>1. (r.pcReadFrom + 1 + n) % L = r.pcWriteTo /\ n \in 0 .. L - 1
        BY <1>0, <1>2, <1>3, <1>6, <3>1
      <4> HIDE DEF r, L, n, m
      <4>2. r.pcWriteTo = ((IF r.pcReadFrom = 0 THEN L - 1 ELSE r.pcReadFrom - 1) + 1 + (n + 1)) % L
        BY <1>0, <1>2, <4>1, BeforeFront
      <4> QED BY <3>1, <4>2 DEF Before, L
    <3>2. CASE ~(m = n + 1 /\ n < L)
      <4>1. L = 1 /\ m = 1 /\ r.pcReadFrom = 0 /\ r.pcWriteTo = 0
        BY <1>0, <1>2, <1>6, <2>1, <3>2
      <4>2. Before(q, r.pcReadFrom) = 0
        BY <4>1 DEF Before
      <4> QED BY <4>1, <4>2, SMT
    <3> QED BY <3>1, <3>2
  <2>3. Before(q, r.pcReadFrom) \in Cells(q)
    BY <1>2, BeforeIs DEF Cells
  <2> QED BY <1>1, <1>6, <2>1, <2>2, <2>3, Lengths DEF QueueOK, QueueRecords, prvCopyDataToQueue
<1> QED BY <1>4, <1>5, <1>6

LEMMA TakeOK ==
  ASSUME NEW q \in Queues, QueueOK(q, queue[q]), ~IsEmpty(q)
  PROVE  QueueOK(q, TakeFront(q))
<1> DEFINE r == queue[q]  L == uxLength[q]  n == r.uxMessagesWaiting
<1>0. L \in Nat \ {0}
  BY Lengths
<1>1. r \in QueueRecords(q)
  BY DEF QueueOK, QueueRecords
<1>2. n \in 1 .. L /\ r.pcReadFrom \in 0 .. L - 1
  BY <1>0, <1>1 DEF QueueRecords, Cells, IsEmpty
<1>3. (After(q, r.pcReadFrom) + 1 + (n - 1)) % L = (r.pcReadFrom + 1 + n) % L
  BY <1>0, <1>2, AfterFront DEF After
<1>4. After(q, r.pcReadFrom) \in Cells(q) /\ n - 1 \in 0 .. L
  BY <1>0, <1>2, AfterIs DEF Cells
<1> QED BY <1>1, <1>3, <1>4 DEF QueueOK, QueueRecords, TakeFront

---------------------------------------------------------------------------
(* Steps that change one queue *)

LEMMA QueueTypes ==
  ASSUME QueuesInv, NEW x \in Queues
  PROVE  /\ QueueOK(x, queue[x]) /\ queue[x] \in QueueRecords(x)
         /\ uxLength[x] \in Nat \ {0} /\ queue[x].uxMessagesWaiting \in 0 .. uxLength[x]
         /\ queue[x].xMutexHolder \in Tasks \cup {NoTask}
         /\ queue[x].cRxLock \in Int /\ queue[x].cTxLock \in Int
         /\ queue[x].uxRecursiveCallCount \in Int
  BY Lengths DEF QueuesInv, QueueOK, QueueRecords

\* The locks and the recursion count say nothing of the messages.
LEMMA LocksOK ==
  ASSUME NEW x \in Queues, NEW r, QueueOK(x, r), NEW v \in Int
  PROVE  /\ QueueOK(x, [r EXCEPT !.cRxLock = v]) /\ QueueOK(x, [r EXCEPT !.cTxLock = v])
         /\ QueueOK(x, [r EXCEPT !.uxRecursiveCallCount = v])
  BY DEF QueueOK, QueueRecords

\* as far as the messages, and who holds it, go
SameContents(r1, r) ==
  /\ r1.uxMessagesWaiting = r.uxMessagesWaiting /\ r1.store = r.store
  /\ r1.pcReadFrom = r.pcReadFrom /\ r1.xMutexHolder = r.xMutexHolder

LEMMA LocksSame ==
  ASSUME NEW x \in Queues, NEW r, QueueOK(x, r), NEW v \in Int, NEW w \in Int
  PROVE  /\ SameContents([r EXCEPT !.cRxLock = v], r) /\ SameContents([r EXCEPT !.cTxLock = v], r)
         /\ SameContents([r EXCEPT !.cTxLock = v, !.cRxLock = w], r)
         /\ QueueOK(x, [r EXCEPT !.cTxLock = v, !.cRxLock = w])
  BY DEF QueueOK, QueueRecords, SameContents

LEMMA SetLocks ==
  ASSUME QueuesInv, NEW x \in Queues, NEW v, NEW w
  PROVE  /\ [queue EXCEPT ![x].cTxLock = v] = [queue EXCEPT ![x] = [queue[x] EXCEPT !.cTxLock = v]]
         /\ [queue EXCEPT ![x].cRxLock = v] = [queue EXCEPT ![x] = [queue[x] EXCEPT !.cRxLock = v]]
         /\ [queue EXCEPT ![x].cTxLock = v, ![x].cRxLock = w]
              = [queue EXCEPT ![x] = [queue[x] EXCEPT !.cTxLock = v, !.cRxLock = w]]
  BY DEF QueuesInv, QueueOK, QueueRecords

LEMMA PutOK ==
  ASSUME QueuesInv, NEW x \in Queues, NEW r, QueueOK(x, r), queue' = [queue EXCEPT ![x] = r]
  PROVE  QueuesInv' /\ queue'[x] = r /\ \A y \in Queues : y # x => queue'[y] = queue[y]
  BY DEF QueuesInv, QueueOK, QueueRecords, Cells

\* While no mutex is taken or given, nothing changes about who has which.
LEMMA MutexSame ==
  ASSUME MutexInv, MutualExclusion, UNCHANGED owns,
         \A x \in Mutexes : /\ queue'[x].xMutexHolder = queue[x].xMutexHolder
                            /\ queue'[x].uxMessagesWaiting = queue[x].uxMessagesWaiting
  PROVE  MutexInv' /\ MutualExclusion'
  BY DEF MutexInv, MutualExclusion, Holder

\* as when the queue that changes is none
LEMMA OtherQueue ==
  ASSUME QueuesInv, MutexInv, MutualExclusion, UNCHANGED owns,
         NEW x \in Queues, NEW r, QueueOK(x, r), queue' = [queue EXCEPT ![x] = r], x \notin Mutexes
  PROVE  QueuesInv' /\ MutexInv' /\ MutualExclusion'
<1>1. QueuesInv' /\ \A y \in Queues : y # x => queue'[y] = queue[y]
  BY PutOK
<1>2. \A y \in Mutexes : queue'[y] = queue[y]
  BY <1>1, Lengths
<1> QED BY <1>1, <1>2, MutexSame

LEMMA SameQueues ==
  ASSUME QueuesInv, MutexInv, MutualExclusion, UNCHANGED <<queue, owns>>
  PROVE  QueuesInv' /\ MutexInv' /\ MutualExclusion'
  BY DEF QueuesInv, MutexInv, MutualExclusion, QueueOK, QueueRecords, Cells, Holder

---------------------------------------------------------------------------
(* The calls *)

LEMMA AttemptingOK ==
  ASSUME ThreadsInv, NEW t \in Tasks, NEW ops, NEW c \in Attempting(t, ops)
  PROVE  Allowed(c) /\ c.op \in ops /\ (At(t, "attempt") => c.on \in Queues /\ c = thread[t].call)
<1>1. CASE At(t, "attempt")
  BY <1>1, TasksInAll DEF Attempting, ThreadsInv, ThreadOK, QueuePlaces, At
<1>2. CASE ~At(t, "attempt")
  <2>1. PICK op \in ops : c \in CallsOf(t, op)
    BY <1>2 DEF Attempting
  <2> QED BY <1>2, <2>1, CallsOfOK
<1> QED BY <1>1, <1>2

LEMMA CannotYetOK ==
  ASSUME ThreadsInv, kernel.xTickCount \in Int, NEW t \in Tasks, NEW c, Allowed(c),
         c.on \in Queues, CannotYet(t, c), UNCHANGED scenario
  PROVE  ThreadsInv'
<1>1. ThreadOK(thread[t]) /\ t \in AllTasks
  BY TasksInAll DEF ThreadsInv
<1>2. CASE c.wait = 0
  BY <1>1, <1>2, ReturnOK DEF CannotYet
<1>3. CASE c.wait # 0
  <2>1. \/ At(t, "attempt") /\ Proceed(t, kernel, [thread[t] EXCEPT !.at = "suspend"])
        \/ Proceed(t, kernel, TimedUnlessForEver(Calling(c, "suspend"), c.wait))
    BY <1>3 DEF CannotYet
  <2>2. At(t, "attempt") => ThreadOK([thread[t] EXCEPT !.at = "suspend"])
    <3>1. At(t, "attempt") => thread[t].call.on \in Queues
      BY <1>1 DEF ThreadOK, QueuePlaces, At
    <3> QED BY <1>1, <3>1, PlaceOK
  <2>3. ThreadOK(TimedUnlessForEver(Calling(c, "suspend"), c.wait))
    BY CallingOK, TimedOK
  <2> QED BY <1>1, <2>1, <2>2, <2>3, ProceedOK
<1> QED BY <1>2, <1>3

\* Who gives a mutex had it, and now nobody has.
LEMMA SendInv ==
  ASSUME IInv, kernel.xTickCount \in Int, NEW t \in Tasks, xQueueGenericSend(t) PROVE IInv'
<1>1. PICK c \in Attempting(t, {"send", "give"}) :
        /\ c.on \in Mutexes => c.on \in owns[t]
        /\ \/ /\ HasRoom(c.on) \/ c.how = "overwrite"
              /\ \E k : Return(t, k)
              /\ queue' = [queue EXCEPT ![c.on] = prvCopyDataToQueue(c.on, c.how, c.arg)]
              /\ owns' = [owns EXCEPT ![t] = @ \ {c.on}]
           \/ CannotYet(t, c) /\ UNCHANGED <<queue, owns>>
        /\ UNCHANGED scenario
  BY DEF xQueueGenericSend, Unchanged
<1>2. Allowed(c) /\ c.op \in {"send", "give"} /\ ThreadsInv /\ QueuesInv /\ MutexInv /\ MutualExclusion
  BY AttemptingOK DEF IInv
<1>3. /\ c.on \in Queues /\ (c.on \in DataQueues => c.arg \in Messages)
      /\ c.how = "overwrite" => c.on \in DataQueues /\ uxLength[c.on] = 1
  BY <1>2, Lengths DEF Allowed, Queues
<1>4. CASE CannotYet(t, c) /\ UNCHANGED <<queue, owns>>
  BY <1>1, <1>2, <1>3, <1>4, CannotYetOK, SameQueues DEF IInv
<1>5. CASE ~(CannotYet(t, c) /\ UNCHANGED <<queue, owns>>)
  <2> DEFINE r == prvCopyDataToQueue(c.on, c.how, c.arg)
  <2>1. QueueOK(c.on, r)
    BY <1>1, <1>2, <1>3, <1>5, CopyOK DEF QueuesInv
  <2>2. QueuesInv' /\ queue'[c.on] = r /\ \A y \in Queues : y # c.on => queue'[y] = queue[y]
    BY <1>1, <1>2, <1>3, <1>5, <2>1, PutOK
  <2>3. ThreadsInv'
    BY <1>1, <1>2, <1>5, ReturnOK, TasksInAll
  <2>4. CASE c.on \in Mutexes
    <3>1. /\ queue'[c.on].xMutexHolder = NoTask
          /\ queue'[c.on].uxMessagesWaiting = queue[c.on].uxMessagesWaiting + 1
      BY <1>2, <1>3, <2>2, <2>4 DEF prvCopyDataToQueue, QueuesInv, QueueOK, QueueRecords
    <3>2. Holder(c.on) = t /\ queue[c.on].uxMessagesWaiting = 0
      <4>1. Holder(c.on) = t
        BY <1>1, <1>2, <2>4 DEF MutualExclusion
      <4>2. queue[c.on].uxMessagesWaiting \in 0 .. 1
        BY <1>2, <1>3, <2>4, QueueTypes, Lengths
      <4>3. queue[c.on].uxMessagesWaiting # 1
        BY <1>2, <2>4, <4>1, Lengths DEF MutexInv
      <4> QED BY <4>1, <4>2, <4>3
    <3>3. \A y \in Mutexes : y # c.on => queue'[y] = queue[y]
      BY <2>2, Lengths
    <3>4. MutexInv'
      BY <1>1, <1>2, <1>5, <3>1, <3>2, <3>3 DEF MutexInv, Holder
    <3>5. MutualExclusion'
      BY <1>1, <1>2, <1>5, <3>1, <3>2, <3>3, Lengths DEF MutexInv, MutualExclusion, Holder
    <3> QED BY <2>2, <2>3, <3>4, <3>5 DEF IInv
  <2>5. CASE c.on \notin Mutexes
    <3>0. owns[t] \ {c.on} = owns[t] /\ owns \in [Tasks -> SUBSET Mutexes]
      BY <1>2, <2>5 DEF MutexInv
    <3>1. UNCHANGED owns
      BY <1>1, <1>5, <3>0
    <3> QED BY <1>1, <1>2, <1>3, <1>5, <2>1, <2>3, <2>5, <3>1, OtherQueue DEF IInv
  <2> QED BY <2>4, <2>5
<1> QED BY <1>4, <1>5

LEMMA ReceiveInv ==
  ASSUME IInv, kernel.xTickCount \in Int, NEW t \in Tasks, xQueueReceive(t) PROVE IInv'
<1>1. PICK c \in Attempting(t, {"receive"}) :
        /\ \/ /\ ~IsEmpty(c.on) /\ \E k : Return(t, k)
              /\ queue' = [queue EXCEPT ![c.on] = TakeFront(c.on)]
           \/ CannotYet(t, c) /\ UNCHANGED queue
        /\ UNCHANGED <<scenario, owns>>
  BY DEF xQueueReceive, Unchanged
<1>2. Allowed(c) /\ c.on \in DataQueues /\ c.on \in Queues /\ c.on \notin Mutexes
  BY AttemptingOK, Lengths DEF IInv, Allowed
<1>3. CASE CannotYet(t, c) /\ UNCHANGED queue
  BY <1>1, <1>2, <1>3, CannotYetOK, SameQueues DEF IInv
<1>4. CASE ~(CannotYet(t, c) /\ UNCHANGED queue)
  <2>1. QueueOK(c.on, TakeFront(c.on))
    BY <1>1, <1>2, <1>4, TakeOK DEF IInv, QueuesInv
  <2>2. ThreadsInv'
    BY <1>1, <1>4, ReturnOK, TasksInAll DEF IInv
  <2> QED BY <1>1, <1>2, <1>4, <2>1, <2>2, OtherQueue DEF IInv
<1> QED BY <1>3, <1>4

LEMMA PeekInv ==
  ASSUME IInv, kernel.xTickCount \in Int, NEW t \in Tasks, xQueuePeek(t) PROVE IInv'
<1>1. PICK c \in Attempting(t, {"peek"}) :
        /\ CannotYet(t, c) \/ \E k : Return(t, k)
        /\ UNCHANGED <<scenario, queue, owns>>
  BY DEF xQueuePeek, Unchanged
<1>2. ThreadsInv /\ Allowed(c) /\ c.on \in Queues
  BY AttemptingOK, Lengths DEF IInv, Allowed
<1>3. ThreadsInv'
  BY <1>1, <1>2, CannotYetOK, ReturnOK, TasksInAll
<1> QED BY <1>1, <1>3, SameQueues DEF IInv

\* Who takes a mutex finds it, and so nobody had it.
LEMMA TakeInv ==
  ASSUME IInv, kernel.xTickCount \in Int, NEW t \in Tasks, xQueueSemaphoreTake(t) PROVE IInv'
<1>1. PICK c \in Attempting(t, {"take", "takeRecursive"}), count \in {0, 1} :
        /\ \/ /\ ~IsEmpty(c.on) /\ \E k : Return(t, k)
              /\ queue' = [queue EXCEPT ![c.on].uxMessagesWaiting = @ - 1,
                                        ![c.on].xMutexHolder = IF c.on \in Mutexes THEN t ELSE @,
                                        ![c.on].uxRecursiveCallCount = @ + count]
              /\ owns' = [owns EXCEPT ![t] = IF c.on \in Mutexes THEN @ \cup {c.on} ELSE @]
           \/ CannotYet(t, c) /\ UNCHANGED <<queue, owns>>
        /\ UNCHANGED scenario
  BY DEF xQueueSemaphoreTake, Unchanged
<1>2. /\ Allowed(c) /\ c.on \in Queues /\ c.on \notin DataQueues
      /\ ThreadsInv /\ QueuesInv /\ MutexInv /\ MutualExclusion
  BY AttemptingOK, Lengths DEF IInv, Allowed
<1>3. CASE CannotYet(t, c) /\ UNCHANGED <<queue, owns>>
  BY <1>1, <1>2, <1>3, CannotYetOK, SameQueues DEF IInv
<1>4. CASE ~(CannotYet(t, c) /\ UNCHANGED <<queue, owns>>)
  <2> DEFINE r0 == queue[c.on]
             r == [r0 EXCEPT !.uxMessagesWaiting = @ - 1,
                             !.xMutexHolder = IF c.on \in Mutexes THEN t ELSE @,
                             !.uxRecursiveCallCount = @ + count]
  <2>1. r0 \in QueueRecords(c.on) /\ r0.uxMessagesWaiting \in 1 .. uxLength[c.on]
    BY <1>1, <1>2, <1>4, QueueTypes DEF IsEmpty
  <2>2. QueueOK(c.on, r)
    <3>1. r0.uxMessagesWaiting - 1 \in 0 .. uxLength[c.on]
      BY <1>2, <2>1, QueueTypes
    <3>2. r0.uxRecursiveCallCount + count \in Int
      BY <1>2, QueueTypes
    <3>3. /\ c.on \notin Mutexes => r0.xMutexHolder = NoTask
          /\ (IF c.on \in Mutexes THEN t ELSE r0.xMutexHolder) \in Tasks \cup {NoTask}
      BY <1>2, QueueTypes DEF QueueOK
    <3> QED BY <1>2, <2>1, <3>1, <3>2, <3>3 DEF QueueOK, QueueRecords
  <2>3. queue' = [queue EXCEPT ![c.on] = r]
    BY <1>1, <1>2, <1>4, <2>1 DEF QueuesInv, QueueRecords
  <2>4. QueuesInv' /\ queue'[c.on] = r /\ \A y \in Queues : y # c.on => queue'[y] = queue[y]
    BY ZenonT(40), <1>2, <2>2, <2>3, PutOK
  <2>5. ThreadsInv'
    BY <1>1, <1>2, <1>4, ReturnOK, TasksInAll
  <2>6. CASE c.on \in Mutexes
    <3>1. queue'[c.on].xMutexHolder = t /\ queue'[c.on].uxMessagesWaiting = 0
      BY <2>1, <2>4, <2>6, Lengths DEF QueueRecords
    <3>2. Holder(c.on) = NoTask
      BY <1>2, <2>1, <2>6, Lengths DEF MutexInv
    <3>3. \A y \in Mutexes : y # c.on => queue'[y] = queue[y]
      BY <2>4, Lengths
    <3>4. MutexInv'
      BY <1>1, <1>2, <1>4, <2>6, <3>1, <3>3, Lengths DEF MutexInv, Holder
    <3>5. MutualExclusion'
      BY <1>1, <1>2, <1>4, <2>6, <3>1, <3>2, <3>3, Lengths DEF MutexInv, MutualExclusion, Holder
    <3> QED BY <2>4, <2>5, <3>4, <3>5 DEF IInv
  <2>7. CASE c.on \notin Mutexes
    <3>1. UNCHANGED owns
      BY <1>1, <1>2, <1>4, <2>7 DEF MutexInv
    <3> QED BY <1>2, <2>2, <2>3, <2>5, <2>7, <3>1, OtherQueue DEF IInv
  <2> QED BY <2>6, <2>7
<1> QED BY <1>3, <1>4

\* Setting one field of one queue that says nothing of its messages.
LEMMA FieldInv ==
  ASSUME QueuesInv, MutexInv, MutualExclusion, UNCHANGED owns, NEW x \in Queues, NEW r,
         QueueOK(x, r), queue' = [queue EXCEPT ![x] = r],
         r.xMutexHolder = queue[x].xMutexHolder, r.uxMessagesWaiting = queue[x].uxMessagesWaiting
  PROVE  QueuesInv' /\ MutexInv' /\ MutualExclusion'
<1>1. QueuesInv' /\ queue'[x] = r /\ \A y \in Queues : y # x => queue'[y] = queue[y]
  BY PutOK
<1> QED BY <1>1, MutexSame, Lengths

LEMMA RecursiveInv ==
  ASSUME IInv, NEW t \in Tasks, xQueueTakeMutexRecursive(t) \/ xQueueGiveMutexRecursive(t)
  PROVE  IInv'
<1>1. PICK c, d :
        /\ d \in {-1, 1} /\ Allowed(c) /\ c.on \in Mutexes
        /\ queue' = [queue EXCEPT ![c.on].uxRecursiveCallCount = @ + d] \/ UNCHANGED queue
        /\ \E k : \/ Return(t, k)
                  \/ Proceed(t, k, Calling([c EXCEPT !.op = "give"], "attempt"))
        /\ UNCHANGED <<owns, scenario>>
  <2>1. CASE xQueueTakeMutexRecursive(t)
    <3>1. PICK c \in CallsOf(t, "takeRecursive") :
            /\ queue' = [queue EXCEPT ![c.on].uxRecursiveCallCount = @ + 1]
            /\ Return(t, kernel) /\ UNCHANGED <<owns, scenario>>
      BY <2>1 DEF xQueueTakeMutexRecursive, Unchanged
    <3>2. Allowed(c) /\ c.on \in Mutexes
      BY CallsOfOK DEF Allowed, IInv
    <3> QED BY <3>1, <3>2
  <2>2. CASE xQueueGiveMutexRecursive(t)
    <3>1. PICK c \in CallsOf(t, "giveRecursive") :
            /\ queue' = [queue EXCEPT ![c.on].uxRecursiveCallCount = @ - 1] \/ UNCHANGED queue
            /\ \/ Return(t, kernel)
               \/ Proceed(t, kernel, Calling([c EXCEPT !.op = "give"], "attempt"))
            /\ UNCHANGED <<owns, scenario>>
      BY <2>2 DEF xQueueGiveMutexRecursive, Unchanged
    <3>2. Allowed(c) /\ c.on \in Mutexes
      BY CallsOfOK DEF Allowed, IInv
    <3>3. queue[c.on].uxRecursiveCallCount - 1 = queue[c.on].uxRecursiveCallCount + (-1)
      BY <3>2, QueueTypes, Lengths DEF IInv
    <3> QED BY <3>1, <3>2, <3>3
  <2> QED BY <2>1, <2>2
<1>2. c.on \in Queues /\ ThreadsInv /\ QueuesInv /\ MutexInv /\ MutualExclusion
  BY <1>1, Lengths DEF IInv
<1>3. ThreadsInv'
  <2>1. Allowed([c EXCEPT !.op = "give"])
    BY <1>1 DEF Allowed
  <2>2. [c EXCEPT !.op = "give"].on \in Queues
    BY <1>1, <1>2 DEF Allowed
  <2>3. ThreadOK(Calling([c EXCEPT !.op = "give"], "attempt"))
    BY <2>1, <2>2, CallingOK
  <2> QED BY <1>1, <1>2, <2>3, ReturnOK, ProceedOK, TasksInAll
<1>4. CASE queue' = [queue EXCEPT ![c.on].uxRecursiveCallCount = @ + d]
  <2> DEFINE r == [queue[c.on] EXCEPT !.uxRecursiveCallCount = @ + d]
  <2>0. QueueOK(c.on, queue[c.on]) /\ queue[c.on].uxRecursiveCallCount + d \in Int
    BY <1>1, <1>2, QueueTypes
  <2>1. QueueOK(c.on, r)
    BY <1>2, <2>0, LocksOK
  <2>2. /\ queue' = [queue EXCEPT ![c.on] = r]
        /\ r.xMutexHolder = queue[c.on].xMutexHolder
        /\ r.uxMessagesWaiting = queue[c.on].uxMessagesWaiting
    BY <1>2, <1>4, QueueTypes DEF QueuesInv, QueueRecords
  <2> HIDE DEF r
  <2> QED BY <1>1, <1>2, <1>3, <2>1, <2>2, FieldInv DEF IInv
<1>5. CASE UNCHANGED queue
  BY <1>1, <1>2, <1>3, <1>5, SameQueues DEF IInv
<1> QED BY <1>1, <1>4, <1>5

LEMMA ResetIs ==
  ASSUME IInv, NEW t \in Tasks, xQueueGenericReset(t)
  PROVE  /\ \E k : Return(t, k)
         /\ \E x \in DataQueues : \E r :
              QueueOK(x, r) /\ queue' = [queue EXCEPT ![x] = r] /\ r.uxMessagesWaiting = 0
         /\ UNCHANGED <<owns, scenario, copied>>
<1>1. PICK c \in CallsOf(t, "reset") :
        /\ queue' = [queue EXCEPT ![c.on].uxMessagesWaiting = 0, ![c.on].pcWriteTo = 0,
                                  ![c.on].pcReadFrom = uxLength[c.on] - 1,
                                  ![c.on].cRxLock = queueUNLOCKED, ![c.on].cTxLock = queueUNLOCKED]
        /\ \E k : Return(t, k)
        /\ UNCHANGED <<owns, scenario, copied>>
  BY DEF xQueueGenericReset, Unchanged
<1>2. /\ c.on \in DataQueues /\ c.on \in Queues /\ c.on \notin Mutexes
      /\ ThreadsInv /\ QueuesInv /\ MutexInv /\ MutualExclusion
  BY CallsOfOK, Lengths DEF IInv, Allowed
<1> DEFINE r == [queue[c.on] EXCEPT !.uxMessagesWaiting = 0, !.pcWriteTo = 0,
                                    !.pcReadFrom = uxLength[c.on] - 1,
                                    !.cRxLock = queueUNLOCKED, !.cTxLock = queueUNLOCKED]
<1>3. QueueOK(c.on, r)
  <2>1. (uxLength[c.on] - 1 + 1 + 0) % uxLength[c.on] = 0
    BY <1>2, QueueTypes, SMT
  <2>2. /\ r.uxMessagesWaiting = 0 /\ r.pcWriteTo = 0 /\ r.pcReadFrom = uxLength[c.on] - 1
    BY <1>2, QueueTypes DEF QueueRecords
  <2>3. 0 \in Cells(c.on) /\ uxLength[c.on] - 1 \in Cells(c.on) /\ 0 \in 0 .. uxLength[c.on]
    BY <1>2, QueueTypes DEF Cells
  <2>4. r \in QueueRecords(c.on)
    <3>1. queue[c.on] \in QueueRecords(c.on) /\ queueUNLOCKED \in Int
      BY <1>2, QueueTypes DEF queueUNLOCKED
    <3> QED BY <2>3, <3>1 DEF QueueRecords
  <2>5. r.xMutexHolder = NoTask
    BY <1>2, QueueTypes DEF QueueOK, QueueRecords
  <2> HIDE DEF r
  <2> QED BY <2>1, <2>2, <2>4, <2>5 DEF QueueOK
<1>4. queue' = [queue EXCEPT ![c.on] = r]
  BY <1>1, <1>2, QueueTypes DEF QueuesInv, QueueRecords
<1>5. r.uxMessagesWaiting = 0
  BY <1>2, QueueTypes DEF QueueRecords
<1> HIDE DEF r
<1> QED BY <1>1, <1>2, <1>3, <1>4, <1>5

LEMMA ResetInv ==
  ASSUME IInv, NEW t \in Tasks, xQueueGenericReset(t) PROVE IInv'
<1>1. (\E k : Return(t, k)) /\ UNCHANGED <<owns, scenario>>
  BY ResetIs
<1>. PICK x \in DataQueues : \E r : QueueOK(x, r) /\ queue' = [queue EXCEPT ![x] = r]
  BY ResetIs
<1>2. PICK r : QueueOK(x, r) /\ queue' = [queue EXCEPT ![x] = r]
  OBVIOUS
<1>3. ThreadsInv'
  BY <1>1, ReturnOK, TasksInAll DEF IInv
<1> QED BY <1>1, <1>2, <1>3, OtherQueue, Lengths DEF IInv

\* The steps of a call that waits move its thread and, at most, lock the queue.
LEMMA CalledQueue ==
  ASSUME ThreadsInv, NEW t \in Tasks, QueueStep(t) PROVE thread[t].call.on \in Queues
<1>1. thread[t].at \in QueuePlaces
  BY DEF QueueStep, SuspendToWait, prvLockQueue, xTaskCheckForTimeOut, PollQueue, InheritPriority,
     PlaceOnEventList, UnlockTx, UnlockRx, RecheckQueue, DisinheritAfterTimeout, At, QueuePlaces
<1> QED BY <1>1, TasksInAll DEF ThreadsInv, ThreadOK

LEMMA StepsAre ==
  ASSUME IInv, kernel.xTickCount \in Int, NEW t \in Tasks, QueueStep(t)
  PROVE  /\ \E k, th : ThreadOK(th) /\ Proceed(t, k, th)
         /\ \/ UNCHANGED queue
            \/ \E tx \in Int, rx \in Int : queue' =
                 [queue EXCEPT ![thread[t].call.on].cTxLock = tx, ![thread[t].call.on].cRxLock = rx]
            \/ \E v \in Int : queue' = [queue EXCEPT ![thread[t].call.on].cTxLock = v]
            \/ \E v \in Int : queue' = [queue EXCEPT ![thread[t].call.on].cRxLock = v]
         /\ UNCHANGED <<scenario, owns, copied>>
<1> USE TasksInAll DEF Unchanged
<1>0. ThreadOK(thread[t]) /\ ThreadOK(UserThread) /\ thread[t].call.on \in Queues
  BY UserThreadOK, CalledQueue DEF IInv, ThreadsInv
<1>1. CASE SuspendToWait(t)
  BY <1>0, <1>1, InCallOK DEF SuspendToWait
<1>2. CASE prvLockQueue(t)
  <2>1. (\E k, th : ThreadOK(th) /\ Proceed(t, k, th)) /\ UNCHANGED <<scenario, owns, copied>>
    BY <1>0, <1>2, InCallOK DEF prvLockQueue
  <2> DEFINE x == thread[t].call.on
             locked(n) == IF n = queueUNLOCKED THEN 0 ELSE n
  <2>2. queue' = [queue EXCEPT ![x].cRxLock = locked(@), ![x].cTxLock = locked(@)]
    BY <1>2 DEF prvLockQueue
  <2>3. CASE x \in Queues
    <3>1. queue[x].cRxLock \in Int /\ queue[x].cTxLock \in Int /\ queue[x] \in QueueRecords(x)
      BY <2>3, QueueTypes DEF IInv
    <3>2. queue' = [queue EXCEPT ![x].cTxLock = locked(queue[x].cTxLock),
                                 ![x].cRxLock = locked(queue[x].cRxLock)]
      BY ZenonT(40), <2>2, <2>3, <3>1 DEF QueueRecords, IInv, QueuesInv
    <3>3. locked(queue[x].cTxLock) \in Int /\ locked(queue[x].cRxLock) \in Int
      BY <3>1
    <3> QED BY <2>1, <3>2, <3>3
  <2>4. CASE x \notin Queues
    BY ZenonT(40), <2>1, <2>2, <2>4 DEF IInv, QueuesInv
  <2> QED BY <2>3, <2>4
<1>3. CASE xTaskCheckForTimeOut(t)
  <2> DEFINE th      == thread[t]
             wait    == th.call.wait
             elapsed == (kernel.xTickCount - th.since) % TickRange
  <2>1. \/ Proceed(t, kernel, [th EXCEPT !.at = "poll"])
        \/ \E next : Proceed(t, kernel, [th EXCEPT !.at = "unlockTx", !.call.wait = 0,
                                                   !.yields = FALSE, !.next = next])
        \/ /\ ~(elapsed >= wait)
           /\ Proceed(t, kernel, [th EXCEPT !.at = "poll", !.call.wait = wait - elapsed,
                                !.since = kernel.xTickCount, !.overflows = kernel.xNumOfOverflows])
    BY <1>3 DEF xTaskCheckForTimeOut, TimeOutExpired
  <2>2. UNCHANGED <<scenario, queue, owns, copied>>
    BY <1>3 DEF xTaskCheckForTimeOut
  <2>3. wait \in Ticks /\ elapsed \in Ticks
    <3>1. kernel.xTickCount - th.since \in Int
      BY <1>0 DEF ThreadOK
    <3> QED BY <1>0, <3>1, TickCount DEF ThreadOK, Allowed
  <2> HIDE DEF th, wait, elapsed
  <2>4. 0 \in Ticks /\ (~(elapsed >= wait) => wait - elapsed \in Ticks)
    BY <2>3, RangeAssumption DEF Ticks
  <2>5. ThreadOK(th) /\ th.call.on \in Queues /\ kernel.xTickCount \in Int
    BY <1>0 DEF th
  <2> QED BY <2>1, <2>2, <2>4, <2>5, InCallOK, WaitsOK
<1>4. CASE PollQueue(t)
  <2> DEFINE th == thread[t]
  <2>1. \E at : \/ Proceed(t, kernel, [th EXCEPT !.at = at])
                \/ Proceed(t, kernel, [th EXCEPT !.at = at, !.next = "attempt", !.yields = FALSE])
    BY <1>4 DEF PollQueue
  <2>2. UNCHANGED <<scenario, queue, owns, copied>>
    BY <1>4 DEF PollQueue
  <2> QED BY <1>0, <2>1, <2>2, InCallOK
<1>5. CASE InheritPriority(t)
  <2>1. \E k, i : Proceed(t, k, [thread[t] EXCEPT !.at = "place", !.inherited = i])
    BY <1>5 DEF InheritPriority
  <2>2. UNCHANGED <<scenario, queue, owns, copied>>
    BY <1>5 DEF InheritPriority
  <2> QED BY <1>0, <2>1, <2>2, InCallOK
<1>6. CASE PlaceOnEventList(t)
  <2>1. \E k : Proceed(t, k, [thread[t] EXCEPT !.at = "unlockTx", !.next = "attempt", !.yields = TRUE])
    BY <1>6 DEF PlaceOnEventList
  <2>2. UNCHANGED <<scenario, queue, owns, copied>>
    BY <1>6 DEF PlaceOnEventList
  <2> QED BY <1>0, <2>1, <2>2, InCallOK
<1>7. CASE UnlockTx(t)
  <2>1. /\ \E k : Proceed(t, k, [thread[t] EXCEPT !.at = "unlockRx"])
        /\ queue' = [queue EXCEPT ![thread[t].call.on].cTxLock = -1]
        /\ UNCHANGED <<scenario, owns, copied>>
    BY <1>7 DEF UnlockTx, queueUNLOCKED
  <2>2. -1 \in Int
    OBVIOUS
  <2> QED BY <1>0, <2>1, <2>2, InCallOK
<1>8. CASE UnlockRx(t)
  <2>1. /\ \E k : Proceed(t, k, [thread[t] EXCEPT !.at = "resume"])
        /\ queue' = [queue EXCEPT ![thread[t].call.on].cRxLock = -1]
        /\ UNCHANGED <<scenario, owns, copied>>
    BY <1>8 DEF UnlockRx, queueUNLOCKED
  <2>2. -1 \in Int
    OBVIOUS
  <2> QED BY <1>0, <2>1, <2>2, InCallOK
<1>9. CASE RecheckQueue(t)
  <2>1. \/ \E at : Proceed(t, kernel, [thread[t] EXCEPT !.at = at])
        \/ Proceed(t, kernel, UserThread)
    BY <1>9 DEF RecheckQueue, Return
  <2>2. UNCHANGED <<scenario, queue, owns, copied>>
    BY <1>9 DEF RecheckQueue
  <2> QED BY <1>0, <2>1, <2>2, InCallOK
<1>10. CASE DisinheritAfterTimeout(t)
  <2>1. \E k : Proceed(t, k, UserThread)
    BY <1>10 DEF DisinheritAfterTimeout, Return
  <2>2. UNCHANGED <<scenario, queue, owns, copied>>
    BY <1>10 DEF DisinheritAfterTimeout
  <2> QED BY <1>0, <2>1, <2>2
<1> QED BY <1>1, <1>2, <1>3, <1>4, <1>5, <1>6, <1>7, <1>8, <1>9, <1>10 DEF QueueStep

LEMMA StepQueue ==
  ASSUME IInv, kernel.xTickCount \in Int, NEW t \in Tasks, QueueStep(t)
  PROVE  \/ UNCHANGED queue
         \/ \E x \in Queues : \E r :
              QueueOK(x, r) /\ queue' = [queue EXCEPT ![x] = r] /\ SameContents(r, queue[x])
<1> DEFINE x == thread[t].call.on
<1>1. \/ UNCHANGED queue
      \/ \E tx \in Int, rx \in Int : queue' = [queue EXCEPT ![x].cTxLock = tx, ![x].cRxLock = rx]
      \/ \E v \in Int : queue' = [queue EXCEPT ![x].cTxLock = v]
      \/ \E v \in Int : queue' = [queue EXCEPT ![x].cRxLock = v]
  BY StepsAre
<1>4. CASE x \notin Queues
  BY <1>1, <1>4 DEF IInv, QueuesInv
<1>5. CASE queue' # queue /\ x \in Queues
  <2> DEFINE r0 == queue[x]
  <2>1. QueuesInv /\ x \in Queues /\ QueueOK(x, r0)
    BY <1>5, QueueTypes DEF IInv
  <2>2. CASE \E tx \in Int, rx \in Int : queue' = [queue EXCEPT ![x].cTxLock = tx, ![x].cRxLock = rx]
    <3>1. PICK tx \in Int, rx \in Int : queue' = [queue EXCEPT ![x].cTxLock = tx, ![x].cRxLock = rx]
      BY <2>2
    <3> DEFINE r == [r0 EXCEPT !.cTxLock = tx, !.cRxLock = rx]
    <3>2. QueueOK(x, r) /\ SameContents(r, r0)
      BY <2>1, LocksSame
    <3>3. queue' = [queue EXCEPT ![x] = r]
      BY <2>1, <3>1, SetLocks
    <3> HIDE DEF r
    <3> QED BY <2>1, <3>2, <3>3
  <2>3. CASE \E v \in Int : queue' = [queue EXCEPT ![x].cTxLock = v]
    <3>1. PICK v \in Int : queue' = [queue EXCEPT ![x].cTxLock = v]
      BY <2>3
    <3> DEFINE r == [r0 EXCEPT !.cTxLock = v]
    <3>2. QueueOK(x, r) /\ SameContents(r, r0)
      BY <2>1, LocksOK, LocksSame
    <3>3. queue' = [queue EXCEPT ![x] = r]
      BY <2>1, <3>1, SetLocks
    <3> HIDE DEF r
    <3> QED BY <2>1, <3>2, <3>3
  <2>4. CASE \E v \in Int : queue' = [queue EXCEPT ![x].cRxLock = v]
    <3>1. PICK v \in Int : queue' = [queue EXCEPT ![x].cRxLock = v]
      BY <2>4
    <3> DEFINE r == [r0 EXCEPT !.cRxLock = v]
    <3>2. QueueOK(x, r) /\ SameContents(r, r0)
      BY <2>1, LocksOK, LocksSame
    <3>3. queue' = [queue EXCEPT ![x] = r]
      BY <2>1, <3>1, SetLocks
    <3> HIDE DEF r
    <3> QED BY <2>1, <3>2, <3>3
  <2> QED BY <1>1, <1>5, <2>2, <2>3, <2>4
<1> QED BY <1>4, <1>5

LEMMA StepInv ==
  ASSUME IInv, kernel.xTickCount \in Int, NEW t \in Tasks, QueueStep(t) PROVE IInv'
<1>1. (\E k, th : ThreadOK(th) /\ Proceed(t, k, th)) /\ UNCHANGED <<scenario, owns>>
  BY StepsAre
<1>2. ThreadsInv'
  BY <1>1, ProceedOK, TasksInAll DEF IInv
<1>3. CASE UNCHANGED queue
  BY <1>1, <1>2, <1>3, SameQueues DEF IInv
<1>4. ASSUME NEW x \in Queues, NEW r, QueueOK(x, r), queue' = [queue EXCEPT ![x] = r],
             SameContents(r, queue[x])
      PROVE  IInv'
  BY <1>1, <1>2, <1>4, FieldInv DEF IInv, SameContents
<1> QED BY <1>3, <1>4, StepQueue

\* An interrupt leaves the queue as r, or as r with one more thing counted.
LEMMA InterruptIs ==
  ASSUME IInv, NEW x \in Queues, x \notin Mutexes, NEW r, QueueOK(x, r), NEW e,
         \/ InterruptOn(x, r, "cTxLock", e) \/ InterruptOn(x, r, "cRxLock", e)
  PROVE  /\ UNCHANGED <<thread, scenario>>
         /\ \E r1 : /\ QueueOK(x, r1) /\ queue' = [queue EXCEPT ![x] = r1]
                    /\ SameContents(r1, r)
<1>1. UNCHANGED <<thread, scenario>>
  BY DEF InterruptOn, EndInterrupt, Unchanged
<1>2. r \in QueueRecords(x) /\ r.cTxLock + 1 \in Int /\ r.cRxLock + 1 \in Int
  BY DEF QueueOK, QueueRecords
<1>3. CASE queue' = [queue EXCEPT ![x] = r]
  BY <1>1, <1>3 DEF SameContents
<1>4. CASE queue' = [queue EXCEPT ![x] = [r EXCEPT !.cTxLock = @ + 1]]
  <2> DEFINE r1 == [r EXCEPT !.cTxLock = r.cTxLock + 1]
  <2>1. QueueOK(x, r1) /\ SameContents(r1, r)
    BY <1>2, LocksOK, LocksSame
  <2>2. queue' = [queue EXCEPT ![x] = r1]
    BY <1>4
  <2> HIDE DEF r1
  <2> QED BY <1>1, <2>1, <2>2
<1>5. CASE queue' = [queue EXCEPT ![x] = [r EXCEPT !.cRxLock = @ + 1]]
  <2> DEFINE r1 == [r EXCEPT !.cRxLock = r.cRxLock + 1]
  <2>1. QueueOK(x, r1) /\ SameContents(r1, r)
    BY <1>2, LocksOK, LocksSame
  <2>2. queue' = [queue EXCEPT ![x] = r1]
    BY <1>5
  <2> HIDE DEF r1
  <2> QED BY <1>1, <2>1, <2>2
<1> QED BY <1>3, <1>4, <1>5 DEF InterruptOn

\* What an interrupt does, with the queue it leaves.
LEMMA SendFromISRIs ==
  ASSUME IInv, xQueueGenericSendFromISR
  PROVE  \E c \in Interrupts("sendFromISR") : \E r1 :
           /\ c.on \in DataQueues \cup Semaphores
           /\ c.on \in DataQueues => c.arg \in Messages
           /\ c.how = "overwrite" => c.on \in DataQueues /\ uxLength[c.on] = 1
           /\ HasRoom(c.on) \/ c.how = "overwrite"
           /\ QueueOK(c.on, r1) /\ queue' = [queue EXCEPT ![c.on] = r1]
           /\ SameContents(r1, prvCopyDataToQueue(c.on, c.how, c.arg))
           /\ UNCHANGED <<thread, scenario, owns, copied>>
<1>1. PICK c \in Interrupts("sendFromISR") :
        /\ HasRoom(c.on) \/ c.how = "overwrite"
        /\ InterruptOn(c.on, prvCopyDataToQueue(c.on, c.how, c.arg), "cTxLock",
                       xTasksWaitingToReceive(c.on))
        /\ UNCHANGED <<owns, copied>>
  BY DEF xQueueGenericSendFromISR
<1>2. /\ c.on \in DataQueues \cup Semaphores
      /\ c.on \in DataQueues => c.arg \in Messages
      /\ c.how = "overwrite" => c.on \in DataQueues /\ uxLength[c.on] = 1
      /\ c.on \in Queues /\ c.on \notin Mutexes
  BY InterruptsOK, Lengths DEF IInv, Allowed
<1> DEFINE r == prvCopyDataToQueue(c.on, c.how, c.arg)
<1>3. QueueOK(c.on, r)
  <2>1. QueueOK(c.on, queue[c.on])
    BY <1>2 DEF IInv, QueuesInv
  <2> QED BY <1>1, <1>2, <2>1, CopyOK
<1>4. InterruptOn(c.on, r, "cTxLock", xTasksWaitingToReceive(c.on))
  BY <1>1
<1> HIDE DEF r
<1>5. PICK r1 : /\ QueueOK(c.on, r1) /\ queue' = [queue EXCEPT ![c.on] = r1]
                /\ SameContents(r1, r)
                /\ UNCHANGED <<thread, scenario>>
  BY <1>2, <1>3, <1>4, InterruptIs
<1> USE DEF r
<1>6. SameContents(r1, prvCopyDataToQueue(c.on, c.how, c.arg))
  BY <1>5
<1> QED BY <1>1, <1>2, <1>5, <1>6

LEMMA ReceiveFromISRIs ==
  ASSUME IInv, xQueueReceiveFromISR
  PROVE  \E c \in Interrupts("receiveFromISR") : \E r1 :
           /\ c.on \in DataQueues /\ ~IsEmpty(c.on)
           /\ QueueOK(c.on, r1) /\ queue' = [queue EXCEPT ![c.on] = r1]
           /\ SameContents(r1, TakeFront(c.on))
           /\ copied' = [copied EXCEPT ![c.on] = FrontMessage(c.on)]
           /\ UNCHANGED <<thread, scenario, owns>>
<1>1. PICK c \in Interrupts("receiveFromISR") :
        /\ ~IsEmpty(c.on)
        /\ InterruptOn(c.on, TakeFront(c.on), "cRxLock", xTasksWaitingToSend(c.on))
        /\ copied' = [copied EXCEPT ![c.on] = FrontMessage(c.on)] /\ UNCHANGED owns
  BY DEF xQueueReceiveFromISR
<1>2. c.on \in DataQueues /\ c.on \in Queues /\ c.on \notin Mutexes
  BY InterruptsOK, Lengths DEF IInv, Allowed
<1>3. QueueOK(c.on, TakeFront(c.on))
  BY <1>1, <1>2, TakeOK, QueueTypes DEF IInv
<1> QED BY <1>1, <1>2, <1>3, InterruptIs

LEMMA InterruptInv ==
  ASSUME IInv, xQueueGenericSendFromISR \/ xQueueReceiveFromISR PROVE IInv'
<1>1. PICK x, r1 :
        /\ x \in DataQueues \cup Semaphores
        /\ QueueOK(x, r1) /\ queue' = [queue EXCEPT ![x] = r1]
        /\ UNCHANGED <<thread, scenario, owns>>
  <2>1. CASE xQueueGenericSendFromISR
    <3>1. PICK c, r1 : /\ c.on \in DataQueues \cup Semaphores
                       /\ QueueOK(c.on, r1) /\ queue' = [queue EXCEPT ![c.on] = r1]
                       /\ UNCHANGED <<thread, scenario, owns>>
      BY <2>1, SendFromISRIs
    <3> QED BY <3>1
  <2>2. CASE xQueueReceiveFromISR
    BY <2>2, ReceiveFromISRIs
  <2> QED BY <2>1, <2>2
<1>2. x \in Queues /\ x \notin Mutexes
  BY <1>1, Lengths
<1>3. ThreadsInv'
  BY <1>1 DEF IInv, ThreadsInv
<1> QED BY <1>1, <1>2, <1>3, OtherQueue DEF IInv

---------------------------------------------------------------------------
(* The invariant holds *)

LEMMA InitInv == Init => IInv
<1> SUFFICES ASSUME Init PROVE IInv
  OBVIOUS
<1>1. ThreadsInv
  BY UserThreadOK, TasksInAll DEF Init, InitTasks, ThreadsInv
<1>2. QueuesInv
  <2>1. ASSUME NEW x \in Queues PROVE QueueOK(x, queue[x])
    <3>1. queue[x] =
            [uxMessagesWaiting |-> IF x \in Mutexes THEN 1 ELSE 0,
             store |-> [cell \in 0 .. uxLength[x] - 1 |-> NoMessage],
             pcReadFrom |-> uxLength[x] - 1, pcWriteTo |-> 0,
             xMutexHolder |-> NoTask, uxRecursiveCallCount |-> 0,
             cRxLock |-> -1, cTxLock |-> -1]
      BY DEF Init, queueUNLOCKED
    <3>2. queue[x] \in QueueRecords(x)
      BY <3>1, Lengths DEF QueueRecords, Cells
    <3>3. (uxLength[x] - 1 + 1 + 0) % uxLength[x] = 0
      BY Lengths, SMT
    <3> QED BY <3>1, <3>2, <3>3, Lengths DEF QueueOK
  <2> QED BY <2>1 DEF Init, QueuesInv
<1>3. MutexInv /\ MutualExclusion
  BY Lengths DEF Init, MutexInv, MutualExclusion, Holder
<1> QED BY <1>1, <1>2, <1>3 DEF IInv

LEMMA NextInv == IInv /\ kernel.xTickCount \in Int /\ [Next]_vars => IInv'
<1> SUFFICES ASSUME IInv, kernel.xTickCount \in Int, [Next]_vars PROVE IInv'
  OBVIOUS
<1>1. CASE NextTasks /\ UNCHANGED <<queue, owns, copied>>
  BY <1>1, NextTasksThreads, SameQueues DEF IInv
<1>2. CASE xQueueGenericSendFromISR \/ xQueueReceiveFromISR
  BY <1>2, InterruptInv
<1>3. ASSUME NEW t \in Tasks,
             QueueCall(t) \/ QueueStep(t) \/ xQueueGenericReset(t)
             \/ xQueueTakeMutexRecursive(t) \/ xQueueGiveMutexRecursive(t)
      PROVE  IInv'
  BY <1>3, SendInv, ReceiveInv, PeekInv, TakeInv, StepInv, ResetInv, RecursiveInv DEF QueueCall
<1>4. CASE UNCHANGED vars
  <2>1. UNCHANGED <<scenario, thread, queue, owns>>
    BY <1>4 DEF vars, taskVars
  <2>2. ThreadsInv'
    BY <2>1 DEF IInv, ThreadsInv
  <2> QED BY <2>1, <2>2, SameQueues DEF IInv
<1> QED BY <1>1, <1>2, <1>3, <1>4 DEF Next

---------------------------------------------------------------------------
(* The kernel in the steps of the tasks *)

\* the kernel stays good, and no tick passes, no task's priority changes and
\* no mutex is taken or given
Steady(k, k1) ==
  /\ Good(k1)
  /\ \A f \in {"uxPriority", "uxBasePriority", "uxMutexesHeld", "xTickCount", "xPendedTicks"} :
       k1[f] = k[f]

LEMMA MovesSteady == ASSUME NEW k, NEW k1, Moves(k, k1) PROVE Steady(k, k1)
  BY DEF Moves, Kept, Steady

LEMMA SwitchesIf ==
  ASSUME NEW k, NEW k1, Moves(k, k1), NEW condition PROVE Moves(k, YieldIf(condition, k1))
<1>1. Moves(k1, YieldIf(condition, k1))
  BY YieldIfMoves DEF Moves
<1> QED BY <1>1, MovesTwice

LEMMA SetYieldPending ==
  ASSUME NEW k, NEW k1, Moves(k, k1), NEW v PROVE Moves(k, [k1 EXCEPT !.xYieldPending = v])
<1> DEFINE k2 == [k1 EXCEPT !.xYieldPending = v]
<1>1. Good(k1) /\ IsState(k1)
  BY GoodTypes DEF Moves
<1>2. Same(k1, k2, {"xYieldPending"})
  BY <1>1 DEF IsState, Same, Fields
<1> HIDE DEF k2
<1>3. Moves(k1, k2)
  BY <1>1, <1>2, FieldsMove DEF Same
<1>4. Moves(k, k2)
  BY <1>3, MovesTwice
<1> QED BY <1>4 DEF k2

\* a task's notification changes
LEMMA SetNotification ==
  ASSUME NEW k, Good(k), NEW t, NEW value, NEW status
  PROVE  /\ Moves(k, [k EXCEPT !.ulNotifiedValue[t] = value, !.ucNotifyState[t] = status])
         /\ Moves(k, [k EXCEPT !.ulNotifiedValue[t] = value])
         /\ Moves(k, [k EXCEPT !.ucNotifyState[t] = status])
<1> DEFINE k1 == [k EXCEPT !.ulNotifiedValue[t] = value, !.ucNotifyState[t] = status]
           k2 == [k EXCEPT !.ulNotifiedValue[t] = value]
           k3 == [k EXCEPT !.ucNotifyState[t] = status]
<1>1. IsState(k)
  BY GoodTypes
<1>2. /\ Same(k, k1, {"ulNotifiedValue", "ucNotifyState"})
      /\ Same(k, k2, {"ulNotifiedValue"}) /\ Same(k, k3, {"ucNotifyState"})
  BY <1>1 DEF IsState, Same, Fields
<1> HIDE DEF k1, k2, k3
<1>3. Moves(k, k1) /\ Moves(k, k2) /\ Moves(k, k3)
  BY <1>2, FieldsMove DEF Same
<1> QED BY <1>3 DEF k1, k2, k3

LEMMA NotifiedMoves ==
  ASSUME NEW k, Good(k), NEW t, NEW action, NEW value PROVE Moves(k, Notified(k, t, action, value))
  BY SetNotification DEF Notified

\* whose call it is
LEMMA CallOf ==
  ASSUME ThreadsInv, NEW t, NEW op, NEW c \in CallsOf(t, op)
  PROVE  t \in Tasks /\ kernel.pxCurrentTCB = t /\ Allowed(c) /\ c.op = op
  BY CallsOfOK DEF CallsOf, At, Running

LEMMA WaitIsInt == ASSUME NEW c, Allowed(c) PROVE c.wait \in Int
<1>1. c.wait \in Ticks
  BY DEF Allowed
<1> QED BY <1>1, RangeAssumption DEF Ticks

LEMMA WaitMoves ==
  ASSUME Good(kernel), NEW t \in Tasks, kernel.pxCurrentTCB = t, NEW k, Moves(kernel, k),
         k.pxCurrentTCB = t, NEW c, Allowed(c), NEW condition, NEW where,
         WaitForNotification(t, k, c, condition, where)
  PROVE  Moves(kernel, kernel')
<1> DEFINE k1 == IF condition THEN [k EXCEPT !.ucNotifyState[t] = "Waiting"] ELSE kernel
           k2 == prvAddCurrentTaskToDelayedList(k1, c.wait, TRUE)
<1>0. Good(k) /\ IsState(k)
  BY GoodTypes DEF Moves
<1>1. Moves(kernel, k1) /\ Good(k1)
  <2>1. Moves(k, [k EXCEPT !.ucNotifyState[t] = "Waiting"])
    BY <1>0, SetNotification
  <2> QED BY <2>1, MovesTwice, MovesNot DEF Moves
<1>2. k1.pxCurrentTCB = t
  BY <1>0 DEF IsState, Fields
<1>3. c.wait \in Int
  BY WaitIsInt
<1>4. kernel' \in {k1, vTaskSwitchContext(k2)}
  BY DEF WaitForNotification, Proceed
<1> HIDE DEF k1
<1>5. Moves(k1, k2) /\ Good(k2)
  BY <1>1, <1>2, <1>3, SleepMoves DEF Moves
<1> HIDE DEF k2
<1>6. Moves(k2, vTaskSwitchContext(k2))
  BY <1>5, SwitchMoves
<1>7. Moves(kernel, vTaskSwitchContext(k2))
  BY <1>1, <1>5, <1>6, MovesTwice
<1> QED BY <1>1, <1>4, <1>7

\* The calls of an application, but for those that create a task or set a priority.
LEMMA CallKernel ==
  ASSUME ThreadsInv, Good(kernel), NEW t \in AllTasks, Call(t)
  PROVE  Steady(kernel, kernel') \/ vTaskPrioritySet(t) \/ xTaskCreate(t)
<1>0. Moves(kernel, kernel)
  BY MovesNot
<1>1. CASE taskYIELD(t)
  BY <1>1, SwitchMoves, MovesSteady DEF taskYIELD, Return, Proceed
<1>2. CASE SuspendScheduler(t) \/ StartDelay(t)
  <2>1. kernel' = vTaskSuspendAll(kernel)
    BY <1>2 DEF SuspendScheduler, StartDelay, Return, Proceed
  <2> QED BY <2>1, SuspendAllGood DEF vTaskSuspendAll, Steady, Same, Fields
<1>4. CASE vTaskSuspend(t)
  <2>1. PICK c \in CallsOf(t, "suspend") : \E status :
          kernel' = [UnlinkEvent(UnlinkState(kernel, c.on), c.on)
                       EXCEPT !.xSuspendedTaskList = @ \cup {c.on}, !.ucNotifyState[c.on] = status]
    BY <1>4 DEF vTaskSuspend, Proceed
  <2>2. c.on \in Tasks
    BY CallOf DEF Allowed
  <2> QED BY <2>1, <2>2, SuspendedMoves, MovesSteady
<1>5. CASE vTaskResume(t)
  <2>1. PICK c \in CallsOf(t, "resume") :
          kernel' = kernel \/ \E b : kernel' = YieldIf(b, MakeReady(kernel, c.on))
    BY <1>5 DEF vTaskResume, Return, Proceed
  <2>2. c.on \in Tasks
    BY CallOf DEF Allowed
  <2>3. Moves(kernel, MakeReady(kernel, c.on))
    BY <2>2, MakeReadyMoves
  <2> QED BY <1>0, <2>1, <2>3, SwitchesIf, MovesSteady
<1>7. CASE vTaskDelete(t)
  <2>1. PICK c \in CallsOf(t, "delete") :
          LET k1 == UnlinkEvent(UnlinkState(kernel, c.on), c.on)
          IN  \/ kernel' = [k1 EXCEPT !.xTasksWaitingTermination = Append(@, c.on)]
              \/ kernel' = prvResetNextTaskUnblockTime(k1)
    BY <1>7 DEF vTaskDelete, Proceed
  <2>2. c.on \in Tasks
    BY CallOf DEF Allowed
  <2> DEFINE k1 == UnlinkEvent(UnlinkState(kernel, c.on), c.on)
  <2>3. CASE kernel' = [k1 EXCEPT !.xTasksWaitingTermination = Append(@, c.on)]
    BY <2>2, <2>3, TerminatedMoves, MovesSteady
  <2>4. CASE kernel' = prvResetNextTaskUnblockTime(k1)
    <3>1. Moves(kernel, k1) /\ Good(k1)
      BY <2>2, UnlinkedMoves DEF Moves
    <3> HIDE DEF k1
    <3>2. Moves(k1, kernel')
      BY <2>4, <3>1, ResetMoves
    <3> QED BY <3>1, <3>2, MovesTwice, MovesSteady
  <2> QED BY <2>1, <2>3, <2>4
<1>9. CASE ulTaskGenericNotifyTake(t)
  <2>1. PICK c \in CallsOf(t, "notifyTake") : \E b : WaitForNotification(t, kernel, c, b, "notifyTaken")
    BY <1>9 DEF ulTaskGenericNotifyTake
  <2> QED BY <1>0, <2>1, CallOf, WaitMoves, MovesSteady
<1>10. CASE xTaskGenericNotifyWait(t)
  <2>1. PICK c \in CallsOf(t, "notifyWait") :
          LET k == IF c.how = "clear" THEN [kernel EXCEPT !.ulNotifiedValue[t] = 0] ELSE kernel
          IN  WaitForNotification(t, k, c, kernel.ucNotifyState[t] # "Received", "notifyWaited")
    BY <1>10 DEF xTaskGenericNotifyWait
  <2> DEFINE k == IF c.how = "clear" THEN [kernel EXCEPT !.ulNotifiedValue[t] = 0] ELSE kernel
             b == kernel.ucNotifyState[t] # "Received"
  <2>2. WaitForNotification(t, k, c, b, "notifyWaited")
    BY <2>1
  <2>3. Moves(kernel, k)
    <3>1. Moves(kernel, [kernel EXCEPT !.ulNotifiedValue[t] = 0])
      BY SetNotification
    <3> QED BY <1>0, <3>1
  <2>4. k.pxCurrentTCB = kernel.pxCurrentTCB
    <3>1. IsState(kernel)
      BY GoodTypes
    <3> QED BY <3>1 DEF IsState, Fields
  <2>5. t \in Tasks /\ kernel.pxCurrentTCB = t /\ Allowed(c)
    BY CallOf
  <2> HIDE DEF k, b
  <2>6. Moves(kernel, kernel')
    BY <2>2, <2>3, <2>4, <2>5, WaitMoves
  <2> QED BY <2>6, MovesSteady
<1>11. CASE xTaskGenericNotify(t)
  <2>1. PICK c \in CallsOf(t, "notify") :
          LET k1 == Notified(kernel, c.on, c.how, c.arg)
          IN  kernel' = k1 \/ \E b : kernel' = YieldIf(b, MakeReady(k1, c.on))
    BY <1>11 DEF xTaskGenericNotify, Return, Proceed
  <2> DEFINE k1 == Notified(kernel, c.on, c.how, c.arg)
  <2>2. c.on \in Tasks /\ Moves(kernel, k1) /\ Good(k1)
    BY CallOf, NotifiedMoves DEF Allowed, Moves
  <2>3. kernel' = k1 \/ \E b : kernel' = YieldIf(b, MakeReady(k1, c.on))
    BY <2>1
  <2> HIDE DEF k1
  <2>4. Moves(kernel, MakeReady(k1, c.on))
    BY <2>2, MakeReadyMoves, MovesTwice
  <2> QED BY <2>2, <2>3, <2>4, SwitchesIf, MovesSteady
<1> QED BY <1>1, <1>2, <1>4, <1>5, <1>7, <1>9, <1>10, <1>11 DEF Call

PreviousInv == xPreviousWakeTime \in [Tasks -> Int]

\* The rest of a call, but for xTaskResumeAll().
LEMMA StepKernel ==
  ASSUME ThreadsInv, PreviousInv, Good(kernel), NEW t \in AllTasks, Step(t), ~ResumeScheduler(t)
  PROVE  Moves(kernel, kernel')
<1>0. Moves(kernel, kernel) /\ ThreadOK(thread[t]) /\ kernel.xTickCount \in Int
  BY MovesNot, GoodTypes DEF ThreadsInv
<1>1. CASE portYIELD(t)
  BY <1>1, SwitchMoves DEF portYIELD, Proceed
<1>3. CASE ReturnFromCall(t)
  BY <1>0, <1>3 DEF ReturnFromCall, Return, Proceed
<1>4. CASE vTaskDelay(t)
  <2>1. At(t, "delay") /\ kernel' = prvAddCurrentTaskToDelayedList(kernel, thread[t].call.wait, FALSE)
    BY <1>4 DEF vTaskDelay, Proceed
  <2>2. kernel.pxCurrentTCB \in Tasks
    BY <2>1, AtTask DEF At, Running
  <2>3. thread[t].call.wait \in Int
    BY <1>0, WaitIsInt DEF ThreadOK
  <2> QED BY <2>1, <2>2, <2>3, SleepMoves
<1>5. CASE xTaskDelayUntil(t)
  <2> DEFINE wake == (xPreviousWakeTime[t] + thread[t].call.wait) % TickRange
             left == (wake - kernel.xTickCount) % TickRange
  <2>1. At(t, "delayUntil") /\ kernel' \in {kernel, prvAddCurrentTaskToDelayedList(kernel, left, FALSE)}
    BY <1>5 DEF xTaskDelayUntil, Proceed
  <2>2. kernel.pxCurrentTCB \in Tasks /\ t \in Tasks
    BY <2>1, AtTask DEF At, Running
  <2>3. left \in Int
    <3>1. xPreviousWakeTime[t] \in Int /\ thread[t].call.wait \in Int
      BY <1>0, <2>2, WaitIsInt DEF ThreadOK, PreviousInv
    <3>2. wake \in Int
      BY <3>1, RangeAssumption
    <3> HIDE DEF wake
    <3> QED BY <1>0, <3>2, RangeAssumption
  <2> HIDE DEF left
  <2> QED BY <1>0, <2>1, <2>2, <2>3, SleepMoves
<1>6. CASE SuspendedTask(t)
  BY <1>6, ResetMoves DEF SuspendedTask, Return, Proceed
<1>7. CASE NotifyTaken(t)
  <2>1. PICK value :
          kernel' = [kernel EXCEPT !.ulNotifiedValue[t] = value, !.ucNotifyState[t] = "NotWaiting"]
    BY <1>7 DEF NotifyTaken, Return, Proceed
  <2>2. Moves(kernel, [kernel EXCEPT !.ulNotifiedValue[t] = value, !.ucNotifyState[t] = "NotWaiting"])
    BY SetNotification
  <2> QED BY <2>1, <2>2
<1>8. CASE NotifyWaited(t)
  <2>1. PICK value :
          kernel' = [kernel EXCEPT !.ulNotifiedValue[t] = value, !.ucNotifyState[t] = "NotWaiting"]
    BY <1>8 DEF NotifyWaited, Return, Proceed
  <2>2. Moves(kernel, [kernel EXCEPT !.ulNotifiedValue[t] = value, !.ucNotifyState[t] = "NotWaiting"])
    BY SetNotification
  <2> QED BY <2>1, <2>2
<1> QED BY <1>1, <1>3, <1>4, <1>5, <1>6, <1>7, <1>8 DEF Step

LEMMA ResumeKernel ==
  ASSUME Good(kernel), NEW t, ResumeScheduler(t)
  PROVE  Moves(xTaskResumeAll(kernel), kernel')
<1>1. Good(xTaskResumeAll(kernel))
  BY ResumeAllIs
<1>2. \E b : kernel' = YieldIf(b, xTaskResumeAll(kernel))
  BY DEF ResumeScheduler
<1> QED BY <1>1, <1>2, YieldIfMoves

LEMMA TickKernel ==
  ASSUME Good(kernel), Tick PROVE Moves(xTaskIncrementTick(kernel), kernel')
<1>1. Good(xTaskIncrementTick(kernel))
  BY IncrementTickIs DEF Ticked
<1>2. \E b : kernel' = YieldIf(b, xTaskIncrementTick(kernel))
  BY DEF Tick
<1> QED BY <1>1, <1>2, YieldIfMoves

LEMMA IdleKernel ==
  ASSUME ThreadsInv, Good(kernel), IdleStep PROVE Moves(kernel, kernel')
<1>1. CASE prvCheckTasksWaitingTermination
  <2> DEFINE l == kernel.xTasksWaitingTermination
  <2>1. l # <<>> /\ kernel' = UnlinkState(kernel, Head(l))
    BY <1>1 DEF prvCheckTasksWaitingTermination
  <2>2. l \in Seq(Tasks)
    BY DEF Good, Sound, IsList
  <2> HIDE DEF l
  <2>3. Head(l) \in Tasks
    BY <2>1, <2>2
  <2> QED BY <2>1, <2>3, UnlinkStateMoves
<1>2. CASE prvIdleTask
  BY <1>2, SwitchMoves DEF prvIdleTask, Return, Proceed
<1> QED BY <1>1, <1>2 DEF IdleStep

LEMMA EndInterruptMoves ==
  ASSUME NEW k, Moves(kernel, k), NEW woken, EndInterrupt(woken, k) PROVE Moves(kernel, kernel')
<1>1. \E b : kernel' = YieldIf(b, k)
  BY DEF EndInterrupt
<1> QED BY <1>1, SwitchesIf

LEMMA InterruptKernel ==
  ASSUME ThreadsInv, Good(kernel), Interrupt PROVE Moves(kernel, kernel')
<1>1. CASE xTaskGenericNotifyFromISR
  <2>1. PICK c \in Interrupts("notifyFromISR") :
          LET k1 == Notified(kernel, c.on, c.how, c.arg)
          IN  \E woken, waits : EndInterrupt(woken, IF waits THEN Unblock(k1, c.on) ELSE k1)
    BY <1>1 DEF xTaskGenericNotifyFromISR
  <2>2. c.on \in Tasks
    BY InterruptsOK DEF Allowed
  <2> DEFINE k1 == Notified(kernel, c.on, c.how, c.arg)
  <2>3. PICK woken, waits : EndInterrupt(woken, IF waits THEN Unblock(k1, c.on) ELSE k1)
    BY <2>1
  <2>4. Moves(kernel, k1) /\ Good(k1)
    BY NotifiedMoves DEF Moves
  <2> HIDE DEF k1
  <2>5. Moves(kernel, Unblock(k1, c.on))
    BY <2>2, <2>4, UnblockMoves, MovesTwice
  <2> DEFINE k2 == IF waits THEN Unblock(k1, c.on) ELSE k1
  <2>6. Moves(kernel, k2) /\ EndInterrupt(woken, k2)
    BY <2>3, <2>4, <2>5
  <2> HIDE DEF k2
  <2> QED BY <2>6, EndInterruptMoves
<1>2. CASE xTaskResumeFromISR
  <2>0. PICK c \in Interrupts("resumeFromISR") : \E now, yield :
          LET k1 == IF now THEN MakeReady(kernel, c.on)
                    ELSE [kernel EXCEPT !.xPendingReadyList = Append(@, c.on)]
          IN  EndInterrupt(yield, [k1 EXCEPT !.xYieldPending = @ \/ yield])
    BY <1>2 DEF xTaskResumeFromISR
  <2>1. PICK now, yield :
          LET k1 == IF now THEN MakeReady(kernel, c.on)
                    ELSE [kernel EXCEPT !.xPendingReadyList = Append(@, c.on)]
          IN  EndInterrupt(yield, [k1 EXCEPT !.xYieldPending = @ \/ yield])
    BY <2>0
  <2>2. c.on \in Tasks
    BY InterruptsOK DEF Allowed
  <2> DEFINE k1 == IF now THEN MakeReady(kernel, c.on)
                   ELSE [kernel EXCEPT !.xPendingReadyList = Append(@, c.on)]
             v  == k1.xYieldPending \/ yield
             k2 == [k1 EXCEPT !.xYieldPending = v]
  <2>3. EndInterrupt(yield, k2)
    BY <2>1
  <2>4. Moves(kernel, k1)
    BY <2>2, MakeReadyMoves, PendMoves
  <2> HIDE DEF k1, v
  <2>5. Moves(kernel, k2)
    BY <2>4, SetYieldPending
  <2> HIDE DEF k2
  <2> QED BY <2>3, <2>5, EndInterruptMoves
<1> QED BY <1>1, <1>2 DEF Interrupt

---------------------------------------------------------------------------
(* The kernel in the steps of the queues *)

LEMMA WakeFirstMoves ==
  ASSUME NEW k, Good(k), NEW e \in EventLists PROVE Moves(k, WakeFirst(k, e))
  BY MovesNot, RemoveFromEventListMoves DEF WakeFirst

LEMMA WokenInTurn ==
  ASSUME NEW k, NEW e, NEW N \in Nat
  PROVE  \E r : /\ Changes("woken", k, [n \in 1 .. N |-> e], N, r)
                /\ N > 0 => WakeLocked(k, e, N) = r[N]
<1> DEFINE args == [n \in 1 .. N |-> e]
           B(g, n) == IF n = 0 THEN k ELSE Change("woken", g[n - 1], args[n])
           C(g, n) == IF n = 0 THEN k ELSE WakeFirst(g[n - 1], e)
<1>1. \A n \in 0 .. N : n # 0 => args[n] = e
  OBVIOUS
<1> HIDE DEF args
<1>2. PICK g : Changes("woken", k, args, N, g)
  BY ChangesExist
<1>3. \A f : \A n \in 0 .. N : B(f, n) = C(f, n)
  BY <1>1 DEF Change, WakeFirst
<1>4. \A n \in 0 .. N : g[n] = B(g, n)
  <2>1. g[0] = k /\ \A n \in 1 .. N : g[n] = Change("woken", g[n - 1], args[n])
    BY <1>2 DEF Changes
  <2> QED BY <2>1
<1>5. g = [n \in 0 .. N |-> C(g, n)]
  <2> HIDE DEF B, C
  <2> QED BY <1>2, <1>3, <1>4 DEF Changes
<1> DEFINE r == CHOOSE f : f = [n \in 0 .. N |-> C(f, n)]
<1>6. r = [n \in 0 .. N |-> C(r, n)]
  BY <1>5
<1>7. N > 0 => WakeLocked(k, e, N) = r[N]
  BY DEF WakeLocked
<1> HIDE DEF r
<1>8. r = [n \in 0 .. N |-> r[n]] /\ \A n \in 0 .. N : r[n] = B(r, n)
  <2> HIDE DEF B, C
  <2> QED BY <1>3, <1>6
<1>9. Changes("woken", k, args, N, r)
  <2>1. r[0] = k
    <3>1. 0 \in 0 .. N
      OBVIOUS
    <3> HIDE DEF B
    <3>2. r[0] = B(r, 0)
      BY <1>8, <3>1
    <3> USE DEF B
    <3> QED BY <3>2
  <2>2. ASSUME NEW n \in 1 .. N PROVE r[n] = Change("woken", r[n - 1], args[n])
    <3>1. n \in 0 .. N /\ n # 0
      OBVIOUS
    <3> QED BY <1>8, <3>1
  <2> QED BY <1>8, <2>1, <2>2 DEF Changes
<1> QED BY <1>7, <1>9 DEF args

LEMMA WakeLockedMoves ==
  ASSUME NEW k, Good(k), NEW e \in EventLists, NEW done \in Int
  PROVE  Moves(k, WakeLocked(k, e, done))
<1>0. CASE ~(done > 0)
  BY <1>0, MovesNot DEF WakeLocked
<1>1. CASE done > 0
  <2> DEFINE args == [n \in 1 .. done |-> e]
             all == WakeLocked(k, e, done)
  <2>0. done \in Nat
    BY <1>1
  <2>1. PICK r : Changes("woken", k, args, done, r) /\ all = r[done]
    BY <1>1, <2>0, WokenInTurn
  <2>2. \A n \in 1 .. done : args[n] = e
    OBVIOUS
  <2> HIDE DEF all, args
  <2> DEFINE P == {n \in Nat : Moves(k, r[n])}
  <2>3. 0 \in P
    BY <2>1, MovesNot DEF Changes
  <2>4. ASSUME NEW n \in 0 .. done - 1, n \in P PROVE n + 1 \in P
    <3>1. n + 1 \in 1 .. done /\ (n + 1) - 1 = n /\ n + 1 \in Nat
      BY <2>0
    <3>2. r[n + 1] = WakeFirst(r[n], e)
      BY <2>1, <2>2, <3>1 DEF Changes, Change, WakeFirst
    <3>3. Moves(k, r[n]) /\ Good(r[n])
      BY <2>4 DEF Moves
    <3>4. Moves(r[n], r[n + 1])
      BY <3>2, <3>3, WakeFirstMoves
    <3> QED BY <3>1, <3>3, <3>4, MovesTwice
  <2> HIDE DEF P
  <2>5. \A n \in 0 .. done : n \in P
    BY <2>0, <2>3, <2>4, Induct
  <2>6. Moves(k, all)
    BY <2>0, <2>1, <2>5 DEF P
  <2> QED BY <2>6 DEF all
<1> QED BY <1>0, <1>1

\* the event lists are those of the queues
LEMMA EventListsOf ==
  ASSUME NEW q \in Queues
  PROVE  xTasksWaitingToSend(q) \in EventLists /\ xTasksWaitingToReceive(q) \in EventLists
  BY QueuesAssumption DEF xTasksWaitingToSend, xTasksWaitingToReceive

\* the first task of an event list is woken, and may run at once
LEMMA WakeAndYield ==
  ASSUME NEW k, Good(k), NEW e \in EventLists, NEW condition
  PROVE  Moves(k, YieldIf(condition, WakeFirst(k, e)))
  BY WakeFirstMoves, SwitchesIf

\* t has given q: it has one mutex less, and with the last its own priority again
Gives(t, q) ==
  /\ q \in owns[t] /\ owns' = [owns EXCEPT ![t] = @ \ {q}]
  /\ Good(kernel')
  /\ \A f \in {"uxBasePriority", "xTickCount", "xPendedTicks"} : kernel'[f] = kernel[f]
  /\ kernel'.uxMutexesHeld = [kernel.uxMutexesHeld EXCEPT ![t] = @ - 1]
  /\ \A x \in AllTasks \ {t} : kernel'.uxPriority[x] = kernel.uxPriority[x]
  /\ kernel.uxMutexesHeld[t] = 1 => kernel'.uxPriority[t] = kernel.uxBasePriority[t]

\* t has taken q, which nobody had
Takes(t, q) ==
  /\ q \notin owns[t] /\ owns' = [owns EXCEPT ![t] = @ \cup {q}]
  /\ Good(kernel')
  /\ \A f \in {"uxPriority", "uxBasePriority", "xTickCount", "xPendedTicks"} :
       kernel'[f] = kernel[f]
  /\ kernel'.uxMutexesHeld = [kernel.uxMutexesHeld EXCEPT ![t] = @ + 1]

\* the priority of the holder of a mutex, at most, changes
Lends ==
  /\ UNCHANGED owns /\ Good(kernel')
  /\ \A f \in {"uxBasePriority", "uxMutexesHeld", "xTickCount", "xPendedTicks"} :
       kernel'[f] = kernel[f]
  /\ \A x \in Tasks : owns[x] = {} => kernel'.uxPriority[x] = kernel.uxPriority[x]

Keeps == UNCHANGED owns /\ Steady(kernel, kernel')

LEMMA MovesKeeps ==
  ASSUME Moves(kernel, kernel'), UNCHANGED owns PROVE Keeps
  BY MovesSteady DEF Keeps

LEMMA CannotYetKeeps ==
  ASSUME Good(kernel), NEW t, NEW c, CannotYet(t, c), UNCHANGED owns PROVE Keeps
<1>1. kernel' = kernel
  BY DEF CannotYet, Return, Proceed
<1> QED BY <1>1, MovesNot, MovesKeeps

LEMMA SendKernel ==
  ASSUME IInv, Good(kernel), NEW t \in Tasks, xQueueGenericSend(t)
  PROVE  Keeps \/ \E q \in Mutexes : Gives(t, q)
<1>1. PICK c \in Attempting(t, {"send", "give"}) :
        LET q  == c.on
            k1 == IF q \in Mutexes THEN xTaskPriorityDisinherit(kernel, Holder(q)) ELSE kernel
            e  == xTasksWaitingToReceive(q)
        IN  /\ q \in Mutexes => q \in owns[t]
            /\ \/ /\ \E b : kernel' = YieldIf(b, WakeFirst(k1, e))
                  /\ owns' = [owns EXCEPT ![t] = @ \ {q}]
               \/ CannotYet(t, c) /\ UNCHANGED owns
  BY DEF xQueueGenericSend, Return, Proceed
<1> DEFINE q  == c.on
           k1 == IF q \in Mutexes THEN xTaskPriorityDisinherit(kernel, Holder(q)) ELSE kernel
           e  == xTasksWaitingToReceive(q)
<1>2. q \in Queues /\ e \in EventLists
  BY AttemptingOK, EventListsOf DEF IInv, Allowed, Queues
<1>3. CASE CannotYet(t, c) /\ UNCHANGED owns
  BY <1>3, CannotYetKeeps
<1>4. CASE /\ \E b : kernel' = YieldIf(b, WakeFirst(k1, e))
           /\ owns' = [owns EXCEPT ![t] = @ \ {q}]
  <2>1. CASE q \notin Mutexes
    <3>1. UNCHANGED owns
      BY <1>4, <2>1 DEF IInv, MutexInv
    <3>2. Moves(kernel, kernel')
      BY <1>2, <1>4, <2>1, WakeAndYield
    <3> QED BY <3>1, <3>2, MovesKeeps
  <2>2. CASE q \in Mutexes
    <3>1. q \in owns[t] /\ Holder(q) = t
      BY <1>1, <2>2 DEF IInv, MutualExclusion
    <3>2. k1 = xTaskPriorityDisinherit(kernel, t)
      BY <2>2, <3>1
    <3>3. /\ Good(k1)
          /\ \A f \in {"uxBasePriority", "xTickCount", "xPendedTicks"} : k1[f] = kernel[f]
          /\ k1.uxMutexesHeld = [kernel.uxMutexesHeld EXCEPT ![t] = @ - 1]
          /\ \A x \in AllTasks \ {t} : k1.uxPriority[x] = kernel.uxPriority[x]
          /\ kernel.uxMutexesHeld[t] = 1 => k1.uxPriority[t] = kernel.uxBasePriority[t]
      BY <3>2, DisinheritIs DEF Kept
    <3>4. owns' = [owns EXCEPT ![t] = @ \ {q}] /\ \E b : kernel' = YieldIf(b, WakeFirst(k1, e))
      BY <1>4
    <3> HIDE DEF k1, q, e
    <3>5. Moves(k1, kernel')
      BY <1>2, <3>3, <3>4, WakeAndYield
    <3>6. /\ Good(kernel')
          /\ \A f \in {"uxBasePriority", "xTickCount", "xPendedTicks", "uxMutexesHeld", "uxPriority"} :
               kernel'[f] = k1[f]
      BY <3>5 DEF Moves, Kept
    <3>7. Gives(t, q)
      BY <3>1, <3>3, <3>4, <3>6 DEF Gives
    <3> QED BY <2>2, <3>7
  <2> QED BY <2>1, <2>2
<1> QED BY <1>1, <1>3, <1>4

LEMMA ReadKernel ==
  ASSUME IInv, Good(kernel), NEW t \in Tasks, xQueueReceive(t) \/ xQueuePeek(t) PROVE Keeps
<1>1. CASE xQueueReceive(t)
  <2>1. PICK c \in Attempting(t, {"receive"}) :
          /\ \/ \E b : kernel' = YieldIf(b, WakeFirst(kernel, xTasksWaitingToSend(c.on)))
             \/ CannotYet(t, c)
          /\ UNCHANGED owns
    BY <1>1 DEF xQueueReceive, Return, Proceed
  <2>2. xTasksWaitingToSend(c.on) \in EventLists
    BY AttemptingOK, EventListsOf DEF IInv, Allowed, Queues
  <2> QED BY <2>1, <2>2, CannotYetKeeps, WakeAndYield, MovesKeeps
<1>2. CASE xQueuePeek(t)
  <2>1. PICK c \in Attempting(t, {"peek"}) :
          /\ \/ \E b : kernel' = YieldIf(b, WakeFirst(kernel, xTasksWaitingToReceive(c.on)))
             \/ CannotYet(t, c)
          /\ UNCHANGED owns
    BY <1>2 DEF xQueuePeek, Return, Proceed
  <2>2. xTasksWaitingToReceive(c.on) \in EventLists
    BY AttemptingOK, EventListsOf DEF IInv, Allowed, Queues
  <2> QED BY <2>1, <2>2, CannotYetKeeps, WakeAndYield, MovesKeeps
<1> QED BY <1>1, <1>2

\* a task has one mutex more
LEMMA HeldGood ==
  ASSUME NEW k, Good(k), NEW t \in Tasks
  PROVE  LET k1 == [k EXCEPT !.uxMutexesHeld[t] = @ + 1]
         IN  /\ Good(k1) /\ Same(k, k1, {"uxMutexesHeld"})
             /\ k1.uxMutexesHeld = [k.uxMutexesHeld EXCEPT ![t] = @ + 1]
<1> DEFINE k1 == [k EXCEPT !.uxMutexesHeld[t] = @ + 1]
<1>1. Same(k, k1, {"uxMutexesHeld"}) /\ k1.uxMutexesHeld = [k.uxMutexesHeld EXCEPT ![t] = @ + 1]
  BY GoodTypes DEF IsState, Same, Fields
<1> HIDE DEF k1
<1>2. Types(k) /\ t \in AllTasks
  BY TypesOf, Bounds
<1>3. k1.uxMutexesHeld \in [AllTasks -> Int]
  BY <1>1, <1>2 DEF Types
<1>4. Types(k1)
  BY <1>1, <1>2, <1>3 DEF Same, Fields, Types
<1> QED BY <1>1, <1>4, TypesGood DEF Same, Fields, Structure, k1

LEMMA TakeKernel ==
  ASSUME IInv, Good(kernel), NEW t \in Tasks, xQueueSemaphoreTake(t)
  PROVE  Keeps \/ \E q \in Mutexes : Takes(t, q)
<1>1. PICK c \in Attempting(t, {"take", "takeRecursive"}) :
        LET q  == c.on
            k1 == IF q \in Mutexes THEN [kernel EXCEPT !.uxMutexesHeld[t] = @ + 1] ELSE kernel
            e  == xTasksWaitingToSend(q)
        IN  \/ /\ ~IsEmpty(q) /\ \E b : kernel' = YieldIf(b, WakeFirst(k1, e))
               /\ owns' = [owns EXCEPT ![t] = IF q \in Mutexes THEN @ \cup {q} ELSE @]
            \/ CannotYet(t, c) /\ UNCHANGED owns
  BY DEF xQueueSemaphoreTake, Return, Proceed
<1> DEFINE q  == c.on
           k1 == IF q \in Mutexes THEN [kernel EXCEPT !.uxMutexesHeld[t] = @ + 1] ELSE kernel
           e  == xTasksWaitingToSend(q)
<1>2. q \in Queues /\ e \in EventLists
  BY AttemptingOK, EventListsOf DEF IInv, Allowed, Queues
<1>3. CASE CannotYet(t, c) /\ UNCHANGED owns
  BY <1>3, CannotYetKeeps
<1>4. CASE /\ ~IsEmpty(q) /\ \E b : kernel' = YieldIf(b, WakeFirst(k1, e))
           /\ owns' = [owns EXCEPT ![t] = IF q \in Mutexes THEN @ \cup {q} ELSE @]
  <2>1. CASE q \notin Mutexes
    <3>1. UNCHANGED owns
      BY <1>4, <2>1 DEF IInv, MutexInv
    <3>2. Moves(kernel, kernel')
      BY <1>2, <1>4, <2>1, WakeAndYield
    <3> QED BY <3>1, <3>2, MovesKeeps
  <2>2. CASE q \in Mutexes
    <3>1. q \notin owns[t]
      <4>1. queue[q].uxMessagesWaiting \in 0 .. uxLength[q] /\ uxLength[q] = 1
        BY <1>2, <2>2, QueueTypes, Lengths DEF IInv
      <4>2. queue[q].uxMessagesWaiting = 1
        BY <1>4, <4>1 DEF IsEmpty
      <4>3. Holder(q) = NoTask
        BY <2>2, <4>2 DEF IInv, MutexInv
      <4> QED BY <2>2, <4>3, Lengths DEF IInv, MutualExclusion
    <3>2. k1 = [kernel EXCEPT !.uxMutexesHeld[t] = @ + 1]
      BY <2>2
    <3>3. /\ Good(k1)
          /\ \A f \in {"uxBasePriority", "xTickCount", "xPendedTicks", "uxPriority"} : k1[f] = kernel[f]
          /\ k1.uxMutexesHeld = [kernel.uxMutexesHeld EXCEPT ![t] = @ + 1]
      <4>1. /\ Good(k1) /\ Same(kernel, k1, {"uxMutexesHeld"})
            /\ k1.uxMutexesHeld = [kernel.uxMutexesHeld EXCEPT ![t] = @ + 1]
        BY <3>2, HeldGood
      <4> HIDE DEF k1
      <4> QED BY <4>1 DEF Same, Fields
    <3>4. owns' = [owns EXCEPT ![t] = @ \cup {q}] /\ \E b : kernel' = YieldIf(b, WakeFirst(k1, e))
      BY <1>4, <2>2
    <3> HIDE DEF k1, q, e
    <3>5. Moves(k1, kernel')
      BY <1>2, <3>3, <3>4, WakeAndYield
    <3>6. /\ Good(kernel')
          /\ \A f \in {"uxBasePriority", "xTickCount", "xPendedTicks", "uxMutexesHeld", "uxPriority"} :
               kernel'[f] = k1[f]
      BY <3>5 DEF Moves, Kept
    <3>7. Takes(t, q)
      BY <3>1, <3>3, <3>4, <3>6 DEF Takes
    <3> QED BY <2>2, <3>7
  <2> QED BY <2>1, <2>2
<1> QED BY <1>1, <1>3, <1>4

LEMMA OtherCallsKernel ==
  ASSUME IInv, Good(kernel), NEW t \in Tasks,
         \/ xQueueTakeMutexRecursive(t) \/ xQueueGiveMutexRecursive(t) \/ xQueueGenericReset(t)
  PROVE  Keeps
<1>1. CASE xQueueTakeMutexRecursive(t) \/ xQueueGiveMutexRecursive(t)
  <2>1. kernel' = kernel /\ UNCHANGED owns
    BY <1>1 DEF xQueueTakeMutexRecursive, xQueueGiveMutexRecursive, Return, Proceed
  <2> QED BY <2>1, MovesNot, MovesKeeps
<1>2. CASE xQueueGenericReset(t)
  <2>1. PICK c \in CallsOf(t, "reset") :
          /\ \E b : kernel' = YieldIf(b, WakeFirst(kernel, xTasksWaitingToSend(c.on)))
          /\ UNCHANGED owns
    BY <1>2 DEF xQueueGenericReset, Return, Proceed
  <2>2. xTasksWaitingToSend(c.on) \in EventLists
    BY CallsOfOK, EventListsOf DEF IInv, Allowed, Queues
  <2> QED BY <2>1, <2>2, WakeAndYield, MovesKeeps
<1> QED BY <1>1, <1>2

\* the priority changes only of who holds the mutex
LEMMA PrioritisedLends ==
  ASSUME IInv, Good(kernel), NEW q \in Queues, Prioritised(kernel, kernel', Holder(q)),
         Holder(q) = NoTask => kernel' = kernel, UNCHANGED owns
  PROVE  Lends
<1>1. CASE q \notin Mutexes
  <2>1. kernel' = kernel
    BY <1>1 DEF IInv, QueuesInv, QueueOK, Holder
  <2> QED BY <2>1 DEF Lends
<1>2. CASE q \in Mutexes
  <2>1. \A x \in Tasks : owns[x] = {} => x # Holder(q)
    BY <1>2 DEF IInv, MutualExclusion
  <2>2. \A x \in Tasks : owns[x] = {} => kernel'.uxPriority[x] = kernel.uxPriority[x]
    BY <2>1, Bounds DEF Prioritised
  <2> QED BY <2>2 DEF Lends, Prioritised, Kept
<1> QED BY <1>1, <1>2

LEMMA HolderOf ==
  ASSUME IInv, NEW q \in Queues PROVE Holder(q) \in Tasks \cup {NoTask}
  BY QueueTypes DEF IInv, Holder

LEMMA HighestWaiting ==
  ASSUME Good(kernel), NEW q \in Queues
  PROVE  prvGetDisinheritPriorityAfterTimeout(kernel, q) \in Priorities
<1> DEFINE waiting == kernel.xEventLists[xTasksWaitingToReceive(q)]
<1>1. waiting \in Seq(Tasks)
  BY EventListsOf DEF Good, Sound
<1>2. kernel.xEventValue \in [AllTasks -> 1 .. configMAX_PRIORITIES]
  BY DEF Good, Sound
<1> HIDE DEF waiting
<1>3. waiting # <<>> => Head(waiting) \in AllTasks
  BY <1>1, Bounds
<1>4. waiting # <<>> => configMAX_PRIORITIES - kernel.xEventValue[Head(waiting)] \in Priorities
  <2>1. ASSUME NEW v \in 1 .. configMAX_PRIORITIES PROVE configMAX_PRIORITIES - v \in Priorities
    BY TasksAssumption DEF Priorities
  <2> QED BY <1>2, <1>3, <2>1
<1> QED BY <1>4, Bounds DEF prvGetDisinheritPriorityAfterTimeout, waiting

\* the rest of a call to a queue
LEMMA QueueStepKernel ==
  ASSUME IInv, Good(kernel), NEW t \in Tasks, QueueStep(t) PROVE Keeps \/ Lends
<1> DEFINE q == thread[t].call.on
<1>0. q \in Queues /\ ThreadOK(thread[t])
  BY CalledQueue, TasksInAll DEF IInv, ThreadsInv
<1>1. CASE prvLockQueue(t) \/ xTaskCheckForTimeOut(t) \/ PollQueue(t) \/ RecheckQueue(t)
  <2>1. kernel' = kernel /\ UNCHANGED owns
    BY <1>1 DEF prvLockQueue, xTaskCheckForTimeOut, PollQueue, RecheckQueue, Proceed, Return
  <2> QED BY <2>1, MovesNot, MovesKeeps
<1>2. CASE SuspendToWait(t)
  <2>1. kernel' = [kernel EXCEPT !.uxSchedulerSuspended = @ + 1] /\ UNCHANGED owns
    BY <1>2 DEF SuspendToWait, vTaskSuspendAll, Proceed
  <2> QED BY <2>1, SuspendAllGood DEF Keeps, Steady, Same, Fields
<1>3. CASE InheritPriority(t)
  <2>1. kernel' = xTaskPriorityInherit(kernel, Holder(q)) /\ UNCHANGED owns
    BY <1>3 DEF InheritPriority, Proceed
  <2>2. Holder(q) \in Tasks \cup {NoTask}
    BY <1>0, HolderOf
  <2>3. Prioritised(kernel, kernel', Holder(q)) /\ (Holder(q) = NoTask => kernel' = kernel)
    BY <2>1, <2>2, InheritIs
  <2> QED BY <1>0, <2>1, <2>3, PrioritisedLends
<1>4. CASE DisinheritAfterTimeout(t)
  <2> DEFINE p == prvGetDisinheritPriorityAfterTimeout(kernel, q)
  <2>1. /\ kernel' = vTaskPriorityDisinheritAfterTimeout(kernel, Holder(q), p)
        /\ UNCHANGED owns
    BY <1>4 DEF DisinheritAfterTimeout, Return, Proceed
  <2>2. Holder(q) \in Tasks \cup {NoTask} /\ p \in Priorities
    BY <1>0, HolderOf, HighestWaiting
  <2> HIDE DEF p
  <2>3. Prioritised(kernel, kernel', Holder(q)) /\ (Holder(q) = NoTask => kernel' = kernel)
    BY <2>1, <2>2, DisinheritAfterTimeoutIs
  <2> QED BY <1>0, <2>1, <2>3, PrioritisedLends
<1>5. CASE PlaceOnEventList(t)
  <2>1. /\ kernel.pxCurrentTCB = t /\ UNCHANGED owns
        /\ \E e \in {xTasksWaitingToSend(q), xTasksWaitingToReceive(q)} :
             kernel' = vTaskPlaceOnEventList(kernel, e, thread[t].call.wait)
    BY <1>5 DEF PlaceOnEventList, At, Running, Proceed
  <2>2. thread[t].call.wait \in Int
    BY <1>0, WaitIsInt DEF ThreadOK
  <2> QED BY <1>0, <2>1, <2>2, EventListsOf, PlaceMoves, MovesKeeps
<1>6. CASE UnlockTx(t)
  <2>1. /\ kernel' = WakeLocked(kernel, xTasksWaitingToReceive(q), queue[q].cTxLock)
        /\ UNCHANGED owns
    BY <1>6 DEF UnlockTx, Proceed
  <2>2. queue[q].cTxLock \in Int
    BY <1>0, QueueTypes DEF IInv
  <2> QED BY <1>0, <2>1, <2>2, EventListsOf, WakeLockedMoves, MovesKeeps
<1>7. CASE UnlockRx(t)
  <2>1. /\ kernel' = WakeLocked(kernel, xTasksWaitingToSend(q), queue[q].cRxLock)
        /\ UNCHANGED owns
    BY <1>7 DEF UnlockRx, Proceed
  <2>2. queue[q].cRxLock \in Int
    BY <1>0, QueueTypes DEF IInv
  <2> QED BY <1>0, <2>1, <2>2, EventListsOf, WakeLockedMoves, MovesKeeps
<1> QED BY <1>1, <1>2, <1>3, <1>4, <1>5, <1>6, <1>7 DEF QueueStep

LEMMA InterruptOnKernel ==
  ASSUME Good(kernel), NEW x, NEW r, NEW lock, NEW e \in EventLists, InterruptOn(x, r, lock, e)
  PROVE  Moves(kernel, kernel')
<1>1. \E b, k : k \in {kernel, WakeFirst(kernel, e)} /\ EndInterrupt(b, k)
  BY DEF InterruptOn
<1> QED BY <1>1, MovesNot, WakeFirstMoves, EndInterruptMoves

LEMMA QueueInterruptKernel ==
  ASSUME IInv, Good(kernel), xQueueGenericSendFromISR \/ xQueueReceiveFromISR PROVE Keeps
<1>1. PICK c, r, lock, e :
        /\ c \in Interrupts("sendFromISR") \cup Interrupts("receiveFromISR")
        /\ e \in {xTasksWaitingToSend(c.on), xTasksWaitingToReceive(c.on)}
        /\ InterruptOn(c.on, r, lock, e) /\ UNCHANGED owns
  BY DEF xQueueGenericSendFromISR, xQueueReceiveFromISR
<1>2. c.on \in Queues
  BY <1>1, InterruptsOK DEF IInv, Allowed, Queues
<1>3. e \in EventLists
  BY <1>1, <1>2, EventListsOf
<1> QED BY <1>1, <1>3, InterruptOnKernel, MovesKeeps

---------------------------------------------------------------------------
(* The kernel in every step *)

\* t is created, or created again
Creates(t) ==
  /\ UNCHANGED owns /\ Good(kernel') /\ IsFree(kernel, t)
  /\ \A f \in {"xTickCount", "xPendedTicks"} : kernel'[f] = kernel[f]
  /\ \E p \in Priorities : /\ kernel'.uxPriority = [kernel.uxPriority EXCEPT ![t] = p]
                           /\ kernel'.uxBasePriority = [kernel.uxBasePriority EXCEPT ![t] = p]
  /\ kernel'.uxMutexesHeld = [kernel.uxMutexesHeld EXCEPT ![t] = 0]

\* t is given the priority p
Sets(t, p) ==
  /\ UNCHANGED owns /\ Good(kernel')
  /\ \A f \in {"xTickCount", "xPendedTicks", "uxMutexesHeld"} : kernel'[f] = kernel[f]
  /\ kernel'.uxPriority =
       [kernel.uxPriority EXCEPT ![t] = IF kernel.uxBasePriority[t] = @ THEN p ELSE @]
  /\ kernel'.uxBasePriority = [kernel.uxBasePriority EXCEPT ![t] = p]

LEMMA CreateKernel ==
  ASSUME ThreadsInv, Good(kernel), NEW t, xTaskCreate(t), UNCHANGED owns
  PROVE  \E x \in Tasks : Creates(x)
<1>1. PICK c \in CallsOf(t, "create") :
        IsFree(kernel, c.on) /\ kernel' = prvAddNewTaskToReadyList(kernel, c.on, c.arg)
  BY DEF xTaskCreate, Return, Proceed
<1>2. PICK x \in Tasks, p \in Priorities :
        IsFree(kernel, x) /\ kernel' = prvAddNewTaskToReadyList(kernel, x, p)
  BY <1>1, CallsOfOK DEF Allowed
<1>3. /\ Good(kernel')
      /\ \A f \in {"xTickCount", "xPendedTicks"} : kernel'[f] = kernel[f]
      /\ kernel'.uxPriority = [kernel.uxPriority EXCEPT ![x] = p]
      /\ kernel'.uxBasePriority = [kernel.uxBasePriority EXCEPT ![x] = p]
      /\ kernel'.uxMutexesHeld = [kernel.uxMutexesHeld EXCEPT ![x] = 0]
  BY <1>2, CreatedIs
<1>4. Creates(x)
  BY <1>2, <1>3 DEF Creates
<1> QED BY <1>4

LEMMA PrioritySetKernel ==
  ASSUME ThreadsInv, Good(kernel), NEW t, vTaskPrioritySet(t), UNCHANGED owns
  PROVE  Keeps \/ \E x \in Tasks, p \in Priorities : Sets(x, p)
<1>1. PICK c \in CallsOf(t, "prioritySet") :
        kernel' = kernel \/ \E b : kernel' = YieldIf(b, PrioritySet(kernel, c.on, c.arg))
  BY DEF vTaskPrioritySet, Return, Proceed, PrioritySet
<1>2. PICK x \in Tasks, p \in Priorities :
        kernel' = kernel \/ \E b : kernel' = YieldIf(b, PrioritySet(kernel, x, p))
  BY <1>1, CallsOfOK DEF Allowed
<1>3. CASE kernel' = kernel
  BY <1>3, MovesNot, MovesKeeps
<1>4. CASE kernel' # kernel
  <2> DEFINE k2 == PrioritySet(kernel, x, p)
  <2>1. \E b : kernel' = YieldIf(b, k2)
    BY <1>2, <1>4
  <2>2. /\ Good(k2)
        /\ \A f \in Kept \ {"uxPriority", "uxBasePriority", "xEventValue"} : k2[f] = kernel[f]
        /\ k2.uxPriority =
             [kernel.uxPriority EXCEPT ![x] = IF kernel.uxBasePriority[x] = @ THEN p ELSE @]
        /\ k2.uxBasePriority = [kernel.uxBasePriority EXCEPT ![x] = p]
    BY PrioritySetIs
  <2> HIDE DEF k2
  <2>3. Moves(k2, kernel')
    BY <2>1, <2>2, YieldIfMoves
  <2>4. Sets(x, p)
    BY <2>2, <2>3 DEF Moves, Kept, Sets
  <2> QED BY <2>4
<1> QED BY <1>3, <1>4

\* what a step does to the clock of the kernel, the priorities and the mutexes
KernelStep ==
  \/ Keeps \/ Lends
  \/ (Tick \/ \E t \in AllTasks : ResumeScheduler(t)) /\ UNCHANGED owns
  \/ \E x \in Tasks : Creates(x) \/ \E p \in Priorities : Sets(x, p)
  \/ \E t \in Tasks, q \in Mutexes : Gives(t, q) \/ Takes(t, q)

LEMMA KernelSteps ==
  ASSUME IInv, PreviousInv, Good(kernel), Next PROVE KernelStep
<1>0. ThreadsInv
  BY DEF IInv
<1>1. CASE NextTasks /\ UNCHANGED <<queue, owns, copied>>
  <2>0. UNCHANGED owns
    BY <1>1
  <2>1. CASE Tick
    BY <2>0, <2>1 DEF KernelStep
  <2>2. CASE Interrupt
    BY <1>0, <2>0, <2>2, InterruptKernel, MovesKeeps DEF KernelStep
  <2>3. CASE IdleStep
    BY <1>0, <2>0, <2>3, IdleKernel, MovesKeeps DEF KernelStep
  <2>4. ASSUME NEW t \in AllTasks, Call(t) PROVE KernelStep
    <3>1. Steady(kernel, kernel') => Keeps
      BY <2>0 DEF Keeps
    <3> QED BY <1>0, <2>0, <2>4, <3>1, CallKernel, CreateKernel, PrioritySetKernel DEF KernelStep
  <2>5. ASSUME NEW t \in AllTasks, Step(t) PROVE KernelStep
    <3>1. CASE ResumeScheduler(t)
      BY <2>0, <3>1 DEF KernelStep
    <3>2. CASE ~ResumeScheduler(t)
      BY <1>0, <2>0, <2>5, <3>2, StepKernel, MovesKeeps DEF KernelStep
    <3> QED BY <3>1, <3>2
  <2> QED BY <1>1, <2>1, <2>2, <2>3, <2>4, <2>5 DEF NextTasks
<1>2. CASE xQueueGenericSendFromISR \/ xQueueReceiveFromISR
  BY <1>2, QueueInterruptKernel DEF KernelStep
<1>3. ASSUME NEW t \in Tasks, QueueStep(t) PROVE KernelStep
  BY <1>3, QueueStepKernel DEF KernelStep
<1>4. ASSUME NEW t \in Tasks,
             QueueCall(t) \/ xQueueGenericReset(t)
             \/ xQueueTakeMutexRecursive(t) \/ xQueueGiveMutexRecursive(t)
      PROVE  KernelStep
  BY <1>4, SendKernel, ReadKernel, TakeKernel, OtherCallsKernel DEF KernelStep, QueueCall
<1> QED BY <1>1, <1>2, <1>3, <1>4 DEF Next

---------------------------------------------------------------------------
(* The kernel's invariant *)

KernelInv == Good(kernel) /\ PreviousInv

LEMMA TickChanges ==
  ASSUME Good(kernel), Tick
  PROVE  /\ Good(kernel') /\ \A f \in Still : kernel'[f] = kernel[f]
         /\ IF kernel.uxSchedulerSuspended > 0
            THEN /\ kernel'.xTickCount = kernel.xTickCount
                 /\ kernel'.xPendedTicks = kernel.xPendedTicks + 1
            ELSE /\ kernel'.xTickCount = (kernel.xTickCount + 1) % TickRange
                 /\ kernel'.xPendedTicks = kernel.xPendedTicks
         /\ clock' = (clock + 1) % TickRange
<1> DEFINE k1 == xTaskIncrementTick(kernel)
<1>1. Ticked(kernel, k1)
  BY IncrementTickIs
<1>2. Moves(k1, kernel')
  BY TickKernel
<1>3. clock' = (clock + 1) % TickRange
  BY DEF Tick
<1> HIDE DEF k1
<1> QED BY <1>1, <1>2, <1>3 DEF Ticked, Moves, Kept, Still

LEMMA ResumeChanges ==
  ASSUME Good(kernel), NEW t, ResumeScheduler(t)
  PROVE  /\ Good(kernel') /\ \A f \in Still : kernel'[f] = kernel[f]
         /\ \/ /\ kernel'.xTickCount = kernel.xTickCount
               /\ kernel'.xPendedTicks = kernel.xPendedTicks
            \/ /\ kernel'.xTickCount = (kernel.xTickCount + kernel.xPendedTicks) % TickRange
               /\ kernel'.xPendedTicks = 0
         /\ UNCHANGED clock
<1> DEFINE k1 == xTaskResumeAll(kernel)
<1>1. /\ Good(k1) /\ \A f \in Still : k1[f] = kernel[f]
      /\ \/ k1.xTickCount = kernel.xTickCount /\ k1.xPendedTicks = kernel.xPendedTicks
         \/ /\ k1.xTickCount = (kernel.xTickCount + kernel.xPendedTicks) % TickRange
            /\ k1.xPendedTicks = 0
  BY ResumeAllIs
<1>2. Moves(k1, kernel')
  BY ResumeKernel
<1>3. UNCHANGED clock
  BY DEF ResumeScheduler, Unchanged
<1> HIDE DEF k1
<1> QED BY <1>1, <1>2, <1>3 DEF Moves, Kept, Still

LEMMA KernelStays == ASSUME Good(kernel), KernelStep PROVE Good(kernel')
  BY TickChanges, ResumeChanges
  DEF KernelStep, Keeps, Steady, Lends, Creates, Sets, Gives, Takes

\* only the tick interrupt counts the clock, and only xTaskDelayUntil() sets
\* the time a task woke
LEMMA ClockSteps ==
  ASSUME Next
  PROVE  /\ Tick \/ UNCHANGED clock
         /\ (\E t \in AllTasks : xTaskDelayUntil(t)) \/ UNCHANGED xPreviousWakeTime
<1>1. CASE NextTasks
  <2>1. CASE Tick
    BY <2>1 DEF Tick
  <2>2. CASE Interrupt
    BY <2>2 DEF Interrupt, xTaskGenericNotifyFromISR, xTaskResumeFromISR, EndInterrupt, Unchanged
  <2>3. CASE IdleStep
    BY <2>3 DEF IdleStep, prvCheckTasksWaitingTermination, prvIdleTask, Unchanged
  <2>4. ASSUME NEW t \in AllTasks, Call(t) PROVE UNCHANGED <<clock, xPreviousWakeTime>>
    BY <2>4 DEF Call, taskYIELD, SuspendScheduler, StartDelay, vTaskSuspend, vTaskResume,
       vTaskPrioritySet, vTaskDelete, xTaskCreate, ulTaskGenericNotifyTake,
       xTaskGenericNotifyWait, xTaskGenericNotify, Unchanged
  <2>5. ASSUME NEW t \in AllTasks, Step(t)
        PROVE  UNCHANGED clock /\ (xTaskDelayUntil(t) \/ UNCHANGED xPreviousWakeTime)
    BY <2>5 DEF Step, portYIELD, ResumeScheduler, ReturnFromCall, vTaskDelay, xTaskDelayUntil,
       SuspendedTask, NotifyTaken, NotifyWaited, Unchanged
  <2> QED BY <1>1, <2>1, <2>2, <2>3, <2>4, <2>5 DEF NextTasks
<1>2. CASE xQueueGenericSendFromISR \/ xQueueReceiveFromISR
  BY <1>2 DEF xQueueGenericSendFromISR, xQueueReceiveFromISR, InterruptOn, EndInterrupt, Unchanged
<1>3. ASSUME NEW t \in Tasks, QueueStep(t) PROVE UNCHANGED <<clock, xPreviousWakeTime>>
  BY <1>3 DEF QueueStep, SuspendToWait, prvLockQueue, xTaskCheckForTimeOut, PollQueue,
     InheritPriority, PlaceOnEventList, UnlockTx, UnlockRx, RecheckQueue, DisinheritAfterTimeout,
     Unchanged
<1>4. ASSUME NEW t \in Tasks,
             QueueCall(t) \/ xQueueGenericReset(t)
             \/ xQueueTakeMutexRecursive(t) \/ xQueueGiveMutexRecursive(t)
      PROVE  UNCHANGED <<clock, xPreviousWakeTime>>
  BY <1>4 DEF QueueCall, xQueueGenericSend, xQueueReceive, xQueuePeek, xQueueSemaphoreTake,
     xQueueGenericReset, xQueueTakeMutexRecursive, xQueueGiveMutexRecursive, Unchanged
<1> QED BY <1>1, <1>2, <1>3, <1>4 DEF Next

LEMMA PreviousStays ==
  ASSUME IInv, PreviousInv, Next PROVE PreviousInv'
<1>1. CASE UNCHANGED xPreviousWakeTime
  BY <1>1 DEF PreviousInv
<1>2. ASSUME NEW t \in AllTasks, xTaskDelayUntil(t) PROVE PreviousInv'
  <2>1. xPreviousWakeTime' =
          [xPreviousWakeTime EXCEPT ![t] = (xPreviousWakeTime[t] + thread[t].call.wait) % TickRange]
    BY <1>2 DEF xTaskDelayUntil
  <2>2. t \in Tasks /\ ThreadOK(thread[t])
    BY <1>2, AtTask DEF xTaskDelayUntil, IInv, ThreadsInv
  <2>3. xPreviousWakeTime[t] + thread[t].call.wait \in Int
    <3>1. thread[t].call.wait \in Int
      BY <2>2, WaitIsInt DEF ThreadOK
    <3> QED BY <2>2, <3>1 DEF PreviousInv
  <2>4. (xPreviousWakeTime[t] + thread[t].call.wait) % TickRange \in Int
    BY <2>3, RangeAssumption
  <2> QED BY <2>1, <2>2, <2>4 DEF PreviousInv
<1> QED BY <1>1, <1>2, ClockSteps

LEMMA InitKernel == Init => KernelInv /\ Begins(kernel)
<1> SUFFICES ASSUME Init PROVE KernelInv /\ Begins(kernel)
  OBVIOUS
<1>1. /\ scenario.created \in Seq(Tasks) /\ IsInjective(scenario.created)
      /\ \A t \in Tasks : scenario.priority[t] \in Priorities
  BY ScenariosAssumption DEF Init, InitTasks
<1>2. Good(kernel) /\ Begins(kernel)
  BY <1>1, StartIs DEF Init, InitTasks
<1>3. PreviousInv
  BY DEF Init, InitTasks, PreviousInv
<1> QED BY <1>2, <1>3 DEF KernelInv

LEMMA NextAll == IInv /\ KernelInv /\ [Next]_vars => (IInv /\ KernelInv)'
<1> SUFFICES ASSUME IInv, KernelInv, [Next]_vars PROVE IInv' /\ KernelInv'
  OBVIOUS
<1>1. IInv'
  <2>1. kernel.xTickCount \in Int
    BY GoodTypes DEF KernelInv
  <2> QED BY <2>1, NextInv
<1>2. CASE Next
  BY <1>1, <1>2, KernelSteps, KernelStays, PreviousStays DEF KernelInv
<1>3. CASE UNCHANGED vars
  BY <1>1, <1>3 DEF KernelInv, PreviousInv, vars, taskVars
<1> QED BY <1>2, <1>3

\* The invariant of the queues and that of the kernel hold together.
THEOREM Invariance == Spec => [](IInv /\ KernelInv)
<1>1. Init => IInv /\ KernelInv
  BY InitInv, InitKernel
<1> QED BY <1>1, NextAll, PTL DEF Spec

---------------------------------------------------------------------------
(* What follows *)

\* No two tasks have taken a mutex and not given it back, whatever tasks,
\* queues, calls and interrupts there are, and whatever the scheduler does.
THEOREM MutexesExclude == Spec => []MutualExclusion
<1>1. IInv => MutualExclusion
  BY DEF IInv
<1> QED BY <1>1, Invariance, PTL

\* the sum that TypeOK is about
LEMMA OnceIs ==
  ASSUME NEW k, Sound(k), NEW t \in AllTasks
  PROVE  Cardinality({p \in Priorities : Contains(k.pxReadyTasksLists[p], t)})
         + Cardinality({l \in {k.pxDelayedTaskList, k.pxOverflowDelayedTaskList,
                               k.xTasksWaitingTermination} : Contains(l, t)})
         + (IF t \in k.xSuspendedTaskList THEN 1 ELSE 0) <= 1
<1> DEFINE A == {p \in Priorities : Contains(k.pxReadyTasksLists[p], t)}
           d == k.pxDelayedTaskList  o == k.pxOverflowDelayedTaskList
           x == k.xTasksWaitingTermination
           B == {l \in {d, o, x} : Contains(l, t)}
           s == IF t \in k.xSuspendedTaskList THEN 1 ELSE 0
<1>1. Once(k, t)
  BY DEF Sound
<1>2. IsReady(k, t) <=> A # {}
  BY DEF IsReady
<1>3. A = {} \/ \E p : A = {p}
  BY <1>1 DEF Once
<1>4. B = {} \/ \E l : B = {l}
  BY <1>1 DEF Once, IsTerminated
<1>5. A # {} => B = {} /\ s = 0
  BY <1>1, <1>2 DEF Once, IsTerminated
<1>6. B # {} => s = 0
  BY <1>1 DEF Once, IsTerminated
<1>7. s \in {0, 1}
  OBVIOUS
<1>8. Cardinality({}) = 0 /\ \A y : Cardinality({y}) = 1
  BY FS_EmptySet, FS_Singleton
<1> HIDE DEF A, B, s
<1>9. Cardinality(A) + Cardinality(B) + s <= 1
  <2>1. CASE A # {}
    <3>1. Cardinality(A) = 1
      BY <1>3, <1>8, <2>1
    <3>2. Cardinality(B) = 0 /\ s = 0
      BY <1>5, <1>8, <2>1
    <3> QED BY <3>1, <3>2
  <2>2. CASE A = {} /\ B # {}
    <3>1. Cardinality(A) = 0 /\ s = 0
      BY <1>6, <1>8, <2>2
    <3>2. Cardinality(B) = 1
      BY <1>4, <1>8, <2>2
    <3> QED BY <3>1, <3>2
  <2>3. CASE A = {} /\ B = {}
    <3>1. Cardinality(A) = 0 /\ Cardinality(B) = 0
      BY <1>8, <2>3
    <3> QED BY <1>7, <3>1
  <2> QED BY <2>1, <2>2, <2>3
<1> QED BY <1>9 DEF A, B, s

\* A task is in one list of states at most, and the variables of tasks.c and
\* queue.c have their types, whatever tasks, queues, calls and interrupts
\* there are.
THEOREM TypesKept == Spec => []TypeOK
<1>1. IInv /\ KernelInv => TypeOK
  <2> SUFFICES ASSUME IInv, Good(kernel) PROVE TypeOK
    BY DEF KernelInv
  <2>1. scenario \in Scenarios
    BY DEF IInv, ThreadsInv
  <2>2. /\ kernel.pxCurrentTCB \in AllTasks
        /\ kernel.uxPriority \in [AllTasks -> Priorities]
        /\ kernel.uxBasePriority \in [AllTasks -> Priorities]
        /\ kernel.xTickCount \in Ticks /\ kernel.xNextTaskUnblockTime \in Ticks
    BY DEF Good, Sound
  <2>3. \A t \in AllTasks :
          Cardinality({p \in Priorities : Contains(kernel.pxReadyTasksLists[p], t)})
          + Cardinality({l \in {kernel.pxDelayedTaskList, kernel.pxOverflowDelayedTaskList,
                                kernel.xTasksWaitingTermination} : Contains(l, t)})
          + (IF t \in kernel.xSuspendedTaskList THEN 1 ELSE 0) <= 1
    BY OnceIs DEF Good
  <2>4. \A q \in Queues : queue[q].uxMessagesWaiting \in 0 .. uxLength[q]
    BY QueueTypes DEF IInv
  <2> QED BY <2>1, <2>2, <2>3, <2>4 DEF TypeOK
<1> QED BY <1>1, Invariance, PTL

LEMMA OneMore ==
  ASSUME NEW L \in Nat \ {0} PROVE \A y \in Int : ((y % L) + 1) % L = (y + 1) % L
<1> TAKE y \in Int
<1>1. 1 \in Int
  OBVIOUS
<1> QED BY <1>1, RemainderOfSum

LEMMA NoneMore ==
  ASSUME NEW L \in Nat \ {0} PROVE \A y \in Int : ((y % L) + 0) % L = y % L
<1> TAKE y \in Int
<1>1. 0 \in Int /\ y + 0 = y
  OBVIOUS
<1>2. ((y % L) + 0) % L = (y + 0) % L
  BY <1>1, RemainderOfSum
<1> QED BY <1>1, <1>2

LEMMA ClockStep ==
  ASSUME IInv, KernelInv, NoTickLost, [Next]_vars PROVE NoTickLost'
<1> DEFINE L == TickRange  a == kernel.xTickCount  n == kernel.xPendedTicks
<1>0. L \in Nat \ {0} /\ a \in Int /\ n \in Int /\ clock = (a + n) % L
  <2>1. n \in Nat
    BY TypesOf DEF KernelInv, Types
  <2> QED BY <2>1, GoodTypes, RangeAssumption DEF KernelInv, NoTickLost
<1>1. CASE Tick
  <2>1. clock' = (((a + n) % L) + 1) % L
    BY <1>0, <1>1, TickChanges DEF KernelInv
  <2>2. clock' = (a + n + 1) % L
    <3> HIDE DEF a, n, L
    <3>1. a + n \in Int
      BY <1>0
    <3>2. \A y \in Int : ((y % L) + 1) % L = (y + 1) % L
      BY <1>0, OneMore
    <3>3. (((a + n) % L) + 1) % L = (a + n + 1) % L
      BY <3>1, <3>2
    <3> QED BY <2>1, <3>3
  <2>3. CASE kernel.uxSchedulerSuspended > 0
    <3>1. kernel'.xTickCount = a /\ kernel'.xPendedTicks = n + 1
      BY <1>1, <2>3, TickChanges DEF KernelInv
    <3> HIDE DEF a, n
    <3>2. a + n + 1 = a + (n + 1)
      BY <1>0
    <3> QED BY <2>2, <3>1, <3>2 DEF NoTickLost
  <2>4. CASE ~(kernel.uxSchedulerSuspended > 0)
    <3>1. kernel'.xTickCount = (a + 1) % L /\ kernel'.xPendedTicks = n
      BY <1>1, <2>4, TickChanges DEF KernelInv
    <3> HIDE DEF a, n, L
    <3>2. a + 1 \in Int /\ a + n + 1 = (a + 1) + n
      BY <1>0
    <3>3. (((a + 1) % L) + n) % L = (a + n + 1) % L
      BY ZenonT(40), <1>0, <3>2, RemainderOfSum
    <3> QED BY <2>2, <3>1, <3>3 DEF NoTickLost, L
  <2> QED BY <2>3, <2>4
<1>2. CASE \E t \in AllTasks : ResumeScheduler(t)
  <2>1. /\ UNCHANGED clock
        /\ \/ kernel'.xTickCount = a /\ kernel'.xPendedTicks = n
           \/ kernel'.xTickCount = (a + n) % L /\ kernel'.xPendedTicks = 0
    BY <1>2, ResumeChanges DEF KernelInv
  <2> HIDE DEF a, n, L
  <2>2. (((a + n) % L) + 0) % L = (a + n) % L
    <3>1. a + n \in Int
      BY <1>0
    <3>2. \A y \in Int : ((y % L) + 0) % L = y % L
      BY <1>0, NoneMore
    <3> QED BY <3>1, <3>2
  <2> QED BY <1>0, <2>1, <2>2 DEF NoTickLost, L
<1>3. CASE Next /\ ~Tick /\ ~\E t \in AllTasks : ResumeScheduler(t)
  <2>1. UNCHANGED clock
    BY <1>3, ClockSteps
  <2>2. kernel'.xTickCount = a /\ kernel'.xPendedTicks = n
    BY <1>3, KernelSteps
    DEF KernelInv, KernelStep, Keeps, Steady, Lends, Creates, Sets, Gives, Takes
  <2> QED BY <2>1, <2>2 DEF NoTickLost
<1>4. CASE UNCHANGED vars
  BY <1>4 DEF NoTickLost, vars, taskVars
<1> QED BY <1>1, <1>2, <1>3, <1>4

\* No tick is lost, however long the scheduler is suspended and whoever resumes
\* it: what the tick count does not show is pending.
THEOREM TicksAreKept == Spec => []NoTickLost
<1>1. Init => NoTickLost
  <2> SUFFICES ASSUME Init PROVE NoTickLost
    OBVIOUS
  <2>1. kernel.xTickCount = 0 /\ kernel.xPendedTicks = 0 /\ clock = 0
    BY InitKernel DEF Begins, Init, InitTasks
  <2>2. (0 + 0) % TickRange = 0
    BY RangeAssumption, SMT
  <2> QED BY <2>1, <2>2 DEF NoTickLost
<1>2. IInv /\ KernelInv /\ NoTickLost /\ [Next]_vars => NoTickLost'
  BY ClockStep
<1> QED BY <1>1, <1>2, Invariance, PTL DEF Spec

\* The application deletes no task that holds a mutex, which nobody could then
\* give back.
DeletedHoldNothing == \A t \in Tasks : IsFree(kernel, t) => owns[t] = {}

\* uxMutexesHeld counts the mutexes of a task, and who has none runs at its own
\* priority.
HeldInv(t) ==
  /\ IsFiniteSet(owns[t]) /\ kernel.uxMutexesHeld[t] = Cardinality(owns[t])
  /\ owns[t] = {} => kernel.uxPriority[t] = kernel.uxBasePriority[t]

LEMMA HeldStep ==
  ASSUME IInv, KernelInv, DeletedHoldNothing, \A t \in Tasks : HeldInv(t), [Next]_vars
  PROVE  \A t \in Tasks : HeldInv(t)'
<1> SUFFICES ASSUME NEW t \in Tasks PROVE HeldInv(t)'
  OBVIOUS
<1>0. HeldInv(t) /\ t \in AllTasks
  BY Bounds
<1>1. owns \in [Tasks -> SUBSET Mutexes]
  BY DEF IInv, MutexInv
<1>2. /\ kernel.uxPriority \in [AllTasks -> Priorities]
      /\ kernel.uxBasePriority \in [AllTasks -> Priorities]
      /\ kernel.uxMutexesHeld \in [AllTasks -> Int]
  BY TypesOf DEF KernelInv, Types
<1>3. CASE /\ owns' = owns
           /\ \A f \in {"uxBasePriority", "uxMutexesHeld"} : kernel'[f] = kernel[f]
           /\ \A x \in Tasks : owns[x] = {} => kernel'.uxPriority[x] = kernel.uxPriority[x]
  BY <1>0, <1>3 DEF HeldInv
<1>4. CASE Keeps \/ Lends
  BY <1>3, <1>4 DEF Keeps, Steady, Lends
<1>5. CASE (Tick \/ \E x \in AllTasks : ResumeScheduler(x)) /\ UNCHANGED owns
  BY <1>3, <1>5, TickChanges, ResumeChanges DEF KernelInv, Still, Kept
<1>6. ASSUME NEW x \in Tasks, Creates(x) PROVE HeldInv(t)'
  <2>1. CASE t = x
    <3>1. owns[t] = {} /\ owns' = owns
      BY <1>6, <2>1 DEF DeletedHoldNothing, Creates
    <3>2. kernel'.uxMutexesHeld[t] = 0 /\ kernel'.uxPriority[t] = kernel'.uxBasePriority[t]
      BY <1>0, <1>2, <1>6, <2>1 DEF Creates
    <3> QED BY <3>1, <3>2, FS_EmptySet DEF HeldInv
  <2>2. CASE t # x
    <3>1. /\ owns' = owns /\ kernel'.uxMutexesHeld[t] = kernel.uxMutexesHeld[t]
          /\ kernel'.uxPriority[t] = kernel.uxPriority[t]
          /\ kernel'.uxBasePriority[t] = kernel.uxBasePriority[t]
      BY <1>0, <1>2, <1>6, <2>2 DEF Creates
    <3> QED BY <1>0, <3>1 DEF HeldInv
  <2> QED BY <2>1, <2>2
<1>7. ASSUME NEW x \in Tasks, NEW p \in Priorities, Sets(x, p) PROVE HeldInv(t)'
  <2>1. owns' = owns /\ kernel'.uxMutexesHeld = kernel.uxMutexesHeld
    BY <1>7 DEF Sets
  <2>2. owns[t] = {} => kernel'.uxPriority[t] = kernel'.uxBasePriority[t]
    BY <1>0, <1>2, <1>7 DEF Sets, HeldInv
  <2> QED BY <1>0, <2>1, <2>2 DEF HeldInv
<1>8. ASSUME NEW x \in Tasks, NEW q \in Mutexes, Gives(x, q) PROVE HeldInv(t)'
  <2>1. CASE t = x
    <3>1. /\ q \in owns[t] /\ owns'[t] = owns[t] \ {q}
          /\ kernel'.uxMutexesHeld[t] = kernel.uxMutexesHeld[t] - 1
          /\ kernel.uxMutexesHeld[t] = 1 => kernel'.uxPriority[t] = kernel'.uxBasePriority[t]
      BY <1>0, <1>1, <1>2, <1>8, <2>1 DEF Gives
    <3>2. /\ IsFiniteSet(owns'[t]) /\ Cardinality(owns'[t]) = Cardinality(owns[t]) - 1
      BY ZenonT(40), <1>0, <3>1, FS_RemoveElement DEF HeldInv
    <3>3. owns'[t] = {} => kernel.uxMutexesHeld[t] = 1
      <4>1. owns'[t] = {} => Cardinality(owns'[t]) = 0
        BY FS_EmptySet
      <4> QED BY <1>0, <1>2, <3>2, <4>1 DEF HeldInv
    <3> QED BY <1>0, <3>1, <3>2, <3>3 DEF HeldInv
  <2>2. CASE t # x
    <3>1. /\ owns'[t] = owns[t] /\ kernel'.uxMutexesHeld[t] = kernel.uxMutexesHeld[t]
          /\ kernel'.uxPriority[t] = kernel.uxPriority[t]
          /\ kernel'.uxBasePriority[t] = kernel.uxBasePriority[t]
      BY <1>0, <1>1, <1>2, <1>8, <2>2 DEF Gives
    <3> QED BY <1>0, <3>1 DEF HeldInv
  <2> QED BY <2>1, <2>2
<1>9. ASSUME NEW x \in Tasks, NEW q \in Mutexes, Takes(x, q) PROVE HeldInv(t)'
  <2>1. CASE t = x
    <3>1. /\ q \notin owns[t] /\ owns'[t] = owns[t] \cup {q}
          /\ kernel'.uxMutexesHeld[t] = kernel.uxMutexesHeld[t] + 1
      BY <1>0, <1>1, <1>2, <1>9, <2>1 DEF Takes
    <3>a. IsFiniteSet(owns[t]) /\ q \notin owns[t]
      BY <1>0, <3>1 DEF HeldInv
    <3>b. /\ IsFiniteSet(owns[t] \cup {q})
          /\ Cardinality(owns[t] \cup {q}) = Cardinality(owns[t]) + 1
      BY <3>a, FS_AddElement
    <3>2. IsFiniteSet(owns'[t]) /\ Cardinality(owns'[t]) = Cardinality(owns[t]) + 1
      BY <3>1, <3>b
    <3> QED BY <1>0, <3>1, <3>2 DEF HeldInv
  <2>2. CASE t # x
    <3>1. /\ owns'[t] = owns[t] /\ kernel'.uxMutexesHeld[t] = kernel.uxMutexesHeld[t]
          /\ kernel'.uxPriority[t] = kernel.uxPriority[t]
          /\ kernel'.uxBasePriority[t] = kernel.uxBasePriority[t]
      BY <1>0, <1>1, <1>2, <1>9, <2>2 DEF Takes
    <3> QED BY <1>0, <3>1 DEF HeldInv
  <2> QED BY <2>1, <2>2
<1>10. CASE Next
  BY <1>4, <1>5, <1>6, <1>7, <1>8, <1>9, <1>10, KernelSteps DEF KernelInv, KernelStep
<1>11. CASE UNCHANGED vars
  BY <1>0, <1>11 DEF HeldInv, vars, taskVars
<1> QED BY <1>10, <1>11

\* Who has given every mutex back runs at its own priority again, whatever it
\* inherited from whom, and whoever gave up waiting, as long as no task is
\* deleted that holds a mutex.
THEOREM BoostsEnd == Spec /\ []DeletedHoldNothing => []NoStrayBoost
<1> DEFINE H == \A t \in Tasks : HeldInv(t)
<1>1. Init => H
  <2> SUFFICES ASSUME Init, NEW t \in Tasks PROVE HeldInv(t)
    OBVIOUS
  <2>1. /\ kernel.uxMutexesHeld[t] = 0 /\ kernel.uxPriority[t] = kernel.uxBasePriority[t]
        /\ owns[t] = {}
    BY InitKernel, Bounds DEF Begins, Init
  <2> QED BY <2>1, FS_EmptySet DEF HeldInv
<1>2. IInv /\ KernelInv /\ DeletedHoldNothing /\ H /\ [Next]_vars => H'
  BY HeldStep
<1>3. H => NoStrayBoost
  BY DEF HeldInv, NoStrayBoost
<1> HIDE DEF H
<1> QED BY <1>1, <1>2, <1>3, Invariance, PTL DEF Spec

---------------------------------------------------------------------------
(* Sleeping tasks wake on time *)

\* the calls of queue.c that may wait
QueueOps == {"send", "give", "receive", "peek", "take", "takeRecursive"}

\* where a task is while a call of its own keeps the scheduler suspended
Insides == {"delay", "delayUntil", "lock", "check", "poll", "inherit", "place",
            "unlockTx", "unlockRx", "resume"}

\* on its way from there to its yield
Settled(th) ==
  th.at = "yield" \/ (th.at \in {"unlockTx", "unlockRx", "resume"} /\ th.yields = TRUE)

InPlace(t, th, k) ==
  /\ th.at \in Insides => t = k.pxCurrentTCB /\ k.uxSchedulerSuspended = 1
  /\ t = k.pxCurrentTCB /\ k.uxSchedulerSuspended > 0 => th.at \in Insides \cup {"user"}
  /\ t = k.pxCurrentTCB /\ IsSleeping(k, t) => Settled(th)

CallOK(th) ==
  /\ th.next \in {"user", "return", "attempt", "recheck"}
  /\ th.at = "user" => th.next = "user" /\ th.yields = FALSE
  /\ th.at \in {"delay", "delayUntil"} =>
       th.call.op \notin QueueOps /\ th.call.wait > 0 /\ th.yields = TRUE
  /\ th.at \in {"suspend", "lock", "check", "poll", "inherit", "place"} => th.call.wait > 0
  /\ th.at \in {"suspend", "lock", "check", "poll", "inherit", "place", "attempt", "recheck"} =>
       th.call.op \in QueueOps
  /\ th.next \in {"attempt", "recheck"} => th.call.op \in QueueOps
  /\ th.due \in Int
  /\ th.timed => th.since \in Ticks /\ th.overflows \in 0 .. OverflowRange - 1
  /\ th.timed /\ th.call.op \in QueueOps => th.call.wait < portMAX_DELAY
  /\ th.at \in {"poll", "inherit", "place"} /\ th.timed /\ th.due > -MaxLate =>
       th.call.wait = th.due

\* the ticks since the wait was last looked at
Counted(th, k) ==
  th.timed /\ th.call.op \in QueueOps /\ th.due > -MaxLate /\ th.call.wait > 0 =>
    LET e == th.call.wait - th.due
    IN  /\ e \in Ticks
        /\ k.xTickCount = (th.since + e) % TickRange
        /\ k.xNumOfOverflows = IF th.since + e < TickRange THEN th.overflows
                               ELSE (th.overflows + 1) % OverflowRange

Slept(t, th, k) == th.timed /\ IsSleeping(k, t) /\ th.due > -MaxLate => th.due = Left(k, t)

Fine(t, th, k) == CallOK(th) /\ Counted(th, k) /\ Slept(t, th, k)

OnTime ==
  /\ Timely(kernel) /\ kernel.uxSchedulerSuspended \in Nat
  /\ \A t \in AllTasks : InPlace(t, thread[t], kernel) /\ Fine(t, thread[t], kernel)

Hours ==
  kernel.xPendedTicks <= MaxPended /\ xPreviousWakeTime \in [Tasks -> Ticks]

---------------------------------------------------------------------------
LEMMA MaxTwo ==
  ASSUME NEW a \in Int, NEW b \in Int PROVE Max({a, b}) = IF a > b THEN a ELSE b
<1> DEFINE m == IF a > b THEN a ELSE b
<1>1. m \in {a, b} /\ \A y \in {a, b} : m >= y
  OBVIOUS
<1>2. \A x \in {a, b} : (\A y \in {a, b} : x >= y) => x = m
  OBVIOUS
<1> HIDE DEF m
<1>3. Max({a, b}) = m
  BY <1>1, <1>2 DEF Max
<1> QED BY <1>3 DEF m

LEMMA TwoSpans ==
  ASSUME NEW L \in Nat \ {0}, NEW a \in 0 .. L - 1, NEW m \in 0 .. L - 1, NEW n \in 0 .. L - 1,
         m + n \in 0 .. L - 1, NEW b \in 0 .. L - 1, b = (a + m) % L
  PROVE  /\ (b + n) % L = (a + (m + n)) % L
         /\ IF a + m < L THEN b + n < L <=> a + (m + n) < L
                         ELSE b + n < L /\ ~(a + (m + n) < L)
<1>1. /\ (a + m) % L = IF a + m < L THEN a + m ELSE a + m - L
      /\ (b + n) % L = IF b + n < L THEN b + n ELSE b + n - L
      /\ (a + (m + n)) % L = IF a + (m + n) < L THEN a + (m + n) ELSE a + (m + n) - L
  BY SumWraps
<1> QED BY <1>1

\* the ticks that passed, from the two tick counts
LEMMA SpanIs ==
  ASSUME NEW L \in Nat \ {0}, NEW a \in 0 .. L - 1, NEW n \in 0 .. L - 1, NEW b \in 0 .. L - 1,
         b = (a + n) % L
  PROVE  (b - a) % L = n
<1>1. /\ (a + n) % L = IF a + n < L THEN a + n ELSE a + n - L
      /\ (b - a) % L = IF b < a THEN b - a + L ELSE b - a
  BY SumWraps, DifferenceWraps
<1> QED BY <1>1

LEMMA UserFine == ASSUME NEW t, NEW k PROVE Fine(t, UserThread, k)
  BY DEF Fine, CallOK, Counted, Slept, UserThread, NoCall, QueueOps

\* no time has passed
SameTime(k, k1) ==
  /\ k1.xTickCount = k.xTickCount /\ k1.xNumOfOverflows = k.xNumOfOverflows
  /\ \A t : IsSleeping(k1, t) => IsSleeping(k, t) /\ Left(k1, t) = Left(k, t)

LEMMA NoTime ==
  ASSUME NEW k, Good(k), NEW k1, Passes(k, k1, 0) PROVE SameTime(k, k1)
<1>1. k.xTickCount \in 0 .. TickRange - 1 /\ TickRange \in Nat \ {0, 1} /\ k.xTickCount \in Int
  BY CountTypes
<1>2. k1.xTickCount = k.xTickCount /\ k.xTickCount + 0 < TickRange
  <2>1. k.xTickCount % TickRange = k.xTickCount /\ k.xTickCount + 0 = k.xTickCount
    BY <1>1, SMT
  <2>2. k1.xTickCount = (k.xTickCount + 0) % TickRange
    BY DEF Passes
  <2> QED BY <1>1, <2>1, <2>2
<1>3. ASSUME NEW t, IsSleeping(k1, t) PROVE IsSleeping(k, t) /\ Left(k1, t) = Left(k, t)
  <2>1. IsSleeping(k, t) /\ Left(k1, t) = Left(k, t) - 0
    BY <1>3 DEF Passes
  <2>2. k.xWakeTime[t] \in Int
    BY <2>1, Sleepers
  <2>3. Left(k, t) \in Int
    BY <1>1, <2>2 DEF Left
  <2> QED BY <2>1, <2>3
<1> QED BY <1>2, <1>3 DEF Passes, SameTime

LEMMA FineStays ==
  ASSUME NEW k, NEW k1, SameTime(k, k1), NEW t, NEW th, Fine(t, th, k) PROVE Fine(t, th, k1)
  BY DEF Fine, SameTime, Counted, Slept

---------------------------------------------------------------------------
\* t goes on, as th, and no other sleeping task notices
LEMMA GoesOn ==
  ASSUME OnTime, ThreadsInv, Timely(kernel'), kernel'.uxSchedulerSuspended \in Nat,
         kernel'.xTickCount = kernel.xTickCount, kernel'.xNumOfOverflows = kernel.xNumOfOverflows,
         NEW t \in AllTasks,
         \A x : x # t /\ IsSleeping(kernel', x) =>
           IsSleeping(kernel, x) /\ Left(kernel', x) = Left(kernel, x),
         \/ kernel'.pxCurrentTCB = kernel.pxCurrentTCB
         \/ /\ ~(kernel.uxSchedulerSuspended > 0)
            /\ kernel'.uxSchedulerSuspended = kernel.uxSchedulerSuspended
            /\ ~IsSleeping(kernel', kernel'.pxCurrentTCB),
         \/ kernel'.uxSchedulerSuspended = kernel.uxSchedulerSuspended
         \/ t = kernel.pxCurrentTCB /\ thread[t].at \notin Insides,
         NEW th, thread' = [thread EXCEPT ![t] = th],
         InPlace(t, th, kernel'), Fine(t, th, kernel')
  PROVE  OnTime'
<1>1. thread'[t] = th /\ \A x \in AllTasks : x # t => thread'[x] = thread[x]
  BY DEF ThreadsInv
<1>2. ASSUME NEW x \in AllTasks, x # t
      PROVE  InPlace(x, thread'[x], kernel') /\ Fine(x, thread'[x], kernel')
  <2>1. thread'[x] = thread[x] /\ InPlace(x, thread[x], kernel) /\ Fine(x, thread[x], kernel)
    BY <1>1, <1>2 DEF OnTime
  <2>2. InPlace(x, thread[x], kernel')
    <3>1. ASSUME thread[x].at \in Insides
          PROVE  x = kernel'.pxCurrentTCB /\ kernel'.uxSchedulerSuspended = 1
      <4>1. x = kernel.pxCurrentTCB /\ kernel.uxSchedulerSuspended = 1
        BY <2>1, <3>1 DEF InPlace
      <4> QED BY <1>2, <4>1
    <3>2. ASSUME x = kernel'.pxCurrentTCB, kernel'.uxSchedulerSuspended > 0
          PROVE  thread[x].at \in Insides \cup {"user"}
      <4>1. x = kernel.pxCurrentTCB /\ kernel.uxSchedulerSuspended > 0
        BY <1>2, <3>2
      <4> QED BY <2>1, <4>1 DEF InPlace
    <3>3. ASSUME x = kernel'.pxCurrentTCB, IsSleeping(kernel', x) PROVE Settled(thread[x])
      <4>1. x = kernel.pxCurrentTCB /\ IsSleeping(kernel, x)
        BY <1>2, <3>3
      <4> QED BY <2>1, <4>1 DEF InPlace
    <3> QED BY <3>1, <3>2, <3>3 DEF InPlace
  <2>3. Slept(x, thread[x], kernel')
    BY <1>2, <2>1 DEF Fine, Slept
  <2>4. Counted(thread[x], kernel')
    BY <2>1 DEF Fine, Counted
  <2> QED BY <2>1, <2>2, <2>3, <2>4 DEF Fine
<1> QED BY <1>1, <1>2 DEF OnTime

\* in a step that leaves the time alone
LEMMA CalmStep ==
  ASSUME OnTime, ThreadsInv, Good(kernel), Calm(kernel, kernel'), NEW t \in AllTasks,
         NEW th, thread' = [thread EXCEPT ![t] = th], Fine(t, th, kernel),
         th.at \in Insides => t = kernel.pxCurrentTCB /\ kernel.uxSchedulerSuspended = 1,
         t = kernel.pxCurrentTCB /\ kernel.uxSchedulerSuspended > 0 => th.at \in Insides \cup {"user"},
         \/ Settled(th) \/ t # kernel.pxCurrentTCB \/ ~IsSleeping(kernel, t)
         \/ ~IsSleeping(kernel', kernel'.pxCurrentTCB)
  PROVE  OnTime'
<1>1. Passes(kernel, kernel', 0)
  BY CalmPasses DEF OnTime
<1>2. SameTime(kernel, kernel')
  BY <1>1, NoTime
<1>3. Timely(kernel') /\ kernel'.uxSchedulerSuspended = kernel.uxSchedulerSuspended
  BY <1>1 DEF Passes, Calm
<1>4. \/ kernel'.pxCurrentTCB = kernel.pxCurrentTCB
      \/ ~(kernel.uxSchedulerSuspended > 0) /\ ~IsSleeping(kernel', kernel'.pxCurrentTCB)
  BY DEF Calm
<1>5. Fine(t, th, kernel')
  BY <1>2, FineStays
<1>6. InPlace(t, th, kernel')
  <2>1. th.at \in Insides => t = kernel'.pxCurrentTCB /\ kernel'.uxSchedulerSuspended = 1
    BY <1>3, <1>4
  <2>2. t = kernel'.pxCurrentTCB /\ kernel'.uxSchedulerSuspended > 0 => th.at \in Insides \cup {"user"}
    BY <1>3, <1>4
  <2>3. t = kernel'.pxCurrentTCB /\ IsSleeping(kernel', t) => Settled(th)
    BY <1>2, <1>4 DEF SameTime
  <2> QED BY <2>1, <2>2, <2>3 DEF InPlace
<1>7. kernel'.uxSchedulerSuspended \in Nat
  BY <1>3 DEF OnTime
<1> QED BY <1>2, <1>3, <1>4, <1>5, <1>6, <1>7, GoesOn DEF SameTime

\* where the threads stay
LEMMA CalmStays ==
  ASSUME OnTime, ThreadsInv, Good(kernel), Calm(kernel, kernel'), UNCHANGED thread PROVE OnTime'
<1> DEFINE t == kernel.pxCurrentTCB
<1>1. t \in AllTasks
  BY GoodTypes
<1>2. InPlace(t, thread[t], kernel) /\ Fine(t, thread[t], kernel)
  BY <1>1 DEF OnTime
<1>3. thread' = [thread EXCEPT ![t] = thread[t]]
  <2>1. thread = [x \in AllTasks |-> thread[x]]
    BY DEF ThreadsInv
  <2> HIDE DEF t
  <2> QED BY <1>1, <2>1
<1> HIDE DEF t
<1>4. t = kernel.pxCurrentTCB
  BY DEF t
<1> QED BY <1>1, <1>2, <1>3, <1>4, CalmStep DEF InPlace

\* the running task suspends the scheduler, in its own code or in a call
LEMMA SuspendStep ==
  ASSUME OnTime, ThreadsInv, Good(kernel), NEW t \in AllTasks, t = kernel.pxCurrentTCB,
         kernel' = vTaskSuspendAll(kernel),
         thread[t].at \notin Insides, ~Settled(thread[t]),
         NEW th, thread' = [thread EXCEPT ![t] = th], Fine(t, th, kernel),
         th.at \in Insides \cup {"user"},
         th.at \in Insides => kernel.uxSchedulerSuspended = 0
  PROVE  OnTime'
<1>1. Same(kernel, kernel', {"uxSchedulerSuspended"}) /\ Good(kernel')
  BY SuspendAllGood DEF vTaskSuspendAll
<1>2. kernel'.uxSchedulerSuspended = kernel.uxSchedulerSuspended + 1
  BY GoodTypes DEF IsState, Fields, vTaskSuspendAll
<1>3. Passes(kernel, kernel', 0) /\ kernel'.pxCurrentTCB = kernel.pxCurrentTCB
  BY <1>1, SuspensionPasses DEF OnTime, Same, Fields, Timing
<1>4. SameTime(kernel, kernel') /\ Timely(kernel')
  BY <1>3, NoTime DEF Passes
<1>5. Fine(t, th, kernel')
  BY <1>4, FineStays
<1>6. ~IsSleeping(kernel, t)
  BY DEF OnTime, InPlace
<1>7. kernel'.uxSchedulerSuspended \in Nat /\ (kernel.uxSchedulerSuspended = 0 => kernel'.uxSchedulerSuspended = 1)
  BY <1>2 DEF OnTime
<1>8. InPlace(t, th, kernel')
  BY <1>3, <1>4, <1>6, <1>7 DEF InPlace, SameTime
<1> QED BY <1>3, <1>4, <1>5, <1>7, <1>8, GoesOn DEF SameTime

\* the running task goes to sleep, and another one may run
LEMMA SleepStep ==
  ASSUME OnTime, ThreadsInv, Good(kernel), NEW t \in AllTasks, t = kernel.pxCurrentTCB,
         NEW k1, Good(k1), NEW ticks, Sleeps(kernel, k1, t, ticks), Calm(k1, kernel'),
         NEW th, thread' = [thread EXCEPT ![t] = th], CallOK(th), Counted(th, kernel),
         th.timed /\ th.due > -MaxLate => th.due = ticks,
         th.at \in Insides => kernel.uxSchedulerSuspended = 1,
         kernel.uxSchedulerSuspended > 0 => th.at \in Insides,
         Settled(th) \/ ~IsSleeping(kernel', kernel'.pxCurrentTCB)
  PROVE  OnTime'
<1>1. Timely(k1)
  BY DEF Sleeps
<1>2. Passes(k1, kernel', 0)
  BY <1>1, CalmPasses
<1>3. SameTime(k1, kernel')
  BY <1>2, NoTime
<1>4. /\ k1.xTickCount = kernel.xTickCount /\ k1.xNumOfOverflows = kernel.xNumOfOverflows
      /\ k1.uxSchedulerSuspended = kernel.uxSchedulerSuspended
      /\ k1.pxCurrentTCB = kernel.pxCurrentTCB
  BY DEF Sleeps
<1>5. /\ Timely(kernel') /\ kernel'.xTickCount = kernel.xTickCount
      /\ kernel'.xNumOfOverflows = kernel.xNumOfOverflows
      /\ kernel'.uxSchedulerSuspended = kernel.uxSchedulerSuspended
  BY <1>2, <1>3, <1>4 DEF Passes, SameTime, Calm
<1>6. \/ kernel'.pxCurrentTCB = kernel.pxCurrentTCB
      \/ ~(kernel.uxSchedulerSuspended > 0) /\ ~IsSleeping(kernel', kernel'.pxCurrentTCB)
  BY <1>4 DEF Calm
<1>7. \A x : x # t /\ IsSleeping(kernel', x) =>
        IsSleeping(kernel, x) /\ Left(kernel', x) = Left(kernel, x)
  BY <1>3 DEF SameTime, Sleeps
<1>8. IsSleeping(kernel', t) => Left(kernel', t) = ticks
  BY <1>3 DEF SameTime, Sleeps
<1>9. Fine(t, th, kernel')
  <2>1. Counted(th, kernel')
    BY <1>5 DEF Counted
  <2>2. Slept(t, th, kernel')
    BY <1>8 DEF Slept
  <2> QED BY <2>1, <2>2 DEF Fine
<1>10. InPlace(t, th, kernel')
  BY <1>5, <1>6 DEF InPlace
<1>11. kernel'.uxSchedulerSuspended \in Nat
  BY <1>5 DEF OnTime
<1> QED BY <1>5, <1>6, <1>7, <1>9, <1>10, <1>11, GoesOn

\* Every timed wait has lasted longer by the ticks that passed.
LEMMA AgedFine ==
  ASSUME MaxLate \in 0 .. 2, Good(kernel), NEW k1, NEW n \in Nat, n < TickRange,
         Passes(kernel, k1, n), NEW t \in AllTasks, ThreadOK(thread[t]),
         Fine(t, thread[t], kernel), n = 0 \/ thread[t].at \notin {"poll", "inherit", "place"}
  PROVE  LET a == Aged(kernel, k1)[t]
         IN  /\ Fine(t, a, k1) /\ DOMAIN a = DOMAIN thread[t]
             /\ \A f \in {"at", "call", "next", "yields", "timed", "since", "overflows"} :
                  a[f] = thread[t][f]
<1> DEFINE th == thread[t]
           passed == (k1.xTickCount - kernel.xTickCount) % TickRange
           late == -MaxLate
           d1 == IF th.due - n > late THEN th.due - n ELSE late
           a == Aged(kernel, k1)[t]
<1>1. /\ kernel.xTickCount \in 0 .. TickRange - 1 /\ TickRange \in Nat \ {0, 1}
      /\ TickRange \in Nat \ {0} /\ n \in 0 .. TickRange - 1 /\ late \in Int
  BY CountTypes
<1>2. /\ k1.xTickCount = (kernel.xTickCount + n) % TickRange
      /\ k1.xNumOfOverflows = IF kernel.xTickCount + n < TickRange THEN kernel.xNumOfOverflows
                              ELSE (kernel.xNumOfOverflows + 1) % OverflowRange
      /\ \A x : IsSleeping(k1, x) => IsSleeping(kernel, x) /\ Left(k1, x) = Left(kernel, x) - n
  BY DEF Passes
<1>3. k1.xTickCount \in 0 .. TickRange - 1
  BY <1>1, <1>2
<1>4. passed = n
  <2>1. /\ TickRange \in Nat \ {0} /\ kernel.xTickCount \in 0 .. TickRange - 1
        /\ n \in 0 .. TickRange - 1 /\ k1.xTickCount \in 0 .. TickRange - 1
        /\ k1.xTickCount = (kernel.xTickCount + n) % TickRange
    BY <1>1, <1>2, <1>3
  <2> HIDE DEF th, d1, a, late
  <2> QED BY <2>1, SpanIs
<1>5. CallOK(th) /\ Counted(th, kernel) /\ Slept(t, th, kernel) /\ th.due \in Int
  BY DEF Fine, CallOK
<1>6. Max({th.due - n, late}) = d1
  <2>1. th.due - n \in Int
    BY <1>5
  <2> HIDE DEF th, late
  <2> QED BY <1>1, <2>1, MaxTwo
<1>7. a = IF th.timed THEN [th EXCEPT !.due = d1] ELSE th
  <2>1. a = IF th.timed THEN [th EXCEPT !.due = Max({@ - passed, late})] ELSE th
    BY DEF Aged
  <2> HIDE DEF passed, a, d1, late, th
  <2>2. [th EXCEPT !.due = Max({@ - passed, late})] = [th EXCEPT !.due = d1]
    BY <1>4, <1>6
  <2> QED BY <2>1, <2>2
<1> HIDE DEF a, d1, late, passed
<1>8. CASE ~th.timed
  <2>1. a = th
    BY <1>7, <1>8
  <2> QED BY <1>5, <1>8, <2>1 DEF Fine, Counted, Slept, a
<1>9. CASE th.timed
  <2>1. /\ DOMAIN a = DOMAIN th /\ a.due = d1
        /\ \A f \in {"at", "call", "next", "yields", "timed", "since", "overflows"} : a[f] = th[f]
    <3>1. a = [th EXCEPT !.due = d1]
      BY <1>7, <1>9
    <3> HIDE DEF th
    <3>2. DOMAIN th = {"at", "call", "next", "yields", "timed", "since", "overflows", "due",
                       "inherited"}
      BY DEF ThreadOK, th
    <3> QED BY <3>1, <3>2
  <2>2. d1 \in Int /\ (d1 > late => d1 = th.due - n /\ th.due > late)
    <3> HIDE DEF th
    <3> QED BY <1>1, <1>5 DEF d1
  <2>3. n = 0 \/ th.at \notin {"poll", "inherit", "place"}
    OBVIOUS
  <2>4. CallOK(a)
    <3>1. /\ a.at = th.at /\ a.next = th.next /\ a.call = th.call /\ a.yields = th.yields
          /\ a.since = th.since /\ a.overflows = th.overflows
      BY <2>1
    <3>2. a.at \in {"poll", "inherit", "place"} /\ a.timed /\ a.due > -MaxLate => a.call.wait = a.due
      <4> HIDE DEF th
      <4> QED BY <1>5, <1>9, <2>1, <2>2, <2>3, <3>1 DEF CallOK, late
    <3> HIDE DEF th
    <3> QED BY <1>5, <1>9, <2>1, <2>2, <3>1, <3>2 DEF CallOK
  <2>5. Slept(t, a, k1)
    <3> SUFFICES ASSUME IsSleeping(k1, t), a.due > -MaxLate PROVE a.due = Left(k1, t)
      BY DEF Slept
    <3>1. d1 = th.due - n /\ th.due > -MaxLate
      BY <2>1, <2>2 DEF late
    <3>2. th.due = Left(kernel, t) /\ Left(k1, t) = Left(kernel, t) - n
      BY <1>2, <1>5, <1>9, <3>1 DEF Slept
    <3> QED BY <2>1, <3>1, <3>2
  <2>6. Counted(a, k1)
    <3> DEFINE e == th.call.wait - th.due
               e1 == a.call.wait - a.due
    <3> SUFFICES ASSUME a.call.op \in QueueOps, a.due > -MaxLate, a.call.wait > 0
                 PROVE  /\ e1 \in Ticks
                        /\ k1.xTickCount = (a.since + e1) % TickRange
                        /\ k1.xNumOfOverflows = IF a.since + e1 < TickRange THEN a.overflows
                                                ELSE (a.overflows + 1) % OverflowRange
      BY DEF Counted
    <3>1. d1 = th.due - n /\ th.due > -MaxLate /\ d1 > -MaxLate
      BY <2>1, <2>2 DEF late
    <3>2. a.call = th.call /\ a.since = th.since /\ a.overflows = th.overflows /\ a.due = d1
      BY <2>1
    <3>3. /\ e \in Ticks
          /\ kernel.xTickCount = (th.since + e) % TickRange
          /\ kernel.xNumOfOverflows = IF th.since + e < TickRange THEN th.overflows
                                      ELSE (th.overflows + 1) % OverflowRange
      BY <1>5, <1>9, <3>1, <3>2 DEF Counted
    <3>4. th.since \in Ticks /\ th.call.wait < portMAX_DELAY /\ th.call.wait \in Ticks
      <4>1. th.since \in Ticks /\ th.call.wait < portMAX_DELAY
        BY <1>5, <1>9, <3>2 DEF CallOK
      <4>2. th.call.wait \in Ticks
        BY DEF ThreadOK, Allowed
      <4> QED BY <4>1, <4>2
    <3>5. e1 = e + n
      <4>1. e1 = th.call.wait - (th.due - n) /\ th.call.wait \in Int
        <5>1. th.call.wait \in Int
          BY <1>1, <3>4 DEF Ticks
        <5> QED BY <3>1, <3>2, <5>1
      <4> HIDE DEF th, e1
      <4> QED BY <1>1, <1>5, <4>1
    <3>6. e + n \in 0 .. TickRange - 1
      <4>1. e + n = th.call.wait - d1 /\ th.call.wait \in 0 .. TickRange - 1
        <5>1. th.call.wait \in 0 .. TickRange - 1
          BY <3>4 DEF Ticks
        <5> HIDE DEF th
        <5> QED BY <1>1, <1>5, <3>1, <5>1
      <4>2. th.call.wait < TickRange - 1
        BY <3>4 DEF portMAX_DELAY
      <4>3. e \in 0 .. TickRange - 1
        BY <3>3 DEF Ticks
      <4> HIDE DEF th, e
      <4> QED BY <1>1, <2>2, <3>1, <4>1, <4>2, <4>3
    <3> HIDE DEF e, e1, th
    <3>7. e \in 0 .. TickRange - 1 /\ th.since \in 0 .. TickRange - 1
      BY <3>3, <3>4 DEF Ticks
    <3>8. /\ (kernel.xTickCount + n) % TickRange = (th.since + (e + n)) % TickRange
          /\ IF th.since + e < TickRange
             THEN kernel.xTickCount + n < TickRange <=> th.since + (e + n) < TickRange
             ELSE kernel.xTickCount + n < TickRange /\ ~(th.since + (e + n) < TickRange)
      BY <1>1, <3>3, <3>6, <3>7, TwoSpans
    <3>9. k1.xTickCount = (th.since + (e + n)) % TickRange
      BY <1>2, <3>8
    <3>10. k1.xNumOfOverflows = IF th.since + (e + n) < TickRange THEN th.overflows
                                ELSE (th.overflows + 1) % OverflowRange
      BY <1>2, <3>3, <3>8
    <3> QED BY <3>2, <3>5, <3>6, <3>9, <3>10 DEF Ticks
  <2> QED BY <2>1, <2>4, <2>5, <2>6 DEF Fine, a
<1> QED BY <1>8, <1>9

LEMMA TickOnTime ==
  ASSUME MaxLate \in 0 .. 2, OnTime, ThreadsInv, Good(kernel), Tick PROVE OnTime'
<1> DEFINE k1 == xTaskIncrementTick(kernel)
           a  == Aged(kernel, k1)
<1>1. thread' = a /\ \E b : kernel' = YieldIf(b, k1)
  BY DEF Tick
<1>2. Ticked(kernel, k1) /\ Good(k1) /\ k1.uxSchedulerSuspended = kernel.uxSchedulerSuspended
  BY IncrementTickIs DEF Ticked
<1>3. kernel.uxSchedulerSuspended > 0 => Calm(kernel, k1)
  BY TickCalm
<1>4. PICK n \in {0, 1} :
        Passes(kernel, k1, n) /\ (n = 0 \/ ~(kernel.uxSchedulerSuspended > 0))
  BY <1>3, CalmPasses, TickPasses DEF OnTime
<1> HIDE DEF k1
<1>5. n \in Nat /\ n < TickRange
  BY CountTypes
<1>6. Calm(k1, kernel') /\ Timely(k1)
  BY <1>1, <1>2, <1>4, YieldIfCalm DEF Passes
<1>7. Passes(k1, kernel', 0) /\ SameTime(k1, kernel')
  BY <1>2, <1>6, CalmPasses, NoTime
<1>8. /\ Timely(kernel') /\ kernel'.uxSchedulerSuspended = kernel.uxSchedulerSuspended
      /\ kernel'.uxSchedulerSuspended \in Nat
  BY <1>2, <1>6, <1>7 DEF Passes, Calm, OnTime
<1>9. kernel.uxSchedulerSuspended > 0 => kernel'.pxCurrentTCB = kernel.pxCurrentTCB
  BY <1>2, <1>3, <1>6 DEF Calm
<1>10. kernel'.pxCurrentTCB = kernel.pxCurrentTCB \/ ~IsSleeping(kernel', kernel'.pxCurrentTCB)
  BY <1>4, <1>6, <1>7 DEF Passes, Calm, SameTime
<1>11. ASSUME NEW x \in AllTasks
       PROVE  InPlace(x, thread'[x], kernel') /\ Fine(x, thread'[x], kernel')
  <2>1. InPlace(x, thread[x], kernel) /\ Fine(x, thread[x], kernel) /\ ThreadOK(thread[x])
    BY DEF OnTime, ThreadsInv
  <2>2. n = 0 \/ thread[x].at \notin {"poll", "inherit", "place"}
    BY <1>4, <2>1 DEF InPlace, Insides
  <2>3. /\ Fine(x, a[x], k1)
        /\ \A f \in {"at", "call", "next", "yields", "timed", "since", "overflows"} :
             a[x][f] = thread[x][f]
    BY <1>4, <1>5, <2>1, <2>2, AgedFine
  <2> HIDE DEF a
  <2>4. Fine(x, thread'[x], kernel')
    BY <1>1, <1>7, <2>3, FineStays
  <2>5. thread'[x].at = thread[x].at /\ thread'[x].yields = thread[x].yields
    BY <1>1, <2>3
  <2>6. InPlace(x, thread'[x], kernel')
    <3>1. thread[x].at \in Insides => x = kernel'.pxCurrentTCB /\ kernel'.uxSchedulerSuspended = 1
      BY <1>8, <1>9, <2>1 DEF InPlace
    <3>2. x = kernel'.pxCurrentTCB /\ kernel'.uxSchedulerSuspended > 0 =>
            thread[x].at \in Insides \cup {"user"}
      BY <1>8, <1>9, <2>1 DEF InPlace
    <3>3. x = kernel'.pxCurrentTCB /\ IsSleeping(kernel', x) => Settled(thread[x])
      <4>1. IsSleeping(kernel', x) => IsSleeping(kernel, x)
        BY <1>4, <1>7 DEF SameTime, Passes
      <4> QED BY <1>10, <2>1, <4>1 DEF InPlace
    <3> QED BY <2>5, <3>1, <3>2, <3>3 DEF InPlace, Settled
  <2> QED BY <2>4, <2>6
<1> QED BY <1>8, <1>11 DEF OnTime

LEMMA ContinuedFine ==
  ASSUME NEW t, NEW th, DOMAIN th = {"at", "call", "next", "yields", "timed", "since", "overflows",
                                     "due", "inherited"},
         NEW k, Fine(t, th, k), NEW k1
  PROVE  /\ Fine(t, Continued(th), k) /\ Continued(th).at \notin Insides
         /\ Fine(t, [th EXCEPT !.at = "yield"], k)
<1>1. CASE th.next = "user"
  <2>1. Continued(th) = UserThread
    BY <1>1 DEF Continued
  <2> QED BY <2>1, UserFine DEF UserThread, Insides, Fine, CallOK, Counted, Slept
<1>2. CASE th.next # "user"
  <2>1. Continued(th) = [th EXCEPT !.at = th.next]
    BY <1>2 DEF Continued
  <2>2. th.next \in {"return", "attempt", "recheck"}
    BY <1>2 DEF Fine, CallOK
  <2> QED BY <2>1, <2>2 DEF Insides, Fine, CallOK, Counted, Slept
<1> QED BY <1>1, <1>2

LEMMA ResumeOnTime ==
  ASSUME MaxLate \in 0 .. 2, MaxPended < TickRange, MaxPended \in Nat, kernel.xPendedTicks <= MaxPended,
         OnTime, ThreadsInv, Good(kernel), NEW t \in AllTasks, ResumeScheduler(t)
  PROVE  OnTime'
<1> DEFINE k1      == xTaskResumeAll(kernel)
           a       == Aged(kernel, k1)
           yielded == AlreadyYielded(k1)
           th      == IF a[t].yields /\ ~yielded THEN [a[t] EXCEPT !.at = "yield"] ELSE Continued(a[t])
<1>1. /\ kernel' = YieldIf(yielded, k1) /\ thread' = [a EXCEPT ![t] = th]
      /\ t = kernel.pxCurrentTCB
      /\ \/ thread[t].at = "resume"
         \/ thread[t].at = "user" /\ kernel.uxSchedulerSuspended > 0
  BY DEF ResumeScheduler, At, Running, CallsOf
<1>2. Good(k1) /\ k1.uxSchedulerSuspended = kernel.uxSchedulerSuspended - 1
  BY ResumeAllIs
<1>3. InPlace(t, thread[t], kernel) /\ kernel.uxSchedulerSuspended \in Nat
      /\ kernel.uxSchedulerSuspended > 0
  <2>1. InPlace(t, thread[t], kernel) /\ kernel.uxSchedulerSuspended \in Nat
    BY DEF OnTime
  <2>2. thread[t].at = "resume" => kernel.uxSchedulerSuspended = 1
    BY <2>1 DEF InPlace, Insides
  <2> QED BY <1>1, <2>1, <2>2
<1>4. k1.uxSchedulerSuspended \in Nat
  BY <1>2, <1>3
<1>5. PICK n \in Nat : /\ n < TickRange /\ Passes(kernel, k1, n)
                       /\ k1.uxSchedulerSuspended > 0 => n = 0 /\ k1.pxCurrentTCB = kernel.pxCurrentTCB
  <2>1. kernel.xPendedTicks \in Nat /\ TickRange \in Nat \ {0, 1}
    BY TypesOf, CountTypes DEF Types
  <2>2. kernel.xPendedTicks < TickRange
    BY <2>1
  <2>3. IF k1.uxSchedulerSuspended > 0
        THEN Passes(kernel, k1, 0) /\ k1.pxCurrentTCB = kernel.pxCurrentTCB
        ELSE Passes(kernel, k1, kernel.xPendedTicks)
    BY <2>2, ResumeAllPasses DEF OnTime
  <2> HIDE DEF k1
  <2>4. CASE k1.uxSchedulerSuspended > 0
    BY <2>1, <2>3, <2>4
  <2>5. CASE ~(k1.uxSchedulerSuspended > 0)
    BY <2>1, <2>2, <2>3, <2>5
  <2> QED BY <2>4, <2>5
<1> HIDE DEF k1
<1>6. Calm(k1, kernel') /\ (yielded => ~IsSleeping(kernel', kernel'.pxCurrentTCB))
  <2>1. Calm(k1, kernel')
    BY <1>1, <1>2, YieldIfCalm
  <2>2. yielded => kernel' = vTaskSwitchContext(k1) /\ ~(k1.uxSchedulerSuspended > 0)
    BY <1>1 DEF YieldIf, AlreadyYielded
  <2> HIDE DEF yielded
  <2> QED BY <1>2, <2>1, <2>2, SwitchCalm
<1>7. Timely(k1) /\ Passes(k1, kernel', 0) /\ SameTime(k1, kernel')
  BY <1>2, <1>5, <1>6, CalmPasses, NoTime DEF Passes
<1>8. /\ Timely(kernel') /\ kernel'.uxSchedulerSuspended = k1.uxSchedulerSuspended
      /\ kernel'.uxSchedulerSuspended \in Nat
  BY <1>4, <1>6, <1>7 DEF Passes, Calm
<1>9. kernel'.pxCurrentTCB = kernel.pxCurrentTCB \/ ~IsSleeping(kernel', kernel'.pxCurrentTCB)
  BY <1>5, <1>6, <1>7 DEF Passes, Calm, SameTime
<1>10. \A x : IsSleeping(kernel', x) => IsSleeping(kernel, x)
  BY <1>5, <1>7 DEF Passes, SameTime
<1>11. ASSUME NEW x \in AllTasks
       PROVE  /\ Fine(x, a[x], kernel') /\ DOMAIN a[x] = DOMAIN thread[x]
              /\ a[x].at = thread[x].at /\ a[x].yields = thread[x].yields
              /\ a[x].next = thread[x].next
  <2>1. InPlace(x, thread[x], kernel) /\ Fine(x, thread[x], kernel) /\ ThreadOK(thread[x])
    BY DEF OnTime, ThreadsInv
  <2>2. thread[x].at \notin {"poll", "inherit", "place"}
    BY <1>1, <2>1 DEF InPlace, Insides
  <2>3. /\ Fine(x, a[x], k1) /\ DOMAIN a[x] = DOMAIN thread[x]
        /\ \A f \in {"at", "call", "next", "yields", "timed", "since", "overflows"} :
             a[x][f] = thread[x][f]
    BY <1>5, <2>1, <2>2, AgedFine
  <2> HIDE DEF a
  <2> QED BY <1>7, <2>3, FineStays
<1>12. /\ t \in AllTasks /\ thread'[t] = th /\ \A x \in AllTasks : x # t => thread'[x] = a[x]
  <2>1. a = [x \in AllTasks |-> a[x]]
    BY DEF Aged
  <2> HIDE DEF a
  <2>2. thread' = [a EXCEPT ![t] = th]
    BY <1>1
  <2> HIDE DEF th
  <2> QED BY <2>1, <2>2
<1>13. Fine(t, th, kernel') /\ th.at \notin Insides
  <2>1. DOMAIN a[t] = {"at", "call", "next", "yields", "timed", "since", "overflows",
                       "due", "inherited"} /\ Fine(t, a[t], kernel')
    BY <1>11 DEF ThreadsInv, ThreadOK
  <2> HIDE DEF a, yielded
  <2>2. /\ Fine(t, Continued(a[t]), kernel') /\ Continued(a[t]).at \notin Insides
        /\ Fine(t, [a[t] EXCEPT !.at = "yield"], kernel')
    BY <2>1, ContinuedFine
  <2>3. [a[t] EXCEPT !.at = "yield"].at = "yield"
    BY <2>1
  <2> QED BY <2>2, <2>3 DEF Insides
<1>14. InPlace(t, th, kernel')
  <2>1. a[t].at = thread[t].at /\ a[t].yields = thread[t].yields /\ a[t].next = thread[t].next
    BY <1>11
  <2>2. DOMAIN a[t] = {"at", "call", "next", "yields", "timed", "since", "overflows",
                       "due", "inherited"}
    BY <1>11 DEF ThreadsInv, ThreadOK
  <2> HIDE DEF a
  <2>3. ASSUME kernel'.uxSchedulerSuspended > 0 PROVE th.at = "user"
    <3>1. ~(kernel.uxSchedulerSuspended = 1)
      BY <1>2, <1>8, <2>3
    <3>2. thread[t].at = "user"
      BY <1>1, <1>3, <3>1 DEF InPlace, Insides
    <3>3. thread[t].next = "user" /\ thread[t].yields = FALSE
      BY <3>2 DEF OnTime, Fine, CallOK
    <3> QED BY <2>1, <3>3 DEF Continued, UserThread
  <2>4. ASSUME t = kernel'.pxCurrentTCB, IsSleeping(kernel', t) PROVE Settled(th)
    <3>1. ~yielded
      BY <1>6, <2>4
    <3>2. Settled(thread[t])
      BY <1>1, <1>3, <1>10, <2>4 DEF InPlace
    <3>3. a[t].yields = TRUE
      BY <1>1, <2>1, <3>2 DEF Settled
    <3> HIDE DEF yielded
    <3> QED BY <2>2, <3>1, <3>3 DEF Settled
  <2> QED BY <1>13, <2>3, <2>4 DEF InPlace
<1> HIDE DEF th, a
<1>15. ASSUME NEW x \in AllTasks, x # t PROVE InPlace(x, a[x], kernel')
  <2>1. InPlace(x, thread[x], kernel) /\ a[x].at = thread[x].at
    BY <1>11 DEF OnTime
  <2>2. thread[x].at \notin Insides
    BY <1>1, <1>15, <2>1 DEF InPlace
  <2>3. x = kernel'.pxCurrentTCB => ~(kernel'.uxSchedulerSuspended > 0)
    <3>1. ASSUME kernel'.uxSchedulerSuspended > 0 PROVE kernel'.pxCurrentTCB = t
      BY <1>1, <1>5, <1>6, <1>8, <3>1 DEF Calm
    <3> QED BY <1>15, <3>1
  <2>4. x = kernel'.pxCurrentTCB => ~IsSleeping(kernel', x)
    BY <1>1, <1>9, <1>15
  <2> QED BY <2>1, <2>2, <2>3, <2>4 DEF InPlace
<1> QED BY <1>8, <1>11, <1>12, <1>13, <1>14, <1>15 DEF OnTime

\* other steps of the kernel that leave the time alone
LEMMA NotificationSame ==
  ASSUME NEW k, Good(k), NEW k0, Good(k0), Same(k, k0, {"ulNotifiedValue", "ucNotifyState"}),
         NEW t, NEW value, NEW status
  PROVE  LET ka == [k0 EXCEPT !.ulNotifiedValue[t] = value, !.ucNotifyState[t] = status]
             kb == [k0 EXCEPT !.ulNotifiedValue[t] = value]
             kc == [k0 EXCEPT !.ucNotifyState[t] = status]
         IN  /\ Good(ka) /\ Same(k, ka, {"ulNotifiedValue", "ucNotifyState"})
             /\ Good(kb) /\ Same(k, kb, {"ulNotifiedValue", "ucNotifyState"})
             /\ Good(kc) /\ Same(k, kc, {"ulNotifiedValue", "ucNotifyState"})
<1> DEFINE ka == [k0 EXCEPT !.ulNotifiedValue[t] = value, !.ucNotifyState[t] = status]
           kb == [k0 EXCEPT !.ulNotifiedValue[t] = value]
           kc == [k0 EXCEPT !.ucNotifyState[t] = status]
<1>1. Moves(k0, ka) /\ Moves(k0, kb) /\ Moves(k0, kc)
  BY SetNotification
<1>2. IsState(k0)
  BY GoodTypes
<1>3. /\ Same(k0, ka, {"ulNotifiedValue", "ucNotifyState"})
      /\ Same(k0, kb, {"ulNotifiedValue", "ucNotifyState"})
      /\ Same(k0, kc, {"ulNotifiedValue", "ucNotifyState"})
  BY <1>2 DEF IsState, Same, Fields
<1> HIDE DEF ka, kb, kc
<1>4. /\ Same(k, ka, {"ulNotifiedValue", "ucNotifyState"})
      /\ Same(k, kb, {"ulNotifiedValue", "ucNotifyState"})
      /\ Same(k, kc, {"ulNotifiedValue", "ucNotifyState"})
  BY <1>3 DEF Same
<1>5. Good(ka) /\ Good(kb) /\ Good(kc)
  BY <1>1 DEF Moves
<1> QED BY <1>4, <1>5 DEF ka, kb, kc

LEMMA NotTiming ==
  /\ {"ulNotifiedValue", "ucNotifyState"} \cap Timing = {} /\ {"uxMutexesHeld"} \cap Timing = {}
  /\ {"xEventLists"} \cap Timing = {}
  BY DEF Timing

LEMMA NotificationCalm ==
  ASSUME NEW k, Good(k), NEW t, NEW value, NEW status
  PROVE  LET k1 == [k EXCEPT !.ulNotifiedValue[t] = value, !.ucNotifyState[t] = status]
         IN  Good(k1) /\ Calm(k, k1)
<1> DEFINE k1 == [k EXCEPT !.ulNotifiedValue[t] = value, !.ucNotifyState[t] = status]
<1>1. Same(k, k, {"ulNotifiedValue", "ucNotifyState"})
  BY GoodTypes DEF Same
<1>3. Good(k1) /\ Same(k, k1, {"ulNotifiedValue", "ucNotifyState"})
  BY <1>1, NotificationSame
<1> HIDE DEF k1
<1>4. Calm(k, k1)
  BY <1>3, NotTiming, SameCalm
<1> QED BY <1>3, <1>4 DEF k1

LEMMA NotifiedCalm ==
  ASSUME NEW k, Good(k), NEW t, NEW action, NEW value
  PROVE  Good(Notified(k, t, action, value)) /\ Calm(k, Notified(k, t, action, value))
<1>1. PICK new : Notified(k, t, action, value) =
                   [k EXCEPT !.ulNotifiedValue[t] = new, !.ucNotifyState[t] = "Received"]
  BY DEF Notified
<1> DEFINE k1 == [k EXCEPT !.ulNotifiedValue[t] = new, !.ucNotifyState[t] = "Received"]
<1>2. Good(k1) /\ Calm(k, k1)
  BY NotificationCalm
<1> QED BY <1>1, <1>2

LEMMA HeldCalm ==
  ASSUME NEW k, Good(k), NEW t \in Tasks
  PROVE  LET k1 == [k EXCEPT !.uxMutexesHeld[t] = @ + 1] IN Good(k1) /\ Calm(k, k1)
<1> DEFINE k1 == [k EXCEPT !.uxMutexesHeld[t] = @ + 1]
<1>1. Good(k1) /\ Same(k, k1, {"uxMutexesHeld"})
  BY HeldGood
<1> HIDE DEF k1
<1>3. Calm(k, k1)
  BY <1>1, NotTiming, SameCalm
<1> QED BY <1>1, <1>3 DEF k1

LEMMA WakeFirstCalm ==
  ASSUME NEW k, Good(k), NEW e \in EventLists PROVE Calm(k, WakeFirst(k, e))
  BY CalmNot, RemoveFromEventListCalm DEF WakeFirst

LEMMA WakeAndYieldCalm ==
  ASSUME NEW k, Good(k), NEW e \in EventLists, NEW condition
  PROVE  Calm(k, YieldIf(condition, WakeFirst(k, e)))
<1> DEFINE k1 == WakeFirst(k, e)
<1>1. Good(k1) /\ Calm(k, k1)
  BY WakeFirstMoves, WakeFirstCalm DEF Moves
<1> HIDE DEF k1
<1>2. Calm(k1, YieldIf(condition, k1))
  BY <1>1, YieldIfCalm
<1>3. Calm(k, YieldIf(condition, k1))
  BY <1>1, <1>2, CalmTwice
<1> QED BY <1>3 DEF k1

LEMMA WakeLockedCalm ==
  ASSUME NEW k, Good(k), NEW e \in EventLists, NEW done \in Int
  PROVE  Calm(k, WakeLocked(k, e, done))
<1>0. CASE ~(done > 0)
  BY <1>0, CalmNot DEF WakeLocked
<1>1. CASE done > 0
  <2> DEFINE args == [n \in 1 .. done |-> e]
             all == WakeLocked(k, e, done)
  <2>0. done \in Nat
    BY <1>1
  <2>1. PICK r : Changes("woken", k, args, done, r) /\ all = r[done]
    BY <1>1, <2>0, WokenInTurn
  <2>2. \A n \in 1 .. done : args[n] = e
    OBVIOUS
  <2> HIDE DEF all, args
  <2> DEFINE P == {n \in Nat : Good(r[n]) /\ Calm(k, r[n])}
  <2>3. 0 \in P
    BY <2>1, CalmNot DEF Changes
  <2>4. ASSUME NEW n \in 0 .. done - 1, n \in P PROVE n + 1 \in P
    <3>1. n + 1 \in 1 .. done /\ (n + 1) - 1 = n /\ n + 1 \in Nat
      BY <2>0
    <3>2. r[n + 1] = WakeFirst(r[n], e)
      BY <2>1, <2>2, <3>1 DEF Changes, Change, WakeFirst
    <3>3. Calm(k, r[n]) /\ Good(r[n])
      BY <2>4
    <3>4. Calm(r[n], r[n + 1]) /\ Good(r[n + 1])
      BY <3>2, <3>3, WakeFirstCalm, WakeFirstMoves DEF Moves
    <3>5. Calm(k, r[n + 1])
      BY <3>3, <3>4, CalmTwice
    <3> QED BY <3>1, <3>4, <3>5
  <2> HIDE DEF P
  <2>5. \A n \in 0 .. done : n \in P
    BY <2>0, <2>3, <2>4, Induct
  <2>6. Calm(k, all)
    BY <2>0, <2>1, <2>5 DEF P
  <2> QED BY <2>6 DEF all
<1> QED BY <1>0, <1>1

LEMMA EndInterruptCalm ==
  ASSUME NEW k, Good(kernel), Good(k), Calm(kernel, k), NEW woken, EndInterrupt(woken, k)
  PROVE  Calm(kernel, kernel') /\ UNCHANGED thread
<1>1. \E b : kernel' = YieldIf(b, k)
  BY DEF EndInterrupt
<1>2. Calm(k, kernel')
  BY <1>1, YieldIfCalm
<1> QED BY <1>2, CalmTwice DEF EndInterrupt

\* A task sleeps in a state like k.
LEMMA SleepAfter ==
  ASSUME NEW k, NEW k0, \A f \in Timing : k0[f] = k[f], NEW k1, NEW t, NEW ticks,
         Sleeps(k0, k1, t, ticks)
  PROVE  Sleeps(k, k1, t, ticks)
<1>1. /\ k0.xTickCount = k.xTickCount /\ k0.xNumOfOverflows = k.xNumOfOverflows
      /\ k0.uxSchedulerSuspended = k.uxSchedulerSuspended /\ k0.pxCurrentTCB = k.pxCurrentTCB
      /\ k0.pxDelayedTaskList = k.pxDelayedTaskList
      /\ k0.pxOverflowDelayedTaskList = k.pxOverflowDelayedTaskList /\ k0.xWakeTime = k.xWakeTime
  BY DEF Timing
<1>2. \A x : (IsSleeping(k0, x) <=> IsSleeping(k, x)) /\ Left(k0, x) = Left(k, x)
  BY <1>1 DEF IsSleeping, Left
<1> QED BY <1>1, <1>2 DEF Sleeps

LEMMA TimelyLike ==
  ASSUME NEW k, Timely(k), NEW k0, \A f \in Timing : k0[f] = k[f] PROVE Timely(k0)
<1>1. /\ k0.xTickCount = k.xTickCount /\ k0.xNumOfOverflows = k.xNumOfOverflows
      /\ k0.pxDelayedTaskList = k.pxDelayedTaskList
      /\ k0.pxOverflowDelayedTaskList = k.pxOverflowDelayedTaskList /\ k0.xWakeTime = k.xWakeTime
      /\ k0.xNextTaskUnblockTime = k.xNextTaskUnblockTime
  BY DEF Timing
<1> QED BY <1>1 DEF Timely, InOrder

\* the running task, in a state that differs from k in other fields
LEMMA SleepLike ==
  ASSUME NEW k, Timely(k), k.pxCurrentTCB \in Tasks, NEW k0, Good(k0),
         NEW fs, Same(k, k0, fs), fs \cap Timing = {},
         NEW ticks \in 1 .. TickRange - 1, NEW forEver
  PROVE  LET k1 == prvAddCurrentTaskToDelayedList(k0, ticks, forEver)
         IN  Good(k1) /\ Sleeps(k, k1, k.pxCurrentTCB, ticks)
<1> DEFINE k1 == prvAddCurrentTaskToDelayedList(k0, ticks, forEver)
<1>1. \A f \in Timing : k0[f] = k[f]
  <2>1. Timing \subseteq Fields
    BY DEF Timing, Fields
  <2> QED BY <2>1 DEF Same
<1>2. Timely(k0) /\ k0.pxCurrentTCB = k.pxCurrentTCB
  BY <1>1, TimelyLike DEF Timing
<1>3. ticks \in Int
  BY Bounds
<1>4. Sleeps(k0, k1, k.pxCurrentTCB, ticks)
  BY <1>2, SleepIs
<1>5. Good(k1)
  BY <1>2, <1>3, SleepMoves DEF Moves
<1> HIDE DEF k1
<1>6. Sleeps(k, k1, k.pxCurrentTCB, ticks)
  BY <1>1, <1>4, SleepAfter
<1> QED BY <1>5, <1>6 DEF k1

LEMMA PlaceSame ==
  ASSUME NEW k, Good(k), k.pxCurrentTCB \in Tasks, NEW e \in EventLists
  PROVE  LET k1 == [k EXCEPT !.xEventLists[e] = vListInsert(@, k.pxCurrentTCB, k.xEventValue)]
         IN  Good(k1) /\ Same(k, k1, {"xEventLists"})
<1> DEFINE l  == vListInsert(k.xEventLists[e], k.pxCurrentTCB, k.xEventValue)
           k1 == [k EXCEPT !.xEventLists[e] = vListInsert(@, k.pxCurrentTCB, k.xEventValue)]
<1>1. Same(k, k1, {"xEventLists"}) /\ k1.xEventLists = [k.xEventLists EXCEPT ![e] = l]
  BY SMTT(30), GoodTypes DEF IsState, Same, Fields
<1>2. l \in Seq(Tasks)
  BY TypesOf, SeqInserted DEF Types
<1> HIDE DEF k1, l
<1>3. Types(k1)
  BY SMTT(30), <1>1, <1>2, TypesOf DEF Same, Fields, Types
<1>4. Good(k1)
  BY <1>1, <1>3, TypesGood DEF Same, Fields, Structure
<1> QED BY <1>1, <1>4 DEF k1

LEMMA PlaceSleeps ==
  ASSUME NEW k, Good(k), Timely(k), k.pxCurrentTCB \in Tasks, NEW e \in EventLists,
         NEW ticks \in 1 .. TickRange - 1
  PROVE  LET k1 == vTaskPlaceOnEventList(k, e, ticks)
         IN  Good(k1) /\ Sleeps(k, k1, k.pxCurrentTCB, ticks)
<1> DEFINE k0 == [k EXCEPT !.xEventLists[e] = vListInsert(@, k.pxCurrentTCB, k.xEventValue)]
           k1 == prvAddCurrentTaskToDelayedList(k0, ticks, TRUE)
<1>1. Good(k0) /\ Same(k, k0, {"xEventLists"})
  BY PlaceSame
<1>2. vTaskPlaceOnEventList(k, e, ticks) = k1
  BY DEF vTaskPlaceOnEventList
<1> HIDE DEF k0
<1>3. Good(k1) /\ Sleeps(k, k1, k.pxCurrentTCB, ticks)
  BY <1>1, NotTiming, SleepLike
<1> QED BY <1>2, <1>3

---------------------------------------------------------------------------
(* The times in each step of a task *)

\* who runs outside the calls that suspend the scheduler does not sleep
LEMMA OutsideStep ==
  ASSUME OnTime, ThreadsInv, Good(kernel), Calm(kernel, kernel'), NEW t \in AllTasks,
         t = kernel.pxCurrentTCB, thread[t].at \notin Insides, thread[t].at # "yield",
         NEW th, thread' = [thread EXCEPT ![t] = th], Fine(t, th, kernel), th.at \notin Insides,
         th.at = "user" \/ ~(kernel.uxSchedulerSuspended > 0)
  PROVE  OnTime'
<1>1. ~IsSleeping(kernel, t)
  BY DEF OnTime, InPlace, Settled, Insides
<1> QED BY <1>1, CalmStep

\* who runs in a call that suspended the scheduler goes on in it
LEMMA InsideStep ==
  ASSUME OnTime, ThreadsInv, Good(kernel), Calm(kernel, kernel'), NEW t \in AllTasks,
         t = kernel.pxCurrentTCB, thread[t].at \in Insides,
         NEW th, thread' = [thread EXCEPT ![t] = th], Fine(t, th, kernel), th.at \in Insides,
         Settled(thread[t]) => Settled(th)
  PROVE  OnTime'
<1>1. kernel.uxSchedulerSuspended = 1 /\ (IsSleeping(kernel, t) => Settled(th))
  BY DEF OnTime, InPlace
<1> QED BY <1>1, CalmStep

\* the wait is not touched
LEMMA FineLike ==
  ASSUME NEW t, NEW th, NEW k, Fine(t, th, k), NEW th1, CallOK(th1),
         \A f \in {"call", "timed", "since", "overflows", "due"} : th1[f] = th[f]
  PROVE  Fine(t, th1, k)
  BY DEF Fine, Counted, Slept

LEMMA CallingFine ==
  ASSUME NEW t, NEW c, NEW k, NEW where \in {"suspended", "yield", "notifyTaken", "notifyWaited", "attempt"},
         where = "attempt" => c.op \in QueueOps
  PROVE  Fine(t, Calling(c, where), k)
  BY DEF Fine, CallOK, Counted, Slept, Calling, UserThread

\* what holds of who makes a call, and of who goes on with one
LEMMA CallerIs ==
  ASSUME OnTime, ThreadsInv, NEW t, NEW op, NEW c \in CallsOf(t, op)
  PROVE  /\ t \in Tasks /\ t \in AllTasks /\ t = kernel.pxCurrentTCB /\ Allowed(c) /\ c.op = op
         /\ thread[t].at = "user" /\ thread[t].at \notin Insides /\ ~Settled(thread[t])
         /\ op \notin {"suspendAll", "resumeAll"} => kernel.uxSchedulerSuspended = 0
         /\ op \in {"delay", "delayUntil"} => c.wait > 0
         /\ ~IsSleeping(kernel, t)
<1>1. t \in Tasks /\ t \in AllTasks /\ t = kernel.pxCurrentTCB /\ Allowed(c) /\ c.op = op
  BY CallOf, TasksInAll
<1>2. thread[t].at = "user" /\ (op \notin {"suspendAll", "resumeAll"} => kernel.uxSchedulerSuspended = 0)
  BY DEF CallsOf, At
<1>3. scenario \in Scenarios /\ c \in scenario.calls[t]
  BY DEF ThreadsInv, CallsOf
<1>4. op \in {"delay", "delayUntil"} => c.wait > 0
  BY <1>1, <1>3, ScenariosAssumption
<1>5. thread[t].at \notin Insides /\ ~Settled(thread[t])
  BY <1>2 DEF Insides, Settled
<1>6. InPlace(t, thread[t], kernel)
  BY <1>1 DEF OnTime
<1> QED BY <1>1, <1>2, <1>4, <1>5, <1>6 DEF InPlace

LEMMA AtIs ==
  ASSUME OnTime, ThreadsInv, NEW t \in AllTasks, NEW where, At(t, where)
  PROVE  /\ t = kernel.pxCurrentTCB /\ thread[t].at = where
         /\ where # "user" => t \in Tasks
         /\ where \in Insides => kernel.uxSchedulerSuspended = 1
         /\ where \notin Insides \cup {"user"} => kernel.uxSchedulerSuspended = 0
         /\ IsSleeping(kernel, t) => Settled(thread[t])
         /\ Fine(t, thread[t], kernel) /\ CallOK(thread[t]) /\ ThreadOK(thread[t])
<1>1. t = kernel.pxCurrentTCB /\ thread[t].at = where /\ (where # "user" => t \in Tasks)
  BY AtTask DEF At, Running
<1>2. InPlace(t, thread[t], kernel) /\ Fine(t, thread[t], kernel) /\ ThreadOK(thread[t])
      /\ kernel.uxSchedulerSuspended \in Nat
  BY DEF OnTime, ThreadsInv
<1>3. where \notin Insides \cup {"user"} => kernel.uxSchedulerSuspended = 0
  BY <1>1, <1>2 DEF InPlace
<1> QED BY <1>1, <1>2, <1>3 DEF InPlace, Fine

\* A call returns.
LEMMA ReturnOnTime ==
  ASSUME OnTime, ThreadsInv, Good(kernel), Calm(kernel, kernel'), NEW t \in AllTasks,
         t = kernel.pxCurrentTCB, thread[t].at \notin Insides, thread[t].at # "yield",
         NEW k, Return(t, k)
  PROVE  OnTime'
<1>1. thread' = [thread EXCEPT ![t] = UserThread]
  BY DEF Return, Proceed
<1>2. UserThread.at = "user" /\ "user" \notin Insides
  BY DEF UserThread, Insides
<1> QED BY <1>1, <1>2, UserFine, OutsideStep

\* A call waits for a notification.
LEMMA WaitOnTime ==
  ASSUME OnTime, ThreadsInv, Good(kernel), NEW op \in {"notifyTake", "notifyWait"},
         NEW t, NEW c \in CallsOf(t, op),
         NEW k, Good(k), Same(kernel, k, {"ulNotifiedValue", "ucNotifyState"}), NEW condition,
         NEW where \in {"notifyTaken", "notifyWaited"},
         WaitForNotification(t, k, c, condition, where)
  PROVE  OnTime'
<1> DEFINE kw == [k EXCEPT !.ucNotifyState[t] = "Waiting"]
           k1 == prvAddCurrentTaskToDelayedList(kw, c.wait, TRUE)
           th == TimedUnlessForEver(Calling(c, where), c.wait)
<1>1. /\ t \in Tasks /\ t \in AllTasks /\ t = kernel.pxCurrentTCB /\ Allowed(c) /\ c.op = op
      /\ thread[t].at = "user" /\ thread[t].at \notin Insides
      /\ kernel.uxSchedulerSuspended = 0 /\ ~(kernel.uxSchedulerSuspended > 0)
  BY CallerIs
<1>2. Good(kw) /\ Same(kernel, kw, {"ulNotifiedValue", "ucNotifyState"})
  BY NotificationSame
<1>3. CASE condition /\ c.wait > 0
  <2>1. kernel' = vTaskSwitchContext(k1) /\ thread' = [thread EXCEPT ![t] = th]
    BY <1>3 DEF WaitForNotification, Proceed
  <2>2. c.wait \in 1 .. TickRange - 1 /\ c.wait \in Ticks
    BY <1>1, <1>3 DEF Allowed, Ticks
  <2> HIDE DEF kw
  <2>3. Good(k1) /\ Sleeps(kernel, k1, t, c.wait)
    BY <1>1, <1>2, <2>2, NotTiming, SleepLike DEF OnTime
  <2> HIDE DEF k1
  <2>4. Calm(k1, kernel') /\ ~IsSleeping(kernel', kernel'.pxCurrentTCB)
    BY <1>1, <2>1, <2>3, SwitchCalm DEF Sleeps
  <2>5. /\ th.at = where /\ th.call = c /\ th.next = "user" /\ th.yields = FALSE
        /\ IF c.wait = portMAX_DELAY THEN th.timed = FALSE /\ th.due = 0
           ELSE /\ th.timed = TRUE /\ th.due = c.wait
                /\ th.since = kernel.xTickCount /\ th.overflows = kernel.xNumOfOverflows
    BY DEF TimedUnlessForEver, Timed, Calling, UserThread
  <2> HIDE DEF th
  <2>6. kernel.xTickCount \in Ticks /\ kernel.xNumOfOverflows \in 0 .. OverflowRange - 1
    BY CountTypes DEF OnTime, Timely, Ticks
  <2>7. th.call.op \notin QueueOps
    BY <1>1, <2>5 DEF QueueOps
  <2>8. th.due \in Int
    BY <2>2, <2>5, Bounds, CountTypes DEF Ticks
  <2>9. CallOK(th)
    BY <2>5, <2>6, <2>7, <2>8 DEF CallOK
  <2>10. Counted(th, kernel) /\ (th.timed /\ th.due > -MaxLate => th.due = c.wait)
    BY <2>5, <2>7 DEF Counted
  <2>11. th.at \notin Insides
    BY <2>5 DEF Insides
  <2> QED BY <1>1, <2>1, <2>3, <2>4, <2>9, <2>10, <2>11, SleepStep
<1>4. CASE ~(condition /\ c.wait > 0)
  <2>1. kernel' \in {kw, kernel} /\ thread' = [thread EXCEPT ![t] = Calling(c, where)]
    BY <1>4 DEF WaitForNotification, Proceed
  <2> HIDE DEF kw
  <2>2. Calm(kernel, kernel')
    <3>1. Calm(kernel, kw)
      BY <1>2, NotTiming, SameCalm
    <3> QED BY <2>1, <3>1, CalmNot
  <2>3. Fine(t, Calling(c, where), kernel)
    BY CallingFine
  <2>4. Calling(c, where).at = where /\ where \notin Insides
    BY DEF Calling, UserThread, Insides
  <2> QED BY <1>1, <2>1, <2>2, <2>3, <2>4, OutsideStep
<1> QED BY <1>3, <1>4

\* a call that a task makes, up to where it returns or goes on
LEMMA CallStep ==
  ASSUME OnTime, ThreadsInv, Good(kernel), NEW op, op \notin {"suspendAll", "resumeAll"},
         NEW t, NEW c \in CallsOf(t, op), Calm(kernel, kernel'),
         NEW th \in {UserThread, Calling(c, "suspended"), Calling(c, "yield")},
         thread' = [thread EXCEPT ![t] = th]
  PROVE  OnTime'
<1>1. Fine(t, th, kernel)
  BY UserFine, CallingFine
<1>2. th.at \notin Insides
  <2>1. /\ UserThread.at = "user" /\ Calling(c, "suspended").at = "suspended"
        /\ Calling(c, "yield").at = "yield"
    BY DEF Calling, UserThread
  <2>2. th.at \in {"user", "suspended", "yield"}
    BY <2>1
  <2> QED BY <2>2 DEF Insides
<1>3. /\ t \in AllTasks /\ t = kernel.pxCurrentTCB
      /\ thread[t].at = "user" /\ thread[t].at \notin Insides
      /\ kernel.uxSchedulerSuspended = 0 /\ ~(kernel.uxSchedulerSuspended > 0)
  BY CallerIs
<1> QED BY <1>1, <1>2, <1>3, OutsideStep

LEMMA DeleteOnTime ==
  ASSUME OnTime, ThreadsInv, Good(kernel), NEW t, vTaskDelete(t) PROVE OnTime'
<1>1. PICK c \in CallsOf(t, "delete") :
        LET k1 == UnlinkEvent(UnlinkState(kernel, c.on), c.on)
        IN  IF c.on = t
            THEN Proceed(t, [k1 EXCEPT !.xTasksWaitingTermination = Append(@, t)], Calling(c, "yield"))
            ELSE /\ kernel' = prvResetNextTaskUnblockTime(k1)
                 /\ thread' = [thread EXCEPT ![c.on] = UserThread]
  BY DEF vTaskDelete
<1> DEFINE k1 == UnlinkEvent(UnlinkState(kernel, c.on), c.on)
<1>2. c.on \in Tasks /\ c.on \in AllTasks /\ t \in Tasks /\ t = kernel.pxCurrentTCB
  BY CallerIs, TasksInAll DEF Allowed
<1>3. CASE c.on = t
  <2>1. /\ kernel' = [k1 EXCEPT !.xTasksWaitingTermination = Append(@, c.on)]
        /\ thread' = [thread EXCEPT ![t] = Calling(c, "yield")]
    BY <1>1, <1>3 DEF Proceed
  <2>2. Calm(kernel, kernel')
    BY <1>2, <2>1, TerminatedCalm
  <2> QED BY <2>1, <2>2, CallStep
<1>4. CASE c.on # t
  <2>1. kernel' = prvResetNextTaskUnblockTime(k1) /\ thread' = [thread EXCEPT ![c.on] = UserThread]
    BY <1>1, <1>4
  <2>2. Good(k1) /\ Calm(kernel, k1)
    BY <1>2, UnlinkedMoves, UnlinkedCalm DEF Moves
  <2> HIDE DEF k1
  <2>3. Calm(kernel, kernel')
    BY <2>1, <2>2, ResetCalm, CalmTwice
  <2>4. UserThread.at \notin Insides
    BY DEF UserThread, Insides
  <2> QED BY <1>2, <1>4, <2>1, <2>3, <2>4, UserFine, CalmStep
<1> QED BY <1>3, <1>4

LEMMA StartDelayOnTime ==
  ASSUME OnTime, ThreadsInv, Good(kernel), NEW t, StartDelay(t) PROVE OnTime'
<1>1. PICK op \in {"delay", "delayUntil"} : \E c \in CallsOf(t, op) :
        Proceed(t, vTaskSuspendAll(kernel), [Calling(c, c.op) EXCEPT !.next = "return", !.yields = TRUE])
  BY DEF StartDelay
<1>2. PICK c \in CallsOf(t, op) :
        Proceed(t, vTaskSuspendAll(kernel), [Calling(c, c.op) EXCEPT !.next = "return", !.yields = TRUE])
  BY <1>1
<1> DEFINE th == [Calling(c, c.op) EXCEPT !.next = "return", !.yields = TRUE]
<1>3. /\ t \in AllTasks /\ t = kernel.pxCurrentTCB /\ c.op = op /\ c.wait > 0
      /\ thread[t].at \notin Insides /\ ~Settled(thread[t]) /\ kernel.uxSchedulerSuspended = 0
  BY CallerIs
<1>4. kernel' = vTaskSuspendAll(kernel) /\ thread' = [thread EXCEPT ![t] = th]
  BY <1>2 DEF Proceed
<1>5. /\ th.at = op /\ th.call = c /\ th.next = "return" /\ th.yields = TRUE
      /\ th.timed = FALSE /\ th.due = 0
  BY <1>3 DEF Calling, UserThread
<1> HIDE DEF th
<1>6. Fine(t, th, kernel) /\ th.at \in Insides
  BY <1>3, <1>5 DEF Fine, CallOK, Counted, Slept, QueueOps, Insides
<1> QED BY <1>3, <1>4, <1>6, SuspendStep

\* The calls of an application keep the times.
LEMMA CallOnTime ==
  ASSUME OnTime, ThreadsInv, Good(kernel), NEW t \in AllTasks, Call(t) PROVE OnTime'
<1>1. CASE taskYIELD(t)
  <2>1. PICK c : c \in CallsOf(t, "yield")
    BY <1>1 DEF taskYIELD
  <2>2. kernel' = vTaskSwitchContext(kernel) /\ thread' = [thread EXCEPT ![t] = UserThread]
    BY <1>1 DEF taskYIELD, Return, Proceed
  <2>3. Calm(kernel, kernel')
    BY <2>2, SwitchCalm
  <2> QED BY <2>1, <2>2, <2>3, CallStep
<1>2. CASE SuspendScheduler(t)
  <2>1. PICK c : c \in CallsOf(t, "suspendAll")
    BY <1>2 DEF SuspendScheduler
  <2>2. kernel' = vTaskSuspendAll(kernel) /\ thread' = [thread EXCEPT ![t] = UserThread]
    BY <1>2 DEF SuspendScheduler, Return, Proceed
  <2>3. UserThread.at \in Insides \cup {"user"} /\ UserThread.at \notin Insides
    BY DEF UserThread, Insides
  <2>4. t = kernel.pxCurrentTCB /\ thread[t].at \notin Insides /\ ~Settled(thread[t])
    BY <2>1, CallerIs
  <2> QED BY <2>2, <2>3, <2>4, UserFine, SuspendStep
<1>3. CASE StartDelay(t)
  BY <1>3, StartDelayOnTime
<1>4. CASE vTaskSuspend(t)
  <2>1. PICK c \in CallsOf(t, "suspend") : \E status :
          /\ kernel' = [UnlinkEvent(UnlinkState(kernel, c.on), c.on)
                          EXCEPT !.xSuspendedTaskList = @ \cup {c.on}, !.ucNotifyState[c.on] = status]
          /\ thread' = [thread EXCEPT ![t] = Calling(c, "suspended")]
    BY <1>4 DEF vTaskSuspend, Proceed
  <2>2. c.on \in Tasks
    BY CallOf DEF Allowed
  <2>3. PICK status :
          kernel' = [UnlinkEvent(UnlinkState(kernel, c.on), c.on)
                       EXCEPT !.xSuspendedTaskList = @ \cup {c.on}, !.ucNotifyState[c.on] = status]
    BY <2>1
  <2>4. Calm(kernel, kernel')
    BY <2>2, <2>3, SuspendedCalm
  <2>5. thread' = [thread EXCEPT ![t] = Calling(c, "suspended")]
    BY <2>1
  <2> QED BY <2>4, <2>5, CallStep
<1>5. CASE vTaskResume(t)
  <2>1. PICK c \in CallsOf(t, "resume") :
          /\ kernel' = kernel \/ \E b : kernel' = YieldIf(b, MakeReady(kernel, c.on))
          /\ thread' = [thread EXCEPT ![t] = UserThread]
    BY <1>5 DEF vTaskResume, Return, Proceed
  <2>2. c.on \in Tasks
    BY CallOf DEF Allowed
  <2> DEFINE k1 == MakeReady(kernel, c.on)
  <2>3. Good(k1) /\ Calm(kernel, k1)
    BY <2>2, MakeReadyMoves, MakeReadyCalm DEF Moves
  <2>4. kernel' = kernel \/ \E b : kernel' = YieldIf(b, k1)
    BY <2>1
  <2> HIDE DEF k1
  <2>5. Calm(kernel, kernel')
    BY <2>3, <2>4, CalmNot, CalmTwice, YieldIfCalm
  <2> QED BY <2>1, <2>5, CallStep
<1>6. CASE vTaskPrioritySet(t)
  <2>1. PICK c \in CallsOf(t, "prioritySet") :
          /\ kernel' = kernel \/ \E b : kernel' = YieldIf(b, PrioritySet(kernel, c.on, c.arg))
          /\ thread' = [thread EXCEPT ![t] = UserThread]
    BY <1>6 DEF vTaskPrioritySet, Return, Proceed, PrioritySet
  <2>2. c.on \in Tasks /\ c.arg \in Priorities
    BY CallOf DEF Allowed
  <2> DEFINE k1 == PrioritySet(kernel, c.on, c.arg)
  <2>3. Good(k1) /\ Calm(kernel, k1)
    BY <2>2, PrioritySetIs, PrioritySetCalm
  <2>4. kernel' = kernel \/ \E b : kernel' = YieldIf(b, k1)
    BY <2>1
  <2> HIDE DEF k1
  <2>5. Calm(kernel, kernel')
    BY <2>3, <2>4, CalmNot, CalmTwice, YieldIfCalm
  <2> QED BY <2>1, <2>5, CallStep
<1>7. CASE vTaskDelete(t)
  BY <1>7, DeleteOnTime
<1>8. CASE xTaskCreate(t)
  <2>1. PICK c \in CallsOf(t, "create") :
          /\ IsFree(kernel, c.on) /\ kernel' = prvAddNewTaskToReadyList(kernel, c.on, c.arg)
          /\ \/ thread' = [thread EXCEPT ![t] = Calling(c, "yield")]
             \/ thread' = [thread EXCEPT ![t] = UserThread]
    BY <1>8 DEF xTaskCreate, Return, Proceed
  <2>2. c.on \in Tasks /\ c.arg \in Priorities
    BY CallOf DEF Allowed
  <2>3. Calm(kernel, kernel')
    BY <2>1, <2>2, CreatedCalm
  <2> QED BY <2>1, <2>3, CallStep
<1>9. CASE ulTaskGenericNotifyTake(t)
  <2>1. PICK c \in CallsOf(t, "notifyTake") : \E b : WaitForNotification(t, kernel, c, b, "notifyTaken")
    BY <1>9 DEF ulTaskGenericNotifyTake
  <2>2. Same(kernel, kernel, {"ulNotifiedValue", "ucNotifyState"})
    BY GoodTypes DEF Same
  <2> QED BY <2>1, <2>2, WaitOnTime
<1>10. CASE xTaskGenericNotifyWait(t)
  <2>1. PICK c \in CallsOf(t, "notifyWait") :
          LET k == IF c.how = "clear" THEN [kernel EXCEPT !.ulNotifiedValue[t] = 0] ELSE kernel
          IN  WaitForNotification(t, k, c, kernel.ucNotifyState[t] # "Received", "notifyWaited")
    BY <1>10 DEF xTaskGenericNotifyWait
  <2> DEFINE k0 == [kernel EXCEPT !.ulNotifiedValue[t] = 0]
             k  == IF c.how = "clear" THEN k0 ELSE kernel
             b  == kernel.ucNotifyState[t] # "Received"
  <2>2. WaitForNotification(t, k, c, b, "notifyWaited")
    BY <2>1
  <2>3. Same(kernel, kernel, {"ulNotifiedValue", "ucNotifyState"})
    BY GoodTypes DEF Same
  <2>4. Good(k0) /\ Same(kernel, k0, {"ulNotifiedValue", "ucNotifyState"})
    BY <2>3, NotificationSame
  <2> HIDE DEF k0
  <2>5. Good(k) /\ Same(kernel, k, {"ulNotifiedValue", "ucNotifyState"})
    BY <2>3, <2>4
  <2> HIDE DEF k, b
  <2> QED BY <2>2, <2>5, WaitOnTime
<1>11. CASE xTaskGenericNotify(t)
  <2>1. PICK c \in CallsOf(t, "notify") :
          LET k1 == Notified(kernel, c.on, c.how, c.arg)
          IN  /\ kernel' = k1 \/ \E b : kernel' = YieldIf(b, MakeReady(k1, c.on))
              /\ thread' = [thread EXCEPT ![t] = UserThread]
    BY <1>11 DEF xTaskGenericNotify, Return, Proceed
  <2> DEFINE k1 == Notified(kernel, c.on, c.how, c.arg)
             k2 == MakeReady(k1, c.on)
  <2>2. c.on \in Tasks /\ Good(k1) /\ Calm(kernel, k1)
    BY CallOf, NotifiedCalm DEF Allowed
  <2>3. /\ kernel' = k1 \/ \E b : kernel' = YieldIf(b, k2)
        /\ thread' = [thread EXCEPT ![t] = UserThread]
    BY <2>1
  <2> HIDE DEF k1
  <2>4. Good(k2) /\ Calm(kernel, k2)
    BY <2>2, MakeReadyMoves, MakeReadyCalm, CalmTwice DEF Moves
  <2> HIDE DEF k2
  <2>5. Calm(kernel, kernel')
    BY <2>2, <2>3, <2>4, CalmTwice, YieldIfCalm
  <2> QED BY <2>3, <2>5, CallStep
<1> QED BY <1>1, <1>2, <1>3, <1>4, <1>5, <1>6, <1>7, <1>8, <1>9, <1>10, <1>11 DEF Call

LEMMA DelayOnTime ==
  ASSUME OnTime, ThreadsInv, Good(kernel), NEW t \in AllTasks, NEW where \in {"delay", "delayUntil"},
         At(t, where), NEW ticks \in 1 .. TickRange - 1,
         kernel' = prvAddCurrentTaskToDelayedList(kernel, ticks, FALSE),
         thread' = [thread EXCEPT ![t] = [Timed(thread[t], ticks) EXCEPT !.at = "resume"]]
  PROVE  OnTime'
<1> DEFINE th == [Timed(thread[t], ticks) EXCEPT !.at = "resume"]
           k1 == prvAddCurrentTaskToDelayedList(kernel, ticks, FALSE)
<1>1. /\ t \in Tasks /\ t = kernel.pxCurrentTCB /\ thread[t].at = where
      /\ kernel.uxSchedulerSuspended = 1 /\ CallOK(thread[t]) /\ ThreadOK(thread[t])
  BY AtIs DEF Insides
<1>2. Timely(kernel)
  BY DEF OnTime
<1>3. Sleeps(kernel, k1, t, ticks)
  BY <1>1, <1>2, SleepIs
<1>4. Good(k1)
  <2>1. ticks \in Int
    BY Bounds
  <2> QED BY <1>1, <2>1, SleepMoves DEF Moves
<1>5. DOMAIN thread[t] = {"at", "call", "next", "yields", "timed", "since", "overflows", "due",
                          "inherited"}
  BY <1>1 DEF ThreadOK
<1>6. /\ th.at = "resume" /\ th.call = thread[t].call /\ th.next = thread[t].next
      /\ th.yields = thread[t].yields /\ th.timed = TRUE /\ th.due = ticks
      /\ th.since = kernel.xTickCount /\ th.overflows = kernel.xNumOfOverflows
  BY <1>5 DEF Timed
<1>7. thread' = [thread EXCEPT ![t] = th]
  OBVIOUS
<1> HIDE DEF th
<1>8. kernel.xTickCount \in Ticks /\ kernel.xNumOfOverflows \in 0 .. OverflowRange - 1 /\ ticks \in Int
  BY <1>2, CountTypes DEF Timely, Ticks
<1>9. thread[t].yields = TRUE /\ thread[t].call.op \notin QueueOps
  BY <1>1 DEF CallOK
<1>10. CallOK(th) /\ Counted(th, kernel)
  BY <1>1, <1>6, <1>8, <1>9 DEF CallOK, Counted
<1>11. Settled(th) /\ th.at \in Insides
  BY <1>6, <1>9 DEF Settled, Insides
<1>12. kernel' = k1
  OBVIOUS
<1> HIDE DEF k1
<1>13. Calm(k1, kernel')
  BY <1>12, CalmNot
<1>14. /\ th.timed /\ th.due > -MaxLate => th.due = ticks
       /\ th.at \in Insides => kernel.uxSchedulerSuspended = 1
       /\ kernel.uxSchedulerSuspended > 0 => th.at \in Insides
  BY <1>1, <1>6, <1>11
<1> QED BY <1>1, <1>3, <1>4, <1>7, <1>10, <1>11, <1>13, <1>14, SleepStep

LEMMA LeftIs ==
  ASSUME NEW wake \in Ticks, NEW tick \in Ticks, wake # tick
  PROVE  (wake - tick) % TickRange \in 1 .. TickRange - 1
<1>1. TickRange \in Nat \ {0} /\ wake \in 0 .. TickRange - 1 /\ tick \in 0 .. TickRange - 1
  BY RangeAssumption DEF Ticks
<1>2. (wake - tick) % TickRange = IF wake < tick THEN wake - tick + TickRange ELSE wake - tick
  BY <1>1, DifferenceWraps
<1> QED BY <1>1, <1>2

LEMMA DelayUntilOnTime ==
  ASSUME OnTime, Hours, ThreadsInv, Good(kernel), NEW t \in AllTasks, xTaskDelayUntil(t) PROVE OnTime'
<1> DEFINE previous == xPreviousWakeTime[t]
           ticks    == thread[t].call.wait
           wake     == (previous + ticks) % TickRange
           left     == (wake - kernel.xTickCount) % TickRange
<1>1. /\ At(t, "delayUntil")
      /\ IF ShouldDelay(previous, ticks, kernel.xTickCount)
         THEN /\ kernel' = prvAddCurrentTaskToDelayedList(kernel, left, FALSE)
              /\ thread' = [thread EXCEPT ![t] = [Timed(thread[t], left) EXCEPT !.at = "resume"]]
         ELSE kernel' = kernel /\ thread' = [thread EXCEPT ![t] = [thread[t] EXCEPT !.at = "resume"]]
  BY DEF xTaskDelayUntil, Proceed
<1>2. /\ t \in Tasks /\ t = kernel.pxCurrentTCB /\ thread[t].at = "delayUntil"
      /\ CallOK(thread[t]) /\ ThreadOK(thread[t]) /\ Fine(t, thread[t], kernel)
  BY <1>1, AtIs
<1>3. CASE ShouldDelay(previous, ticks, kernel.xTickCount)
  <2>1. previous \in Ticks /\ ticks \in Ticks /\ kernel.xTickCount \in Ticks
    BY <1>2, CountTypes DEF Hours, ThreadOK, Allowed, Ticks
  <2>2. \A n \in Ticks : n \in Int
    BY Bounds
  <2>3. wake \in Ticks
    <3>1. previous + ticks \in Int
      <4> HIDE DEF previous, ticks
      <4> QED BY <2>1, <2>2
    <3> HIDE DEF previous, ticks
    <3> QED BY <3>1, TickCount
  <2>5. wake # kernel.xTickCount
    <3> DEFINE tick == kernel.xTickCount
    <3>2. \/ tick < previous /\ wake < previous /\ wake > tick
          \/ ~(tick < previous) /\ (wake < previous \/ wake > tick)
      BY <1>3 DEF ShouldDelay
    <3> HIDE DEF wake, previous, ticks
    <3>3. wake \in Int /\ previous \in Int /\ tick \in Int
      BY <2>1, <2>2, <2>3
    <3> HIDE DEF tick
    <3>4. wake # tick
      BY <3>2, <3>3
    <3> QED BY <3>4 DEF tick
  <2> HIDE DEF wake
  <2>4. left \in 1 .. TickRange - 1
    BY <2>1, <2>3, <2>5, LeftIs
  <2> HIDE DEF left, previous, ticks
  <2> QED BY <1>1, <1>3, <2>4, DelayOnTime
<1>4. CASE ~ShouldDelay(previous, ticks, kernel.xTickCount)
  <2> DEFINE th == [thread[t] EXCEPT !.at = "resume"]
  <2>1. kernel' = kernel /\ thread' = [thread EXCEPT ![t] = th]
    BY <1>1, <1>4
  <2>2. DOMAIN thread[t] = {"at", "call", "next", "yields", "timed", "since", "overflows", "due",
                            "inherited"}
    BY <1>2 DEF ThreadOK
  <2>3. th.at = "resume" /\ \A f \in DOMAIN thread[t] \ {"at"} : th[f] = thread[t][f]
    BY <2>2
  <2> HIDE DEF th
  <2>4. CallOK(th)
    BY <1>2, <2>2, <2>3 DEF CallOK
  <2>5. Fine(t, th, kernel)
    BY <1>2, <2>2, <2>3, <2>4, FineLike
  <2>6. th.at \in Insides /\ thread[t].at \in Insides /\ ~Settled(thread[t])
    BY <1>2, <2>3 DEF Insides, Settled
  <2>7. Calm(kernel, kernel')
    BY <2>1, CalmNot
  <2> QED BY <1>2, <2>1, <2>5, <2>6, <2>7, InsideStep
<1> QED BY <1>3, <1>4

LEMMA YieldOnTime ==
  ASSUME OnTime, ThreadsInv, Good(kernel), NEW t \in AllTasks, portYIELD(t) PROVE OnTime'
<1> DEFINE th == Continued(thread[t])
<1>1. /\ At(t, "yield") /\ kernel' = vTaskSwitchContext(kernel)
      /\ thread' = [thread EXCEPT ![t] = th]
  BY DEF portYIELD, Proceed
<1>2. /\ t = kernel.pxCurrentTCB /\ kernel.uxSchedulerSuspended = 0 /\ ThreadOK(thread[t])
      /\ Fine(t, thread[t], kernel)
  BY <1>1, AtIs DEF Insides
<1>3. ~(kernel.uxSchedulerSuspended > 0)
  BY <1>2
<1>4. Calm(kernel, kernel') /\ ~IsSleeping(kernel', kernel'.pxCurrentTCB)
  BY <1>1, <1>3, SwitchCalm
<1>5. Fine(t, th, kernel) /\ th.at \notin Insides
  BY <1>2, ContinuedFine DEF ThreadOK
<1> HIDE DEF th
<1> QED BY <1>1, <1>3, <1>4, <1>5, CalmStep

\* The rest of a call keeps the times.
LEMMA StepOnTime ==
  ASSUME MaxLate \in 0 .. 2, MaxPended < TickRange, MaxPended \in Nat, OnTime, Hours, ThreadsInv,
         Good(kernel), NEW t \in AllTasks, Step(t)
  PROVE  OnTime'
<1>1. CASE portYIELD(t)
  BY <1>1, YieldOnTime
<1>2. CASE ResumeScheduler(t)
  BY <1>2, ResumeOnTime DEF Hours
<1>3. CASE xTaskDelayUntil(t)
  BY <1>3, DelayUntilOnTime
<1>4. CASE vTaskDelay(t)
  <2> DEFINE ticks == thread[t].call.wait
  <2>1. /\ At(t, "delay") /\ kernel' = prvAddCurrentTaskToDelayedList(kernel, ticks, FALSE)
        /\ thread' = [thread EXCEPT ![t] = [Timed(thread[t], ticks) EXCEPT !.at = "resume"]]
    BY <1>4 DEF vTaskDelay, Proceed
  <2>2. CallOK(thread[t]) /\ ThreadOK(thread[t]) /\ thread[t].at = "delay"
    BY <2>1, AtIs
  <2>3. ticks \in 1 .. TickRange - 1
    BY <2>2 DEF CallOK, ThreadOK, Allowed, Ticks
  <2> HIDE DEF ticks
  <2> QED BY <2>1, <2>3, DelayOnTime
<1>5. CASE ReturnFromCall(t)
  <2>1. At(t, "return") /\ kernel' = kernel /\ Return(t, kernel)
    BY <1>5 DEF ReturnFromCall, Return, Proceed
  <2>2. Calm(kernel, kernel') /\ t = kernel.pxCurrentTCB /\ thread[t].at = "return"
    BY <2>1, CalmNot, AtIs
  <2>3. thread[t].at \notin Insides /\ thread[t].at # "yield"
    BY <2>2 DEF Insides
  <2> QED BY <2>1, <2>2, <2>3, ReturnOnTime
<1>6. CASE NotifyTaken(t) \/ NotifyWaited(t)
  <2>1. PICK value :
          /\ At(t, "notifyTaken") \/ At(t, "notifyWaited")
          /\ Return(t, [kernel EXCEPT !.ulNotifiedValue[t] = value, !.ucNotifyState[t] = "NotWaiting"])
    BY <1>6 DEF NotifyTaken, NotifyWaited
  <2> DEFINE k1 == [kernel EXCEPT !.ulNotifiedValue[t] = value, !.ucNotifyState[t] = "NotWaiting"]
  <2>2. kernel' = k1
    BY <2>1 DEF Return, Proceed
  <2>3. Calm(kernel, k1)
    BY NotificationCalm
  <2>4. t = kernel.pxCurrentTCB /\ thread[t].at \in {"notifyTaken", "notifyWaited"}
    BY <2>1, AtIs
  <2>5. thread[t].at \notin Insides /\ thread[t].at # "yield"
    BY <2>4 DEF Insides
  <2>6. Return(t, k1)
    BY <2>1
  <2> HIDE DEF k1
  <2> QED BY <2>2, <2>3, <2>4, <2>5, <2>6, ReturnOnTime
<1>7. CASE SuspendedTask(t)
  <2> DEFINE th == [thread[t] EXCEPT !.at = "yield"]
  <2>1. /\ At(t, "suspended") /\ kernel' = prvResetNextTaskUnblockTime(kernel)
        /\ Return(t, kernel') \/ thread' = [thread EXCEPT ![t] = th]
    BY <1>7 DEF SuspendedTask, Return, Proceed
  <2>2. Calm(kernel, kernel')
    BY <2>1, ResetCalm
  <2>3. /\ t = kernel.pxCurrentTCB /\ thread[t].at = "suspended" /\ Fine(t, thread[t], kernel)
        /\ ThreadOK(thread[t])
    BY <2>1, AtIs
  <2>4. thread[t].at \notin Insides /\ thread[t].at # "yield"
    BY <2>3 DEF Insides
  <2>5. Fine(t, th, kernel)
    BY <2>3, ContinuedFine DEF ThreadOK
  <2>6. th.at = "yield"
    BY <2>3 DEF ThreadOK
  <2>7. ~(kernel.uxSchedulerSuspended > 0)
    BY <2>1, AtIs DEF Insides
  <2> HIDE DEF th
  <2>8. CASE thread' = [thread EXCEPT ![t] = th]
    <3>1. th.at \notin Insides
      BY <2>6 DEF Insides
    <3> QED BY <2>2, <2>3, <2>4, <2>5, <2>7, <2>8, <3>1, OutsideStep
  <2>9. CASE Return(t, kernel')
    <3>1. \E k : Return(t, k)
      BY <2>9
    <3> QED BY <2>2, <2>3, <2>4, <3>1, ReturnOnTime
  <2> QED BY <2>1, <2>8, <2>9
<1> QED BY <1>1, <1>2, <1>3, <1>4, <1>5, <1>6, <1>7 DEF Step

LEMMA IdleOnTime ==
  ASSUME OnTime, ThreadsInv, Good(kernel), IdleStep PROVE OnTime'
<1>1. CASE prvCheckTasksWaitingTermination
  <2> DEFINE l == kernel.xTasksWaitingTermination
             x == Head(l)
  <2>1. /\ At(Idle, "user") /\ l # <<>> /\ kernel' = UnlinkState(kernel, x)
        /\ thread' = [thread EXCEPT ![x] = UserThread]
    BY <1>1 DEF prvCheckTasksWaitingTermination
  <2>2. l \in Seq(Tasks)
    BY DEF Good, Sound, IsList
  <2> HIDE DEF l
  <2>3. x \in Tasks
    BY <2>1, <2>2
  <2> HIDE DEF x
  <2>4. x \in AllTasks /\ x # kernel.pxCurrentTCB
    BY <2>1, <2>3, Bounds DEF At, Running
  <2>5. Calm(kernel, kernel')
    BY <2>1, <2>3, UnlinkStateCalm
  <2>6. UserThread.at \notin Insides
    BY DEF UserThread, Insides
  <2> QED BY <2>1, <2>4, <2>5, <2>6, UserFine, CalmStep
<1>2. CASE prvIdleTask
  <2>1. /\ At(Idle, "user") /\ kernel' = vTaskSwitchContext(kernel)
        /\ Return(Idle, vTaskSwitchContext(kernel))
    BY <1>2 DEF prvIdleTask, Return, Proceed
  <2>2. Calm(kernel, kernel')
    BY <2>1, SwitchCalm
  <2>3. Idle \in AllTasks /\ Idle = kernel.pxCurrentTCB /\ thread[Idle].at = "user"
    BY <2>1, Bounds, AtIs
  <2>4. thread[Idle].at \notin Insides /\ thread[Idle].at # "yield"
    BY <2>3 DEF Insides
  <2> QED BY <2>1, <2>2, <2>3, <2>4, ReturnOnTime
<1> QED BY <1>1, <1>2 DEF IdleStep

LEMMA InterruptOnTime ==
  ASSUME OnTime, ThreadsInv, Good(kernel), Interrupt PROVE OnTime'
<1>1. CASE xTaskGenericNotifyFromISR
  <2>1. PICK c \in Interrupts("notifyFromISR") :
          LET k1 == Notified(kernel, c.on, c.how, c.arg)
          IN  \E woken, waits : EndInterrupt(woken, IF waits THEN Unblock(k1, c.on) ELSE k1)
    BY <1>1 DEF xTaskGenericNotifyFromISR
  <2>2. c.on \in Tasks
    BY InterruptsOK DEF Allowed
  <2> DEFINE k1 == Notified(kernel, c.on, c.how, c.arg)
  <2>3. PICK woken, waits : EndInterrupt(woken, IF waits THEN Unblock(k1, c.on) ELSE k1)
    BY <2>1
  <2>4. Calm(kernel, k1) /\ Good(k1)
    BY NotifiedCalm
  <2> HIDE DEF k1
  <2>5. Calm(kernel, Unblock(k1, c.on)) /\ Good(Unblock(k1, c.on))
    BY <2>2, <2>4, UnblockCalm, UnblockMoves, CalmTwice DEF Moves
  <2> DEFINE k2 == IF waits THEN Unblock(k1, c.on) ELSE k1
  <2>6. Calm(kernel, k2) /\ Good(k2) /\ EndInterrupt(woken, k2)
    BY <2>3, <2>4, <2>5
  <2> HIDE DEF k2
  <2> QED BY <2>6, EndInterruptCalm, CalmStays
<1>2. CASE xTaskResumeFromISR
  <2>0. PICK c \in Interrupts("resumeFromISR") : \E now, yield :
          LET k1 == IF now THEN MakeReady(kernel, c.on)
                    ELSE [kernel EXCEPT !.xPendingReadyList = Append(@, c.on)]
          IN  EndInterrupt(yield, [k1 EXCEPT !.xYieldPending = @ \/ yield])
    BY <1>2 DEF xTaskResumeFromISR
  <2>1. PICK now, yield :
          LET k1 == IF now THEN MakeReady(kernel, c.on)
                    ELSE [kernel EXCEPT !.xPendingReadyList = Append(@, c.on)]
          IN  EndInterrupt(yield, [k1 EXCEPT !.xYieldPending = @ \/ yield])
    BY <2>0
  <2>2. c.on \in Tasks
    BY InterruptsOK DEF Allowed
  <2> DEFINE k0 == MakeReady(kernel, c.on)
             kp == [kernel EXCEPT !.xPendingReadyList = Append(@, c.on)]
             k1 == IF now THEN k0 ELSE kp
             v  == k1.xYieldPending \/ yield
             k2 == [k1 EXCEPT !.xYieldPending = v]
  <2>3. EndInterrupt(yield, k2)
    BY <2>1
  <2>4. Good(k0) /\ Calm(kernel, k0)
    BY <2>2, MakeReadyMoves, MakeReadyCalm DEF Moves
  <2>5. Good(kp) /\ Calm(kernel, kp)
    BY <2>2, PendMoves, PendCalm DEF Moves
  <2> HIDE DEF k0, kp
  <2>6. Good(k1) /\ Calm(kernel, k1)
    BY <2>4, <2>5
  <2> HIDE DEF k1, v
  <2>7. Calm(k1, k2)
    BY <2>6, SetYieldCalm
  <2>8. Good(k2)
    BY <2>6, SetYieldPending, MovesNot DEF Moves
  <2> HIDE DEF k2
  <2>9. Calm(kernel, k2)
    BY <2>6, <2>7, CalmTwice
  <2> QED BY <2>3, <2>8, <2>9, EndInterruptCalm, CalmStays
<1> QED BY <1>1, <1>2 DEF Interrupt

---------------------------------------------------------------------------
(* The times in each step of a call to a queue *)

\* who makes a call to a queue, or attempts it again
LEMMA AttemptIs ==
  ASSUME OnTime, ThreadsInv, NEW t \in Tasks, NEW ops, "suspendAll" \notin ops, "resumeAll" \notin ops,
         NEW c \in Attempting(t, ops)
  PROVE  /\ t \in AllTasks /\ t = kernel.pxCurrentTCB /\ Allowed(c) /\ c.op \in ops
         /\ thread[t].at \notin Insides /\ thread[t].at # "yield" /\ ~Settled(thread[t])
         /\ kernel.uxSchedulerSuspended = 0 /\ ~IsSleeping(kernel, t)
         /\ Fine(t, thread[t], kernel) /\ CallOK(thread[t]) /\ ThreadOK(thread[t])
         /\ At(t, "attempt") => c = thread[t].call
<1>0. t \in AllTasks
  BY TasksInAll
<1>1. Allowed(c) /\ c.op \in ops /\ (At(t, "attempt") => c = thread[t].call)
  BY AttemptingOK
<1>2. Fine(t, thread[t], kernel) /\ CallOK(thread[t]) /\ ThreadOK(thread[t])
  BY <1>0 DEF OnTime, ThreadsInv, Fine
<1>3. CASE At(t, "attempt")
  <2>1. /\ t = kernel.pxCurrentTCB /\ thread[t].at = "attempt"
        /\ "attempt" \notin Insides \cup {"user"} => kernel.uxSchedulerSuspended = 0
        /\ IsSleeping(kernel, t) => Settled(thread[t])
    BY <1>0, <1>3, AtIs
  <2> QED BY <1>0, <1>1, <1>2, <2>1 DEF Insides, Settled
<1>4. CASE ~At(t, "attempt")
  <2>1. PICK op \in ops : c \in CallsOf(t, op)
    BY <1>4 DEF Attempting
  <2>2. op \notin {"suspendAll", "resumeAll"}
    BY <2>1
  <2>3. /\ t = kernel.pxCurrentTCB /\ thread[t].at = "user" /\ thread[t].at \notin Insides
        /\ ~Settled(thread[t]) /\ kernel.uxSchedulerSuspended = 0 /\ ~IsSleeping(kernel, t)
    BY <2>1, <2>2, CallerIs
  <2> QED BY <1>0, <1>1, <1>2, <2>3
<1> QED BY <1>3, <1>4

LEMMA CannotYetOnTime ==
  ASSUME OnTime, ThreadsInv, Good(kernel), NEW t \in Tasks, NEW ops, ops \subseteq QueueOps,
         NEW c \in Attempting(t, ops), CannotYet(t, c)
  PROVE  OnTime'
<1>0. "suspendAll" \notin ops /\ "resumeAll" \notin ops
  BY DEF QueueOps
<1>1. /\ t \in AllTasks /\ t = kernel.pxCurrentTCB /\ Allowed(c) /\ c.op \in QueueOps
      /\ thread[t].at \notin Insides /\ thread[t].at # "yield" /\ ~(kernel.uxSchedulerSuspended > 0)
      /\ Fine(t, thread[t], kernel) /\ CallOK(thread[t]) /\ ThreadOK(thread[t])
      /\ ~IsSleeping(kernel, t)
      /\ At(t, "attempt") => c = thread[t].call
  BY <1>0, AttemptIs
<1>2. kernel' = kernel /\ Calm(kernel, kernel')
  BY CalmNot DEF CannotYet, Return, Proceed
<1>3. CASE c.wait = 0
  <2>1. Return(t, kernel)
    BY <1>3 DEF CannotYet
  <2> QED BY <1>1, <1>2, <2>1, ReturnOnTime
<1>4. CASE c.wait # 0
  <2>1. c.wait \in Ticks /\ c.wait > 0 /\ c.wait \in 0 .. TickRange - 1
    BY <1>1, <1>4 DEF Allowed, Ticks
  <2>2. "suspend" \notin Insides
    BY DEF Insides
  <2>3. CASE At(t, "attempt")
    <3> DEFINE th == [thread[t] EXCEPT !.at = "suspend"]
    <3>1. thread' = [thread EXCEPT ![t] = th]
      BY <1>4, <2>3 DEF CannotYet, Proceed
    <3>2. DOMAIN thread[t] = {"at", "call", "next", "yields", "timed", "since", "overflows", "due",
                              "inherited"}
      BY <1>1 DEF ThreadOK
    <3>3. th.at = "suspend" /\ \A f \in DOMAIN thread[t] \ {"at"} : th[f] = thread[t][f]
      BY <3>2
    <3> HIDE DEF th
    <3>4. CallOK(th)
      BY <1>1, <2>1, <2>3, <3>2, <3>3 DEF CallOK
    <3>5. Fine(t, th, kernel)
      BY <1>1, <3>2, <3>3, <3>4, FineLike
    <3> QED BY <1>1, <1>2, <2>2, <3>1, <3>3, <3>5, OutsideStep
  <2>4. CASE ~At(t, "attempt")
    <3> DEFINE th == TimedUnlessForEver(Calling(c, "suspend"), c.wait)
    <3>1. thread' = [thread EXCEPT ![t] = th]
      BY <1>4, <2>4 DEF CannotYet, Proceed
    <3>2. /\ th.at = "suspend" /\ th.call = c /\ th.next = "user" /\ th.yields = FALSE
          /\ IF c.wait = portMAX_DELAY THEN th.timed = FALSE /\ th.due = 0
             ELSE /\ th.timed = TRUE /\ th.due = c.wait
                  /\ th.since = kernel.xTickCount /\ th.overflows = kernel.xNumOfOverflows
      BY DEF TimedUnlessForEver, Timed, Calling, UserThread
    <3> HIDE DEF th
    <3>3. kernel.xTickCount \in Ticks /\ kernel.xNumOfOverflows \in 0 .. OverflowRange - 1
      BY CountTypes DEF OnTime, Timely, Ticks
    <3>4. c.wait # portMAX_DELAY => c.wait < portMAX_DELAY
      BY <2>1, RangeAssumption DEF portMAX_DELAY
    <3>5. c.wait \in Int /\ c.wait - c.wait = 0 /\ 0 \in Ticks
      BY <2>1, Bounds, RangeAssumption
    <3>6. CallOK(th)
      BY <1>1, <2>1, <3>2, <3>3, <3>4, <3>5 DEF CallOK
    <3>7. Counted(th, kernel)
      <4>1. /\ kernel.xTickCount \in 0 .. TickRange - 1 /\ TickRange \in Nat \ {0, 1}
            /\ kernel.xTickCount + 0 = kernel.xTickCount
        BY CountTypes
      <4>2. kernel.xTickCount = kernel.xTickCount % TickRange /\ kernel.xTickCount < TickRange
        BY <4>1, SMT
      <4> QED BY <3>2, <3>5, <4>1, <4>2 DEF Counted
    <3>8. Fine(t, th, kernel)
      BY <1>1, <3>6, <3>7 DEF Fine, Slept
    <3> QED BY <1>1, <1>2, <2>2, <3>1, <3>2, <3>8, OutsideStep
  <2> QED BY <2>3, <2>4
<1> QED BY <1>3, <1>4

\* A call to a queue is done, and who waits for it may run at once.
LEMMA DoneOnTime ==
  ASSUME OnTime, ThreadsInv, Good(kernel), NEW t \in Tasks, NEW ops, ops \subseteq QueueOps,
         NEW c \in Attempting(t, ops), NEW k1, Good(k1), Calm(kernel, k1), NEW e \in EventLists,
         NEW b, Return(t, YieldIf(b, WakeFirst(k1, e)))
  PROVE  OnTime'
<1> DEFINE k2 == YieldIf(b, WakeFirst(k1, e))
<1>0. "suspendAll" \notin ops /\ "resumeAll" \notin ops
  BY DEF QueueOps
<1>1. /\ t \in AllTasks /\ t = kernel.pxCurrentTCB
      /\ thread[t].at \notin Insides /\ thread[t].at # "yield"
  BY <1>0, AttemptIs
<1>2. kernel' = k2 /\ Return(t, k2)
  BY DEF Return, Proceed
<1>3. Calm(k1, k2)
  BY WakeAndYieldCalm
<1> HIDE DEF k2
<1>4. Calm(kernel, kernel')
  BY <1>2, <1>3, CalmTwice
<1> QED BY <1>1, <1>2, <1>4, ReturnOnTime

LEMMA SendOnTime ==
  ASSUME OnTime, IInv, Good(kernel), NEW t \in Tasks, xQueueGenericSend(t) PROVE OnTime'
<1>1. PICK c \in Attempting(t, {"send", "give"}) :
        LET q  == c.on
            k1 == IF q \in Mutexes THEN xTaskPriorityDisinherit(kernel, Holder(q)) ELSE kernel
            e  == xTasksWaitingToReceive(q)
        IN  /\ q \in Mutexes => q \in owns[t]
            /\ (\E b : Return(t, YieldIf(b, WakeFirst(k1, e)))) \/ CannotYet(t, c)
  BY DEF xQueueGenericSend
<1> DEFINE q  == c.on
           k1 == IF q \in Mutexes THEN xTaskPriorityDisinherit(kernel, Holder(q)) ELSE kernel
           e  == xTasksWaitingToReceive(q)
<1>2. q \in Queues /\ e \in EventLists /\ ThreadsInv /\ {"send", "give"} \subseteq QueueOps
  BY AttemptingOK, EventListsOf DEF IInv, Allowed, Queues, QueueOps
<1>3. CASE CannotYet(t, c)
  BY <1>2, <1>3, CannotYetOnTime
<1>4. CASE \E b : Return(t, YieldIf(b, WakeFirst(k1, e)))
  <2>1. Good(k1) /\ Calm(kernel, k1)
    <3>1. CASE q \notin Mutexes
      BY <3>1, CalmNot
    <3>2. CASE q \in Mutexes
      <4>1. Holder(q) = t
        BY <1>1, <3>2 DEF IInv, MutualExclusion
      <4>2. k1 = xTaskPriorityDisinherit(kernel, t)
        BY <3>2, <4>1
      <4> QED BY <4>2, DisinheritIs, DisinheritCalm
    <3> QED BY <3>1, <3>2
  <2>2. PICK b : Return(t, YieldIf(b, WakeFirst(k1, e)))
    BY <1>4
  <2> HIDE DEF k1, e
  <2> QED BY <1>2, <2>1, <2>2, DoneOnTime
<1> QED BY <1>1, <1>3, <1>4

LEMMA ReadOnTime ==
  ASSUME OnTime, IInv, Good(kernel), NEW t \in Tasks, xQueueReceive(t) \/ xQueuePeek(t) PROVE OnTime'
<1>1. PICK ops \in {{"receive"}, {"peek"}} : \E c \in Attempting(t, ops) :
        \E e \in {xTasksWaitingToSend(c.on), xTasksWaitingToReceive(c.on)} :
          (\E b : Return(t, YieldIf(b, WakeFirst(kernel, e)))) \/ CannotYet(t, c)
  BY DEF xQueueReceive, xQueuePeek
<1>0. PICK c \in Attempting(t, ops) : \E e \in {xTasksWaitingToSend(c.on), xTasksWaitingToReceive(c.on)} :
        (\E b : Return(t, YieldIf(b, WakeFirst(kernel, e)))) \/ CannotYet(t, c)
  BY <1>1
<1>2. PICK e \in {xTasksWaitingToSend(c.on), xTasksWaitingToReceive(c.on)} :
        (\E b : Return(t, YieldIf(b, WakeFirst(kernel, e)))) \/ CannotYet(t, c)
  BY <1>0
<1>3. ThreadsInv /\ ops \subseteq QueueOps /\ Calm(kernel, kernel)
  BY CalmNot DEF IInv, QueueOps
<1>4. c.op \in ops /\ Allowed(c)
  BY <1>3, AttemptingOK
<1>5. e \in EventLists
  BY <1>1, <1>4, EventListsOf DEF Allowed, Queues
<1>6. CASE CannotYet(t, c)
  BY <1>3, <1>6, CannotYetOnTime
<1>7. CASE \E b : Return(t, YieldIf(b, WakeFirst(kernel, e)))
  BY <1>3, <1>5, <1>7, DoneOnTime
<1> QED BY <1>2, <1>6, <1>7

LEMMA TakeOnTime ==
  ASSUME OnTime, IInv, Good(kernel), NEW t \in Tasks, xQueueSemaphoreTake(t) PROVE OnTime'
<1>1. PICK c \in Attempting(t, {"take", "takeRecursive"}) :
        LET q  == c.on
            k1 == IF q \in Mutexes THEN [kernel EXCEPT !.uxMutexesHeld[t] = @ + 1] ELSE kernel
            e  == xTasksWaitingToSend(q)
        IN  (\E b : Return(t, YieldIf(b, WakeFirst(k1, e)))) \/ CannotYet(t, c)
  BY DEF xQueueSemaphoreTake
<1> DEFINE q  == c.on
           kh == [kernel EXCEPT !.uxMutexesHeld[t] = @ + 1]
           k1 == IF q \in Mutexes THEN kh ELSE kernel
           e  == xTasksWaitingToSend(q)
<1>2. q \in Queues /\ e \in EventLists /\ ThreadsInv /\ {"take", "takeRecursive"} \subseteq QueueOps
  BY AttemptingOK, EventListsOf DEF IInv, Allowed, Queues, QueueOps
<1>3. CASE CannotYet(t, c)
  BY <1>2, <1>3, CannotYetOnTime
<1>4. CASE \E b : Return(t, YieldIf(b, WakeFirst(k1, e)))
  <2>1. Good(kh) /\ Calm(kernel, kh)
    BY HeldCalm
  <2> HIDE DEF kh
  <2>2. Good(k1) /\ Calm(kernel, k1)
    BY <2>1, CalmNot
  <2>3. PICK b : Return(t, YieldIf(b, WakeFirst(k1, e)))
    BY <1>4
  <2> HIDE DEF k1, e
  <2> QED BY <1>2, <2>2, <2>3, DoneOnTime
<1> QED BY <1>1, <1>3, <1>4

LEMMA OtherCallsOnTime ==
  ASSUME OnTime, IInv, Good(kernel), NEW t \in Tasks,
         \/ xQueueTakeMutexRecursive(t) \/ xQueueGiveMutexRecursive(t) \/ xQueueGenericReset(t)
  PROVE  OnTime'
<1>0. ThreadsInv
  BY DEF IInv
<1>1. CASE xQueueTakeMutexRecursive(t) \/ xQueueGiveMutexRecursive(t)
  <2>1. PICK op \in {"takeRecursive", "giveRecursive"} : \E c \in CallsOf(t, op) :
          /\ kernel' = kernel
          /\ \/ Return(t, kernel)
             \/ thread' = [thread EXCEPT ![t] = Calling([c EXCEPT !.op = "give"], "attempt")]
    BY <1>1 DEF xQueueTakeMutexRecursive, xQueueGiveMutexRecursive, Return, Proceed
  <2>2. PICK c \in CallsOf(t, op) :
          /\ kernel' = kernel
          /\ \/ Return(t, kernel)
             \/ thread' = [thread EXCEPT ![t] = Calling([c EXCEPT !.op = "give"], "attempt")]
    BY <2>1
  <2>3. /\ t \in AllTasks /\ t = kernel.pxCurrentTCB /\ Allowed(c)
        /\ thread[t].at = "user" /\ thread[t].at \notin Insides /\ kernel.uxSchedulerSuspended = 0
    BY <1>0, CallerIs
  <2>4. Calm(kernel, kernel') /\ thread[t].at # "yield" /\ ~(kernel.uxSchedulerSuspended > 0)
    BY <2>2, <2>3, CalmNot
  <2>5. CASE Return(t, kernel)
    BY <1>0, <2>3, <2>4, <2>5, ReturnOnTime
  <2>6. CASE thread' = [thread EXCEPT ![t] = Calling([c EXCEPT !.op = "give"], "attempt")]
    <3> DEFINE g  == [c EXCEPT !.op = "give"]
               th == Calling(g, "attempt")
    <3>1. g.op = "give" /\ "give" \in QueueOps
      BY <2>3 DEF Allowed, QueueOps
    <3> HIDE DEF g
    <3>2. Fine(t, th, kernel)
      BY <3>1, CallingFine
    <3>3. th.at = "attempt" /\ "attempt" \notin Insides
      BY DEF Calling, UserThread, Insides
    <3>4. thread' = [thread EXCEPT ![t] = th]
      BY <2>6 DEF g
    <3> HIDE DEF th
    <3> QED BY <1>0, <2>3, <2>4, <3>2, <3>3, <3>4, OutsideStep
  <2> QED BY <2>2, <2>5, <2>6
<1>2. CASE xQueueGenericReset(t)
  <2>1. PICK c \in CallsOf(t, "reset") :
          \E b : Return(t, YieldIf(b, WakeFirst(kernel, xTasksWaitingToSend(c.on))))
    BY <1>2 DEF xQueueGenericReset
  <2>2. xTasksWaitingToSend(c.on) \in EventLists
    BY CallsOfOK, EventListsOf DEF IInv, Allowed, Queues
  <2>3. PICK b : Return(t, YieldIf(b, WakeFirst(kernel, xTasksWaitingToSend(c.on))))
    BY <2>1
  <2> DEFINE k1 == YieldIf(b, WakeFirst(kernel, xTasksWaitingToSend(c.on)))
  <2>4. Calm(kernel, k1)
    BY <2>2, WakeAndYieldCalm
  <2>5. kernel' = k1 /\ Return(t, k1)
    BY <2>3 DEF Return, Proceed
  <2> HIDE DEF k1
  <2>6. /\ t \in AllTasks /\ t = kernel.pxCurrentTCB
        /\ thread[t].at = "user" /\ thread[t].at \notin Insides
    BY <1>0, CallerIs
  <2> QED BY <1>0, <2>4, <2>5, <2>6, ReturnOnTime
<1> QED BY <1>1, <1>2

\* the waiting task looks at its wait
LEMMA CheckOnTime ==
  ASSUME OnTime, IInv, Good(kernel), NEW t \in Tasks, xTaskCheckForTimeOut(t) PROVE OnTime'
<1> DEFINE old     == thread[t]
           wait    == old.call.wait
           elapsed == (kernel.xTickCount - old.since) % TickRange
           expired == TimeOutExpired(old.since, old.overflows, wait,
                                     kernel.xTickCount, kernel.xNumOfOverflows)
           next    == IF old.call.op = "send" THEN "user" ELSE "recheck"
           tha     == [old EXCEPT !.at = "poll"]
           thb     == [old EXCEPT !.at = "unlockTx", !.call.wait = 0, !.yields = FALSE, !.next = next]
           thc     == [old EXCEPT !.at = "poll", !.call.wait = wait - elapsed,
                                  !.since = kernel.xTickCount, !.overflows = kernel.xNumOfOverflows]
           th      == IF wait = portMAX_DELAY THEN tha ELSE IF expired THEN thb ELSE thc
<1>1. At(t, "check") /\ kernel' = kernel /\ thread' = [thread EXCEPT ![t] = th]
  BY DEF xTaskCheckForTimeOut, Proceed
<1>2. t \in AllTasks /\ ThreadsInv /\ Calm(kernel, kernel')
  BY <1>1, TasksInAll, CalmNot DEF IInv
<1>3. /\ t = kernel.pxCurrentTCB /\ old.at = "check" /\ Fine(t, old, kernel) /\ CallOK(old)
      /\ ThreadOK(old)
  BY <1>1, <1>2, AtIs
<1>4. DOMAIN old = {"at", "call", "next", "yields", "timed", "since", "overflows", "due", "inherited"}
      /\ DOMAIN old.call = {"op", "on", "wait", "arg", "how"} /\ wait \in Ticks /\ old.since \in Int
  BY <1>3 DEF ThreadOK, Allowed
<1>5. old.at \in Insides /\ ~Settled(old)
  BY <1>3 DEF Insides, Settled
<1>6. /\ wait > 0 /\ old.call.op \in QueueOps /\ old.due \in Int
      /\ old.timed => wait < portMAX_DELAY
  BY <1>3 DEF CallOK
<1>7. /\ kernel.xTickCount \in 0 .. TickRange - 1 /\ TickRange \in Nat \ {0, 1}
      /\ TickRange \in Nat \ {0} /\ kernel.xTickCount \in Ticks /\ kernel.xTickCount \in Int
      /\ kernel.xNumOfOverflows \in 0 .. OverflowRange - 1
  BY CountTypes DEF OnTime, Timely, Ticks
<1>8. wait \in 0 .. TickRange - 1 /\ wait \in Int
  <2> HIDE DEF wait
  <2> QED BY <1>4, <1>7 DEF Ticks
<1>9. Slept(t, old, kernel) /\ Counted(old, kernel)
  BY <1>3 DEF Fine
<1> HIDE DEF expired, elapsed
<1>10. CASE wait = portMAX_DELAY
  <2>1. th = tha
    BY <1>10
  <2> HIDE DEF th
  <2>2. ~old.timed
    <3>1. ~(portMAX_DELAY < portMAX_DELAY)
      BY <1>7 DEF portMAX_DELAY
    <3> QED BY <1>6, <1>10, <3>1
  <2>3. tha.at = "poll" /\ \A f \in DOMAIN old \ {"at"} : tha[f] = old[f]
    BY <1>4
  <2> HIDE DEF tha, old
  <2>4. CallOK(tha)
    BY <1>3, <1>4, <1>6, <2>2, <2>3 DEF CallOK
  <2>5. Fine(t, tha, kernel)
    BY <1>3, <1>4, <2>3, <2>4, FineLike
  <2>6. tha.at \in Insides
    BY <2>3 DEF Insides
  <2> QED BY <1>1, <1>2, <1>3, <1>5, <2>1, <2>5, <2>6, InsideStep DEF old
<1>11. CASE wait # portMAX_DELAY /\ expired
  <2>1. th = thb
    BY <1>11
  <2> HIDE DEF th
  <2>2. /\ thb.at = "unlockTx" /\ thb.next = next /\ thb.yields = FALSE
        /\ thb.call.wait = 0 /\ thb.call.op = old.call.op
        /\ \A f \in {"timed", "since", "overflows", "due"} : thb[f] = old[f]
    BY <1>4
  <2> HIDE DEF thb
  <2>3. CallOK(thb)
    <3>1. next \in {"user", "recheck"}
      OBVIOUS
    <3>2. 0 < portMAX_DELAY
      BY <1>7 DEF portMAX_DELAY
    <3> HIDE DEF old, next
    <3> QED BY <1>3, <1>6, <2>2, <3>1, <3>2 DEF CallOK
  <2>4. Counted(thb, kernel) /\ Slept(t, thb, kernel)
    <3>1. ~(thb.call.wait > 0)
      BY <2>2
    <3> HIDE DEF old, next
    <3> QED BY <1>9, <2>2, <3>1 DEF Counted, Slept
  <2>5. Fine(t, thb, kernel) /\ thb.at \in Insides
    BY <2>2, <2>3, <2>4 DEF Fine, Insides
  <2> HIDE DEF old
  <2> QED BY <1>1, <1>2, <1>3, <1>5, <2>1, <2>5, InsideStep DEF old
<1>12. CASE wait # portMAX_DELAY /\ ~expired
  <2>1. th = thc
    BY <1>12
  <2> HIDE DEF th
  <2>2. /\ thc.at = "poll" /\ thc.next = old.next /\ thc.yields = old.yields
        /\ thc.call.wait = wait - elapsed /\ thc.call.op = old.call.op
        /\ thc.timed = old.timed /\ thc.due = old.due
        /\ thc.since = kernel.xTickCount /\ thc.overflows = kernel.xNumOfOverflows
    BY <1>4
  <2> HIDE DEF thc, old, wait
  <2>3. elapsed \in Nat /\ elapsed < wait
    <3>1. ~(elapsed >= wait)
      BY <1>12 DEF expired, TimeOutExpired, elapsed, wait
    <3>2. elapsed \in Nat
      <4>1. kernel.xTickCount - old.since \in Int
        BY <1>4, <1>7
      <4>2. elapsed \in Ticks
        BY <4>1, TickCount DEF elapsed
      <4> QED BY <4>2, Bounds
    <3> QED BY <1>8, <3>1, <3>2
  <2>4. wait - elapsed > 0 /\ wait - elapsed \in Int /\ wait - elapsed <= wait
    BY <1>8, <2>3
  <2>5. old.timed /\ old.due > -MaxLate => wait - elapsed = old.due
    <3> SUFFICES ASSUME old.timed, old.due > -MaxLate PROVE wait - elapsed = old.due
      OBVIOUS
    <3> DEFINE e == wait - old.due
    <3>1. e \in Ticks /\ kernel.xTickCount = (old.since + e) % TickRange
      BY <1>6, <1>9 DEF Counted, wait
    <3>2. old.since \in Ticks
      BY <1>3 DEF CallOK
    <3> HIDE DEF e
    <3>3. e \in 0 .. TickRange - 1 /\ old.since \in 0 .. TickRange - 1
      BY <3>1, <3>2 DEF Ticks
    <3> DEFINE b == kernel.xTickCount
               a == old.since
    <3>4. (b - a) % TickRange = e
      <4>1. TickRange \in Nat \ {0} /\ b \in 0 .. TickRange - 1
        BY <1>7
      <4>2. a \in 0 .. TickRange - 1 /\ e \in 0 .. TickRange - 1 /\ b = (a + e) % TickRange
        BY <3>1, <3>3
      <4> HIDE DEF a, b
      <4> QED BY <4>1, <4>2, SpanIs
    <3>5. elapsed = e
      BY <3>4 DEF elapsed
    <3>6. wait - (wait - old.due) = old.due
      BY <1>6, <1>8
    <3> QED BY <3>5, <3>6 DEF e
  <2>6. wait < portMAX_DELAY => wait - elapsed < portMAX_DELAY
    BY <1>7, <1>8, <2>4 DEF portMAX_DELAY
  <2>7. CallOK(thc)
    BY <1>3, <1>6, <1>7, <2>2, <2>4, <2>5, <2>6 DEF CallOK, wait
  <2>8. Counted(thc, kernel)
    <3>1. /\ 0 \in Ticks /\ kernel.xTickCount + 0 = kernel.xTickCount
          /\ kernel.xTickCount = kernel.xTickCount % TickRange /\ kernel.xTickCount < TickRange
      <4>1. kernel.xTickCount = kernel.xTickCount % TickRange
        BY <1>7, SMT
      <4> QED BY <1>7, <4>1, Bounds
    <3>2. old.timed /\ old.due > -MaxLate => thc.call.wait - thc.due = 0
      BY <1>6, <2>2, <2>5
    <3> QED BY <2>2, <3>1, <3>2 DEF Counted
  <2>9. Slept(t, thc, kernel)
    BY <1>9, <2>2 DEF Slept
  <2>10. Fine(t, thc, kernel) /\ thc.at \in Insides
    BY <2>2, <2>7, <2>8, <2>9 DEF Fine, Insides
  <2> QED BY <1>1, <1>2, <1>3, <1>5, <2>1, <2>10, InsideStep DEF old
<1> QED BY <1>10, <1>11, <1>12

\* a call to a queue goes on, and its wait is not touched
LEMMA MovedFine ==
  ASSUME NEW t, NEW th, NEW k, Fine(t, th, k), NEW th1,
         \A f \in {"call", "timed", "since", "overflows", "due"} : th1[f] = th[f],
         th1.next = th.next \/ (th1.next = "attempt" /\ th.call.op \in QueueOps),
         th1.at \in {"lock", "check", "inherit", "place", "unlockTx", "unlockRx", "resume",
                     "attempt", "disinherit"},
         th1.at \in {"lock", "check", "inherit", "place", "attempt"} => th.call.op \in QueueOps,
         th1.at \in {"lock", "check", "inherit", "place"} => th.call.wait > 0,
         th1.at \in {"inherit", "place"} => th.at \in {"poll", "inherit"}
  PROVE  Fine(t, th1, k)
<1>1. CallOK(th1)
  BY DEF Fine, CallOK
<1> QED BY <1>1, FineLike

\* the steps of a call that leave the kernel as it is or touch its tasks
\* without touching the time
LEMMA QueueInside ==
  ASSUME OnTime, IInv, Good(kernel), Calm(kernel, kernel'), NEW t \in Tasks,
         NEW where \in {"lock", "poll", "inherit", "unlockTx", "unlockRx"}, At(t, where),
         NEW th, thread' = [thread EXCEPT ![t] = th],
         \A f \in {"call", "timed", "since", "overflows", "due"} : th[f] = thread[t][f],
         th.next = thread[t].next \/ (th.next = "attempt" /\ where = "poll"),
         \/ where = "lock" /\ th.at = "check"
         \/ where = "poll" /\ th.at \in {"inherit", "place", "unlockTx"}
         \/ where = "inherit" /\ th.at = "place"
         \/ where = "unlockTx" /\ th.at = "unlockRx" /\ th.yields = thread[t].yields
         \/ where = "unlockRx" /\ th.at = "resume" /\ th.yields = thread[t].yields
  PROVE  OnTime'
<1>1. t \in AllTasks /\ ThreadsInv
  BY TasksInAll DEF IInv
<1>2. /\ t = kernel.pxCurrentTCB /\ thread[t].at = where /\ Fine(t, thread[t], kernel)
      /\ CallOK(thread[t])
  BY <1>1, AtIs
<1>3. Fine(t, th, kernel)
  BY <1>2, MovedFine DEF CallOK
<1>4. thread[t].at \in Insides /\ th.at \in Insides
  BY <1>2 DEF Insides
<1>5. Settled(thread[t]) => Settled(th)
  BY <1>2 DEF Settled
<1> QED BY <1>1, <1>2, <1>3, <1>4, <1>5, InsideStep

LEMMA LockOnTime ==
  ASSUME OnTime, IInv, Good(kernel), NEW t \in Tasks,
         prvLockQueue(t) \/ PollQueue(t) \/ InheritPriority(t) \/ UnlockTx(t) \/ UnlockRx(t)
  PROVE  OnTime'
<1> DEFINE q == thread[t].call.on
<1>0. q \in Queues
  BY CalledQueue DEF IInv, QueueStep
<1>1. DOMAIN thread[t] = {"at", "call", "next", "yields", "timed", "since", "overflows", "due",
                          "inherited"}
  BY TasksInAll DEF IInv, ThreadsInv, ThreadOK
<1>2. CASE prvLockQueue(t)
  <2> DEFINE th == [thread[t] EXCEPT !.at = "check"]
  <2>1. At(t, "lock") /\ kernel' = kernel /\ thread' = [thread EXCEPT ![t] = th]
    BY <1>2 DEF prvLockQueue, Proceed
  <2>2. th.at = "check" /\ \A f \in DOMAIN thread[t] \ {"at"} : th[f] = thread[t][f]
    BY <1>1
  <2> HIDE DEF th
  <2>3. /\ \A f \in {"call", "timed", "since", "overflows", "due"} : th[f] = thread[t][f]
        /\ th.next = thread[t].next
    BY <1>1, <2>2
  <2>4. Calm(kernel, kernel')
    BY <2>1, CalmNot
  <2> QED BY <2>1, <2>2, <2>3, <2>4, QueueInside
<1>3. CASE PollQueue(t)
  <2>1. PICK where \in {"inherit", "place", "unlockTx"} :
          /\ At(t, "poll") /\ kernel' = kernel
          /\ \/ thread' = [thread EXCEPT ![t] = [thread[t] EXCEPT !.at = where]]
             \/ thread' = [thread EXCEPT ![t] =
                             [thread[t] EXCEPT !.at = "unlockTx", !.next = "attempt", !.yields = FALSE]]
    BY <1>3 DEF PollQueue, Proceed
  <2> DEFINE tha == [thread[t] EXCEPT !.at = where]
             thb == [thread[t] EXCEPT !.at = "unlockTx", !.next = "attempt", !.yields = FALSE]
  <2>2. Calm(kernel, kernel')
    BY <2>1, CalmNot
  <2>3. tha.at = where /\ \A f \in DOMAIN thread[t] \ {"at"} : tha[f] = thread[t][f]
    BY <1>1
  <2>4. /\ thb.at = "unlockTx" /\ thb.next = "attempt"
        /\ \A f \in {"call", "timed", "since", "overflows", "due"} : thb[f] = thread[t][f]
    BY <1>1
  <2>5. thread' = [thread EXCEPT ![t] = tha] \/ thread' = [thread EXCEPT ![t] = thb]
    BY <2>1
  <2> HIDE DEF tha, thb
  <2>6. /\ \A f \in {"call", "timed", "since", "overflows", "due"} : tha[f] = thread[t][f]
        /\ tha.next = thread[t].next
    BY <1>1, <2>3
  <2>7. CASE thread' = [thread EXCEPT ![t] = tha]
    BY <2>1, <2>2, <2>3, <2>6, <2>7, QueueInside
  <2>8. CASE thread' = [thread EXCEPT ![t] = thb]
    BY <2>1, <2>2, <2>4, <2>8, QueueInside
  <2> QED BY <2>5, <2>7, <2>8
<1>4. CASE InheritPriority(t)
  <2> DEFINE k1 == xTaskPriorityInherit(kernel, Holder(q))
  <2>1. PICK inherited :
          /\ At(t, "inherit") /\ kernel' = k1
          /\ thread' = [thread EXCEPT ![t] =
                          [thread[t] EXCEPT !.at = "place", !.inherited = inherited]]
    BY <1>4 DEF InheritPriority, Proceed
  <2> DEFINE th == [thread[t] EXCEPT !.at = "place", !.inherited = inherited]
  <2>2. Calm(kernel, kernel')
    BY <1>0, <2>1, HolderOf, InheritCalm
  <2>3. /\ th.at = "place" /\ th.next = thread[t].next
        /\ \A f \in {"call", "timed", "since", "overflows", "due"} : th[f] = thread[t][f]
    BY <1>1
  <2>4. At(t, "inherit") /\ thread' = [thread EXCEPT ![t] = th]
    BY <2>1
  <2> HIDE DEF th
  <2> QED BY <2>2, <2>3, <2>4, QueueInside
<1>5. CASE UnlockTx(t) \/ UnlockRx(t)
  <2> DEFINE th(where) == [thread[t] EXCEPT !.at = where]
  <2>1. PICK e \in {xTasksWaitingToSend(q), xTasksWaitingToReceive(q)},
             done \in {queue[q].cTxLock, queue[q].cRxLock} :
          /\ kernel' = WakeLocked(kernel, e, done)
          /\ \/ At(t, "unlockTx") /\ thread' = [thread EXCEPT ![t] = th("unlockRx")]
             \/ At(t, "unlockRx") /\ thread' = [thread EXCEPT ![t] = th("resume")]
    <3>1. CASE UnlockTx(t)
      <4>1. /\ At(t, "unlockTx") /\ thread' = [thread EXCEPT ![t] = th("unlockRx")]
            /\ kernel' = WakeLocked(kernel, xTasksWaitingToReceive(q), queue[q].cTxLock)
        BY <3>1 DEF UnlockTx, Proceed
      <4> HIDE DEF th, q
      <4> QED BY <4>1
    <3>2. CASE UnlockRx(t)
      <4>1. /\ At(t, "unlockRx") /\ thread' = [thread EXCEPT ![t] = th("resume")]
            /\ kernel' = WakeLocked(kernel, xTasksWaitingToSend(q), queue[q].cRxLock)
        BY <3>2 DEF UnlockRx, Proceed
      <4> HIDE DEF th, q
      <4> QED BY <4>1
    <3> QED BY <1>5, <3>1, <3>2
  <2>2. done \in Int /\ e \in EventLists
    BY <1>0, <2>1, QueueTypes, EventListsOf DEF IInv
  <2>3. Calm(kernel, kernel')
    BY <2>1, <2>2, WakeLockedCalm
  <2>4. ASSUME NEW where
        PROVE  /\ th(where).at = where /\ th(where).next = thread[t].next
               /\ th(where).yields = thread[t].yields
               /\ \A f \in {"call", "timed", "since", "overflows", "due"} : th(where)[f] = thread[t][f]
    BY <1>1
  <2> HIDE DEF th
  <2>5. CASE At(t, "unlockTx") /\ thread' = [thread EXCEPT ![t] = th("unlockRx")]
    <3> DEFINE new == th("unlockRx")
    <3>1. /\ new.at = "unlockRx" /\ new.next = thread[t].next /\ new.yields = thread[t].yields
          /\ \A f \in {"call", "timed", "since", "overflows", "due"} : new[f] = thread[t][f]
      BY <2>4
    <3>2. At(t, "unlockTx") /\ thread' = [thread EXCEPT ![t] = new]
      BY <2>5
    <3> HIDE DEF new
    <3> QED BY <2>3, <3>1, <3>2, QueueInside
  <2>6. CASE At(t, "unlockRx") /\ thread' = [thread EXCEPT ![t] = th("resume")]
    <3> DEFINE new == th("resume")
    <3>1. /\ new.at = "resume" /\ new.next = thread[t].next /\ new.yields = thread[t].yields
          /\ \A f \in {"call", "timed", "since", "overflows", "due"} : new[f] = thread[t][f]
      BY <2>4
    <3>2. At(t, "unlockRx") /\ thread' = [thread EXCEPT ![t] = new]
      BY <2>6
    <3> HIDE DEF new
    <3> QED BY <2>3, <3>1, <3>2, QueueInside
  <2> QED BY <2>1, <2>5, <2>6
<1> QED BY <1>2, <1>3, <1>4, <1>5

LEMMA SuspendOnTime ==
  ASSUME OnTime, IInv, Good(kernel), NEW t \in Tasks, SuspendToWait(t) PROVE OnTime'
<1> DEFINE th == [thread[t] EXCEPT !.at = "lock"]
<1>1. At(t, "suspend") /\ kernel' = vTaskSuspendAll(kernel) /\ thread' = [thread EXCEPT ![t] = th]
  BY DEF SuspendToWait, Proceed
<1>2. t \in AllTasks /\ ThreadsInv
  BY TasksInAll DEF IInv
<1>3. /\ t = kernel.pxCurrentTCB /\ thread[t].at = "suspend" /\ Fine(t, thread[t], kernel)
      /\ kernel.uxSchedulerSuspended = 0 /\ CallOK(thread[t]) /\ ThreadOK(thread[t])
  BY <1>1, <1>2, AtIs DEF Insides
<1>4. DOMAIN thread[t] = {"at", "call", "next", "yields", "timed", "since", "overflows", "due",
                          "inherited"}
  BY <1>3 DEF ThreadOK
<1>5. th.at = "lock" /\ \A f \in DOMAIN thread[t] \ {"at"} : th[f] = thread[t][f]
  BY <1>4
<1> HIDE DEF th
<1>6. /\ \A f \in {"call", "timed", "since", "overflows", "due"} : th[f] = thread[t][f]
      /\ th.next = thread[t].next
  BY <1>4, <1>5
<1>7. Fine(t, th, kernel)
  BY <1>3, <1>5, <1>6, MovedFine DEF CallOK
<1>8. thread[t].at \notin Insides /\ ~Settled(thread[t]) /\ th.at \in Insides
  BY <1>3, <1>5 DEF Insides, Settled
<1> QED BY <1>1, <1>2, <1>3, <1>7, <1>8, SuspendStep

LEMMA PlaceOnTime ==
  ASSUME OnTime, IInv, Good(kernel), NEW t \in Tasks, PlaceOnEventList(t) PROVE OnTime'
<1> DEFINE q    == thread[t].call.on
           wait == thread[t].call.wait
           th   == [thread[t] EXCEPT !.at = "unlockTx", !.next = "attempt", !.yields = TRUE]
<1>0. q \in Queues
  BY CalledQueue DEF IInv, QueueStep
<1>1. PICK e \in {xTasksWaitingToSend(q), xTasksWaitingToReceive(q)} :
        /\ At(t, "place") /\ kernel' = vTaskPlaceOnEventList(kernel, e, wait)
        /\ thread' = [thread EXCEPT ![t] = th]
  BY DEF PlaceOnEventList, Proceed
<1> DEFINE k1 == vTaskPlaceOnEventList(kernel, e, wait)
<1>2. t \in AllTasks /\ ThreadsInv /\ e \in EventLists /\ Timely(kernel)
  BY <1>0, EventListsOf, TasksInAll DEF IInv, OnTime
<1>3. /\ t = kernel.pxCurrentTCB /\ thread[t].at = "place" /\ Fine(t, thread[t], kernel)
      /\ kernel.uxSchedulerSuspended = 1 /\ CallOK(thread[t]) /\ ThreadOK(thread[t])
  BY <1>1, <1>2, AtIs DEF Insides
<1>4. DOMAIN thread[t] = {"at", "call", "next", "yields", "timed", "since", "overflows", "due",
                          "inherited"} /\ wait \in Ticks
  BY <1>3 DEF ThreadOK, Allowed
<1>5. wait > 0 /\ thread[t].call.op \in QueueOps
  BY <1>3 DEF CallOK
<1>6. wait \in 1 .. TickRange - 1
  BY <1>4, <1>5, RangeAssumption DEF Ticks
<1>7. /\ th.at = "unlockTx" /\ th.next = "attempt" /\ th.yields = TRUE
      /\ \A f \in {"call", "timed", "since", "overflows", "due"} : th[f] = thread[t][f]
  BY <1>4
<1>8. thread' = [thread EXCEPT ![t] = th] /\ kernel' = k1
  BY <1>1
<1> HIDE DEF th, wait
<1>9. Good(k1) /\ Sleeps(kernel, k1, t, wait)
  BY <1>2, <1>3, <1>6, PlaceSleeps
<1> HIDE DEF k1
<1>10. Calm(k1, kernel')
  BY <1>8, CalmNot
<1>11. Fine(t, th, kernel)
  BY <1>3, <1>5, <1>7, MovedFine
<1>12. CallOK(th) /\ Counted(th, kernel)
  BY <1>11 DEF Fine
<1>13. th.timed /\ th.due > -MaxLate => th.due = wait
  BY <1>3, <1>7 DEF CallOK, wait
<1>14. Settled(th) /\ th.at \in Insides
  BY <1>7 DEF Settled, Insides
<1> QED BY <1>2, <1>3, <1>8, <1>9, <1>10, <1>12, <1>13, <1>14, SleepStep

LEMMA GiveUpOnTime ==
  ASSUME OnTime, IInv, Good(kernel), NEW t \in Tasks, RecheckQueue(t) \/ DisinheritAfterTimeout(t)
  PROVE  OnTime'
<1> DEFINE q == thread[t].call.on
<1>0. q \in Queues /\ t \in AllTasks /\ ThreadsInv
  BY CalledQueue, TasksInAll DEF IInv, QueueStep
<1>1. DOMAIN thread[t] = {"at", "call", "next", "yields", "timed", "since", "overflows", "due",
                          "inherited"}
  BY <1>0 DEF ThreadsInv, ThreadOK
<1>2. CASE RecheckQueue(t)
  <2> DEFINE th(where) == [thread[t] EXCEPT !.at = where]
  <2>1. /\ At(t, "recheck") /\ kernel' = kernel
        /\ \/ \E where \in {"attempt", "disinherit"} : thread' = [thread EXCEPT ![t] = th(where)]
           \/ Return(t, kernel)
    BY <1>2 DEF RecheckQueue, Return, Proceed
  <2>2. /\ t = kernel.pxCurrentTCB /\ thread[t].at = "recheck" /\ Fine(t, thread[t], kernel)
        /\ kernel.uxSchedulerSuspended = 0 /\ CallOK(thread[t])
    BY <1>0, <2>1, AtIs DEF Insides
  <2>3. /\ Calm(kernel, kernel') /\ thread[t].at \notin Insides /\ thread[t].at # "yield"
        /\ ~(kernel.uxSchedulerSuspended > 0)
    BY <2>1, <2>2, CalmNot DEF Insides
  <2>4. CASE Return(t, kernel)
    BY <1>0, <2>2, <2>3, <2>4, ReturnOnTime
  <2>5. ASSUME NEW where \in {"attempt", "disinherit"}, thread' = [thread EXCEPT ![t] = th(where)]
        PROVE  OnTime'
    <3>1. /\ th(where).at = where /\ th(where).next = thread[t].next
          /\ \A f \in {"call", "timed", "since", "overflows", "due"} : th(where)[f] = thread[t][f]
      BY <1>1
    <3> HIDE DEF th
    <3>2. Fine(t, th(where), kernel)
      BY <2>2, <3>1, MovedFine DEF CallOK
    <3>3. th(where).at \notin Insides
      BY <3>1 DEF Insides
    <3> QED BY <1>0, <2>2, <2>3, <2>5, <3>2, <3>3, OutsideStep
  <2> QED BY <2>1, <2>4, <2>5
<1>3. CASE DisinheritAfterTimeout(t)
  <2> DEFINE p  == prvGetDisinheritPriorityAfterTimeout(kernel, q)
             k1 == vTaskPriorityDisinheritAfterTimeout(kernel, Holder(q), p)
  <2>1. At(t, "disinherit") /\ Return(t, k1) /\ kernel' = k1
    BY <1>3 DEF DisinheritAfterTimeout, Return, Proceed
  <2>2. Holder(q) \in Tasks \cup {NoTask} /\ p \in Priorities
    BY <1>0, HolderOf, HighestWaiting
  <2> HIDE DEF p
  <2>3. Calm(kernel, k1)
    BY <2>2, DisinheritAfterTimeoutCalm
  <2>4. t = kernel.pxCurrentTCB /\ thread[t].at = "disinherit"
    BY <1>0, <2>1, AtIs
  <2>5. thread[t].at \notin Insides /\ thread[t].at # "yield"
    BY <2>4 DEF Insides
  <2> HIDE DEF k1
  <2> QED BY <1>0, <2>1, <2>3, <2>4, <2>5, ReturnOnTime
<1> QED BY <1>2, <1>3

LEMMA QueueStepOnTime ==
  ASSUME OnTime, IInv, Good(kernel), NEW t \in Tasks, QueueStep(t) PROVE OnTime'
  BY SuspendOnTime, LockOnTime, CheckOnTime, PlaceOnTime, GiveUpOnTime DEF QueueStep

LEMMA QueueInterruptOnTime ==
  ASSUME OnTime, IInv, Good(kernel), xQueueGenericSendFromISR \/ xQueueReceiveFromISR PROVE OnTime'
<1>0. ThreadsInv
  BY DEF IInv
<1>1. PICK c \in Interrupts("sendFromISR") \cup Interrupts("receiveFromISR") : \E r, lock :
        \E e \in {xTasksWaitingToSend(c.on), xTasksWaitingToReceive(c.on)} : InterruptOn(c.on, r, lock, e)
  BY DEF xQueueGenericSendFromISR, xQueueReceiveFromISR
<1>2. PICK r, lock :
        \E e \in {xTasksWaitingToSend(c.on), xTasksWaitingToReceive(c.on)} : InterruptOn(c.on, r, lock, e)
  BY <1>1
<1>3. PICK e \in {xTasksWaitingToSend(c.on), xTasksWaitingToReceive(c.on)} : InterruptOn(c.on, r, lock, e)
  BY <1>2
<1>4. Allowed(c) /\ c.op \in {"sendFromISR", "receiveFromISR"}
  BY <1>0, InterruptsOK
<1>5. c.on \in Queues
  BY <1>4 DEF Allowed, Queues
<1>6. e \in EventLists
  BY <1>5, EventListsOf
<1>7. PICK b : \E k \in {kernel, WakeFirst(kernel, e)} : EndInterrupt(b, k)
  BY <1>3 DEF InterruptOn
<1>8. PICK k \in {kernel, WakeFirst(kernel, e)} : EndInterrupt(b, k)
  BY <1>7
<1>9. Good(k) /\ Calm(kernel, k)
  BY <1>6, CalmNot, WakeFirstCalm, WakeFirstMoves DEF Moves
<1> QED BY <1>0, <1>8, <1>9, EndInterruptCalm, CalmStays

---------------------------------------------------------------------------
(* The times in every step *)

LEMMA NextOnTime ==
  ASSUME MaxLate \in 0 .. 2, MaxPended \in Nat, MaxPended < TickRange,
         IInv, KernelInv, OnTime, Hours, [Next]_vars
  PROVE  OnTime'
<1>0. ThreadsInv /\ Good(kernel)
  BY DEF IInv, KernelInv
<1>1. CASE NextTasks
  <2>1. CASE Tick
    BY <1>0, <2>1, TickOnTime
  <2>2. CASE Interrupt
    BY <1>0, <2>2, InterruptOnTime
  <2>3. CASE IdleStep
    BY <1>0, <2>3, IdleOnTime
  <2>4. ASSUME NEW t \in AllTasks, Call(t) PROVE OnTime'
    BY <1>0, <2>4, CallOnTime
  <2>5. ASSUME NEW t \in AllTasks, Step(t) PROVE OnTime'
    BY <1>0, <2>5, StepOnTime
  <2> QED BY <1>1, <2>1, <2>2, <2>3, <2>4, <2>5 DEF NextTasks
<1>2. CASE xQueueGenericSendFromISR \/ xQueueReceiveFromISR
  BY <1>0, <1>2, QueueInterruptOnTime
<1>3. ASSUME NEW t \in Tasks, QueueStep(t) PROVE OnTime'
  BY <1>0, <1>3, QueueStepOnTime
<1>4. ASSUME NEW t \in Tasks, QueueCall(t) PROVE OnTime'
  BY <1>0, <1>4, SendOnTime, ReadOnTime, TakeOnTime DEF QueueCall
<1>5. ASSUME NEW t \in Tasks,
             xQueueGenericReset(t) \/ xQueueTakeMutexRecursive(t) \/ xQueueGiveMutexRecursive(t)
      PROVE  OnTime'
  BY <1>0, <1>5, OtherCallsOnTime
<1>6. CASE UNCHANGED vars
  BY <1>6 DEF OnTime, vars, taskVars
<1> QED BY <1>1, <1>2, <1>3, <1>4, <1>5, <1>6 DEF Next

LEMMA HoursStay ==
  ASSUME MaxPended \in Nat, IInv, KernelInv, Hours, [Next]_vars PROVE Hours'
<1>0. Good(kernel) /\ PreviousInv /\ kernel.xPendedTicks \in Nat
  BY TypesOf DEF KernelInv, Types
<1>1. kernel'.xPendedTicks <= MaxPended
  <2>1. CASE Tick
    <3>1. kernel.xPendedTicks < MaxPended /\ kernel'.xPendedTicks \in {kernel.xPendedTicks, kernel.xPendedTicks + 1}
      BY <1>0, <2>1, TickChanges DEF Tick
    <3> QED BY <1>0, <3>1
  <2>2. CASE \E t \in AllTasks : ResumeScheduler(t)
    BY <1>0, <2>2, ResumeChanges DEF Hours
  <2>3. CASE Next /\ ~Tick /\ ~\E t \in AllTasks : ResumeScheduler(t)
    <3>1. kernel'.xPendedTicks = kernel.xPendedTicks
      BY <1>0, <2>3, KernelSteps DEF KernelStep, Keeps, Steady, Lends, Creates, Sets, Gives, Takes
    <3> QED BY <3>1 DEF Hours
  <2>4. CASE UNCHANGED vars
    BY <2>4 DEF Hours, vars, taskVars
  <2> QED BY <2>1, <2>2, <2>3, <2>4
<1>2. (xPreviousWakeTime \in [Tasks -> Ticks])'
  <2>1. CASE UNCHANGED xPreviousWakeTime
    BY <2>1 DEF Hours
  <2>2. ASSUME NEW t \in AllTasks, xTaskDelayUntil(t) PROVE xPreviousWakeTime' \in [Tasks -> Ticks]
    <3>1. xPreviousWakeTime' =
            [xPreviousWakeTime EXCEPT ![t] = (xPreviousWakeTime[t] + thread[t].call.wait) % TickRange]
      BY <2>2 DEF xTaskDelayUntil
    <3>2. t \in Tasks /\ ThreadOK(thread[t])
      BY <2>2, AtTask DEF xTaskDelayUntil, IInv, ThreadsInv
    <3>3. xPreviousWakeTime[t] + thread[t].call.wait \in Int
      <4>1. thread[t].call.wait \in Int
        BY <3>2, WaitIsInt DEF ThreadOK
      <4> QED BY <1>0, <3>2, <4>1 DEF PreviousInv
    <3>4. (xPreviousWakeTime[t] + thread[t].call.wait) % TickRange \in Ticks
      BY <3>3, TickCount
    <3> QED BY <3>1, <3>4 DEF Hours
  <2>3. CASE UNCHANGED vars
    BY <2>1, <2>3 DEF vars, taskVars
  <2> QED BY <2>1, <2>2, <2>3, ClockSteps
<1> QED BY <1>1, <1>2 DEF Hours

LEMMA InitOnTime == ASSUME MaxPended \in Nat, Init PROVE OnTime /\ Hours
<1>1. Good(kernel) /\ Begins(kernel)
  BY InitKernel DEF KernelInv
<1>2. /\ kernel.pxDelayedTaskList = <<>> /\ kernel.pxOverflowDelayedTaskList = <<>>
      /\ kernel.xNumOfOverflows = 0 /\ kernel.uxSchedulerSuspended = 0 /\ kernel.xPendedTicks = 0
  BY <1>1 DEF Begins
<1>3. \A x : ~Contains(<<>>, x)
  BY DEF Contains
<1>4. Timely(kernel)
  <2>1. 0 \in 0 .. OverflowRange - 1
    BY RangeAssumption
  <2>2. InOrder(kernel)
    BY <1>2, <1>3 DEF InOrder, Ordered
  <2> QED BY <1>2, <1>3, <2>1, <2>2 DEF Timely
<1>5. ASSUME NEW t \in AllTasks PROVE InPlace(t, thread[t], kernel) /\ Fine(t, thread[t], kernel)
  <2>1. thread[t] = UserThread /\ ~IsSleeping(kernel, t)
    BY <1>2, <1>3 DEF Init, InitTasks, IsSleeping
  <2>2. UserThread.at = "user" /\ "user" \notin Insides
    BY DEF UserThread, Insides
  <2> QED BY <1>2, <2>1, <2>2, UserFine DEF InPlace
<1>6. Hours
  <2>1. 0 \in Ticks
    BY Bounds
  <2> QED BY <1>2, <2>1 DEF Init, InitTasks, Hours
<1> QED BY <1>2, <1>4, <1>5, <1>6 DEF OnTime

LEMMA OnTimeIsExact == ASSUME Good(kernel), OnTime PROVE SleepsExactly
<1> SUFFICES ASSUME NEW t \in Tasks,
                    thread[t].timed, IsSleeping(kernel, t), thread[t].due > -MaxLate
             PROVE  LET due  == thread[t].due
                        wake == kernel.xTickCount + due
                    IN  /\ due > 0
                        /\ kernel.xWakeTime[t] = wake % TickRange
                        /\ IF wake >= TickRange THEN Contains(kernel.pxOverflowDelayedTaskList, t)
                           ELSE /\ Contains(kernel.pxDelayedTaskList, t)
                                /\ kernel.xNextTaskUnblockTime <= wake
  BY DEF SleepsExactly
<1> DEFINE due == thread[t].due  W == kernel.xWakeTime[t]  T == kernel.xTickCount
<1>1. due = Left(kernel, t) /\ Timely(kernel)
  BY TasksInAll DEF OnTime, Fine, Slept
<1>2. W \in Ticks /\ W \in Int
  BY Sleepers
<1>3. T \in 0 .. TickRange - 1 /\ TickRange \in Nat \ {0, 1}
  BY CountTypes
<1>4. W \in 0 .. TickRange - 1
  BY <1>2 DEF Ticks
<1>5. CASE Contains(kernel.pxDelayedTaskList, t)
  <2>1. due = W - T /\ W > T /\ kernel.xNextTaskUnblockTime <= W
    BY <1>1, <1>5 DEF Left, Timely, InOrder
  <2> HIDE DEF due, W, T
  <2>2. due > 0 /\ T + due = W /\ ~(W >= TickRange) /\ W = W % TickRange
    BY <1>3, <1>4, <2>1, SMT
  <2> QED BY <1>5, <2>1, <2>2 DEF due, W, T
<1>6. CASE ~Contains(kernel.pxDelayedTaskList, t)
  <2>0. Contains(kernel.pxOverflowDelayedTaskList, t)
    BY <1>6 DEF IsSleeping
  <2>1. due = W + TickRange - T /\ W < T
    BY <1>1, <1>6, <2>0 DEF Left, Timely
  <2> HIDE DEF due, W, T
  <2>2. due > 0 /\ T + due = W + TickRange /\ W + TickRange >= TickRange
    BY <1>3, <1>4, <2>1
  <2>3. (W + TickRange) % TickRange = W
    BY <1>3, <1>4, SMT
  <2> QED BY <2>0, <2>2, <2>3 DEF due, W, T
<1> QED BY <1>5, <1>6

\* A task that sleeps for a time wakes when exactly that time has passed,
\* wherever the tick count wraps and however many ticks were pending, for all
\* tasks, queues, calls and interrupts, as long as fewer ticks are pending at
\* once than the tick count can tell apart.
THEOREM SleepersWakeOnTime ==
  ASSUME MaxLate \in 0 .. 2, MaxPended \in Nat, MaxPended < TickRange
  PROVE  Spec => []SleepsExactly
<1>1. Init => OnTime /\ Hours
  BY InitOnTime
<1>2. IInv /\ KernelInv /\ OnTime /\ Hours /\ [Next]_vars => (OnTime /\ Hours)'
  BY NextOnTime, HoursStay
<1>3. IInv /\ KernelInv /\ OnTime => SleepsExactly
  BY OnTimeIsExact DEF KernelInv
<1> QED BY <1>1, <1>2, <1>3, Invariance, PTL DEF Spec

LEMMA ChecksExactly ==
  ASSUME OnTime, IInv, Good(kernel), NEW t \in Tasks, xTaskCheckForTimeOut(t) PROVE CallTimesOut(t)
<1> DEFINE old     == thread[t]
           wait    == old.call.wait
           e       == wait - old.due
           expired == TimeOutExpired(old.since, old.overflows, wait,
                                     kernel.xTickCount, kernel.xNumOfOverflows)
<1> SUFFICES ASSUME old.timed, old.due > -MaxLate
             PROVE  old.due <= 0 <=> thread'[t].at = "unlockTx"
  BY DEF CallTimesOut
<1>1. At(t, "check") /\ t \in AllTasks /\ ThreadsInv
  BY TasksInAll DEF xTaskCheckForTimeOut, IInv
<1>2. Fine(t, old, kernel) /\ CallOK(old) /\ ThreadOK(old) /\ old.at = "check"
  BY <1>1, AtIs
<1>3. /\ DOMAIN old = {"at", "call", "next", "yields", "timed", "since", "overflows", "due", "inherited"}
      /\ wait \in Ticks
  BY <1>2 DEF ThreadOK, Allowed
<1>4. /\ wait > 0 /\ old.call.op \in QueueOps /\ old.due \in Int /\ wait < portMAX_DELAY
      /\ old.since \in Ticks /\ old.overflows \in 0 .. OverflowRange - 1
  BY <1>2 DEF CallOK
<1>5. /\ e \in Ticks /\ kernel.xTickCount = (old.since + e) % TickRange
      /\ kernel.xNumOfOverflows = IF old.since + e < TickRange THEN old.overflows
                                  ELSE (old.overflows + 1) % OverflowRange
  BY <1>2, <1>4 DEF Fine, Counted
<1>6. wait # portMAX_DELAY
  BY <1>4, RangeAssumption DEF portMAX_DELAY
<1>7. thread'[t].at = IF expired THEN "unlockTx" ELSE "poll"
  <2> DEFINE elapsed == (kernel.xTickCount - old.since) % TickRange
             next == IF old.call.op = "send" THEN "user" ELSE "recheck"
             tha  == [old EXCEPT !.at = "unlockTx", !.call.wait = 0, !.yields = FALSE, !.next = next]
             thb  == [old EXCEPT !.at = "poll", !.call.wait = wait - elapsed,
                                 !.since = kernel.xTickCount, !.overflows = kernel.xNumOfOverflows]
             th   == IF wait = portMAX_DELAY THEN [old EXCEPT !.at = "poll"]
                     ELSE IF expired THEN tha ELSE thb
  <2>1. thread' = [thread EXCEPT ![t] = th]
    BY DEF xTaskCheckForTimeOut, Proceed
  <2>2. tha.at = "unlockTx" /\ thb.at = "poll"
    BY <1>3
  <2>3. thread'[t] = IF expired THEN tha ELSE thb
    <3>1. th = IF expired THEN tha ELSE thb
      BY <1>6
    <3> HIDE DEF th, tha, thb, expired, old
    <3> QED BY <1>1, <2>1, <3>1 DEF ThreadsInv
  <2> QED BY <2>2, <2>3
<1> HIDE DEF old, wait, e
<1>8. expired <=> e >= wait
  BY <1>3, <1>4, <1>5, TimeOutIsExact
<1>9. e >= wait <=> old.due <= 0
  <2>1. wait \in Int
    BY <1>3, Bounds
  <2> QED BY <1>4, <2>1 DEF e
<1> QED BY <1>7, <1>8, <1>9 DEF old

\* nobody else takes a task from there
LEMMA OnlyCheck ==
  ASSUME OnTime, ThreadsInv, [Next]_vars, NEW t \in Tasks,
         thread[t].at = "check", thread'[t].at # "check"
  PROVE  xTaskCheckForTimeOut(t)
<1>0. t = kernel.pxCurrentTCB /\ t # Idle /\ t \in AllTasks /\ ThreadOK(thread[t])
  BY TasksInAll, Bounds DEF OnTime, InPlace, Insides, ThreadsInv
<1>1. ASSUME NEW x, NEW where, At(x, where), where # "check" PROVE FALSE
  BY <1>0, <1>1 DEF At, Running
<1>2. ASSUME NEW x, NEW op, CallsOf(x, op) # {} PROVE FALSE
  BY <1>1, <1>2 DEF CallsOf
<1>3. CASE NextTasks
  <2>1. CASE Tick
    <3>1. PICK k1 : thread' = Aged(kernel, k1)
      BY <2>1 DEF Tick
    <3>2. thread'[t].at = thread[t].at
      BY <1>0, <3>1 DEF Aged, ThreadOK
    <3> QED BY <3>2
  <2>2. CASE Interrupt
    BY <2>2 DEF Interrupt, xTaskGenericNotifyFromISR, xTaskResumeFromISR, EndInterrupt
  <2>3. CASE IdleStep
    BY <1>1, <2>3 DEF IdleStep, prvCheckTasksWaitingTermination, prvIdleTask
  <2>4. ASSUME NEW x \in AllTasks, Call(x) PROVE FALSE
    <3>1. \E op : CallsOf(x, op) # {}
      BY <2>4 DEF Call, taskYIELD, SuspendScheduler, StartDelay, vTaskSuspend, vTaskResume,
         vTaskPrioritySet, vTaskDelete, xTaskCreate, ulTaskGenericNotifyTake,
         xTaskGenericNotifyWait, xTaskGenericNotify
    <3> QED BY <1>2, <3>1
  <2>5. ASSUME NEW x \in AllTasks, Step(x) PROVE FALSE
    <3>1. CASE ResumeScheduler(x)
      BY <1>1, <1>2, <3>1 DEF ResumeScheduler
    <3>2. CASE ~ResumeScheduler(x)
      BY <1>1, <2>5, <3>2 DEF Step, portYIELD, ReturnFromCall, vTaskDelay, xTaskDelayUntil,
         SuspendedTask, NotifyTaken, NotifyWaited
    <3> QED BY <3>1, <3>2
  <2> QED BY <1>3, <2>1, <2>2, <2>3, <2>4, <2>5 DEF NextTasks
<1>4. CASE xQueueGenericSendFromISR \/ xQueueReceiveFromISR
  BY <1>4 DEF xQueueGenericSendFromISR, xQueueReceiveFromISR, InterruptOn, EndInterrupt
<1>5. ASSUME NEW x \in Tasks, QueueStep(x) PROVE xTaskCheckForTimeOut(t)
  <2>1. CASE xTaskCheckForTimeOut(x)
    <3>1. At(x, "check")
      BY <2>1 DEF xTaskCheckForTimeOut
    <3> QED BY <1>0, <2>1, <3>1 DEF At, Running
  <2>2. CASE ~xTaskCheckForTimeOut(x)
    BY <1>1, <1>5, <2>2 DEF QueueStep, SuspendToWait, prvLockQueue, PollQueue, InheritPriority,
       PlaceOnEventList, UnlockTx, UnlockRx, RecheckQueue, DisinheritAfterTimeout
  <2> QED BY <2>1, <2>2
<1>6. ASSUME NEW x \in Tasks, QueueCall(x) PROVE FALSE
  <2>1. PICK ops : Attempting(x, ops) # {}
    BY <1>6 DEF QueueCall, xQueueGenericSend, xQueueReceive, xQueuePeek, xQueueSemaphoreTake
  <2> QED BY <1>1, <1>2, <2>1 DEF Attempting
<1>7. ASSUME NEW x \in Tasks,
             xQueueGenericReset(x) \/ xQueueTakeMutexRecursive(x) \/ xQueueGiveMutexRecursive(x)
      PROVE  FALSE
  BY <1>2, <1>7 DEF xQueueGenericReset, xQueueTakeMutexRecursive, xQueueGiveMutexRecursive
<1>8. CASE UNCHANGED vars
  BY <1>8 DEF vars, taskVars
<1> QED BY <1>3, <1>4, <1>5, <1>6, <1>7, <1>8 DEF Next

\* A call to a queue gives up for the time when its wait is over and not before,
\* however often it was woken in between and lost the race to the message,
\* for all tasks, queues, calls and interrupts.
THEOREM CallsTimeOutExactly ==
  ASSUME MaxLate \in 0 .. 2, MaxPended \in Nat, MaxPended < TickRange
  PROVE  Spec => [][\A t \in Tasks : CallTimesOut(t)]_vars
<1>1. Init => OnTime /\ Hours
  BY InitOnTime
<1>2. IInv /\ KernelInv /\ OnTime /\ Hours /\ [Next]_vars => (OnTime /\ Hours)'
  BY NextOnTime, HoursStay
<1>3. IInv /\ KernelInv /\ OnTime /\ [Next]_vars => [\A t \in Tasks : CallTimesOut(t)]_vars
  <2> SUFFICES ASSUME IInv, KernelInv, OnTime, [Next]_vars, NEW t \in Tasks,
                      thread[t].at = "check", thread'[t].at # "check"
               PROVE  CallTimesOut(t)
    BY DEF CallTimesOut
  <2>1. xTaskCheckForTimeOut(t)
    BY OnlyCheck DEF IInv
  <2> QED BY <2>1, ChecksExactly DEF KernelInv
<1> QED BY <1>1, <1>2, <1>3, Invariance, PTL DEF Spec
=============================================================================
