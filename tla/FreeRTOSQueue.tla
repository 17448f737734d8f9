--------------------------- MODULE FreeRTOSQueue ---------------------------
(***************************************************************************)
(* queue.c: queues of messages, counting semaphores and mutexes, and the   *)
(* tasks and interrupts that use them, on the tasks of FreeRTOSTasks.      *)
(*                                                                         *)
(* A call that has to wait suspends the scheduler and locks the queue:     *)
(* interrupts may still use the queue, but leave its event lists alone and *)
(* count in cTxLock and cRxLock what they did.                             *)
(***************************************************************************)
EXTENDS FreeRTOSTasks

CONSTANTS
  DataQueues, Semaphores, Mutexes, \* the queues, by what they are used for
  uxLength,  \* how many messages each holds, or the largest count
  Messages,  \* what may be sent
  NoMessage, \* what the storage holds at first
  MaxLocked  \* bound: what interrupts do to a queue while it is locked

Queues == DataQueues \cup Semaphores \cup Mutexes

ASSUME QueuesAssumption ==
  /\ EventLists = Queues \X {"send", "receive"}
  /\ uxLength \in [Queues -> Nat \ {0}]
  /\ \A q \in Mutexes : uxLength[q] = 1
  /\ DataQueues \cap (Semaphores \cup Mutexes) = {} /\ Semaphores \cap Mutexes = {}
  /\ NoMessage \notin Messages

\* The queue or task that a call is about, and what it sends, are of the right
\* kind, and a message is overwritten only in a queue for one, as queue.c asserts.
Allowed(c) ==
  /\ DOMAIN c = {"op", "on", "wait", "arg", "how"}
  /\ c.op \in {"send", "receive", "peek", "reset", "receiveFromISR"} => c.on \in DataQueues
  /\ c.op \in {"give", "take"} => c.on \in Semaphores \cup Mutexes
  /\ c.op \in {"takeRecursive", "giveRecursive"} => c.on \in Mutexes
  /\ c.op = "sendFromISR" => c.on \in DataQueues \cup Semaphores
  /\ c.op \in {"send", "sendFromISR"} /\ c.on \in DataQueues => c.arg \in Messages
  /\ c.how = "overwrite" => c.on \in DataQueues /\ uxLength[c.on] = 1
  /\ c.op \in {"suspend", "resume", "prioritySet", "delete", "create", "notify",
              "notifyFromISR", "resumeFromISR"} => c.on \in Tasks
  /\ c.op \in {"prioritySet", "create"} => c.arg \in Priorities
  /\ c.wait \in Ticks

\* vTaskDelay() of no ticks is a yield, and xTaskDelayUntil() asserts an increment.
ASSUME ScenariosAssumption ==
  \A sc \in Scenarios :
    /\ \A t \in Tasks : \A c \in sc.calls[t] :
         Allowed(c) /\ (c.op \in {"delay", "delayUntil"} => c.wait > 0)
    /\ \A c \in sc.interrupts : Allowed(c)
    /\ sc.created \in Seq(Tasks) /\ IsInjective(sc.created)
    /\ \A t \in Tasks : sc.priority[t] \in Priorities

VARIABLES
  queue,  \* the state of each queue
  owns,   \* the mutexes each task has taken and not given back
  copied  \* what was last read from each queue of messages

vars == <<taskVars, queue, owns, copied>>

xTasksWaitingToSend(q)    == <<q, "send">>
xTasksWaitingToReceive(q) == <<q, "receive">>
queueUNLOCKED             == -1

IsEmpty(q) == queue[q].uxMessagesWaiting = 0
HasRoom(q) == queue[q].uxMessagesWaiting < uxLength[q]
Holder(q)  == queue[q].xMutexHolder

---------------------------------------------------------------------------
(* The storage of a queue: pcReadFrom is the cell before its front, and    *)
(* pcWriteTo the one behind its back                                       *)

After(q, cell)  == IF cell + 1 = uxLength[q] THEN 0 ELSE cell + 1
\* Mutant: pcReadFrom does not go from the head of the storage to its tail
BeforeStops(q, cell) == IF cell = 0 THEN 0 ELSE cell - 1
Before(q, cell) == IF cell = 0 THEN uxLength[q] - 1 ELSE cell - 1

\* Mutant: a mutex that was given back still names its holder
CopyKeepsHolder(q, how, message) ==
  LET r == queue[q]
  IN  IF q \in Mutexes \cup Semaphores
      THEN [r EXCEPT !.uxMessagesWaiting = @ + 1]
      ELSE IF how = "back"
      THEN [r EXCEPT !.uxMessagesWaiting = @ + 1, !.store[r.pcWriteTo] = message,
                     !.pcWriteTo = After(q, @)]
      ELSE [r EXCEPT !.uxMessagesWaiting = IF how = "overwrite" /\ @ > 0 THEN @ ELSE @ + 1,
                     !.store[r.pcReadFrom] = message, !.pcReadFrom = Before(q, @)]

prvCopyDataToQueue(q, how, message) ==
  LET r == queue[q]
  IN  IF q \in Mutexes
      THEN [r EXCEPT !.uxMessagesWaiting = @ + 1, !.xMutexHolder = NoTask]
      ELSE IF q \in Semaphores
      THEN [r EXCEPT !.uxMessagesWaiting = @ + 1]
      ELSE IF how = "back"
      THEN [r EXCEPT !.uxMessagesWaiting = @ + 1, !.store[r.pcWriteTo] = message,
                     !.pcWriteTo = After(q, @)]
      ELSE [r EXCEPT !.uxMessagesWaiting = IF how = "overwrite" /\ @ > 0 THEN @ ELSE @ + 1,
                     !.store[r.pcReadFrom] = message, !.pcReadFrom = Before(q, @)]

FrontMessage(q) == queue[q].store[After(q, queue[q].pcReadFrom)]

TakeFront(q) ==
  [queue[q] EXCEPT !.uxMessagesWaiting = @ - 1, !.pcReadFrom = After(q, @)]

---------------------------------------------------------------------------
(* Waking tasks *)

WakeFirst(k, e) == IF k.xEventLists[e] = <<>> THEN k ELSE xTaskRemoveFromEventList(k, e)

\* a task that is woken in k should run at once
FirstIsHigher(k, e) == k.xEventLists[e] # <<>> /\ WakesHigher(k, Head(k.xEventLists[e]))

\* for each thing that was done to a locked queue, one waiting task is woken
WakeLocked(k, e, done) ==
  LET woken[n \in 0 .. done] == IF n = 0 THEN k ELSE WakeFirst(woken[n - 1], e)
  IN  IF done > 0 THEN woken[done] ELSE k

---------------------------------------------------------------------------
(* The first critical section of a call *)

\* the calls among ops that t attempts: a new one, or again the one it is in
Attempting(t, ops) ==
  IF At(t, "attempt") THEN {c \in {thread[t].call} : c.op \in ops}
  ELSE UNION {CallsOf(t, op) : op \in ops}

\* the call cannot be done now: it fails, or goes on to wait
CannotYet(t, c) ==
  IF c.wait = 0 THEN Return(t, kernel)
  ELSE Proceed(t, kernel,
         IF At(t, "attempt") THEN [thread[t] EXCEPT !.at = "suspend"]
                             ELSE TimedUnlessForEver(Calling(c, "suspend"), c.wait))

\* A mutex that is given back takes the priority its holder inherited along;
\* who waits for it is woken.
xQueueGenericSend(t) ==
  \E c \in Attempting(t, {"send", "give"}) :
    LET q       == c.on
        lowered == q \in Mutexes /\ Disinherits(kernel, Holder(q))
        k1      == IF q \in Mutexes THEN xTaskPriorityDisinherit(kernel, Holder(q)) ELSE kernel
        e       == xTasksWaitingToReceive(q)
        yield   == IF k1.xEventLists[e] # <<>> THEN FirstIsHigher(k1, e) ELSE lowered
    IN  /\ q \in Mutexes => q \in owns[t]
        /\ IF HasRoom(q) \/ c.how = "overwrite"
           THEN /\ Return(t, YieldIf(yield, WakeFirst(k1, e)))
                /\ queue' = [queue EXCEPT ![q] = prvCopyDataToQueue(q, c.how, c.arg)]
                /\ owns' = [owns EXCEPT ![t] = @ \ {q}]
           ELSE CannotYet(t, c) /\ UNCHANGED <<queue, owns>>
        /\ UNCHANGED copied /\ Unchanged

xQueueReceive(t) ==
  \E c \in Attempting(t, {"receive"}) :
    LET q == c.on
        e == xTasksWaitingToSend(q)
    IN  /\ IF ~IsEmpty(q)
           THEN /\ Return(t, YieldIf(FirstIsHigher(kernel, e), WakeFirst(kernel, e)))
                /\ queue' = [queue EXCEPT ![q] = TakeFront(q)]
                /\ copied' = [copied EXCEPT ![q] = FrontMessage(q)]
           ELSE CannotYet(t, c) /\ UNCHANGED <<queue, copied>>
        /\ UNCHANGED owns /\ Unchanged

\* the message stays, and the next task that waits for one is woken
xQueuePeek(t) ==
  \E c \in Attempting(t, {"peek"}) :
    LET q == c.on
        e == xTasksWaitingToReceive(q)
    IN  /\ IF ~IsEmpty(q)
           THEN /\ Return(t, YieldIf(FirstIsHigher(kernel, e), WakeFirst(kernel, e)))
                /\ copied' = [copied EXCEPT ![q] = FrontMessage(q)]
           ELSE CannotYet(t, c) /\ UNCHANGED copied
        /\ UNCHANGED <<queue, owns>> /\ Unchanged

\* xQueueTakeMutexRecursive() counts too; the task that holds the mutex already
\* does nothing else
xQueueSemaphoreTake(t) ==
  \E c \in Attempting(t, {"take", "takeRecursive"}) :
    LET q     == c.on
        e     == xTasksWaitingToSend(q)
        count == IF c.op = "takeRecursive" THEN 1 ELSE 0
        k1    == IF q \in Mutexes THEN [kernel EXCEPT !.uxMutexesHeld[t] = @ + 1] ELSE kernel
    IN  /\ ~(c.op = "takeRecursive" /\ Holder(q) = t)
        /\ IF ~IsEmpty(q)
           THEN /\ Return(t, YieldIf(FirstIsHigher(k1, e), WakeFirst(k1, e)))
                /\ queue' = [queue EXCEPT ![q].uxMessagesWaiting = @ - 1,
                                          ![q].xMutexHolder = IF q \in Mutexes THEN t ELSE @,
                                          ![q].uxRecursiveCallCount = @ + count]
                /\ owns' = [owns EXCEPT ![t] = IF q \in Mutexes THEN @ \cup {q} ELSE @]
           ELSE CannotYet(t, c) /\ UNCHANGED <<queue, owns>>
        /\ UNCHANGED copied /\ Unchanged

\* arg bounds the count
xQueueTakeMutexRecursive(t) ==
  \E c \in CallsOf(t, "takeRecursive") :
    /\ Holder(c.on) = t /\ queue[c.on].uxRecursiveCallCount < c.arg
    /\ queue' = [queue EXCEPT ![c.on].uxRecursiveCallCount = @ + 1]
    /\ Return(t, kernel)
    /\ UNCHANGED <<owns, copied>> /\ Unchanged

xQueueGiveMutexRecursive(t) ==
  \E c \in CallsOf(t, "giveRecursive") :
    /\ IF Holder(c.on) = t
       THEN /\ queue' = [queue EXCEPT ![c.on].uxRecursiveCallCount = @ - 1]
            /\ IF queue[c.on].uxRecursiveCallCount = 1
               THEN Proceed(t, kernel, Calling([c EXCEPT !.op = "give"], "attempt"))
               ELSE Return(t, kernel)
       ELSE Return(t, kernel) /\ UNCHANGED queue
    /\ UNCHANGED <<owns, copied>> /\ Unchanged

xQueueGenericReset(t) ==
  \E c \in CallsOf(t, "reset") :
    LET q == c.on
        e == xTasksWaitingToSend(q)
    IN  /\ queue' = [queue EXCEPT ![q].uxMessagesWaiting = 0, ![q].pcWriteTo = 0,
                                  ![q].pcReadFrom = uxLength[q] - 1,
                                  ![q].cRxLock = queueUNLOCKED, ![q].cTxLock = queueUNLOCKED]
        /\ Return(t, YieldIf(FirstIsHigher(kernel, e), WakeFirst(kernel, e)))
        /\ UNCHANGED <<owns, copied>> /\ Unchanged

---------------------------------------------------------------------------
(* The rest of a call that has to wait *)

SuspendToWait(t) ==
  /\ At(t, "suspend")
  /\ Proceed(t, vTaskSuspendAll(kernel), [thread[t] EXCEPT !.at = "lock"])
  /\ UNCHANGED <<queue, owns, copied>> /\ Unchanged

prvLockQueue(t) ==
  /\ At(t, "lock")
  /\ LET locked(n) == IF n = queueUNLOCKED THEN 0 ELSE n
     IN  queue' = [queue EXCEPT ![thread[t].call.on].cRxLock = locked(@),
                                ![thread[t].call.on].cTxLock = locked(@)]
  /\ Proceed(t, kernel, [thread[t] EXCEPT !.at = "check"])
  /\ UNCHANGED <<owns, copied>> /\ Unchanged

\* Mutant: the rest of the wait is counted from where the first one began
CheckKeepsSince(t) ==
  /\ At(t, "check")
  /\ LET th      == thread[t]
         wait    == th.call.wait
         elapsed == (kernel.xTickCount - th.since) % TickRange
     IN  Proceed(t, kernel,
           IF wait = portMAX_DELAY THEN [th EXCEPT !.at = "poll"]
           ELSE IF TimeOutExpired(th.since, th.overflows, wait,
                                  kernel.xTickCount, kernel.xNumOfOverflows)
           THEN [th EXCEPT !.at = "unlockTx", !.call.wait = 0, !.yields = FALSE,
                           !.next = IF th.call.op = "send" THEN "user" ELSE "recheck"]
           ELSE [th EXCEPT !.at = "poll", !.call.wait = wait - elapsed])
  /\ UNCHANGED <<queue, owns, copied>> /\ Unchanged

xTaskCheckForTimeOut(t) ==
  /\ At(t, "check")
  /\ LET th      == thread[t]
         wait    == th.call.wait
         elapsed == (kernel.xTickCount - th.since) % TickRange
     IN  Proceed(t, kernel,
           IF wait = portMAX_DELAY THEN [th EXCEPT !.at = "poll"]
           ELSE IF TimeOutExpired(th.since, th.overflows, wait,
                                  kernel.xTickCount, kernel.xNumOfOverflows)
           THEN [th EXCEPT !.at = "unlockTx", !.call.wait = 0, !.yields = FALSE,
                           !.next = IF th.call.op = "send" THEN "user" ELSE "recheck"]
           ELSE [th EXCEPT !.at = "poll", !.call.wait = wait - elapsed,
                           !.since = kernel.xTickCount, !.overflows = kernel.xNumOfOverflows])
  /\ UNCHANGED <<queue, owns, copied>> /\ Unchanged

TakesMutex(th) == th.call.op \in {"take", "takeRecursive"} /\ th.call.on \in Mutexes

\* prvIsQueueFull() or prvIsQueueEmpty()
PollQueue(t) ==
  /\ At(t, "poll")
  /\ LET th    == thread[t]
         waits == IF th.call.op = "send" THEN ~HasRoom(th.call.on) ELSE IsEmpty(th.call.on)
     IN  Proceed(t, kernel,
           IF ~waits THEN [th EXCEPT !.at = "unlockTx", !.next = "attempt", !.yields = FALSE]
           ELSE [th EXCEPT !.at = IF TakesMutex(th) THEN "inherit" ELSE "place"])
  /\ UNCHANGED <<queue, owns, copied>> /\ Unchanged

InheritPriority(t) ==
  /\ At(t, "inherit")
  /\ LET holder == Holder(thread[t].call.on)
     IN  Proceed(t, xTaskPriorityInherit(kernel, holder),
                 [thread[t] EXCEPT !.at = "place",
                                   !.inherited = InheritanceOccurs(kernel, holder)])
  /\ UNCHANGED <<queue, owns, copied>> /\ Unchanged

PlaceOnEventList(t) ==
  /\ At(t, "place")
  /\ LET c == thread[t].call
         e == IF c.op = "send" THEN xTasksWaitingToSend(c.on) ELSE xTasksWaitingToReceive(c.on)
     IN  Proceed(t, vTaskPlaceOnEventList(kernel, e, c.wait),
                 [thread[t] EXCEPT !.at = "unlockTx", !.next = "attempt", !.yields = TRUE])
  /\ UNCHANGED <<queue, owns, copied>> /\ Unchanged

\* prvUnlockQueue(), its two critical sections
UnlockTx(t) ==
  /\ At(t, "unlockTx")
  /\ LET q == thread[t].call.on
     IN  /\ queue' = [queue EXCEPT ![q].cTxLock = queueUNLOCKED]
         /\ Proceed(t, WakeLocked(kernel, xTasksWaitingToReceive(q), queue[q].cTxLock),
                    [thread[t] EXCEPT !.at = "unlockRx"])
  /\ UNCHANGED <<owns, copied>> /\ Unchanged

UnlockRx(t) ==
  /\ At(t, "unlockRx")
  /\ LET q == thread[t].call.on
     IN  /\ queue' = [queue EXCEPT ![q].cRxLock = queueUNLOCKED]
         /\ Proceed(t, WakeLocked(kernel, xTasksWaitingToSend(q), queue[q].cRxLock),
                    [thread[t] EXCEPT !.at = "resume"])
  /\ UNCHANGED <<owns, copied>> /\ Unchanged

\* a call to read that has timed out tries once more if there is something now
RecheckQueue(t) ==
  /\ At(t, "recheck")
  /\ LET th == thread[t]
     IN  IF ~IsEmpty(th.call.on) THEN Proceed(t, kernel, [th EXCEPT !.at = "attempt"])
         ELSE IF th.inherited THEN Proceed(t, kernel, [th EXCEPT !.at = "disinherit"])
         ELSE Return(t, kernel)
  /\ UNCHANGED <<queue, owns, copied>> /\ Unchanged

\* Mutant: the tasks that still wait for the mutex are not looked at
DisinheritToNone(k, q) == 0

prvGetDisinheritPriorityAfterTimeout(k, q) ==
  LET waiting == k.xEventLists[xTasksWaitingToReceive(q)]
  IN  IF waiting = <<>> THEN 0 ELSE configMAX_PRIORITIES - k.xEventValue[Head(waiting)]

DisinheritAfterTimeout(t) ==
  /\ At(t, "disinherit")
  /\ LET q == thread[t].call.on
     IN  Return(t, vTaskPriorityDisinheritAfterTimeout(
                     kernel, Holder(q), prvGetDisinheritPriorityAfterTimeout(kernel, q)))
  /\ UNCHANGED <<queue, owns, copied>> /\ Unchanged

---------------------------------------------------------------------------
(* Interrupts *)

\* Mutant: what an interrupt does to a locked queue is not counted
InterruptUncounted(q, r, lock, e) ==
  IF r[lock] = queueUNLOCKED
  THEN /\ queue' = [queue EXCEPT ![q] = r]
       /\ EndInterrupt(FirstIsHigher(kernel, e), WakeFirst(kernel, e))
  ELSE queue' = [queue EXCEPT ![q] = r] /\ EndInterrupt(FALSE, kernel)

\* An interrupt leaves the queue as r and wakes the first task of e; when the
\* queue is locked it counts in lock instead.
InterruptOn(q, r, lock, e) ==
  IF r[lock] = queueUNLOCKED
  THEN /\ queue' = [queue EXCEPT ![q] = r]
       /\ EndInterrupt(FirstIsHigher(kernel, e), WakeFirst(kernel, e))
  ELSE /\ r[lock] < MaxLocked
       /\ queue' = [queue EXCEPT ![q] = [r EXCEPT ![lock] = @ + 1]]
       /\ EndInterrupt(FALSE, kernel)

\* xQueueGiveFromISR() does the same to a semaphore
xQueueGenericSendFromISR ==
  \E c \in Interrupts("sendFromISR") :
    /\ HasRoom(c.on) \/ c.how = "overwrite"
    /\ InterruptOn(c.on, prvCopyDataToQueue(c.on, c.how, c.arg), "cTxLock",
                   xTasksWaitingToReceive(c.on))
    /\ UNCHANGED <<owns, copied>>

xQueueReceiveFromISR ==
  \E c \in Interrupts("receiveFromISR") :
    /\ ~IsEmpty(c.on)
    /\ InterruptOn(c.on, TakeFront(c.on), "cRxLock", xTasksWaitingToSend(c.on))
    /\ copied' = [copied EXCEPT ![c.on] = FrontMessage(c.on)]
    /\ UNCHANGED owns

---------------------------------------------------------------------------
Init ==
  /\ InitTasks
  /\ queue = [q \in Queues |->
       [uxMessagesWaiting |-> IF q \in Mutexes THEN 1 ELSE 0,
        store |-> [cell \in 0 .. uxLength[q] - 1 |-> NoMessage],
        pcReadFrom |-> uxLength[q] - 1, pcWriteTo |-> 0,
        xMutexHolder |-> NoTask, uxRecursiveCallCount |-> 0,
        cRxLock |-> queueUNLOCKED, cTxLock |-> queueUNLOCKED]]
  /\ owns = [t \in Tasks |-> {}]
  /\ copied = [q \in DataQueues |-> NoMessage]

QueueCall(t) ==
  \/ xQueueGenericSend(t) \/ xQueueReceive(t) \/ xQueuePeek(t) \/ xQueueSemaphoreTake(t)

QueueStep(t) ==
  \/ SuspendToWait(t) \/ prvLockQueue(t) \/ xTaskCheckForTimeOut(t) \/ PollQueue(t)
  \/ InheritPriority(t) \/ PlaceOnEventList(t) \/ UnlockTx(t) \/ UnlockRx(t)
  \/ RecheckQueue(t) \/ DisinheritAfterTimeout(t)

Next ==
  \/ NextTasks /\ UNCHANGED <<queue, owns, copied>>
  \/ xQueueGenericSendFromISR \/ xQueueReceiveFromISR
  \/ \E t \in Tasks : \/ QueueCall(t) \/ QueueStep(t) \/ xQueueGenericReset(t)
                      \/ xQueueTakeMutexRecursive(t) \/ xQueueGiveMutexRecursive(t)

Spec == Init /\ [][Next]_vars

\* The tick interrupt comes, the running task goes on with the call it is in,
\* and so does the idle task.  No application task need ever make a call, and
\* no other interrupt need come.
Goes ==
  \/ IdleStep /\ UNCHANGED <<queue, owns, copied>>
  \/ \E t \in AllTasks : Step(t) /\ UNCHANGED <<queue, owns, copied>>
  \/ \E t \in Tasks : QueueStep(t) \/ (At(t, "attempt") /\ QueueCall(t))

\* ENABLED Goes
CanGo ==
  LET t == kernel.pxCurrentTCB
  IN  IF t = Idle THEN kernel.xTasksWaitingTermination # <<>> \/ Len(kernel.pxReadyTasksLists[0]) > 2
      ELSE \/ thread[t].at # "user"
           \/ CallsOf(t, "resumeAll") # {} /\ kernel.uxSchedulerSuspended > 0

\* weak fairness of Tick and of Goes, with their enabling conditions written out
FairSpec ==
  /\ Spec
  /\ []<>(kernel.xPendedTicks = MaxPended) \/ []<><<Tick>>_vars
  /\ []<>(~CanGo) \/ []<><<Goes>>_vars

---------------------------------------------------------------------------
(* Properties of the scheduler *)

\* A task is in one list of states at most, and the kernel's variables have their
\* types.
TypeOK ==
  /\ scenario \in Scenarios
  /\ kernel.pxCurrentTCB \in AllTasks
  /\ kernel.uxPriority \in [AllTasks -> Priorities]
  /\ kernel.uxBasePriority \in [AllTasks -> Priorities]
  /\ kernel.xTickCount \in Ticks /\ kernel.xNextTaskUnblockTime \in Ticks
  /\ \A t \in AllTasks :
       Cardinality({p \in Priorities : Contains(kernel.pxReadyTasksLists[p], t)})
       + Cardinality({l \in {kernel.pxDelayedTaskList, kernel.pxOverflowDelayedTaskList,
                             kernel.xTasksWaitingTermination} : Contains(l, t)})
       + (IF t \in kernel.xSuspendedTaskList THEN 1 ELSE 0) <= 1
  /\ \A q \in Queues : queue[q].uxMessagesWaiting \in 0 .. uxLength[q]

\* Whenever the scheduler is not suspended and no switch is pending, no ready
\* task has a higher priority than the one that runs: every function of tasks.c
\* and queue.c that readies a task or changes a priority yields when it must.
\* A task that is about to yield is on its way to that.
TopPriorityRuns ==
  LET t == kernel.pxCurrentTCB
  IN  \/ kernel.uxSchedulerSuspended > 0 \/ kernel.xYieldPending
      \/ thread[t].at \in {"yield", "suspended"}
      \/ \A x \in AllTasks : IsReady(kernel, x) => kernel.uxPriority[x] <= kernel.uxPriority[t]

\* A task in a delayed list wakes when exactly the ticks it has still to wait
\* have passed, whichever of the two lists it is in, over the wrap of the tick
\* count and whatever was pending; and the tick interrupt looks at the lists by
\* then.  A task that came to its wait too late to count is left out.
SleepsExactly ==
  \A t \in Tasks :
    LET due  == thread[t].due
        wake == kernel.xTickCount + due
    IN  thread[t].timed /\ IsSleeping(kernel, t) /\ due > -MaxLate =>
          /\ due > 0
          /\ kernel.xWakeTime[t] = wake % TickRange
          /\ IF wake >= TickRange THEN Contains(kernel.pxOverflowDelayedTaskList, t)
             ELSE /\ Contains(kernel.pxDelayedTaskList, t)
                  /\ kernel.xNextTaskUnblockTime <= wake

\* No tick is lost: those the count does not show are pending.
NoTickLost == clock = (kernel.xTickCount + kernel.xPendedTicks) % TickRange

\* A call to a queue gives up for the time when its wait is over and not before,
\* though it may have been woken, and have lost the race to the message, several
\* times.
CallTimesOut(t) ==
  /\ thread[t].at = "check" /\ thread[t].timed /\ thread[t].due > -MaxLate
  /\ thread'[t].at \in {"poll", "unlockTx"}
  => (thread[t].due <= 0 <=> thread'[t].at = "unlockTx")

\* A wait for a notification ends with one, or when its time is over, as long as
\* nobody suspends and resumes the task that waits: no scenario here does.
NotificationTimesOut(t) ==
  thread[t].at = "notifyTaken" /\ thread'[t].at = "user" /\ thread[t].timed
  => kernel.ucNotifyState[t] = "Received" \/ thread[t].due <= 0

\* No wait of queue.c or of tasks.c ends early, and none of queue.c ends late.
TimeoutHonest == [][\A t \in Tasks : CallTimesOut(t) /\ NotificationTimesOut(t)]_vars

\* A task that sleeps for a time wakes, unless the application keeps the
\* scheduler suspended.
SleepEnds ==
  \A t \in Tasks :
    IsSleeping(kernel, t) ~> ~IsSleeping(kernel, t) \/ kernel.uxSchedulerSuspended > 1

\* Time slicing: of the ready tasks of the highest priority each one gets to
\* run, whatever the others do.
EveryoneRuns ==
  \A t \in Tasks :
    IsReady(kernel, t) ~>
      \/ Running(t) \/ ~IsReady(kernel, t) \/ kernel.uxSchedulerSuspended > 1
      \/ \E x \in AllTasks : IsReady(kernel, x) /\ kernel.uxPriority[x] > kernel.uxPriority[t]

---------------------------------------------------------------------------
(* Properties of the queues *)

\* the tasks in a call among ops on q that are going to look at q again
Looking(x, ops) ==
  {t \in Tasks : /\ thread[t].call.on = x /\ thread[t].call.op \in ops
                 /\ IsWaitingOn(kernel, t) = {} /\ thread[t].at # "disinherit"}

\* No wake-up is lost: while a task waits for a message, every message that is
\* there has a task that was woken and is on its way to it; and while a task
\* waits for room, so has all the room there is.  The calls of interrupts, that
\* find the queue locked, count.
NoLostWakeUp ==
  kernel.uxSchedulerSuspended = 0 =>
    \A x \in Queues :
      /\ kernel.xEventLists[xTasksWaitingToReceive(x)] # <<>> =>
           queue[x].uxMessagesWaiting
             <= Cardinality(Looking(x, {"receive", "peek", "take", "takeRecursive"}))
      /\ kernel.xEventLists[xTasksWaitingToSend(x)] # <<>> =>
           uxLength[x] - queue[x].uxMessagesWaiting <= Cardinality(Looking(x, {"send"}))

\* No two tasks have taken a mutex and not given it back, and the holder that
\* the mutex names is the task that has.
MutualExclusion ==
  \A x \in Mutexes : \A t \in Tasks : x \in owns[t] <=> Holder(x) = t

\* While a task waits for a mutex, the holder runs at no lower priority.  A
\* waiting task that holds a mutex itself may have inherited more since.
InheritanceHolds ==
  \A x \in Mutexes, w \in Tasks :
    Contains(kernel.xEventLists[xTasksWaitingToReceive(x)], w) /\ Holder(x) # NoTask /\ owns[w] = {} =>
      kernel.uxPriority[Holder(x)] >= kernel.uxPriority[w]

\* Who has given every mutex back runs at its own priority again.
NoStrayBoost ==
  \A t \in Tasks : owns[t] = {} => kernel.uxPriority[t] = kernel.uxBasePriority[t]

\* the messages of a queue, its front first
Items(x) ==
  [i \in 1 .. queue[x].uxMessagesWaiting |->
     queue[x].store[(queue[x].pcReadFrom + i) % uxLength[x]]]

\* A queue of messages is a bounded first-in-first-out queue, whoever uses it.
Bounded == INSTANCE BoundedQueue WITH items <- [x \in DataQueues |-> Items(x)]

ImplementsQueue == Bounded!Spec
=============================================================================
