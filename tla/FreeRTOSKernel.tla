--------------------------- MODULE FreeRTOSKernel ---------------------------
(***************************************************************************)
(* The FreeRTOS scheduler of the AVR build, with one core, pre-emption and *)
(* time slicing: list.c and tasks.c as operators from the kernel's state   *)
(* to its next state.                                                      *)
(*                                                                         *)
(* The kernel's state is a record: the file-scope variables of tasks.c and *)
(* the fields of the TCBs, under their names.  A list is a sequence of     *)
(* tasks.  A ready list is a ring that is walked: the sequence holds the   *)
(* end marker too and is turned so that its last element is the one        *)
(* pxIndex points to.  The index of the other lists stays at the end       *)
(* marker, which is left out of them.                                      *)
(***************************************************************************)
EXTENDS Integers, SequencesExt

CONSTANTS
  Tasks,                \* the tasks of the application
  Idle,                 \* the idle task
  NoTask,               \* the NULL handle
  EventLists,           \* the lists of tasks that wait for an event
  configMAX_PRIORITIES, \* the number of priorities
  TickRange,            \* the number of values of a TickType_t
  OverflowRange         \* the number of values of xNumOfOverflows

ASSUME TasksAssumption ==
  /\ Idle \notin Tasks /\ {NoTask, "xListEnd"} \cap (Tasks \cup {Idle}) = {}
  /\ configMAX_PRIORITIES \in Nat \ {0}
ASSUME RangeAssumption ==
  TickRange \in Nat \ {0, 1} /\ OverflowRange \in Nat \ {0, 1}

AllTasks      == Tasks \cup {Idle}
Priorities    == 0 .. configMAX_PRIORITIES - 1
Ticks         == 0 .. TickRange - 1
portMAX_DELAY == TickRange - 1
xListEnd      == "xListEnd"
EmptyRing     == <<xListEnd>>

---------------------------------------------------------------------------
(* list.c *)

\* just before the element pxIndex points to
vListInsertEnd(ring, x) == Append(Front(ring), x) \o <<Last(ring)>>

\* behind the items whose value is not larger
vListInsert(list, x, value) ==
  LET larger == SelectInSeq(list, LAMBDA y : value[y] > value[x])
  IN  IF larger = 0 THEN Append(list, x) ELSE InsertAt(list, larger, x)

\* pxIndex is left at the item before a removed one
uxListRemove(list, x) == RemoveFirst(list, x)

\* pxIndex moves to the next item, over the end marker
listGET_OWNER_OF_NEXT_ENTRY(ring) ==
  LET turned(r) == Append(Tail(r), Head(r))
  IN  IF Head(ring) = xListEnd THEN turned(turned(ring)) ELSE turned(ring)

---------------------------------------------------------------------------
(* tasks.c: where a task is *)

IsReady(k, t)    == \E p \in Priorities : Contains(k.pxReadyTasksLists[p], t)
IsSleeping(k, t) == Contains(k.pxDelayedTaskList, t) \/ Contains(k.pxOverflowDelayedTaskList, t)
IsWaitingOn(k, t) == {e \in EventLists : Contains(k.xEventLists[e], t)}
IsTerminated(k, t) == Contains(k.xTasksWaitingTermination, t)

\* the TCB is of no use any more: its task was deleted
IsFree(k, t) ==
  ~(IsReady(k, t) \/ IsSleeping(k, t) \/ t \in k.xSuspendedTaskList \/ IsTerminated(k, t))

\* t's state list item leaves the list that contains it
UnlinkState(k, t) ==
  [k EXCEPT !.pxReadyTasksLists = [p \in Priorities |-> uxListRemove(@[p], t)],
            !.pxDelayedTaskList = uxListRemove(@, t),
            !.pxOverflowDelayedTaskList = uxListRemove(@, t),
            !.xSuspendedTaskList = @ \ {t},
            !.xTasksWaitingTermination = uxListRemove(@, t),
            !.xWakeTime[t] = 0]

\* t's event list item leaves the list that contains it
UnlinkEvent(k, t) ==
  [k EXCEPT !.xEventLists = [e \in EventLists |-> uxListRemove(@[e], t)],
            !.xPendingReadyList = uxListRemove(@, t)]

prvAddTaskToReadyList(k, t) ==
  LET p == k.uxPriority[t]
  IN  [k EXCEPT !.uxTopReadyPriority = IF p > @ THEN p ELSE @,
                !.pxReadyTasksLists[p] = vListInsertEnd(@, t)]

\* Mutant: the task is not taken out of the list it was in
MakeReadyToo(k, t) == prvAddTaskToReadyList(k, t)

MakeReady(k, t) == prvAddTaskToReadyList(UnlinkState(k, t), t)

prvResetNextTaskUnblockTime(k) ==
  [k EXCEPT !.xNextTaskUnblockTime =
     IF k.pxDelayedTaskList = <<>> THEN portMAX_DELAY
                                   ELSE k.xWakeTime[Head(k.pxDelayedTaskList)]]

\* the running task sleeps for so many ticks; one that may wait for ever does
prvAddCurrentTaskToDelayedList(k, ticks, forEver) ==
  LET t    == k.pxCurrentTCB
      wake == (k.xTickCount + ticks) % TickRange
      k1   == [UnlinkState(k, t) EXCEPT !.xWakeTime[t] = wake]
  IN  IF ticks = portMAX_DELAY /\ forEver
      THEN [UnlinkState(k, t) EXCEPT !.xSuspendedTaskList = @ \cup {t}]
      ELSE IF wake < k.xTickCount
      THEN [k1 EXCEPT !.pxOverflowDelayedTaskList = vListInsert(@, t, k1.xWakeTime)]
      ELSE [k1 EXCEPT !.pxDelayedTaskList = vListInsert(@, t, k1.xWakeTime),
                      !.xNextTaskUnblockTime = IF wake < @ THEN wake ELSE @]

\* Step is done in turn with each of the tasks ts, beginning in the state k.
InTurn(Step(_, _), k, ts) ==
  LET done[n \in 0 .. Len(ts)] == IF n = 0 THEN k ELSE Step(done[n - 1], ts[n])
  IN  done[Len(ts)]

---------------------------------------------------------------------------
(* tasks.c: which task runs *)

vTaskSwitchContext(k) ==
  IF k.uxSchedulerSuspended > 0
  THEN [k EXCEPT !.xYieldPending = TRUE]
  ELSE LET top  == Max({p \in 0 .. k.uxTopReadyPriority : k.pxReadyTasksLists[p] # EmptyRing})
           ring == listGET_OWNER_OF_NEXT_ENTRY(k.pxReadyTasksLists[top])
       IN  [k EXCEPT !.xYieldPending = FALSE,
                     !.uxTopReadyPriority = top,
                     !.pxReadyTasksLists[top] = ring,
                     !.pxCurrentTCB = Last(ring)]

YieldIf(condition, k) == IF condition THEN vTaskSwitchContext(k) ELSE k

\* Mutant: the time of the next wake-up is still that of the other list
SwitchListsKeepTime(k) ==
  [k EXCEPT !.pxDelayedTaskList = k.pxOverflowDelayedTaskList,
            !.pxOverflowDelayedTaskList = k.pxDelayedTaskList,
            !.xNumOfOverflows = (@ + 1) % OverflowRange]

\* Mutant: the lists do not change places
CountOverflowOnly(k) ==
  prvResetNextTaskUnblockTime([k EXCEPT !.xNumOfOverflows = (@ + 1) % OverflowRange])

taskSWITCH_DELAYED_LISTS(k) ==
  prvResetNextTaskUnblockTime(
    [k EXCEPT !.pxDelayedTaskList = k.pxOverflowDelayedTaskList,
              !.pxOverflowDelayedTaskList = k.pxDelayedTaskList,
              !.xNumOfOverflows = (@ + 1) % OverflowRange])

\* the sleeping tasks whose time has come, in the order of their times
Expired(k) ==
  LET later == SelectInSeq(k.pxDelayedTaskList, LAMBDA t : k.xWakeTime[t] > k.xTickCount)
  IN  IF later = 0 THEN k.pxDelayedTaskList ELSE SubSeq(k.pxDelayedTaskList, 1, later - 1)

xTaskIncrementTick(k) ==
  IF k.uxSchedulerSuspended > 0
  THEN [k EXCEPT !.xPendedTicks = @ + 1]
  ELSE LET tick == (k.xTickCount + 1) % TickRange
           k1   == [k EXCEPT !.xTickCount = tick]
           k2   == IF tick = 0 THEN taskSWITCH_DELAYED_LISTS(k1) ELSE k1
       IN  IF tick < k2.xNextTaskUnblockTime THEN k2
           ELSE prvResetNextTaskUnblockTime(
                  InTurn(LAMBDA r, t : MakeReady(UnlinkEvent(r, t), t), k2, Expired(k2)))

\* Mutant: without time slicing
SwitchWithoutSlice(k, k1) ==
  /\ k.uxSchedulerSuspended = 0
  /\ \/ \E t \in AllTasks : IsSleeping(k, t) /\ IsReady(k1, t)
                                /\ k.uxPriority[t] >= k.uxPriority[k.pxCurrentTCB]
     \/ k1.xYieldPending

\* what xTaskIncrementTick() returns when it took k to k1
SwitchRequired(k, k1) ==
  LET p == k.uxPriority[k.pxCurrentTCB]
  IN  /\ k.uxSchedulerSuspended = 0
      /\ \/ \E t \in AllTasks : IsSleeping(k, t) /\ IsReady(k1, t) /\ k.uxPriority[t] >= p
         \/ Len(k1.pxReadyTasksLists[p]) > 2
         \/ k1.xYieldPending

\* one of the ticks that xTaskResumeAll() makes up for
PendedTick(k) ==
  LET k1 == xTaskIncrementTick(k)
  IN  [k1 EXCEPT !.xYieldPending = @ \/ SwitchRequired(k, k1)]

\* a task of the pending ready list becomes ready
ReadyPended(k, t) ==
  LET k1 == MakeReady(UnlinkEvent(k, t), t)
  IN  [k1 EXCEPT !.xYieldPending = @ \/ k.uxPriority[t] >= k.uxPriority[k.pxCurrentTCB]]

\* Mutant: the pended ticks are forgotten
ResumeAllDropsTicks(k) ==
  LET k0 == [k EXCEPT !.uxSchedulerSuspended = @ - 1]
      k1 == InTurn(ReadyPended, k0, k0.xPendingReadyList)
  IN  IF k0.uxSchedulerSuspended > 0 THEN k0
      ELSE [prvResetNextTaskUnblockTime(k1) EXCEPT !.xPendedTicks = 0]

\* xTaskResumeAll() up to its yield
xTaskResumeAll(k) ==
  LET k0 == [k EXCEPT !.uxSchedulerSuspended = @ - 1]
      k1 == InTurn(ReadyPended, k0, k0.xPendingReadyList)
      k2 == IF k0.xPendingReadyList = <<>> THEN k1 ELSE prvResetNextTaskUnblockTime(k1)
      ticked[n \in 0 .. k.xPendedTicks] == IF n = 0 THEN k2 ELSE PendedTick(ticked[n - 1])
  IN  IF k0.uxSchedulerSuspended > 0 THEN k0
      ELSE [ticked[k.xPendedTicks] EXCEPT !.xPendedTicks = 0]

\* does xTaskResumeAll(), which made the state k1, yield?
AlreadyYielded(k1) == k1.uxSchedulerSuspended = 0 /\ k1.xYieldPending

---------------------------------------------------------------------------
(* tasks.c: event lists *)

vTaskPlaceOnEventList(k, e, ticks) ==
  prvAddCurrentTaskToDelayedList(
    [k EXCEPT !.xEventLists[e] = vListInsert(@, k.pxCurrentTCB, k.xEventValue)], ticks, TRUE)

WakesHigher(k, t) == k.uxPriority[t] > k.uxPriority[k.pxCurrentTCB]

\* Mutant: nothing remembers that a task of higher priority is ready
UnblockQuietly(k, t) ==
  LET k1 == UnlinkEvent(k, t)
  IN  IF k.uxSchedulerSuspended = 0 THEN MakeReady(k1, t)
      ELSE [k1 EXCEPT !.xPendingReadyList = Append(@, t)]

\* the event that t waited for has happened
Unblock(k, t) ==
  LET k1 == UnlinkEvent(k, t)
      k2 == IF k.uxSchedulerSuspended = 0 THEN MakeReady(k1, t)
            ELSE [k1 EXCEPT !.xPendingReadyList = Append(@, t)]
  IN  [k2 EXCEPT !.xYieldPending = @ \/ WakesHigher(k, t)]

xTaskRemoveFromEventList(k, e) == Unblock(k, Head(k.xEventLists[e]))

---------------------------------------------------------------------------
(* tasks.c: time-outs *)

\* a call that began its wait at (since, overflows) has waited for wait ticks
TimeOutExpired(since, overflows, wait, tick, overflowsNow) ==
  \/ overflowsNow # overflows /\ tick >= since
  \/ (tick - since) % TickRange >= wait

\* must a task that wants to wake at previous + increment still sleep?
ShouldDelay(previous, increment, tick) ==
  LET wake == (previous + increment) % TickRange
  IN  IF tick < previous THEN wake < previous /\ wake > tick
                         ELSE wake < previous \/ wake > tick

---------------------------------------------------------------------------
(* tasks.c: priorities *)

\* t's priority changes; a ready task moves to the list of its new one
MoveToPriority(k, t, p) ==
  LET k1 == [k EXCEPT !.uxPriority[t] = p]
  IN  IF Contains(k.pxReadyTasksLists[k.uxPriority[t]], t) THEN MakeReady(k1, t) ELSE k1

\* the running task is about to wait for a mutex that holder holds
xTaskPriorityInherit(k, holder) ==
  LET p == k.uxPriority[k.pxCurrentTCB]
  IN  IF holder # NoTask /\ k.uxPriority[holder] < p
      THEN [MoveToPriority(k, holder, p) EXCEPT !.xEventValue[holder] = configMAX_PRIORITIES - p]
      ELSE k

\* what xTaskPriorityInherit() returns
InheritanceOccurs(k, holder) ==
  /\ holder # NoTask
  /\ \/ k.uxPriority[holder] < k.uxPriority[k.pxCurrentTCB]
     \/ k.uxBasePriority[holder] < k.uxPriority[k.pxCurrentTCB]

\* Mutant: the count is taken for the one after it was lowered
DisinheritsAtNone(k, holder) ==
  /\ holder # NoTask
  /\ k.uxPriority[holder] # k.uxBasePriority[holder]
  /\ k.uxMutexesHeld[holder] = 0

Disinherits(k, holder) ==
  /\ holder # NoTask
  /\ k.uxPriority[holder] # k.uxBasePriority[holder]
  /\ k.uxMutexesHeld[holder] = 1

\* the holder gives a mutex back
xTaskPriorityDisinherit(k, holder) ==
  LET k1 == [k EXCEPT !.uxMutexesHeld[holder] = @ - 1]
      p  == k.uxBasePriority[holder]
  IN  IF holder = NoTask THEN k
      ELSE IF Disinherits(k, holder)
      THEN [MakeReady([k1 EXCEPT !.uxPriority[holder] = p], holder)
              EXCEPT !.xEventValue[holder] = configMAX_PRIORITIES - p]
      ELSE k1

\* a task whose wait for a mutex timed out had lent its priority to the holder
vTaskPriorityDisinheritAfterTimeout(k, holder, highestWaiting) ==
  LET base == k.uxBasePriority[holder]
      p    == IF base < highestWaiting THEN highestWaiting ELSE base
  IN  IF holder # NoTask /\ k.uxPriority[holder] # p /\ k.uxMutexesHeld[holder] = 1
      THEN [MoveToPriority(k, holder, p) EXCEPT !.xEventValue[holder] = configMAX_PRIORITIES - p]
      ELSE k

---------------------------------------------------------------------------
(* tasks.c: tasks come and go *)

\* a new task's TCB is filled in and the task made ready
prvAddNewTaskToReadyList(k, t, p) ==
  prvAddTaskToReadyList(
    [k EXCEPT !.uxPriority[t] = p, !.uxBasePriority[t] = p, !.uxMutexesHeld[t] = 0,
              !.xEventValue[t] = configMAX_PRIORITIES - p,
              !.ucNotifyState[t] = "NotWaiting", !.ulNotifiedValue[t] = 0], t)

\* The scheduler starts with the tasks created, a sequence of them, each with
\* its priority; the last of the highest priority runs.
vTaskStartScheduler(created, priority) ==
  LET none == [t \in AllTasks |-> 0]
      k0   == [pxCurrentTCB |-> Idle,
               pxReadyTasksLists |-> [p \in Priorities |-> EmptyRing],
               uxTopReadyPriority |-> 0,
               pxDelayedTaskList |-> <<>>, pxOverflowDelayedTaskList |-> <<>>,
               xSuspendedTaskList |-> {}, xPendingReadyList |-> <<>>,
               xTasksWaitingTermination |-> <<>>,
               xEventLists |-> [e \in EventLists |-> <<>>],
               xWakeTime |-> none,
               xEventValue |-> [t \in AllTasks |-> configMAX_PRIORITIES],
               uxPriority |-> none, uxBasePriority |-> none, uxMutexesHeld |-> none,
               xTickCount |-> 0, xNumOfOverflows |-> 0,
               xNextTaskUnblockTime |-> portMAX_DELAY,
               uxSchedulerSuspended |-> 0, xPendedTicks |-> 0, xYieldPending |-> FALSE,
               ucNotifyState |-> [t \in AllTasks |-> "NotWaiting"],
               ulNotifiedValue |-> none]
      k1   == InTurn(LAMBDA k, t : prvAddNewTaskToReadyList(k, t, priority[t]), k0, created)
      k2   == prvAddNewTaskToReadyList(k1, Idle, 0)
      all  == Append(created, Idle)
      top  == Max({k2.uxPriority[all[i]] : i \in DOMAIN all})
  IN  [k2 EXCEPT !.pxCurrentTCB = all[Max({i \in DOMAIN all : k2.uxPriority[all[i]] = top})]]
=============================================================================
