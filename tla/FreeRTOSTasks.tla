--------------------------- MODULE FreeRTOSTasks ---------------------------
(***************************************************************************)
(* The tasks of a FreeRTOS application and the calls of task.h they make,  *)
(* on the scheduler of FreeRTOSKernel.                                     *)
(*                                                                         *)
(* A critical section is one step, and interrupts come between the steps.  *)
(* Only the task at pxCurrentTCB takes steps.  A yield in a critical       *)
(* section switches at once: the kernel's state after the step is that of  *)
(* the task switched to.  The application is a scenario: the calls each    *)
(* task may make when it is in its own code, and those of its interrupts.  *)
(***************************************************************************)
EXTENDS FreeRTOSKernel

CONSTANTS
  Scenarios,   \* what the application's tasks and interrupts do
  MaxPended,   \* bound: ticks held pending while the scheduler is suspended
  MaxLate,     \* bound: how many ticks too late a waiting task is counted
  MaxNotified  \* bound: the value of a task's notification

VARIABLES
  scenario,          \* the scenario of this execution
  kernel,            \* the state of tasks.c
  thread,            \* where each task is: its call and the locals of that call
  xPreviousWakeTime, \* the variable each task passes to xTaskDelayUntil()
  clock              \* the ticks that have happened

taskVars == <<scenario, kernel, thread, xPreviousWakeTime, clock>>

NoCall == [op |-> "none", on |-> NoTask, wait |-> 0, arg |-> 0, how |-> "none"]

\* A task in its own code.  In a call, next is where the call goes on after
\* its yield or after xTaskResumeAll(), and yields says that it yields unless
\* xTaskResumeAll() does.  A timed wait began at (since, overflows), and due
\* ticks are left of it.
UserThread == [at |-> "user", call |-> NoCall, next |-> "user", yields |-> FALSE,
               timed |-> FALSE, since |-> 0, overflows |-> 0, due |-> 0, inherited |-> FALSE]

---------------------------------------------------------------------------
(* Steps of a task *)

Running(t)   == kernel.pxCurrentTCB = t
At(t, where) == Running(t) /\ thread[t].at = where

\* the calls t may make now: with the scheduler suspended, only to suspend or
\* resume it
CallsOf(t, op) ==
  IF /\ At(t, "user") /\ t \in Tasks
     /\ kernel.uxSchedulerSuspended = 0 \/ op \in {"suspendAll", "resumeAll"}
  THEN {c \in scenario.calls[t] : c.op = op} ELSE {}

Calling(c, where) == [UserThread EXCEPT !.at = where, !.call = c]

\* t goes on, as th, when the kernel's state is k
Proceed(t, k, th) == kernel' = k /\ thread' = [thread EXCEPT ![t] = th]
Return(t, k)      == Proceed(t, k, UserThread)

\* where th is when it goes on after its yield
Continued(th) == IF th.next = "user" THEN UserThread ELSE [th EXCEPT !.at = th.next]

\* a wait for so many ticks has begun
Timed(th, ticks) ==
  [th EXCEPT !.timed = TRUE, !.due = ticks,
             !.since = kernel.xTickCount, !.overflows = kernel.xNumOfOverflows]

TimedUnlessForEver(th, ticks) == IF ticks = portMAX_DELAY THEN th ELSE Timed(th, ticks)

\* every timed wait has lasted longer by the ticks between k and k1
Aged(k, k1) ==
  LET passed == (k1.xTickCount - k.xTickCount) % TickRange
  IN  [t \in AllTasks |->
         IF thread[t].timed THEN [thread[t] EXCEPT !.due = Max({@ - passed, -MaxLate})]
                            ELSE thread[t]]

Unchanged == UNCHANGED <<scenario, xPreviousWakeTime, clock>>

---------------------------------------------------------------------------
(* Steps: the scheduler *)

\* portYIELD() at the end of a call
portYIELD(t) ==
  /\ At(t, "yield")
  /\ Proceed(t, vTaskSwitchContext(kernel), Continued(thread[t]))
  /\ Unchanged

taskYIELD(t) ==
  /\ CallsOf(t, "yield") # {}
  /\ Return(t, vTaskSwitchContext(kernel))
  /\ Unchanged

vTaskSuspendAll(k) == [k EXCEPT !.uxSchedulerSuspended = @ + 1]

\* arg bounds the nesting
SuspendScheduler(t) ==
  /\ \E c \in CallsOf(t, "suspendAll") : kernel.uxSchedulerSuspended < c.arg
  /\ Return(t, vTaskSuspendAll(kernel))
  /\ Unchanged

\* xTaskResumeAll(), called by the application or at the end of a call that
\* suspended the scheduler
ResumeScheduler(t) ==
  /\ \/ At(t, "resume")
     \/ CallsOf(t, "resumeAll") # {} /\ kernel.uxSchedulerSuspended > 0
  /\ LET k1      == xTaskResumeAll(kernel)
         yielded == AlreadyYielded(k1)
         th      == Aged(kernel, k1)[t]
     IN  /\ kernel' = YieldIf(yielded, k1)
         /\ thread' = [Aged(kernel, k1) EXCEPT ![t] =
              IF th.yields /\ ~yielded THEN [th EXCEPT !.at = "yield"] ELSE Continued(th)]
  /\ Unchanged

\* the tick interrupt
Tick ==
  /\ kernel.xPendedTicks < MaxPended
  /\ clock' = (clock + 1) % TickRange
  /\ LET k1 == xTaskIncrementTick(kernel)
     IN  kernel' = YieldIf(SwitchRequired(kernel, k1), k1) /\ thread' = Aged(kernel, k1)
  /\ UNCHANGED <<scenario, xPreviousWakeTime>>

\* the idle task frees the TCBs of tasks that deleted themselves
prvCheckTasksWaitingTermination ==
  /\ At(Idle, "user") /\ kernel.xTasksWaitingTermination # <<>>
  /\ LET t == Head(kernel.xTasksWaitingTermination)
     IN  kernel' = UnlinkState(kernel, t) /\ thread' = [thread EXCEPT ![t] = UserThread]
  /\ Unchanged

\* the idle task lets another of its priority run
prvIdleTask ==
  /\ At(Idle, "user") /\ kernel.xTasksWaitingTermination = <<>>
  /\ Len(kernel.pxReadyTasksLists[0]) > 2
  /\ Return(Idle, vTaskSwitchContext(kernel))
  /\ Unchanged

---------------------------------------------------------------------------
(* Steps: delays *)

\* vTaskDelay() and xTaskDelayUntil(), to the suspension of the scheduler
StartDelay(t) ==
  \E c \in CallsOf(t, "delay") \cup CallsOf(t, "delayUntil") :
    /\ Proceed(t, vTaskSuspendAll(kernel),
               [Calling(c, c.op) EXCEPT !.next = "return", !.yields = TRUE])
    /\ Unchanged

vTaskDelay(t) ==
  /\ At(t, "delay")
  /\ LET ticks == thread[t].call.wait
     IN  Proceed(t, prvAddCurrentTaskToDelayedList(kernel, ticks, FALSE),
                 [Timed(thread[t], ticks) EXCEPT !.at = "resume"])
  /\ Unchanged

xTaskDelayUntil(t) ==
  /\ At(t, "delayUntil")
  /\ LET previous == xPreviousWakeTime[t]
         ticks    == thread[t].call.wait
         wake     == (previous + ticks) % TickRange
         left     == (wake - kernel.xTickCount) % TickRange
     IN  /\ xPreviousWakeTime' = [xPreviousWakeTime EXCEPT ![t] = wake]
         /\ IF ShouldDelay(previous, ticks, kernel.xTickCount)
            THEN Proceed(t, prvAddCurrentTaskToDelayedList(kernel, left, FALSE),
                         [Timed(thread[t], left) EXCEPT !.at = "resume"])
            ELSE Proceed(t, kernel, [thread[t] EXCEPT !.at = "resume"])
  /\ UNCHANGED <<scenario, clock>>

\* the end of a call whose task slept in it
ReturnFromCall(t) == At(t, "return") /\ Return(t, kernel) /\ Unchanged

---------------------------------------------------------------------------
(* Steps: tasks that suspend, resume, create, delete and re-prioritise *)

\* the first critical section of vTaskSuspend()
vTaskSuspend(t) ==
  \E c \in CallsOf(t, "suspend") :
    LET k1 == UnlinkEvent(UnlinkState(kernel, c.on), c.on)
    IN  /\ ~IsFree(kernel, c.on) /\ ~IsTerminated(kernel, c.on)
        /\ Proceed(t, [k1 EXCEPT !.xSuspendedTaskList = @ \cup {c.on},
                                 !.ucNotifyState[c.on] = IF @ = "Waiting" THEN "NotWaiting" ELSE @],
                   Calling(c, "suspended"))
        /\ Unchanged

\* the second, and the yield of a task that suspended itself
SuspendedTask(t) ==
  /\ At(t, "suspended")
  /\ LET k1 == prvResetNextTaskUnblockTime(kernel)
     IN  IF thread[t].call.on = t THEN Proceed(t, k1, [thread[t] EXCEPT !.at = "yield"])
                                  ELSE Return(t, k1)
  /\ Unchanged

prvTaskIsTaskSuspended(t) ==
  /\ t \in kernel.xSuspendedTaskList
  /\ ~Contains(kernel.xPendingReadyList, t)
  /\ IsWaitingOn(kernel, t) = {}

vTaskResume(t) ==
  \E c \in CallsOf(t, "resume") :
    /\ c.on # t
    /\ Return(t, IF prvTaskIsTaskSuspended(c.on)
                 THEN YieldIf(kernel.uxPriority[c.on] >= kernel.uxPriority[t],
                              MakeReady(kernel, c.on))
                 ELSE kernel)
    /\ Unchanged

\* Mutant: a task that lowers its own priority goes on running
PrioritySetStays(t) ==
  \E c \in CallsOf(t, "prioritySet") :
    LET x     == c.on
        base  == kernel.uxBasePriority[x]
        entry == kernel.uxPriority[x]
        k1    == [kernel EXCEPT !.uxPriority[x] = IF base = @ THEN c.arg ELSE @,
                                !.uxBasePriority[x] = c.arg,
                                !.xEventValue[x] = configMAX_PRIORITIES - c.arg]
        k2    == IF Contains(kernel.pxReadyTasksLists[entry], x) THEN MakeReady(k1, x) ELSE k1
        yield == c.arg > base /\ x # t /\ c.arg >= kernel.uxPriority[t]
    IN  /\ ~IsFree(kernel, x) /\ ~IsTerminated(kernel, x)
        /\ Return(t, IF c.arg = base THEN kernel ELSE YieldIf(yield, k2))
        /\ Unchanged

vTaskPrioritySet(t) ==
  \E c \in CallsOf(t, "prioritySet") :
    LET x     == c.on
        base  == kernel.uxBasePriority[x]
        entry == kernel.uxPriority[x]
        k1    == [kernel EXCEPT !.uxPriority[x] = IF base = @ THEN c.arg ELSE @,
                                !.uxBasePriority[x] = c.arg,
                                !.xEventValue[x] = configMAX_PRIORITIES - c.arg]
        k2    == IF Contains(kernel.pxReadyTasksLists[entry], x) THEN MakeReady(k1, x) ELSE k1
        yield == IF c.arg > base THEN x # t /\ c.arg >= kernel.uxPriority[t] ELSE x = t
    IN  /\ ~IsFree(kernel, x) /\ ~IsTerminated(kernel, x)
        /\ Return(t, IF c.arg = base THEN kernel ELSE YieldIf(yield, k2))
        /\ Unchanged

\* A task that deletes itself goes to the idle task for its end; the TCB of
\* another is freed.
vTaskDelete(t) ==
  \E c \in CallsOf(t, "delete") :
    LET k1 == UnlinkEvent(UnlinkState(kernel, c.on), c.on)
    IN  /\ ~IsFree(kernel, c.on) /\ ~IsTerminated(kernel, c.on)
        /\ IF c.on = t
           THEN Proceed(t, [k1 EXCEPT !.xTasksWaitingTermination = Append(@, t)], Calling(c, "yield"))
           ELSE /\ kernel' = prvResetNextTaskUnblockTime(k1)
                /\ thread' = [thread EXCEPT ![c.on] = UserThread]
        /\ Unchanged

xTaskCreate(t) ==
  \E c \in CallsOf(t, "create") :
    LET k1 == prvAddNewTaskToReadyList(kernel, c.on, c.arg)
    IN  /\ IsFree(kernel, c.on)
        /\ IF WakesHigher(k1, c.on) THEN Proceed(t, k1, Calling(c, "yield")) ELSE Return(t, k1)
        /\ Unchanged

---------------------------------------------------------------------------
(* Steps: notifications *)

\* the state of a task whose notification has been changed by (action, value)
Notified(k, x, action, value) ==
  LET old == k.ulNotifiedValue[x]
      new == CASE action = "Increment" -> old + 1
               [] action = "SetBits"   -> Max({old, value})  \* of one bit
               [] action = "Overwrite" -> value
               [] action = "NoOverwrite" ->
                    IF k.ucNotifyState[x] = "Received" THEN old ELSE value
               [] action = "NoAction"  -> old
  IN  [k EXCEPT !.ulNotifiedValue[x] = new, !.ucNotifyState[x] = "Received"]

CanNotify(x, action) ==
  /\ ~IsFree(kernel, x) /\ ~IsTerminated(kernel, x)
  /\ action = "Increment" => kernel.ulNotifiedValue[x] < MaxNotified

\* the task t, which finds the state k, waits for its notification if condition
\* says it has to
WaitForNotification(t, k, c, condition, where) ==
  LET k1 == IF condition THEN [k EXCEPT !.ucNotifyState[t] = "Waiting"] ELSE kernel
  IN  IF condition /\ c.wait > 0
      THEN Proceed(t, vTaskSwitchContext(prvAddCurrentTaskToDelayedList(k1, c.wait, TRUE)),
                   TimedUnlessForEver(Calling(c, where), c.wait))
      ELSE Proceed(t, k1, Calling(c, where))

ulTaskGenericNotifyTake(t) ==
  \E c \in CallsOf(t, "notifyTake") :
    /\ WaitForNotification(t, kernel, c, kernel.ulNotifiedValue[t] = 0, "notifyTaken")
    /\ Unchanged

\* its second critical section; arg says whether the value is cleared
NotifyTaken(t) ==
  /\ At(t, "notifyTaken")
  /\ LET clear == thread[t].call.arg = 1
     IN  Return(t, [kernel EXCEPT !.ulNotifiedValue[t] = IF clear \/ @ = 0 THEN 0 ELSE @ - 1,
                                  !.ucNotifyState[t] = "NotWaiting"])
  /\ Unchanged

\* how and arg say whether the value is cleared before the wait and after it
xTaskGenericNotifyWait(t) ==
  \E c \in CallsOf(t, "notifyWait") :
    LET k == IF c.how = "clear" THEN [kernel EXCEPT !.ulNotifiedValue[t] = 0] ELSE kernel
    IN  /\ WaitForNotification(t, k, c, kernel.ucNotifyState[t] # "Received", "notifyWaited")
        /\ Unchanged

NotifyWaited(t) ==
  /\ At(t, "notifyWaited")
  /\ LET clear == thread[t].call.arg = 1 /\ kernel.ucNotifyState[t] = "Received"
     IN  Return(t, [kernel EXCEPT !.ulNotifiedValue[t] = IF clear THEN 0 ELSE @,
                                  !.ucNotifyState[t] = "NotWaiting"])
  /\ Unchanged

xTaskGenericNotify(t) ==
  \E c \in CallsOf(t, "notify") :
    LET k1 == Notified(kernel, c.on, c.how, c.arg)
    IN  /\ CanNotify(c.on, c.how)
        /\ Return(t, IF kernel.ucNotifyState[c.on] = "Waiting"
                     THEN YieldIf(WakesHigher(kernel, c.on), MakeReady(k1, c.on)) ELSE k1)
        /\ Unchanged

---------------------------------------------------------------------------
(* Steps: interrupts *)

\* an interrupt's handler, which woke a task that should run at once if woken,
\* ends with or without portYIELD_FROM_ISR()
EndInterrupt(woken, k) ==
  /\ \E yields \in {FALSE, woken} : kernel' = YieldIf(yields, k)
  /\ UNCHANGED thread /\ Unchanged

Interrupts(op) == {c \in scenario.interrupts : c.op = op}

\* vTaskGenericNotifyGiveFromISR() is the same with the action Increment
xTaskGenericNotifyFromISR ==
  \E c \in Interrupts("notifyFromISR") :
    LET k1    == Notified(kernel, c.on, c.how, c.arg)
        waits == kernel.ucNotifyState[c.on] = "Waiting"
    IN  /\ CanNotify(c.on, c.how)
        /\ EndInterrupt(waits /\ WakesHigher(kernel, c.on),
                        IF waits THEN Unblock(k1, c.on) ELSE k1)

xTaskResumeFromISR ==
  \E c \in Interrupts("resumeFromISR") :
    LET now   == kernel.uxSchedulerSuspended = 0
        yield == now /\ kernel.uxPriority[c.on] >= kernel.uxPriority[kernel.pxCurrentTCB]
        k1    == IF now THEN MakeReady(kernel, c.on)
                 ELSE [kernel EXCEPT !.xPendingReadyList = Append(@, c.on)]
    IN  /\ prvTaskIsTaskSuspended(c.on)
        /\ EndInterrupt(yield, [k1 EXCEPT !.xYieldPending = @ \/ yield])

---------------------------------------------------------------------------
InitTasks ==
  /\ scenario \in Scenarios
  /\ kernel = vTaskStartScheduler(scenario.created, scenario.priority)
  /\ thread = [t \in AllTasks |-> UserThread]
  /\ xPreviousWakeTime = [t \in Tasks |-> 0]
  /\ clock = 0

\* the calls that the application makes when it wants to
Call(t) ==
  \/ taskYIELD(t) \/ SuspendScheduler(t) \/ StartDelay(t)
  \/ vTaskSuspend(t) \/ vTaskResume(t) \/ vTaskPrioritySet(t)
  \/ vTaskDelete(t) \/ xTaskCreate(t)
  \/ ulTaskGenericNotifyTake(t) \/ xTaskGenericNotifyWait(t) \/ xTaskGenericNotify(t)

\* the rest of a call
Step(t) ==
  \/ portYIELD(t) \/ ResumeScheduler(t) \/ ReturnFromCall(t)
  \/ vTaskDelay(t) \/ xTaskDelayUntil(t)
  \/ SuspendedTask(t) \/ NotifyTaken(t) \/ NotifyWaited(t)

IdleStep  == prvCheckTasksWaitingTermination \/ prvIdleTask
Interrupt == xTaskGenericNotifyFromISR \/ xTaskResumeFromISR

NextTasks ==
  \/ Tick \/ Interrupt \/ IdleStep
  \/ \E t \in AllTasks : Call(t) \/ Step(t)
=============================================================================
