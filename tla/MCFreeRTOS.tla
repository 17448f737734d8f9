----------------------------- MODULE MCFreeRTOS -----------------------------
(***************************************************************************)
(* Small applications on FreeRTOSQueue for TLC.  Each scenario is about a  *)
(* few calls that meet; the initial state chooses one, so that their state *)
(* spaces add up and do not multiply.                                      *)
(***************************************************************************)
EXTENDS FreeRTOSQueue

CONSTANTS t1, t2, t3, q1, q2, sem, mtx

MCEventLists == Queues \X {"send", "receive"}
MCLength     == [x \in Queues |-> IF x = q2 THEN 2 ELSE 1]
ForEver      == portMAX_DELAY

C(op, on, wait, arg) == [op |-> op, on |-> on, wait |-> wait, arg |-> arg, how |-> "none"]
Delay(ticks)         == C("delay", NoTask, ticks, 0)
Take(wait)           == C("take", mtx, wait, 0)
Give                 == C("give", mtx, 0, 0)
Receive(wait)        == C("receive", q1, wait, 0)
Send(wait, msg, how) == [C("send", q1, wait, msg) EXCEPT !.how = how]
FromISR(op, on, msg) == [C(op, on, 0, msg) EXCEPT !.how = "back"]
Notify(op, how)      == [C(op, t2, 0, 1) EXCEPT !.how = how]

\* the tasks created, and of t1, t2 and t3 the priorities and the calls
Scenario(created, priority, calls, interrupts) ==
  [created |-> created, interrupts |-> interrupts,
   priority |-> t1 :> priority[1] @@ t2 :> priority[2] @@ t3 :> priority[3],
   calls |-> t1 :> calls[1] @@ t2 :> calls[2] @@ t3 :> calls[3]]

Delays ==
  Scenario(<<t1, t2, t3>>, <<2, 1, 1>>,
    <<{Delay(1)}, {C("delayUntil", NoTask, 2, 0)}, {C("yield", NoTask, 0, 0)}>>, {})
SuspendedScheduler ==
  Scenario(<<t1, t2>>, <<2, 1, 0>>,
    <<{Delay(1)},
      {Delay(2), C("suspendAll", NoTask, 0, 2), C("resumeAll", NoTask, 0, 0)}, {}>>, {})
SuspendedTasks ==
  Scenario(<<t1, t2>>, <<1, 2, 0>>,
    <<{C("suspend", t2, 0, 0), C("resume", t2, 0, 0),
       C("prioritySet", t2, 0, 1), C("prioritySet", t1, 0, 2)},
      {C("suspend", t2, 0, 0), C("prioritySet", t2, 0, 1), Delay(1)}, {}>>,
    {C("resumeFromISR", t2, 0, 0)})
NewTasks ==
  Scenario(<<t1, t3>>, <<1, 1, 0>>,
    <<{C("create", t2, 0, 1), C("create", t2, 0, 2), C("delete", t2, 0, 0), Delay(1)},
      {C("delete", t2, 0, 0)}, {}>>, {})
Notifications ==
  Scenario(<<t1, t2, t3>>, <<1, 2, 1>>,
    <<{Notify("notify", how) :
         how \in {"Increment", "SetBits", "Overwrite", "NoOverwrite", "NoAction"}},
      {C("notifyTake", t2, 1, 0), C("notifyTake", t2, ForEver, 1), C("notifyWait", t2, 1, 1),
       [C("notifyWait", t2, ForEver, 0) EXCEPT !.how = "clear"]},
      {}>>, {Notify("notifyFromISR", "Increment")})

TwoSenders ==
  Scenario(<<t1, t2, t3>>, <<1, 1, 2>>,
    <<{Send(0, 1, "back"), Send(2, 1, "back")}, {Send(ForEver, 2, "front")},
      {Receive(1), Receive(ForEver)}>>, {})
InterruptsOnQueue ==
  Scenario(<<t1, t2>>, <<1, 2, 0>>,
    <<{Receive(ForEver)}, {Send(ForEver, 1, "back")}, {}>>,
    {FromISR("sendFromISR", q1, 2), FromISR("receiveFromISR", q1, 0)})
RaceLost ==
  Scenario(<<t2>>, <<0, 1, 0>>, <<{}, {Send(2, 1, "back")}, {}>>,
    {FromISR("sendFromISR", q1, 1), FromISR("receiveFromISR", q1, 0)})
PeekAndReceive ==
  Scenario(<<t1, t2, t3>>, <<1, 2, 1>>,
    <<{Receive(ForEver)}, {C("peek", q1, ForEver, 0)}, {}>>, {FromISR("sendFromISR", q1, 2)})
Overwrites ==
  Scenario(<<t1, t2>>, <<1, 2, 0>>,
    <<{Send(0, 1, "overwrite"), Send(ForEver, 2, "back"), C("reset", q1, 0, 0)},
      {Receive(2)}, {}>>, {})
SemaphoreGiven ==
  Scenario(<<t1, t2>>, <<1, 2, 0>>,
    <<{C("give", sem, 0, 0)}, {C("take", sem, 2, 0)}, {}>>, {FromISR("sendFromISR", sem, 0)})

TwoReceivers ==
  Scenario(<<t1, t2, t3>>, <<1, 2, 1>>,
    <<{C("receive", q2, ForEver, 0)}, {C("receive", q2, ForEver, 0)}, {}>>,
    {FromISR("sendFromISR", q2, 2)})
Ring ==
  Scenario(<<t1>>, <<1, 0, 0>>,
    <<{[C("send", q2, 0, msg) EXCEPT !.how = how] : msg \in Messages, how \in {"back", "front"}}
        \cup {C("receive", q2, 0, 0), C("peek", q2, 0, 0)}, {}, {}>>, {})

ThreeOnMutex ==
  Scenario(<<t1, t2, t3>>, <<1, 2, 3>>,
    <<{Take(0), Give, C("resume", t2, 0, 0)}, {Take(ForEver), Give, C("suspend", t2, 0, 0)},
      {Take(1), Give, Delay(1)}>>, {})
RecursiveMutex ==
  Scenario(<<t1, t2>>, <<1, 2, 0>>,
    <<{C("takeRecursive", mtx, 0, 2), C("giveRecursive", mtx, 0, 0)},
      {C("takeRecursive", mtx, ForEver, 1), C("giveRecursive", mtx, 0, 0), Delay(1)}, {}>>, {})

TaskScenarios ==
  {Delays, SuspendedScheduler, SuspendedTasks, NewTasks, Notifications, SemaphoreGiven,
   RecursiveMutex}

QueueScenarios ==
  {TwoSenders, InterruptsOnQueue, RaceLost, PeekAndReceive, Overwrites, TwoReceivers, Ring,
   ThreeOnMutex, SemaphoreGiven, RecursiveMutex}

\* A holder of a lent priority gives the mutex back to a task of lower
\* priority, while the lender, whose wait is over, is ready.
LastGive ==
  {Scenario(<<t1, t2, t3>>, <<1, 2, 3>>,
     <<{Take(ForEver), Give}, {Take(ForEver), Give}, {Take(1), Give, Delay(1)}>>, {})}
=============================================================================
