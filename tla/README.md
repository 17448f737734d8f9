# TLA+ verification of the ESP32 PLC/MQTT gateway

The repository holds Arduino sketches for an ESP32 that sits between Siemens S7
PLCs (Settimino, over a W5500 Ethernet chip) or Modbus devices on one side and an
MQTT broker (PubSubClient, over Ethernet or a SIM800L modem) on the other, and the
libraries they use.  Most sketches exist in two or three copies; the modules follow
the copy that `PROJECT.json` names.  FreeRTOS is there in its AVR port; the sketches run
on the kernel of the ESP32 core, which keeps the same contracts on two cores.

In this directory: six models (the S7 client library, the MQTT client library, the
two-PLC sketch with its FreeRTOS tasks, the PLC-to-MQTT gateway, the Modbus TCP server
with its four tasks, and the FreeRTOS kernel), two abstract specifications, twelve TLC
runs, and proofs about each of the six models that the TLA+ proof system checks.

## 1. Inventory

### The parts the models cover

| Component | State | Operations | Interacts through |
|---|---|---|---|
| Settimino S7 client (`Settimino.cpp`) | `Connected`, `LastError`, `PDULength`, the socket; the global telegram buffer `PDU` that all clients share | `Connect`, `Disconnect`, `ReadArea`, `WriteArea`, `GetDBSize`, `PlcStop`, `PlcStart`, `GetPlcStatus` | a TCP byte stream to the PLC; return codes to the sketch |
| PubSubClient | `_state`, one packet buffer, `lastInActivity`, `lastOutActivity`, `pingOutstanding`, `nextMsgId` | `connect`, `loop`, `publish`, `subscribe`, `unsubscribe`, `disconnect` | a TCP byte stream to the broker; a callback into the sketch, from inside `loop()` |
| READ_BOTH_PLC | mutexes `mate_200`, `mate_1200`, two S7 clients, `MyBuffer` arrays, `connected_1200` | Task1 (200 to 1200), Task2 (1200 to 200), Task3 (connects), `Connect_200`, `Connect_1200`, `CheckError` | shared clients, the shared `PDU`, the Ethernet chip, which one failed connection resets for both |
| Read_Write_S7 gateway | `prev_value`, `plc_out`, the MQTT and S7 connections | `loop`, `reconnect`, `callback` / `s7_write`, `s7Read`, `mqttSend`, `Connect`, `ESP.restart()` | the PLC's data block, the broker, a remote client that reads and writes tags |
| TCP_SERVER_MQTT | `messageTemp`, `Hreg` (the holding registers), `prev_value`, `plc_out`, the mutex `baton`, the MQTT client's buffer | `loop()` and `callback()`, Task1 (message to registers), Task2 (serves Modbus), Task3 (finds changes every 400 ms), Task4 (publishes every 4 s) | the broker; a Modbus master that reads and writes registers; two cores, two priorities on one of them |
| FreeRTOS kernel (`tasks.c`, `queue.c`, `list.c`, `port.c`) | ready, delayed, suspended and pending lists, the tick count, priorities, notifications; queues with their event lists and locks, holders of mutexes | delays, suspension, creation and deletion, priorities, notifications, the tick; `send`, `receive`, `peek`, `reset`, `take`, `give`, the recursive forms and the forms for interrupts | critical sections, the suspended scheduler, context switches, interrupts |

What makes each hard, and what makes it correct:

* **Settimino.**  One request, one answer, but nothing in a telegram says which
  request it answers, and a wait may time out after consuming part of a telegram.
  Hard: late answers, answers cut in three reads, long reads and writes in chunks of
  which one fails, unsigned subtraction from a negotiated length, `Connect()` that
  fails half-way.  Correct: an answer that is accepted belongs to the request; a read
  that returns 0 has filled the buffer; `Connected` means usable; every call returns.
* **PubSubClient.**  A single thread that must not block for long, two time stamps
  and a flag to tell a dead broker from a quiet one.  Hard: the interval is checked
  before the answer that may be waiting is read; a time read at the start of `loop()`
  is used after a read and a callback that both take time; a packet that comes in two
  parts; a packet too long for the buffer.  Correct: hung brokers are given up and
  others are not; the broker hears the client in time; what is acknowledged was
  handed to the callback; what can be delivered is.
* **READ_BOTH_PLC.**  Three tasks, two mutexes, one of them held while the *other*
  client is used.  Hard: every interleaving of telegrams in one `PDU`; branches that
  keep a mutex; two functions that reach their closing brace without a `return`.
  Correct: values cross from one PLC to the other; checking goes on; a client is never
  read by two tasks at once.
* **Read_Write_S7.**  Report by exception: a tag is published only when it differs
  from what was read last, so the record `prev_value` has to be what the broker knows.
  Hard: failed reads, writes and publications, connections that break between the
  two, restarts, values wider than a PLC integer.  Correct: the record is right; only
  changes are sent; changes arrive.

* **TCP_SERVER_MQTT.**  Of three shared variables one has a mutex.  Hard: `callback()`
  appends to `messageTemp` a character at a time while Task1, of the same core and
  priority, parses it, and Task1 empties it seconds after; three registers are written
  one after the other; `publish()` of Task4 fills a buffer that `loop()`, of higher
  priority, may fill before it is sent, and out of which the callback may be copying a
  message; a mutex is shared by a task of priority 0 and one of another core.  Correct:
  a message arrives whole, except in the two ways in which the code can lose one; the
  registers pair the tag of one message with the value of another only if the text was
  replaced or spoilt while Task1 read it, or the master wrote there; what is published
  is what Task3 found; a change is lost in one way only; nobody starves.
* **FreeRTOS.**  Every call may be interrupted between its critical sections.  Hard: a
  message that arrives between the look at an empty queue and the entry in its event
  list; interrupts that find the queue locked; a tick count that wraps while tasks sleep
  in two lists; ticks that come while the scheduler is suspended; priorities lent
  through a mutex to a holder whose lender then gives up.  Correct: the ready task of
  the highest priority runs; sleeps end on their tick; no wake-up and no tick is lost;
  time-outs are honest; mutexes exclude; priorities are lent and given back; a queue is
  a bounded FIFO.

### The parts they do not cover

| Component | What it does and keeps | What is hard, what would be correct |
|---|---|---|
| TCP_SERVER_QUEUE_MQTT | begins to put a queue between Task3 and Task4; the queue is never created and the file does not compile; the tasks are those of TCP_SERVER_MQTT | nothing to model yet |
| 32_local_rbe_mqtt, 32_WRITE | the gateway's read, compare and write-back in tasks, without a mutex | as above, for `plc_out` and `messageTemp` |
| read_array_in_tasks | earlier form of READ_BOTH_PLC; the Connect functions take and give the mutexes, one of them the wrong one | a mutex that is never given back |
| mqtt_32_multi_task, only_mqtt_32 | two tasks publish through one PubSubClient while `loop()` runs it | one buffer, two writers |
| Single-loop S7 and MQTT sketches; earlier forms of the gateway | connect, read once a second, print or publish | what they rely on is in S7Client and PubSubClient |
| Modbus TCP, Modbus RTU, RS-232, SMS sketches | polling loops around libraries that are not in the repository | no state outlives a round |
| Ethernet2 | W5500 registers, sockets, DHCP, DNS | the DHCP lease: when it is renewed, rebound, asked for again |
| NTP and clock sketches | request, wait, calendar arithmetic | no state outlives a round |
| FreeRTOS: timers, event groups, stream buffers; its demonstrations | `timers.c`, `event_groups.c`, `stream_buffer.c`; programs that blink LEDs | a timer command queue and its overflow list; a stream written and read without a lock |
| Settimino and PubSubClient examples and tests | users of the libraries | the tests say what PubSubClient promises |
| Arduino_Patron | schematics and archives | no code |

`PROJECT.json` lists every component with its files and every hazard with the line
where it bites and the properties that watch it.

## 2. The modules and how they fit

```
  S7Service     what the S7 client promises its caller
     ^  INSTANCE (refinement mapping in S7Client: Promise, Implements)
  S7Client        <- MCS7Client (job sets and PDU sizes for TLC)   <- S7Client_proof
  ReadBothPlc                                                      <- ReadBothPlc_proof
  Gateway                                                          <- Gateway_proof
  PubSubClient                                                     <- PubSubClient_proof
  TcpServerMqtt   <- MCTcpServerMqtt (messages and bounds)         <- TcpServerMqtt_proof

  FreeRTOSKernel  the scheduler: operators on the kernel's state   <- FreeRTOSKernel_proof
     ^  EXTENDS
  FreeRTOSTasks   tasks, the calls of task.h, interrupts, the tick
     ^  EXTENDS
  FreeRTOSQueue   queues, semaphores, mutexes  <- FreeRTOSQueue_proof <- FreeRTOSQueueItems_proof
     |  INSTANCE (items <- Items)    ^
     v                               MCFreeRTOS (small applications for TLC)
  BoundedQueue    what a queue of messages promises
```

`Gateway` and `ReadBothPlc` do not instantiate the two library modules: composed, the
state spaces multiply.  They take from a library what its caller sees.  In `Gateway`
a read of the PLC delivers all of it or fails, which is `ReadFillsBuffer` of
`S7Client`, and a broker connection either stands or is reported as broken, which is
what `HungIsFound` of `PubSubClient` says it comes to.  `ReadBothPlc` opens the S7
client one level further, because the `PDU` the clients share is its subject:
filling, sending, receiving and checking are steps of their own.  `ReadBothPlc` and
`TcpServerMqtt` take of the kernel that a mutex excludes (`MutualExclusion`), that a task
that waits for one gets it, and in `TcpServerMqtt` that the holder inherits the priority
of the waiting task (`InheritanceHolds`).

### S7Client

The stream from the PLC is a sequence of words; a telegram is four of them (TPKT,
COTP, two halves of the payload), so that each of the three reads of `RecvISOPacket`
can find all, part or none of what it waits for.  `avail` is what
`TCPClient->available()` counts; `Deliver` moves it on, at any moment.

| Code | Actions |
|---|---|
| `TCPConnect`, `ISOConnect`, `NegotiatePduLength` (`ConnectTo`) | `TCPConnect`, `TCPConnectFails`, `ConnectAgain`, then exchanges with `req` = `ISOConnect`, `NegotiatePduLength` |
| `Disconnect` | `Disconnect` |
| `ReadArea`, `WriteArea`, `GetDBSize`, `PlcStop`, `PlcStart`, `GetPlcStatus` | `Call(job)`, then exchanges; `Chunk` computes the next piece of a read or a write and `Finish` continues or ends the loop |
| `TCPClient->write` | `Send`, `SendFails` |
| `RecvISOPacket` | `RecvTPKT`, `RecvBadTPKT`, `SkipEmpty`, `RecvCOTP`, `COTPTimesOut`, `RecvData` |
| `WaitForData` | the guards on `avail`, and `TimesOut` with `Flush` |
| checks of an answer | `ReadVerdict`, `StatusVerdict`, `NegotiateVerdict`, ... |

Time is a choice: a wait that finds its bytes goes on, one that does not may time out.
Two facts depend on the Ethernet library the program is built with, so they are
constants: whether `flush()` discards what was received (`FlushDiscards`; the vendored
Ethernet2 does not) and whether `connect()` closes a socket left open
(`ReopenCloses`).  `slipped`, `got` and the field `cur` of a telegram are history
variables; no guard of the code reads them.

### ReadBothPlc

One step per access to shared state.  A copier takes its mutex, then for each of its
three calls fills the PDU, sends it, receives, checks, and gives the mutex.  The PDU
is three zones, because the code fills and reads it in three moments: the header of
the request, the return code and the data.  `FallsOff` is what `Connect_1200()` and
`Connect_200()` may return when they reach their closing brace: C++ leaves it
undefined, and both values are considered in the passing run.  `WizReset()` after a
failed connection kills the socket of the other client.

### Gateway

`pc` follows `loop()`: reconnect, handle one message, connect the PLC, read, publish.
A JSON object is a function from some tags to values; `plc_out` is one, since that is
what the text holds, or `Blank`, the empty text it is before the first read, which a
failed first read publishes.  The cut of a payload to 16 bits by `SetIntAt()` is `Stored`.
`IntSize` is 2 in the runs, so that the values a PLC integer cannot hold (2) appear
at once.  `told` (what the gateway last published or wrote), `view` (what a remote
client takes each tag for) and `onlyWrites` (no fault but failing writes so far) are
history.

### PubSubClient

`Tick` advances `millis()`.  A time stamp is modelled by its age, capped where no
comparison can tell the difference: the caps (`InCap`, `OutCap`, `DeadCap`) lie one
above the largest value a comparison or a property uses.  `Tick` is bounded by
`MayWait`: `LoopGap` between two calls of `loop()`, `CallbackTime` in a callback,
`SocketTimeout` in a read.  `loop()` is `LoopTimesOut` (gives the connection up) or
`Loop` (pings when due, then takes one packet); the packet ends in `ReadPacket`,
`ReadGivesUp` (the second part does not come) or `ReadTorn` (the rest of a packet
taken for a beginning, parsed as anything).  The local `t` of `loop()`, which is read
before the packet and stored after the callback, is `tAge`.

### TcpServerMqtt

A text is the sequence of its parts: for each member its tag (with the brace or comma
before it) and its value, and the closing brace.  The client has one `buffer`, part by
part, and there is no other copy of a message that is arriving: `CallbackBegins` is the
packet read into it, with which `callback()` begins and empties `messageTemp`;
`CallbackAppends` appends the next part out of `buffer`, whatever it holds by then, and
`Task4Fills` writes over a part.  Task1 reads one tag or one value at a time, so any of
these may fall between two of its steps.  Where the text has been emptied under it
(`replaced`), or a part is another packet's, Task1 may find any tag or value there
(`Garbled`).  Where the text ends early, the document has the members read so far and
possibly one whose digits are there in part (`CutValues`).

| Code | Actions |
|---|---|
| `loop()`, `reconnect()`, `callback()` | `LoopSends` (other packets in the client's buffer), `CallbackBegins`, `CallbackAppends` |
| Task1 | `Task1Wakes`, `Task1ReadsTag`, `Task1ReadsValue`, `Task1Stops`, `Task1Sets` (register 0, 1, 2), `Task1Erases`, `Task1Resumes` |
| Task2 | `Task2`: `mb.task()` serves one write of the master |
| Task3 | `Task3Wakes`, `Task3Takes`, `Task3Reads` (a register), `Task3Compares`, `Task3Gives` |
| Task4 | `Task4Takes`, `Task4Publishes` (calls `publish()`), `Task4Fills` (a part of the packet), `Task4Sends`, `Task4Gives` |

`Task4Runs` is the priorities of core 1: Task4 goes on while the others are in a delay,
or while it holds the mutex Task3 waits for, since it then has Task3's priority and takes
turns.  That second case is how `publish()` comes between two steps of the callback.
`plc_out` is `Half` while Task3 writes it.

History: `last` and `fate`, the last message and whether it is "arriving" or "waiting" in
`messageTemp` ("none" once it is lost or the text emptied); `whole`, whether Task1 has
read that message alone and to its end; `clean`, whether nothing took the place of a part
while Task1 read; `asSet`, whether the first registers are as Task1 set them from a clean
document; `packet`, what `publish()` was called with; `unpublished`, the registers whose
change has not gone out.

### FreeRTOSKernel, FreeRTOSTasks, FreeRTOSQueue

`FreeRTOSKernel` has no variables.  The kernel's state is a record with the file-scope
variables of `tasks.c` and the fields of the TCBs under their names, and a function of
`tasks.c` is an operator from one such record to the next: `xTaskIncrementTick`,
`xTaskResumeAll`, `vTaskSwitchContext`, `xTaskPriorityInherit` and so on.  The rings that
the scheduler walks are sequences turned so that `pxIndex` points to the last element.

`FreeRTOSTasks` has the steps.  A critical section is one step; interrupts (the tick, and
those of the application) come between steps; only `pxCurrentTCB` takes steps.
`thread[t]` is where task `t` is in its call, with the locals of that call.  The
application is a *scenario*: which tasks it has, which calls each of them may make and
which its interrupts.  `FreeRTOSQueue` adds the queues; the loops of
`xQueueGenericSend`, `xQueueReceive`, `xQueuePeek` and `xQueueSemaphoreTake` are

| Code | Actions |
|---|---|
| the critical section at the head of the loop | `xQueueGenericSend`, `xQueueReceive`, `xQueuePeek`, `xQueueSemaphoreTake` |
| `vTaskSuspendAll`, `prvLockQueue`, `xTaskCheckForTimeOut` | `SuspendToWait`, `prvLockQueue`, `xTaskCheckForTimeOut` |
| `prvIsQueueFull`, `prvIsQueueEmpty`, `xTaskPriorityInherit`, `vTaskPlaceOnEventList` | `PollQueue`, `InheritPriority`, `PlaceOnEventList` |
| `prvUnlockQueue`, `xTaskResumeAll` | `UnlockTx`, `UnlockRx`, `ResumeScheduler` |
| the time-out | `RecheckQueue`, `DisinheritAfterTimeout` |
| `xQueueGenericSendFromISR`, `xQueueReceiveFromISR` | the same names; a locked queue counts in `cTxLock`, `cRxLock` |

`Allowed` is what the callers of the kernel owe it (a mutex is not received from, a
message is overwritten only in a queue of length 1, as `queue.c` asserts, handles are of
the right kind, waits and priorities in range); every scenario is assumed to keep to it,
and TLC checks that those of the runs do.  `due`, `owns`, `copied` and `clock` are history.

## 3. The runs

| Run | Distinct states | What it shows |
|---|---|---|
| `s7_calls` | 724,331 | calls of every kind of exchange, with refusals, timeouts, dying links, the tail of a late answer in the stream when a call starts, whole answers that come late within it and a PLC that may negotiate a length of 0: `OwnAnswers`, `ConnectedIsUsable`, `NoLeftovers`, `CallsReturn`, and the refinement `Implements` of `S7Service` |
| `s7_other_library` | 481,568 | with the library whose `flush()` discards, the real PDU of 240 bytes, timers, and reads longer than the count byte of the telegram: the strengthened invariant `IInv`, `ReadFillsBuffer` |
| `both_plcs_locks` | 913,693 | who holds which mutex where, whatever fails (`LockInv`), and that reads of one client are exclusive (`ReadsExclusive`) |
| `both_plcs_shared_pdu` | violation | a value is written back to the PLC it was read from (`CopiesCross`) |
| `both_plcs_failed_connect` | violation | Task3 waits for itself for ever (`KeepsChecking`) |
| `gateway` | 1,111,113 | with two faults of any of six kinds: as long as only writes have failed, the record of the broker is right (`NothingLost`) and only changes are published (`OnlyChangesSent`); whatever failed, a change not yet read reaches the remote client (`ChangesArrive`) |
| `gateway_lost_publish` | violation | a publication that fails is never repeated (`AllPublished`) |
| `tcp_server` | 524,886 | `MessageIsWhole`, `RegistersAreATag`, `SentIsARound`, `OnlyARoundLosesChanges`, `MessagesAreHandled`, `RoundsGoOn` |
| `pubsub_client` | 514,142 | `HungIsFound`, `HeardInTime`, `LiveBrokerKept`, `AckedWasHanded`, `AllHanded` |
| `kernel_tasks` | 79,240 | over the wrap of the tick count: sleeps end on their tick (`SleepsExactly`), no tick is lost (`NoTickLost`), the task of the highest priority runs (`TopPriorityRuns`), sleeps end (`SleepEnds`) and tasks of one priority share the processor (`EveryoneRuns`) |
| `kernel_queues` | 493,644 | `NoLostWakeUp`, `TimeoutHonest`, `MutualExclusion`, `InheritanceHolds`, `NoStrayBoost`, `TopPriorityRuns`, and the refinement `ImplementsQueue` of `BoundedQueue` |
| `kernel_last_give` | violation | the giver of a mutex runs on in front of a ready task of higher priority (`TopPriorityRuns`) |

The runs with a type invariant check that too.
`PROJECT.json` names, for every property of a passing run, a mutated definition that
breaks it.

### Bounds

* **S7.**  Two chunks per read and write: the loops carry nothing from one chunk to
  the next but the counters, so a third adds no new case.  `MaxBacklog` bounds the
  words left in the stream when a call *starts*: 2 and 1 in the runs, the tail of a late
  telegram (a whole one has 4); the proofs hold for any bound.  `PduSizes` of 56 makes
  38 bytes a chunk; 0 is a PLC that refuses; 240 is what the client asks for and what no PLC exceeds.  Lengths of
  1 to 35 are excluded in the runs, and there `CallsReturn` is not claimed: with a
  negotiated length of exactly 18 (35 for writes) a chunk has no elements and the loop
  does not end.  The proof of the types makes no such restriction.
* **Two PLCs.**  Nothing is bounded: three tasks and two PLCs are what the sketch has.
  The locks run lets everything fail; the violation runs switch off the failures that
  are not needed, so that the trace shows one cause.
* **Gateway.**  Two tags, so that a message or a change may concern one, the other or
  both.  Two values of an integer and one that does not fit.  Two changes and two
  messages are the least for a change to be overtaken and repeated.  Any two of the six
  faults may happen.  `NothingLost` and `OnlyChangesSent` speak of the time until
  something other than a write has failed: a failed publication loses changes (the
  violation run), and a failed read publishes the last ones again.
* **PubSubClient.**  An interval of 7 against pauses of 1 and a socket timeout of 2
  stands for the 15 s that both have by default: several rounds fit in an interval, as
  in the sketches, and the condition `Timely` is met (1 + 3 * 2 <= 7), so that
  `LiveBrokerKept` is not vacuous.  The safety properties are proved for every interval
  and timeout, `AllHanded` is checked for these.
  One fault of five kinds; one message that fits, one that does not, and QoS 0 traffic
  without end.  `IdSpace` of 3 makes `nextMsgId` wrap.
* **TCP server.**  Three registers, those of a message; the master writes the last of
  them.  The buffer has 5 parts, which a message with two tags fills.  `Bounds` says
  which messages arrive, at any time but in this order, how many parts the packet of the
  changes has, and whether the master writes; the initial state chooses one of three.
  Two messages of one tag each, the second of which may come before, between or after the
  steps of Task1 on the first, with a packet of 6 parts, for which there is no room
  (`publish()` fails at once); one message of two tags, with a packet of 2 parts that may
  be written over it while the callback copies it; one message, with a packet of 1 part
  and the master writing.  All of it at once multiplies the states.  The proofs are for
  any messages, registers and bounds.  One of the words has the value the registers start
  with, so that a round may find no change in a register that was set.
* **FreeRTOS.**  Three tasks and the idle task, priorities 0 to 3, a tick count of four
  values (`TickRange`) and two of the overflow count, so that every wait may span a wrap
  and the time is off by one at most once in a wait; one tick held pending (`MaxPended`);
  queues of lengths 1 and 2, a counting semaphore, a mutex; two messages.  `MaxLate`
  caps how late a woken task is counted, `MaxNotified` a notification's value,
  `MaxLocked` what interrupts do to one locked queue.  One run takes seven, the other
  ten scenarios; each is about a few calls that meet, and the initial state chooses one,
  so that their states add up.

### Fairness

* **S7.**  `WF_vars(Step)`: a call that has begun runs on, because every wait in it is
  bounded by `RecvTimeout`.  Nothing is assumed of the PLC or the network.
* **Two PLCs.**  `WF` of each task: all of them delay or block in every round, so the
  scheduler comes to each.  `SF` of taking a mutex: whoever gives one back delays
  before taking it again, so a waiter does get it.  The findings are not due to
  starvation.
* **Gateway.**  `WF_vars(Loop)`: `loop()` is called for ever.
  `SF_vars(S7Read \/ S7ReadFails)`: the seven seconds between reads pass, so a loop
  that comes to the comparison again and again does not find it too early each time.
* **PubSubClient.**  The sketch calls `connect()` when it is not connected and `loop()`
  otherwise, for ever.  `Loop`, `LoopTimesOut`, `CallbackReturns` and `Tick` exclude
  one another for a moment (time stands still where a bound is reached, `loop()` is not
  called inside a callback), hence strong fairness.  A broker sends a QoS 1 message
  again on each connection until it is acknowledged and is kept from it only while the
  line is full.  Nothing forces the sketch to publish or subscribe or a fault to happen;
  faults are finitely many, so a broker that hung is reached again in the end.

* **TCP server.**  `WF` of the callback, Task1, Task3 and Task4: each delay ends and each
  core comes to each of its tasks.  `SF` of `Task3Takes`: Task4 asks for the mutex again
  four seconds after it gave it back, long after a waiting Task3 of higher priority has
  taken it.  Nothing is assumed of the broker, of the messages or of the master.
* **FreeRTOS.**  The tick interrupt comes, and the running task and the idle task go on
  with a call they are in; no task need ever make a call but `xTaskResumeAll()`, and no
  other interrupt need come.  `FairSpec` states weak fairness with the enabling
  conditions written out (`CanGo`), which is cheaper to evaluate.

### Deadlock

Checked in `Gateway`, `PubSubClient`, `TcpServerMqtt` and the kernel's runs.  The S7 client stops where its caller makes
no more calls (the backlog bound is reached), and the three tasks of READ_BOTH_PLC can
stop for good, which is one of the findings: those runs do not check it.

### Findings

1. **One PDU for all clients** (`Settimino.cpp:42`).  The mutexes of READ_BOTH_PLC
   guard a client each, the telegram buffer is common.  Between the moment a task fills
   the PDU and the moment it uses the answer the other task may replace it; the value
   read from the 1200 is then written to the 1200.
2. **The mutex of a failed connection** (`READ_BOTH_PLC.ino:309`).  The branch that
   only delays does not give it back.  FreeRTOS mutexes are not recursive, so the next
   round waits for itself.
3. **A failed publication loses its changes** (`s7_Read.ino:63`): `prev_value` has the
   new values before they are sent.
4. **The last mutex given back does not always switch** (`queue.c:896`).
   `xTaskPriorityDisinherit()` reports that the giver's priority has fallen, and its
   comment (`tasks.c:4209`) says that a switch should then occur whether or not a task
   waits.  When a task of lower priority waits, `prvCopyDataToQueue()`'s answer is not
   looked at, and the giver goes on in front of the ready task whose wait for the mutex
   has timed out.  It lasts until something else asks for a
   switch; the tick does not have to.

The models show more that is not a run of its own:

* a dead connection stays in use, since `Disconnect()` is commented out
  (`READ_BOTH_PLC.ino:532`);
* a failed read publishes the last changes again (`s7_Read.ino:75`), where
  32_local_rbe_mqtt/READ_ME.txt:6 has it that "only changed data will be send";
* in the TCP server, whose READ_ME.txt:5 asks that received data be parsed and sent on as
  its value: Task1 may erase a message unread, `publish()` may write over one that the
  callback has not copied to its end, Task1 may set the first half of a message, and if
  the next one comes while it reads, the tag of one with the value of the other;
* `xQueueGenericReset()` of a queue with room for several messages wakes one sender, as
  its comment says, and the others sleep on.  `NoLostWakeUp` does not show it: its run
  resets a queue of length 1 only.

For each of the four findings `PROJECT.json` quotes the line of the repository it contradicts.

## 4. The proofs

Every theorem holds for all values of the constants that satisfy the named
assumptions of its module: types and signs; for S7 also that a `uint16_t` has more than
256 values and that no PLC grants a PDU above 240 bytes, which is what the client asks
for; for the TCP server that a closing brace is no tag or value, that every message fits the
client's buffer and that the states of `plc_out` and of the buffer can be told from data; for the kernel that
every call and interrupt of a scenario is one the kernel allows (`Allowed`: its handles are of
the right kind, its waits and priorities in range), and that `vTaskDelay()` of no ticks,
which is a yield, is written as one.  A further hypothesis is part of a theorem's
statement.

| Theorem | Says | Argument |
|---|---|---|
| `S7Client_proof!TypeCorrect` | `Spec => []TypeOK`: in particular, the `uint16_t` counters of `ReadArea` and `WriteArea` never pass below zero | with `LoopInv`: while a chunk is on its way it is no larger than what is left, so the subtraction after it cannot wrap.  `TypeOK` alone does not say that `NumElements <= TotElements` |
| `S7Client_proof!Invariant` | `Spec => []IInv` | see *The stream of the S7 client* below |
| `S7Client_proof!NothingLeftOver`, `!AnswersAreOwn` | `[]NoLeftovers`, `[]OwnAnswers` | conjuncts of `IInv`, or follow from `StreamInv` |
| `S7Client_proof!ConnectedMeansUsable` | `[]ConnectedIsUsable` | `NegotiationInv`: only answers a PLC gave carry a length, and nothing but the end of the second handshake sets `Connected` |
| `S7Client_proof!ServiceKept` | `Spec => Implements`: each step of the client is a step of `S7Service` or none | one lemma per action, under `IInv`; the abstract call begins with `Call`, is served where a chunk is taken and ends with `Return` |
| `S7Client_proof!ReadsFillTheBuffer` | `BuffersFit => (Spec => ReadFillsBuffer)` | `FillInv`: the chunks taken lie end to end up to `Offset`, and the elements left are those that the rest of the buffer holds.  `BuffersFit` says that no read asks for more bytes than a `uint16_t` counts: from 32768 timers on `SizeRequested` wraps and the claim would be false |
| `ReadBothPlc_proof!LockDiscipline` | `Spec => []LockInv` | `LockInv` is inductive: position determines holder in both directions.  That a failed connection keeps the mutex is no exception to it: Task3 at "poll" may hold one |
| `ReadBothPlc_proof!ReadsAreExclusive` | `Spec => []ReadsExclusive` | two tasks inside `ReadArea` or `ConnectTo` of one client would both hold its mutex |
| `Gateway_proof!RecordIsRight` | `[]NothingLost`, whatever may fail | `LossInv`: while only writes have failed and the changes are on their way the record is what the broker has, overlaid with `plc_out`; and the connections stand once they are up, so publishing cannot be skipped |
| `Gateway_proof!SendsOnlyChanges` | `OnlyChangesSent`, whatever may fail | from `LossInv` at the step |
| `PubSubClient_proof!TypeCorrect` | `[]TypeOK`; `nextMsgId` is never 0 | with `SpentInv`: how long the sketch can be at a place bounds the age `t` can have when it is stored |
| `PubSubClient_proof!HungConnectionsEnd` | `[]HungIsFound` | `DeadInv`: the silence of a hung broker is at most the age of `lastInActivity`, plus an interval and a pause if a ping is out, because the ping itself makes the stamp young.  Publishing makes only the other stamp young, which is why the bound holds however much is published |
| `PubSubClient_proof!BrokerHears` | `[]HeardInTime` | `HeardInv`: a bound per place, since the stamp set after a callback is the time of before the read |
| `PubSubClient_proof!OnlyHandedAcked` | `[]AckedWasHanded` | `AckInv`: every PUBACK that is written but not yet read by the broker names a message that was handed over, and every packet is whole or at its head |
| `PubSubClient_proof!LiveBrokersKept` | `LiveBrokerKept`, for every interval, pause and queue that satisfy `Timely` | see *The answer to a ping* below |
| `TcpServerMqtt_proof!TypeCorrect` | `[]TypeOK` | with the rest of `IInv`: no document is half-written when `publish()` takes it |
| `TcpServerMqtt_proof!RoundsGoOut` | `[]SentIsARound` | `BatonInv`: where a task is and who holds the mutex determine each other, and `plc_out` is `Half` exactly while Task3 writes; `RoundInv`: what a round writes are the values it stored |
| `TcpServerMqtt_proof!TagsStayWhole` | `[]RegistersAreATag`, whichever registers the master writes | `CallInv`, `PairInv`: a tag and the value behind it in `messageTemp` are those of one piece unless one of them is another packet's; `ReadInv`: while the reading is `clean` the tag Task1 has read last is still in front of it; so (`TagInv`) each member of a clean document came from one piece, and the registers hold the part already set while `asSet` |
| `TcpServerMqtt_proof!ChangesStay` | `[]OnlyARoundLosesChanges` | every step keeps `unpublished` within what waits in `plc_out`, or in `root` while that is written; only `Task3Compares` starts both afresh |
| `TcpServerMqtt_proof!MessagesStayWhole` | `[]MessageIsWhole`, for messages of any length | `MessageInv`: the parts the callback has appended and those in `buffer` it has still to append are together the text of the message, until `Task4Fills` writes over one of the latter; while Task1 reads, its document is what the parts it has passed say (`HasRead`), unless the text was replaced under it, and then it is no longer `whole` |
| `FreeRTOSQueue_proof!Invariance` | `Spec => [](IInv /\ KernelInv)` | see *The kernel* below |
| `FreeRTOSQueue_proof!TypesKept` | `[]TypeOK`: a task is in one list of states at most, and the kernel's variables are in range | from `Sound` and `QueuesInv` |
| `FreeRTOSQueue_proof!MutexesExclude` | `[]MutualExclusion`, for any tasks, queues and scenarios | `MutexInv`: a mutex is in its queue exactly when it names no holder |
| `FreeRTOSQueue_proof!TicksAreKept` | `[]NoTickLost`, for a tick count of any width and any number of pended ticks | a tick is counted or pended; `xTaskResumeAll()` counts every pended tick or none, by induction over them |
| `FreeRTOSQueue_proof!BoostsEnd` | `Spec /\ []DeletedHoldNothing => []NoStrayBoost` | `HeldInv`: `uxMutexesHeld` is the number of mutexes a task has, so that the last one given back is the one at which `xTaskPriorityDisinherit()` finds one left.  The hypothesis is needed: a task created where one was deleted begins with a count of 0 although the model's `owns` still has what the other kept |
| `FreeRTOSQueue_proof!SleepersWakeOnTime` | `[]SleepsExactly`, for a tick count of any width, if fewer ticks are pending than it has values | see *The time of a wait* below |
| `FreeRTOSQueue_proof!CallsTimeOutExactly` | `[][\A t \in Tasks : CallTimesOut(t)]_vars`, the half of `TimeoutHonest` that is about queues, on the same condition | the same |
| `FreeRTOSQueueItems_proof!QueuesAreQueues` | `Spec => ImplementsQueue`: every step of every call and interrupt is a step of a bounded FIFO or none | lemmas on the circular storage: `pcReadFrom`, `pcWriteTo` and the count fit together whatever the length, and a cell written at either end leaves the others |
| `FreeRTOSKernel_proof!ShouldDelayIsExact` | `xTaskDelayUntil()` sleeps exactly when fewer ticks than asked for have passed, for a tick count of any width, whichever of its times have wrapped | sums and differences of tick counts wrap at most once |
| `FreeRTOSKernel_proof!TimeOutIsExact` | `xTaskCheckForTimeOut()` ends a wait when its ticks have passed and not before, as long as they are fewer than the tick count has values | the same |

`LockInv` and the S7 client's `IInv` are also invariants of runs; so are `TypeOK` of
each module with a run for it, and every property a theorem names.

### The stream of the S7 client

`NoLeftovers` and `OwnAnswers` are not inductive: whether an answer is this call's own
depends on what the call before left in the stream.  `IInv` adds `StreamInv`, which says
for each place of a call what the stream holds on a connection whose framing nothing has
broken (`~slipped`): nothing before the request is sent; after it one telegram of this
request, cut off where the code has read to, perhaps behind an empty one; and `LoopInv`
and `NegotiationInv` for the counters and the PDU length.  A call that returns without an
error has read to the end of its telegram, hence `NoLeftovers`; and what is read at "data"
is the rest of that telegram, hence `OwnAnswers`.  Once `slipped`, nothing is claimed
until the socket is opened again.

### The answer to a ping

`loop()` looks at the interval before it reads, so it gives up a broker whose answer to
the ping has come and waits in the queue.  That this does not happen to a broker that is
well is a matter of how long the answer can wait, and `PingInv` bounds it: at most one
ping is under way, either on its way to the broker or its answer on the way back
(`OnePing`); what the broker answers finds at most `Backlog + MaxOut` packets in front of
it (`Room`); each call of `loop()` reads one.  While the ping travels the stamps are no
older than `lag`, which is at most `AnswerTime`; when the answer is the *i*-th packet of
the queue they are no older than `KeepAlive` less the time until the *i*-th packet is read
(`ReadIn`); when the broker has closed its end, no older than `KeepAlive` less the time
until the queue is empty (`Answered`).  The hypothesis `Timely` is needed: it is what the
ping has left of the interval when it is answered.  So is `stream = "whole"`: the rest of
a packet that `readPacket()` waits for makes a turn longer by `SocketTimeout`.

### The kernel

`FreeRTOSKernel_proof` has one lemma for each function of `tasks.c` and `list.c`: it takes
a good state to a good one and leaves these variables alone (`Moves`, `Same`).  A state is
`Good` when it is `Sound` and the idle task is ready at priority 0.  `Sound` has the types
and, for each task, `Once`: it is in at most one of the ready lists, the two delayed lists,
the suspended and the deleted tasks, and each list has it once.  The idle task matters
because the scheduler takes the first ready list that is not empty and stops at 0 only
because idle is there.  `Good` does not say which entry is first in a list: for it,
insertion and removal keep the other entries, whatever their order.  The order of the
delayed lists is the matter of `InOrder`, which has lemmas of its own.

`xTaskIncrementTick()`, `xTaskResumeAll()`, `prvUnlockQueue()` and `vTaskStartScheduler()`
repeat a change for each of a list of tasks or for each pended tick.  The library's
induction theorems are about an arbitrary predicate, which the provers cannot
instantiate; `Induct` is about a set of numbers instead and follows from the well-ordering
of the naturals.  `Changes` names the sequences of states that each of these loops goes
through, and that every state of one is good is an induction over that set.

The invariant of the queues (`IInv`) has `ThreadsInv` (every thread is in a call its
scenario allows, and one that is at a place of `queue.c` in a call on a queue),
`QueuesInv` (counts, cells and holders in range) and `MutexInv`; that of the kernel is
`KernelInv`.  They are one induction: a step of a queue wakes tasks and lends priorities
(`KernelStep` lists what a step may do to the kernel), and a task that checks its
time-out reads the tick count.

### The time of a wait

`SleepsExactly` compares the kernel's lists with `due`, the ticks a task has still to wait
as an observer with a clock that does not wrap counts them.  It is not inductive: that the
next tick wakes the first task of a list and no other needs the order of the lists, and
where a task is in the wrong list after a switch of the two, only a later tick shows it.

`Timely` is the invariant of the lists: both are sorted by wake time, with
`xNextTaskUnblockTime` no later than the first entry of the list in use (`InOrder`); the
times of that list lie ahead of `xTickCount`, those of the overflow list behind it.  So
`Left(k, t)`, the ticks until *t* wakes, is determined by the list and the time.  A
function of the kernel does one of three things to this: it leaves the count and the
remaining sleepers alone (`Calm`), puts the running task to sleep (`Sleeps`), or counts
ticks (`Passes`), as the tick interrupt and `xTaskResumeAll()` do, the second by induction
over the pended ticks.

The invariant of the threads, `OnTime`, ties `due` to it.  `InPlace`: who is at a place
where a call has suspended the scheduler is the running task, so nobody else's tick is
counted meanwhile, and a task that sleeps is at a place of a wait.  `Slept`: the `due` of
a sleeper is `Left`.  `Counted`: what has passed of a wait at a queue is what the count
has moved since `vTaskSetTimeOutState()` or the last check took it, which is what
`xTaskCheckForTimeOut()` computes by `TimeOutIsExact`; its answer is therefore the
observer's.  `Hours` bounds the pended ticks and the times `xTaskDelayUntil()` starts from.

Two hypotheses are about bounds of the model, which the modules assume nothing of.
`MaxPended < TickRange`: one `xTaskResumeAll()` moves the count by less than a whole round.
With the 32 bits of the ESP32 that fails only when the scheduler stays suspended for 49
days.  `MaxLate \in 0 .. 2`: the properties leave out a task that is late by `MaxLate` ticks
or more, and a task that has waited the longest time there is (`TickRange - 2`) and is late
by two has waited a whole round, which the count cannot tell from no time at all.

### Only model-checked

* liveness (`CallsReturn`, `ChangesArrive`, `AllHanded`, `MessagesAreHandled`,
  `RoundsGoOn`, `SleepEnds`, `EveryoneRuns`) and the violations of
  liveness: the proof system does not handle fairness and `ENABLED`;
* `TopPriorityRuns`, `InheritanceHolds` and `NoLostWakeUp`.  They hold in the scenarios of
  their runs and not in every scenario, so no theorem for all of them can state them: the
  first is what `kernel_last_give` violates; `vTaskPrioritySet()` may raise a task that
  waits for a mutex and does not raise the holder; a task that was woken for a message may
  be deleted before it runs, and nobody wakes another;
* of `TimeoutHonest`, the half about notifications (`NotificationTimesOut`), for the same
  reason: a task that is suspended and resumed in a wait for a notification returns from
  it early, with neither.  `CallsTimeOutExactly` is the half about queues.

## 5. What the models leave out

* **S7Client.**  Byte order helpers and error texts (data and wording);
  `IsoExchangeBuffer`, which nothing calls; a read or write without a buffer (`ptrData`
  is NULL), which is cut to one chunk; and `S7WLBit`, for which the amount is always 1.
  `DBGet` is `GetDBSize` followed by `ReadArea`.  A telegram's content is the fields the code looks at.  The start address
  of a second chunk of timers is modelled as the code computes it, but no property
  claims it right.
* **ReadBothPlc.**  An answer arrives at once (`S7Client` treats late ones); values
  are told apart by the PLC they come from.  `setup()` is the initial state.
* **Gateway.**  The read of the data block is one step, although `ReadArea` makes it in
  two telegrams: a tag that changes between them is seen in the next round.  `T0`, a
  name the comparison visits and no tag has, is left out.  Answers that
  come after their call timed out are in `S7Client` only, but a write that "failed" may
  have been carried out.
* **PubSubClient.**  `beginPublish`/`endPublish` and `publish_P`, which write to the
  socket as `publish` does; `setStream`; the setters.  `connect()` on a socket that is
  still open, which no sequence of the modelled calls leaves behind.  What follows a
  torn packet is one piece, parsed as anything.  A CONNACK comes in one piece; the
  result of a write and the content of a SUBACK are not examined, as in the code's
  callers.  `AllHanded` speaks of a broker that keeps the session of the client; the
  sketches connect with clean sessions and QoS 0, for which the broker repeats nothing.

* **TcpServerMqtt.**  The arrival of a packet in `buffer` is one step with the beginning
  of the callback, although `readPacket()` reads it byte by byte; what it overwrites is
  `Other` or the next message.  What is read from a `String` that is emptied, refilled or
  moved on the heap meanwhile is a choice among the tags and values of all messages and
  `CutTags`, `CutValues`.  The registers are words.  The length of the packet `publish()`
  builds does not depend on the changes (`parts`).  ModbusEthernet and ArduinoJson are not
  in the repository: the first is a master that may write any registers, 0 to 2 included,
  the second what it makes of a text, whole or not.  A new message that replaces one not
  handled, and the master's writes to the first registers, end what the properties say of
  the old one.  Task3 and the master may read the three registers while Task1 is between
  two of them; no property says they do not.  That a `StaticJsonDocument<192>` may be too
  small for all registers is left out, and so is what the screen shows.
* **FreeRTOS.**  Timers, event groups, stream buffers, queue sets, `xTaskAbortDelay()`
  (not configured), `xTaskCatchUpTicks()`, `vTaskEndScheduler()`, tickless idle, MPU,
  statistics, the queue registry.  Memory is never short.  Stacks and the registers a
  switch saves are data.  The ESP32's second core is not modelled here; `TcpServerMqtt`
  interleaves the tasks of both.

**Coverage.**  Of the implementation's lines a large part are headers that are comments
(`task.h`, `queue.h`, `semphr.h`, `timers.h`), copies of the same sketches, and drivers
of displays and chips: there is nothing in them to model beyond what is here, and `map`
names the lines the definitions translate and no more.

## 6. The plan

Done, in this order: S7Client with S7Service, ReadBothPlc, Gateway, PubSubClient, the
FreeRTOS kernel with BoundedQueue, TcpServerMqtt, each with its proofs.  Next:

1. `LocalRbe`: the tasks of 32_local_rbe_mqtt and 32_WRITE without a mutex.
2. read_array_in_tasks as a second configuration of `ReadBothPlc`.
3. A client of `PubSubClient` with two tasks (mqtt_32_multi_task): one buffer, two
   writers, as `TcpServerMqtt` has for `publish()` alone.
4. `DhcpClient`: `checkLease` and `request_DHCP_lease`.  A request that ends its wait in
   DISCOVER or REQUEST is never made again, where `Ethernet2.cpp` says it will retry; T2
   is the whole lease where the comment says 87.5 %.
5. The socket layer of Ethernet2 under `S7Client` and `PubSubClient`.
6. Event groups, stream buffers and timers on `FreeRTOSTasks`.
7. Proofs: `NoLostWakeUp` for the scenarios that delete no task.
