--------------------------- MODULE TcpServerMqtt ---------------------------
(***************************************************************************)
(* TCP_SERVER_MQTT.ino: MQTT messages set the first three holding          *)
(* registers of a Modbus TCP server, and changes of its registers are      *)
(* published.                                                              *)
(*                                                                         *)
(* Core 1 runs loop() and Task1, of one priority, in turns, and Task4, of  *)
(* priority 0, while both are in a delay.  Core 0 runs Task2, in which the *)
(* Modbus master's requests are served, and Task3.  baton guards plc_out   *)
(* between Task3 and Task4.  messageTemp, which loop() and Task1 write,    *)
(* and the buffer of the MQTT client, which loop() and Task4 fill, have no *)
(* guard.                                                                  *)
(*                                                                         *)
(* A text is the sequence of its parts: the tags, each with the opening    *)
(* brace or the comma before it and its value behind it, and the closing   *)
(* brace; a value is the pair of the words of its float, the higher first. *)
(* One step handles a part or a register.                                  *)
(***************************************************************************)
EXTENDS Integers, Sequences, FiniteSetsExt

CONSTANTS
  Messages,        \* what a remote client may publish: sequences of [tag, value]
  SIZE,            \* the parts for which the client's buffer has room
  LEN,             \* the number of holding registers
  MasterRegisters, \* the registers the Modbus master writes
  MasterValues,    \* and what it writes to them
  CutTags,         \* what may be read as a tag or as a value where the text is replaced
  CutValues,       \*   during the reading or is not a message's, or where it ends
  Close,           \* the closing brace of a text
  Unwritten, Half, \* plc_out before the first round, and while it is being written
  Ours, Other,     \* in the client's buffer: what publish() has put there; anything else
  Bounds           \* bounds: the messages that arrive, the parts that the changes have when
                   \*   they are published, and whether the master writes

ASSUME RegistersAssumption == LEN \in Nat /\ LEN >= 3 /\ MasterRegisters \subseteq 0 .. LEN - 1
ASSUME SizeAssumption == SIZE \in Nat \ {0}

VARIABLES
  buffer,      \* the payload in the client's buffer, part by part
  messageTemp, \* the text the callback has put together so far
  i, length,   \* the part of the payload that the callback appends next; their number
  pc1,         \* where Task1 is
  at, key,     \* the part of the text it reads next; the tag whose value that is
  size,        \* the length the text had when Task1 began to read it
  replaced,    \* messageTemp has been emptied since
  obj,         \* the tags it has read and not set yet
  Hreg,        \* the holding registers
  baton,       \* who holds the mutex
  pc3,         \* where Task3 is
  current_value, root, prev_value, plc_out,
  pc4,         \* where Task4 is
  filled,      \* how much of its packet publish() has put into the buffer
  bound,       \* which of Bounds holds, from the start
  arrived,     \* history: how many messages have arrived
  last, fate,  \* history: the last of them, until messageTemp is emptied or it is lost, and whether it
               \*   is "arriving" or "waiting" in messageTemp
  whole,       \* history: obj was read from the last message alone and to its end
  clean,       \* history: nothing took the place of any part of the text that obj was read from
  asSet,       \* history: the first registers are as Task1 set them from a clean obj
  packet,      \* history: plc_out as it was when publish() was called
  unpublished  \* history: the registers whose change in the last round has not gone out

callbackVars == <<messageTemp, i, length, arrived, last, bound>>
task1Vars    == <<pc1, at, key, size, replaced, obj, whole, clean>>
hregVars     == <<Hreg, asSet>>
roundVars    == <<pc3, current_value, root, prev_value, plc_out>>
task4Vars    == <<pc4, filled, packet, unpublished>>
vars == <<buffer, callbackVars, task1Vars, fate, hregVars, baton, roundVars, task4Vars>>

Registers == 0 .. LEN - 1
Tags      == 1 .. 10
Nothing   == [r \in {} |-> 0] \* a document without members

Init ==
  /\ bound \in Bounds
  /\ buffer = [k \in 1 .. SIZE |-> Other]
  /\ messageTemp = <<>> /\ i = 1 /\ length = 0
  /\ pc1 = "delay" /\ at = 1 /\ key = 0 /\ size = 0 /\ replaced = FALSE /\ obj = Nothing
  /\ Hreg = [r \in Registers |-> 99]
  /\ baton = "free"
  /\ pc3 = "delay" /\ current_value = <<>> /\ root = Nothing
  /\ prev_value = [r \in Registers |-> 0] /\ plc_out = Unwritten
  /\ pc4 = "delay" /\ filled = 0 /\ packet = Nothing
  /\ arrived = 0 /\ last = <<>> /\ fate = "none" /\ whole = FALSE
  /\ clean = TRUE /\ asSet = TRUE
  /\ unpublished = {}

---------------------------------------------------------------------------
(* loop() and the callback *)

Key(tag)   == [tag |-> tag]
Val(value) == [value |-> value]

Text(m) ==
  [k \in 1 .. 2 * Len(m) + 1 |->
     IF k > 2 * Len(m) THEN Close
     ELSE IF k % 2 = 1 THEN Key(m[(k + 1) \div 2].tag) ELSE Val(m[k \div 2].value)]

InCallback == i <= length

\* reconnect() and client.loop() put packets into the buffer, their own and those
\* they receive, some shorter than what is there.
LoopSends ==
  /\ ~InCallback
  /\ \E n \in 1 .. SIZE : buffer' = [k \in 1 .. SIZE |-> IF k <= n THEN Other ELSE buffer[k]]
  /\ UNCHANGED <<callbackVars, task1Vars, fate, hregVars, baton, roundVars, task4Vars>>

\* client.loop() has read the next message into the buffer and calls callback().
Receives ==
  /\ ~InCallback /\ arrived < Len(bound.messages)
  /\ last' = bound.messages[arrived + 1] /\ arrived' = arrived + 1
  /\ i' = 1 /\ length' = Len(Text(last'))
  /\ buffer' = [k \in 1 .. SIZE |-> IF k <= length' THEN Text(last')[k] ELSE buffer[k]]
  /\ fate' = "arriving" /\ whole' = FALSE
  /\ UNCHANGED <<bound, pc1, at, key, size, obj, hregVars, baton, roundVars, task4Vars>>

\* Mutant: messageTemp is not emptied for a new message.
CallbackGoesOn == Receives /\ UNCHANGED <<messageTemp, replaced, clean>>

\* It empties messageTemp, which Task1 may be reading.
CallbackBegins ==
  /\ Receives
  /\ messageTemp' = <<>>
  /\ replaced' = (pc1 = "parse") /\ clean' = (clean /\ pc1 # "parse")

\* messageTemp += (char)message[i], out of the client's buffer
CallbackAppends ==
  /\ InCallback
  /\ messageTemp' = Append(messageTemp, IF buffer[i] = Ours THEN Other ELSE buffer[i])
  /\ IF i < length THEN i' = i + 1 /\ UNCHANGED length ELSE i' = 1 /\ length' = 0
  /\ buffer' = [buffer EXCEPT ![i] = IF @ = Ours THEN @ ELSE Other] \* it is not read again
  /\ fate' = IF i = length /\ fate = "arriving" THEN "waiting" ELSE fate
  /\ UNCHANGED <<arrived, last, bound, task1Vars, hregVars, baton, roundVars, task4Vars>>

---------------------------------------------------------------------------
(* Task1: from messageTemp to the registers *)

Pieces == UNION {{m[n] : n \in DOMAIN m} : m \in Messages}
Values == {p.value : p \in Pieces} \cup CutValues
Names  == {p.tag : p \in Pieces} \cup CutTags

\* deserializeJson() of messageTemp, which the callback may write meanwhile
Task1Wakes ==
  /\ pc1 = "delay" /\ pc1' = "parse" /\ size' = Len(messageTemp)
  /\ whole' = (fate \in {"arriving", "waiting"}) /\ clean' = TRUE
  /\ UNCHANGED <<buffer, callbackVars, at, key, replaced, obj, fate, hregVars, baton, roundVars, task4Vars>>

Finds(part) == at \in DOMAIN messageTemp /\ messageTemp[at] = part

\* The characters here may be of two texts, or of another packet: they can be read
\* as anything.
Garbled == replaced \/ Finds(Other)

\* obj with one more tag; those beyond the tags Task1 asks for play no part
With(o, tag, value) ==
  IF tag \in Tags THEN [t \in DOMAIN o \cup {tag} |-> IF t = tag THEN value ELSE o[t]] ELSE o

ReadsOn ==
  /\ pc1 = "parse" /\ at' = at + 1 /\ clean' = (clean /\ ~Finds(Other))
  /\ UNCHANGED <<buffer, callbackVars, pc1, size, replaced, whole, fate, hregVars, baton, roundVars, task4Vars>>

Task1ReadsTag ==
  /\ at % 2 = 1 /\ at \in 1 .. size \cup DOMAIN messageTemp
  /\ \E tag \in Names : (Finds(Key(tag)) \/ Garbled) /\ key' = tag
  /\ ReadsOn /\ UNCHANGED obj

Task1ReadsValue ==
  /\ at % 2 = 0 /\ at \in 1 .. size \cup DOMAIN messageTemp
  /\ \E value \in Values : (Finds(Val(value)) \/ Garbled) /\ obj' = With(obj, key, value)
  /\ key' = 0 /\ ReadsOn

\* Task1 goes on to its delay, where its document ends, or to the tags it has read.
Task1Delays == pc1' = "delay" /\ obj' = Nothing /\ whole' = FALSE /\ clean' = TRUE
GoOnWith(o, of) ==
  IF o = Nothing THEN Task1Delays ELSE pc1' = "tag" /\ obj' = o /\ whole' = of /\ UNCHANGED clean

\* The text ends here, for a reader that goes by its length when it began or by the
\* zero behind it.
Ends == at > size \/ at > Len(messageTemp)

\* The reading stops there, behind the closing brace, or where it finds something
\* else than it wants.  What it has read so far stays in the document, and a tag
\* with no value, or the beginning of it.
Task1Stops ==
  /\ pc1 = "parse" /\ (Ends \/ Garbled \/ Finds(Close))
  /\ \E o \in {obj} \cup IF key = 0 THEN {} ELSE {With(obj, key, value) : value \in CutValues} :
       GoOnWith(o, whole /\ Finds(Close))
  /\ at' = 1 /\ key' = 0 /\ size' = 0 /\ replaced' = FALSE
  /\ UNCHANGED <<buffer, callbackVars, fate, hregVars, baton, roundVars, task4Vars>>

Next1 == CHOOSE t \in DOMAIN obj : \A u \in DOMAIN obj : t <= u

\* the next of the tags read: its number, the higher word and the lower word
Task1SetsRegister(from, to, register, word) ==
  /\ pc1 = from /\ pc1' = to
  /\ Hreg' = [Hreg EXCEPT ![register] = word]
  /\ asSet' = IF register = 0 THEN clean ELSE asSet
  /\ UNCHANGED <<buffer, callbackVars, at, key, size, replaced, obj, whole, clean, fate, baton, roundVars,
                 task4Vars>>

\* Mutant: the words of the float change places.
Task1SetsSwapped ==
  \/ pc1 = "tag"  /\ Task1SetsRegister("tag", "high", 0, Next1)
  \/ pc1 = "high" /\ Task1SetsRegister("high", "low", 1, obj[Next1][2])
  \/ pc1 = "low"  /\ Task1SetsRegister("low", "erase", 2, obj[Next1][1])

\* Mutant: the tags are numbered from 0.
Task1CountsFromZero ==
  \/ pc1 = "tag"  /\ Task1SetsRegister("tag", "high", 0, Next1 - 1)
  \/ pc1 = "high" /\ Task1SetsRegister("high", "low", 1, obj[Next1][1])
  \/ pc1 = "low"  /\ Task1SetsRegister("low", "erase", 2, obj[Next1][2])

Task1Sets ==
  \/ pc1 = "tag"  /\ Task1SetsRegister("tag", "high", 0, Next1)
  \/ pc1 = "high" /\ Task1SetsRegister("high", "low", 1, obj[Next1][1])
  \/ pc1 = "low"  /\ Task1SetsRegister("low", "erase", 2, obj[Next1][2])

Task1HasSet ==
  /\ pc1 = "erase"
  /\ LET rest == [t \in DOMAIN obj \ {Next1} |-> obj[t]]
     IN IF rest = Nothing THEN Task1Delays
        ELSE pc1' = "pause" /\ obj' = rest /\ UNCHANGED <<whole, clean>>
  /\ UNCHANGED <<buffer, i, length, arrived, bound, at, key, size, replaced, hregVars, baton, roundVars,
                 task4Vars>>

\* Mutant: messageTemp stays, and its tags are set again after each delay.
Task1Keeps == Task1HasSet /\ UNCHANGED <<messageTemp, last, fate>>

\* After each tag messageTemp is emptied, whatever it holds by now.
Task1Erases ==
  /\ Task1HasSet
  /\ messageTemp' = <<>>
  /\ IF messageTemp = <<>> THEN UNCHANGED <<last, fate>> ELSE last' = <<>> /\ fate' = "none"

Task1Resumes ==
  /\ pc1 = "pause" /\ pc1' = "tag"
  /\ UNCHANGED <<buffer, callbackVars, at, key, size, replaced, obj, whole, clean, fate, hregVars, baton,
                 roundVars, task4Vars>>

Task1 == \/ Task1Wakes \/ Task1ReadsTag \/ Task1ReadsValue \/ Task1Stops
         \/ Task1Sets \/ Task1Erases \/ Task1Resumes

---------------------------------------------------------------------------
(* Task2 and Task3: the registers and their changes *)

\* mb.task() serves a request of the master to write a register.
Task2 ==
  /\ bound.writes
  /\ \E r \in MasterRegisters, v \in MasterValues :
       Hreg' = [Hreg EXCEPT ![r] = v] /\ asSet' = (asSet /\ r > 2)
  /\ UNCHANGED <<buffer, callbackVars, task1Vars, fate, baton, roundVars, task4Vars>>

Task3Wakes ==
  /\ pc3 = "delay" /\ pc3' = "wait"
  /\ UNCHANGED <<buffer, callbackVars, task1Vars, fate, hregVars, baton, current_value, root, prev_value,
                 plc_out, task4Vars>>

Task3Takes ==
  /\ pc3 = "wait" /\ baton = "free" /\ baton' = "Task3"
  /\ pc3' = "read"
  /\ UNCHANGED <<buffer, callbackVars, task1Vars, fate, hregVars, current_value, root, prev_value, plc_out,
                 task4Vars>>

\* one register after another, while Task1 writes three of them
Task3Reads ==
  /\ pc3 = "read" /\ Len(current_value) < LEN
  /\ current_value' = Append(current_value, Hreg[Len(current_value)])
  /\ UNCHANGED <<buffer, callbackVars, task1Vars, fate, hregVars, baton, pc3, root, prev_value, plc_out,
                 task4Vars>>

\* What has changed since the round before goes to root, and on to plc_out.
Task3Compares ==
  /\ pc3 = "read" /\ Len(current_value) = LEN
  /\ LET changed == {r \in Registers : current_value[r + 1] # prev_value[r]}
     IN /\ root' = [r \in changed |-> current_value[r + 1]]
        /\ unpublished' = changed
  /\ prev_value' = [r \in Registers |-> current_value[r + 1]] /\ current_value' = <<>>
  /\ plc_out' = Half /\ pc3' = "write"
  /\ UNCHANGED <<buffer, callbackVars, task1Vars, fate, hregVars, baton, pc4, filled, packet>>

Task3Gives ==
  /\ pc3 = "write" /\ pc3' = "delay"
  /\ plc_out' = root /\ root' = Nothing /\ baton' = "free"
  /\ UNCHANGED <<buffer, callbackVars, task1Vars, fate, hregVars, current_value, prev_value, task4Vars>>

Task3 == Task3Wakes \/ Task3Takes \/ Task3Reads \/ Task3Compares \/ Task3Gives

---------------------------------------------------------------------------
(* Task4: to the broker *)

\* Task4 has the core while the others of core 1 are in a delay, and its turns with
\* them while it holds a mutex Task3 waits for, whose priority it then has.
Task4Runs ==
  \/ ~InCallback /\ pc1 \in {"delay", "pause"}
  \/ baton = "Task4" /\ pc3 = "wait"

Task4Takes ==
  /\ pc4 = "delay" /\ Task4Runs /\ baton = "free"
  /\ baton' = "Task4" /\ pc4' = "publish"
  /\ UNCHANGED <<buffer, callbackVars, task1Vars, fate, hregVars, roundVars, filled, packet, unpublished>>

Publishes ==
  /\ pc4 = "publish" /\ Task4Runs /\ plc_out # Nothing /\ bound.parts <= SIZE
  /\ pc4' = "fill" /\ packet' = plc_out
  /\ UNCHANGED <<buffer, callbackVars, task1Vars, fate, hregVars, roundVars, filled, unpublished>>

\* Mutant: the mutex is given back before the packet goes out.
Task4GivesEarly == Publishes /\ baton' = "free"

\* publish() is called, on a connection and with no more than its buffer has room for:
Task4Publishes == Publishes /\ UNCHANGED baton

\* it copies plc_out into the buffer, where loop() may have left the rest of a
\* message for the callback to append,
Task4Fills ==
  /\ pc4 = "fill" /\ Task4Runs /\ filled < bound.parts
  /\ filled' = filled + 1 /\ buffer' = [buffer EXCEPT ![filled'] = Ours]
  /\ fate' = IF fate = "arriving" /\ filled' \in i .. length THEN "none" ELSE fate
  /\ last' = IF fate' = fate THEN last ELSE <<>>
  /\ UNCHANGED <<messageTemp, i, length, arrived, bound, task1Vars, hregVars, baton, roundVars, pc4, packet,
                 unpublished>>

\* and sends what the buffer holds when it comes to that; there may be no connection.
Task4Sends ==
  /\ pc4 = "fill" /\ Task4Runs /\ filled = bound.parts
  /\ \/ UNCHANGED unpublished
     \/ /\ packet \notin {Unwritten, Half} /\ \A k \in 1 .. filled : buffer[k] = Ours
        /\ unpublished' = unpublished \ DOMAIN packet
  /\ baton' = "free" /\ pc4' = "delay" /\ filled' = 0 /\ packet' = Nothing
  /\ buffer' = [k \in 1 .. SIZE |-> IF buffer[k] = Ours THEN Other ELSE buffer[k]] \* it is not sent again
  /\ UNCHANGED <<callbackVars, task1Vars, fate, hregVars, roundVars>>

\* Mutant: plc_out is emptied, whether or not it has gone out.
Task4Empties ==
  /\ pc4 = "publish" /\ Task4Runs
  /\ plc_out' = Nothing /\ baton' = "free" /\ pc4' = "delay"
  /\ UNCHANGED <<buffer, callbackVars, task1Vars, fate, hregVars, pc3, current_value, root, prev_value,
                 filled, packet, unpublished>>

\* Mutant: without changes the mutex stays taken.
Task4Forgets ==
  /\ pc4 = "publish" /\ Task4Runs
  /\ baton' = (IF plc_out = Nothing THEN baton ELSE "free") /\ pc4' = "delay"
  /\ UNCHANGED <<buffer, callbackVars, task1Vars, fate, hregVars, roundVars, filled, packet, unpublished>>

\* There are no changes, or publish() fails at once.
Task4Gives ==
  /\ pc4 = "publish" /\ Task4Runs
  /\ baton' = "free" /\ pc4' = "delay"
  /\ UNCHANGED <<buffer, callbackVars, task1Vars, fate, hregVars, roundVars, filled, packet, unpublished>>

Task4 == Task4Takes \/ Task4Publishes \/ Task4Fills \/ Task4Sends \/ Task4Gives

loop == LoopSends \/ CallbackBegins \/ CallbackAppends

Next == loop \/ Task1 \/ Task2 \/ Task3 \/ Task4

\* Each task's delay ends, and each gets its turns of its core; the broker need
\* answer nobody, no message need arrive, the master need write nothing.
\* Task4 asks for the mutex again four seconds after it has given it, long after a
\* task of higher priority that waited has taken it.
Fairness == /\ WF_vars(CallbackAppends) /\ WF_vars(Task1) /\ WF_vars(Task4)
            /\ WF_vars(Task3) /\ SF_vars(Task3Takes)

Spec == Init /\ [][Next]_vars /\ Fairness

---------------------------------------------------------------------------
(* Properties *)

Parts  == {Close} \cup {Key(p.tag) : p \in Pieces} \cup {Val(p.value) : p \in Pieces}
Words  == {99} \cup Tags \cup MasterValues \cup {v[n] : v \in Values, n \in {1, 2}}
Rounds == UNION {[S -> Words] : S \in SUBSET Registers}

\* a document whose members are among the keys and have one of the values
IsDocument(d, keys, values) == DOMAIN d \subseteq keys /\ d \in [DOMAIN d -> values]

ASSUME TextsAssumption ==
  /\ Unwritten # Half /\ Other # Ours
  /\ {Unwritten, Half} \cap Rounds = {} /\ {Other, Ours} \cap Parts = {}
  /\ Close \notin {Key(tag) : tag \in Names} \cup {Val(value) : value \in Values}
  /\ 0 \notin Names
ASSUME InputsAssumption ==
  /\ \A m \in Messages : m \in Seq(Pieces) /\ Len(Text(m)) <= SIZE
  /\ \A v \in Values : v = <<v[1], v[2]>>
  /\ \A b \in Bounds : b.messages \in Seq(Messages) /\ b.parts \in Nat \ {0}

\* The variables have their types.
TypeOK ==
  /\ buffer \in [1 .. SIZE -> Parts \cup {Other, Ours}]
  /\ messageTemp \in Seq(Parts \cup {Other}) /\ size \in Nat
  /\ i \in 1 .. SIZE /\ length \in 0 .. SIZE
  /\ pc1 \in {"delay", "parse", "tag", "high", "low", "erase", "pause"}
  /\ at \in Nat \ {0} /\ key \in Names \cup {0} /\ IsDocument(obj, Tags, Values)
  /\ Hreg \in [Registers -> Words] /\ baton \in {"free", "Task3", "Task4"}
  /\ pc3 \in {"delay", "wait", "read", "write"} /\ current_value \in Seq(Words)
  /\ IsDocument(root, Registers, Words) /\ prev_value \in [Registers -> Words \cup {0}]
  /\ plc_out \in {Unwritten, Half} \/ IsDocument(plc_out, Registers, Words)
  /\ pc4 \in {"delay", "publish", "fill"} /\ filled \in 0 .. SIZE
  /\ packet = Unwritten \/ IsDocument(packet, Registers, Words)
  /\ bound \in Bounds /\ arrived \in 0 .. Len(bound.messages)
  /\ last \in Messages \cup {<<>>} /\ {replaced, whole, clean, asSet} \subseteq BOOLEAN
  /\ fate \in {"none", "arriving", "waiting"}
  /\ unpublished \subseteq Registers

\* the document of a message: of the members of one name the last counts
AsObject(m) ==
  [t \in Tags \cap {m[n].tag : n \in DOMAIN m} |-> m[Max({n \in DOMAIN m : m[n].tag = t})].value]

\* Until the next one arrives, a message is lost in two ways only: Task1 empties
\* messageTemp, or publish() writes over a part of it the callback has not read.
\* Otherwise it is in messageTemp, or about to be, no part of it missing or
\* another's; and what Task1 takes for the whole of it is the whole of it, though
\* the callback appends to it while Task1 reads.
MessageIsWhole ==
  /\ fate = "waiting" => messageTemp = Text(last) /\ ~InCallback
  /\ fate = "arriving" => /\ InCallback /\ length = Len(Text(last)) /\ Len(messageTemp) = i - 1
                          /\ \A k \in 1 .. length :
                               Text(last)[k] = IF k < i THEN messageTemp[k] ELSE buffer[k]
  /\ fate = "waiting" /\ whole /\ pc1 \in {"tag", "high", "low", "erase"}
       => obj = AsObject(last)

\* The first three registers hold a tag and a value that came with it, or what there
\* was of it, unless the master has written to them or, while Task1 read the text, a
\* new message took its place or a part of it was of another packet: neither a
\* message that Task1 reads before it is complete, nor one spoilt or torn further
\* on, nor messages that follow each other mix the tag of one and the value of another.
RegistersAreATag ==
  pc1 \notin {"high", "low"} /\ asSet =>
    \/ \A r \in 0 .. 2 : Hreg[r] = 99
    \/ \E piece \in Pieces : /\ Hreg[0] = piece.tag
                             /\ <<Hreg[1], Hreg[2]>> \in {piece.value} \cup CutValues

\* What goes out is a round: from the call of publish() to the end of its write
\* plc_out is what it was, and that is a whole round: the values Task3 found last.
SentIsARound ==
  /\ pc4 # "delay" => plc_out # Half
  /\ pc4 = "fill" => packet = plc_out
  /\ pc3 # "write" /\ plc_out # Unwritten => \A r \in DOMAIN plc_out : plc_out[r] = prev_value[r]

\* the changes that wait in plc_out, or are about to be in it
Pending == IF pc3 = "write" THEN root ELSE IF plc_out = Unwritten THEN Nothing ELSE plc_out

\* A change that Task3 has found gets lost in one way only: the next round takes the
\* place of one that has not been published.  Neither a publication that fails nor
\* one into which loop() has written drops a change, nor does Task4 having come first.
OnlyARoundLosesChanges == unpublished \subseteq DOMAIN Pending

\* A message with a tag Task1 asks for does not wait in messageTemp for ever.
MessagesAreHandled ==
  fate = "waiting" /\ AsObject(last) # Nothing ~> fate # "waiting"

\* The rounds go on: Task4, of the lowest priority, does not keep the mutex from Task3.
RoundsGoOn == pc3 = "wait" ~> pc3 = "read"
=============================================================================
