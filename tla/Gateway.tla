------------------------------- MODULE Gateway -------------------------------
(***************************************************************************)
(* Read_Write_S7: one loop() between a PLC and an MQTT broker over GPRS.   *)
(*                                                                         *)
(* Every 7 seconds the loop reads the tags of the PLC, puts those that     *)
(* differ from prev_value into plc_out ("local RBE") and publishes it.     *)
(* A message from the broker writes its tags to the PLC and to prev_value, *)
(* so that they are not published back.  A broker that cannot be reached   *)
(* makes the ESP restart; a PLC that fails is only logged, since           *)
(* CheckError() calls Connect() on a client that is still Connected.       *)
(*                                                                         *)
(* told, view and onlyWrites are history: what the gateway last published  *)
(* or wrote, what a remote client of the broker takes each tag for, and    *)
(* whether anything but a write has failed.                                *)
(***************************************************************************)
EXTENDS Integers, Sequences

CONSTANTS
  Tags,      \* the numbers of the tags
  IntSize,   \* the number of values a PLC integer has (2^16)
  Payloads,  \* the values a message may carry
  Blank,     \* the text plc_out is before the first read: an empty one
  Faults,    \* what may fail: "publish", "read", "write", "mqtt", "plc", "broker"
  MaxFaults, MaxChanges, MaxMessages \* bounds: faults, changes by the PLC, messages

ASSUME TagsAssumption == Tags \subseteq Nat /\ Tags # {}
ASSUME IntAssumption  == IntSize \in Nat \ {0} /\ Payloads \subseteq Nat
ASSUME BoundsAssumption == MaxFaults \in Nat /\ MaxChanges \in Nat /\ MaxMessages \in Nat

Ints  == 0 .. IntSize - 1
Known == Ints \cup Payloads
\* A JSON object: some of the tags with a value each
Objects(V) == UNION {[S -> V] : S \in SUBSET Tags}
NoTags == [t \in {} |-> 0]
ASSUME BlankAssumption == Blank \notin Objects(Ints)
\* A record of all tags after an object
Merge(f, g) == [t \in Tags |-> IF t \in DOMAIN f THEN f[t] ELSE g[t]]

VARIABLES
  pc,         \* where loop() is: "loop", "write" (in callback), "s7", "send"
  obj,        \* the tags of the message that are not written yet
  prev_value, \* the value each tag is believed to have at the broker
  plc_out,    \* the JSON text to publish: the tags that changed
  mqtt,       \* mqtt.connected()
  inbox,      \* messages on the MQTT connection
  Connected,  \* Client.Connected
  alive,      \* the PLC answers on the connection
  plc,        \* the value of each tag in the PLC
  told, view, \* history, see above
  onlyWrites, \* history: nothing but writes to the PLC has failed
  faults, changes, messages \* how often something failed, the PLC changed a tag,
                            \* a message was sent

\* the object plc_out is the text of
Sent == IF plc_out = Blank THEN NoTags ELSE plc_out

linkVars  == <<mqtt, inbox, Connected, alive>>
boundVars == <<onlyWrites, faults, changes, messages>>
vars == <<pc, obj, prev_value, plc_out, linkVars, plc, told, view, boundVars>>

TypeOK ==
  /\ pc \in {"loop", "write", "s7", "send"}
  /\ obj \in Objects(Payloads) /\ plc_out \in Objects(Ints) \cup {Blank}
  /\ prev_value \in [Tags -> Known] /\ plc \in [Tags -> Ints]
  /\ told \in [Tags -> Known] /\ view \in [Tags -> Known]
  /\ mqtt \in BOOLEAN /\ Connected \in BOOLEAN /\ alive \in BOOLEAN
  /\ inbox \in Seq(Objects(Payloads))
  /\ onlyWrites \in BOOLEAN
  /\ faults \in 0 .. MaxFaults /\ changes \in 0 .. MaxChanges /\ messages \in 0 .. MaxMessages

\* RAM after power-up or ESP.restart(), once setup() is through
Fresh ==
  /\ pc' = "loop" /\ obj' = NoTags /\ plc_out' = Blank
  /\ prev_value' = [t \in Tags |-> 0]
  /\ mqtt' = FALSE /\ inbox' = <<>> /\ Connected' = FALSE /\ alive' = FALSE

Init ==
  /\ pc = "loop" /\ obj = NoTags /\ plc_out = Blank
  /\ prev_value = [t \in Tags |-> 0]
  /\ mqtt = FALSE /\ inbox = <<>> /\ Connected = FALSE /\ alive = FALSE
  /\ plc \in [Tags -> Ints]
  /\ told = [t \in Tags |-> 0] /\ view = [t \in Tags |-> 0]
  /\ onlyWrites = TRUE /\ faults = 0 /\ changes = 0 /\ messages = 0

Fault(kind) ==
  /\ kind \in Faults /\ faults < MaxFaults /\ faults' = faults + 1
  /\ onlyWrites' = IF kind = "write" THEN onlyWrites ELSE FALSE
  /\ UNCHANGED <<changes, messages>>

NoFault == UNCHANGED boundVars
-----------------------------------------------------------------------------
(***************************************************************************)
(* The MQTT side of loop()                                                 *)
(***************************************************************************)
\* reconnect(): the session is clean, so nothing sent meanwhile is waiting
Reconnect ==
  /\ pc = "loop" /\ ~mqtt
  /\ mqtt' = TRUE /\ NoFault
  /\ UNCHANGED <<pc, obj, prev_value, plc_out, inbox, Connected, alive, plc, told, view>>

Restart ==
  /\ pc = "loop" /\ ~mqtt /\ Fault("broker") /\ Fresh
  /\ UNCHANGED <<plc, told, view>>

\* mqtt.loop() handles one message: callback() calls s7_write()
HandleMessage ==
  /\ pc = "loop" /\ mqtt /\ inbox # <<>>
  /\ pc' = "write" /\ obj' = Head(inbox) /\ inbox' = Tail(inbox)
  /\ UNCHANGED <<prev_value, plc_out, mqtt, Connected, alive, plc, told, view, boundVars>>

NoMessage ==
  /\ pc = "loop" /\ mqtt /\ inbox = <<>>
  /\ pc' = "s7"
  /\ UNCHANGED <<obj, prev_value, plc_out, linkVars, plc, told, view, boundVars>>

\* int value = obj[local]; S7.SetIntAt() keeps the low 16 bits
Stored(v) == v % IntSize

\* The tags of the message go in the order of their numbers
NextTag(t) == pc = "write" /\ t \in DOMAIN obj /\ \A u \in DOMAIN obj : t <= u

Without(f, t) == [u \in DOMAIN f \ {t} |-> f[u]]

\* Mutant: prev_value does not follow the write
WriteTagOnly(t) ==
  /\ NextTag(t) /\ Connected /\ alive
  /\ plc' = [plc EXCEPT ![t] = Stored(obj[t])]
  /\ told' = [told EXCEPT ![t] = obj[t]]
  /\ obj' = Without(obj, t)
  /\ UNCHANGED <<pc, prev_value, plc_out, linkVars, view, boundVars>>

WriteTag(t) ==
  /\ NextTag(t) /\ Connected /\ alive
  /\ plc' = [plc EXCEPT ![t] = Stored(obj[t])]
  /\ prev_value' = [prev_value EXCEPT ![t] = obj[t]]
  /\ told' = [told EXCEPT ![t] = obj[t]]
  /\ obj' = Without(obj, t)
  /\ UNCHANGED <<pc, plc_out, linkVars, view, boundVars>>

\* The error is only logged.  The PLC may have carried the write out, when it was
\* the answer that did not come in time.
WriteTagFails(t) ==
  /\ NextTag(t)
  /\ \/ ~(Connected /\ alive) /\ UNCHANGED plc /\ NoFault
     \/ /\ Connected /\ alive /\ Fault("write")
        /\ \/ UNCHANGED plc
           \/ plc' = [plc EXCEPT ![t] = Stored(obj[t])]
  /\ obj' = Without(obj, t)
  /\ UNCHANGED <<pc, prev_value, plc_out, linkVars, told, view>>

MessageDone ==
  /\ pc = "write" /\ DOMAIN obj = {} /\ pc' = "s7"
  /\ UNCHANGED <<obj, prev_value, plc_out, linkVars, plc, told, view, boundVars>>
-----------------------------------------------------------------------------
(***************************************************************************)
(* The S7 side of loop(): while (!Client.Connected), s7Read(), mqttSend()  *)
(***************************************************************************)
ConnectS7 ==
  /\ pc = "s7" /\ ~Connected
  /\ Connected' = TRUE /\ alive' = TRUE
  /\ UNCHANGED <<pc, obj, prev_value, plc_out, mqtt, inbox, plc, told, view, boundVars>>

\* now - lastMsg is not yet above 7000
TooEarly ==
  /\ pc = "s7" /\ Connected /\ pc' = "loop"
  /\ UNCHANGED <<obj, prev_value, plc_out, linkVars, plc, told, view, boundVars>>

Changed == {t \in Tags : plc[t] # prev_value[t]}

\* Mutant: prev_value is not kept
S7ReadKeepsPrev ==
  /\ pc = "s7" /\ Connected /\ alive /\ pc' = "send"
  /\ plc_out' = [t \in Changed |-> plc[t]]
  /\ UNCHANGED <<obj, prev_value, linkVars, plc, told, view, boundVars>>

S7Read ==
  /\ pc = "s7" /\ Connected /\ alive /\ pc' = "send"
  /\ plc_out' = [t \in Changed |-> plc[t]]
  /\ prev_value' = [t \in Tags |-> plc[t]]
  /\ UNCHANGED <<obj, linkVars, plc, told, view, boundVars>>

\* CheckError(): Disconnect() is commented out and Connect() does nothing; plc_out
\* stays as it was
S7ReadFails ==
  /\ pc = "s7" /\ Connected /\ (IF alive THEN Fault("read") ELSE NoFault)
  /\ pc' = "send"
  /\ UNCHANGED <<obj, prev_value, plc_out, linkVars, plc, told, view>>

NothingToSend ==
  /\ pc = "send" /\ plc_out = NoTags /\ pc' = "loop"
  /\ UNCHANGED <<obj, prev_value, plc_out, linkVars, plc, told, view, boundVars>>

\* Mutant: an object with a single tag is taken for an empty one
MqttSendIfMany ==
  /\ pc = "send" /\ plc_out # NoTags /\ mqtt
  /\ pc' = "loop"
  /\ IF DOMAIN Sent = Tags THEN told' = Merge(Sent, told) /\ view' = Merge(Sent, view)
     ELSE UNCHANGED <<told, view>>
  /\ UNCHANGED <<obj, prev_value, plc_out, linkVars, plc, boundVars>>

\* After a restart and a read that fails it sends the empty text.
MqttSend ==
  /\ pc = "send" /\ plc_out # NoTags /\ mqtt
  /\ pc' = "loop"
  /\ told' = Merge(Sent, told) /\ view' = Merge(Sent, view)
  /\ UNCHANGED <<obj, prev_value, plc_out, linkVars, plc, boundVars>>

\* QoS 0: publish() returns false, or true and the connection is lost
MqttSendFails ==
  /\ pc = "send" /\ plc_out # NoTags /\ (IF mqtt THEN Fault("publish") ELSE NoFault)
  /\ pc' = "loop" /\ mqtt' = FALSE /\ inbox' = <<>>
  /\ UNCHANGED <<obj, prev_value, plc_out, Connected, alive, plc, told, view>>
-----------------------------------------------------------------------------
(***************************************************************************)
(* The PLC, the network and the remote client                              *)
(***************************************************************************)
PlcChanges(t) ==
  /\ changes < MaxChanges /\ changes' = changes + 1
  /\ \E v \in Ints \ {plc[t]} : plc' = [plc EXCEPT ![t] = v]
  /\ UNCHANGED <<pc, obj, prev_value, plc_out, linkVars, told, view, onlyWrites, faults, messages>>

\* Sent while the gateway is not subscribed, the message is lost
SendMessage(m) ==
  /\ messages < MaxMessages /\ messages' = messages + 1
  /\ view' = Merge(m, view)
  /\ inbox' = IF mqtt THEN Append(inbox, m) ELSE inbox
  /\ UNCHANGED <<pc, obj, prev_value, plc_out, mqtt, Connected, alive, plc, told, onlyWrites,
                 faults, changes>>

MqttDrops ==
  /\ mqtt /\ Fault("mqtt") /\ mqtt' = FALSE /\ inbox' = <<>>
  /\ UNCHANGED <<pc, obj, prev_value, plc_out, Connected, alive, plc, told, view>>

PlcDies ==
  /\ alive /\ Fault("plc") /\ alive' = FALSE
  /\ UNCHANGED <<pc, obj, prev_value, plc_out, mqtt, inbox, Connected, plc, told, view>>

Write == (\E t \in Tags : WriteTag(t) \/ WriteTagFails(t)) \/ MessageDone

Loop ==
  \/ Reconnect \/ Restart \/ HandleMessage \/ NoMessage \/ Write
  \/ ConnectS7 \/ TooEarly \/ S7Read \/ S7ReadFails
  \/ NothingToSend \/ MqttSend \/ MqttSendFails

Environment ==
  \/ \E t \in Tags : PlcChanges(t)
  \/ \E m \in Objects(Payloads) : DOMAIN m # {} /\ SendMessage(m)
  \/ MqttDrops \/ PlcDies

Next == Loop \/ Environment
Spec == Init /\ [][Next]_vars

\* loop() is called for ever, and the 7 seconds pass
FairSpec == Spec /\ WF_vars(Loop) /\ SF_vars(S7Read \/ S7ReadFails)
-----------------------------------------------------------------------------
(***************************************************************************)
(* Properties                                                              *)
(***************************************************************************)
\* While nothing but writes has failed, the gateway's record of the broker is right
\* whenever nothing is on its way: every change a read has seen was published or
\* came from the broker.
NothingLost == onlyWrites /\ pc # "send" => prev_value = told

\* 32_local_rbe_mqtt/READ_ME.txt:6 "so only changed data will be send": while nothing
\* but writes has failed, no tag is published with the value it was last published
\* or written with.
OnlyChangesSent ==
  [][MqttSend /\ onlyWrites => \A t \in DOMAIN Sent : Sent[t] # told[t]]_vars

\* The same of every history: what the gateway believes the broker has, it was sent.
AllPublished == pc # "send" => prev_value = told

Quiet ==
  /\ faults = MaxFaults /\ changes = MaxChanges /\ messages = MaxMessages
  /\ inbox = <<>> /\ pc # "write" /\ mqtt /\ alive

\* Whatever failed before, a change the gateway has not read yet reaches the remote
\* client once both connections stand.
ChangesArrive ==
  \A t \in Tags : (Quiet /\ prev_value[t] # plc[t]) ~> (view[t] = plc[t])

\* Why NothingLost holds: before another fault the connections stand once they are
\* up, and what waits in plc_out is what told lacks.
LossInv ==
  /\ TypeOK /\ NothingLost
  /\ onlyWrites =>
       /\ Connected => alive
       /\ pc # "loop" => mqtt
       /\ pc = "send" => /\ prev_value = Merge(Sent, told)
                         /\ \A t \in DOMAIN Sent : Sent[t] # told[t]
=============================================================================
