---------------------------- MODULE Gateway_proof ----------------------------
(***************************************************************************)
(* Proofs about Gateway: for every set of tags, width of an integer, set   *)
(* of payloads and bound, and whatever may fail, the gateway loses no      *)
(* change until something else than a write to the PLC has failed.         *)
(***************************************************************************)
EXTENDS Gateway, TLAPS

(***************************************************************************)
(* Lemmas on JSON objects and on the width of an integer.                  *)
(***************************************************************************)
\* A JSON object is a function on some of the tags.
LEMMA ObjectProps ==
  ASSUME NEW V, NEW f \in Objects(V)
  PROVE  DOMAIN f \subseteq Tags /\ f \in [DOMAIN f -> V]
<1>1. PICK S \in SUBSET Tags : f \in [S -> V]  BY DEF Objects
<1>2. QED  BY <1>1

LEMMA ObjectIntro ==
  ASSUME NEW V, NEW S \in SUBSET Tags, NEW f \in [S -> V]
  PROVE  f \in Objects(V)
BY DEF Objects

\* Merging an object into a record of all tags keeps a record of all tags.
LEMMA MergeType ==
  ASSUME NEW V, NEW W, V \subseteq W, NEW f \in Objects(V), NEW g \in [Tags -> W]
  PROVE  Merge(f, g) \in [Tags -> W]
<1>1. \A t \in DOMAIN f : f[t] \in V  BY ObjectProps
<1>2. QED  BY <1>1 DEF Merge

\* SetIntAt() stores a PLC integer whatever the message carries.
LEMMA StoredType ==
  ASSUME NEW v \in Payloads  PROVE Stored(v) \in Ints
BY IntAssumption DEF Stored, Ints

\* Leaving a tag out of an object leaves an object.
LEMMA WithoutType ==
  ASSUME NEW V, NEW f \in Objects(V), NEW t  PROVE Without(f, t) \in Objects(V)
<1>1. DOMAIN f \subseteq Tags /\ \A u \in DOMAIN f : f[u] \in V  BY ObjectProps
<1>2. Without(f, t) \in [DOMAIN f \ {t} -> V]  BY <1>1 DEF Without
<1>3. QED  BY <1>1, <1>2, ObjectIntro

LEMMA NoTagsType ==
  ASSUME NEW V  PROVE NoTags \in Objects(V)
<1>1. NoTags \in [{} -> V]  BY DEF NoTags
<1>2. QED  BY <1>1, ObjectIntro

\* What plc_out is the text of is an object, at the start the empty one.
LEMMA SentType ==
  ASSUME TypeOK  PROVE Sent \in Objects(Ints)
BY NoTagsType DEF TypeOK, Sent

(***************************************************************************)
(* Types, one step per action that changes more than its place.            *)
(***************************************************************************)
LEMMA TypeInit == Init => TypeOK
<1> SUFFICES ASSUME Init  PROVE TypeOK
  OBVIOUS
<1>1. obj \in Objects(Payloads) /\ plc_out \in Objects(Ints) \cup {Blank}  BY NoTagsType DEF Init
<1>2. 0 \in Ints  BY IntAssumption DEF Ints
<1>3. prev_value \in [Tags -> Known] /\ told \in [Tags -> Known] /\ view \in [Tags -> Known]
  BY <1>2 DEF Init, Known
<1>4. inbox \in Seq(Objects(Payloads))  BY DEF Init
<1>5. faults \in 0 .. MaxFaults /\ changes \in 0 .. MaxChanges /\ messages \in 0 .. MaxMessages
  BY BoundsAssumption DEF Init
<1>6. QED  BY <1>1, <1>3, <1>4, <1>5 DEF Init, TypeOK

\* The record of a fault stays within its bound.
LEMMA FaultType ==
  ASSUME TypeOK, NEW kind, Fault(kind)
  PROVE  /\ faults' \in 0 .. MaxFaults /\ changes' = changes /\ messages' = messages
         /\ onlyWrites' \in BOOLEAN
         /\ onlyWrites' => onlyWrites /\ kind = "write"
<1>1. faults' \in 0 .. MaxFaults /\ changes' = changes /\ messages' = messages
  BY BoundsAssumption DEF TypeOK, Fault
<1>2. onlyWrites \in BOOLEAN /\ onlyWrites' = IF kind = "write" THEN onlyWrites ELSE FALSE
  BY DEF TypeOK, Fault
<1>3. CASE kind = "write"  BY <1>1, <1>2, <1>3
<1>4. CASE kind # "write"  BY <1>1, <1>2, <1>4
<1>5. QED  BY <1>3, <1>4

\* The record of no fault stays as it is.
LEMMA NoFaultType ==
  ASSUME TypeOK, NoFault
  PROVE  /\ faults' \in 0 .. MaxFaults /\ changes' = changes /\ messages' = messages
         /\ onlyWrites' \in BOOLEAN /\ onlyWrites' = onlyWrites
BY DEF TypeOK, NoFault, boundVars

LEMMA ConnectTypes ==
  ASSUME TypeOK,
         Reconnect \/ Restart \/ HandleMessage \/ NoMessage \/ ConnectS7 \/ TooEarly
  PROVE  TypeOK'
<1>1. CASE Reconnect  BY <1>1 DEF Reconnect, TypeOK, NoFault, boundVars
<1>2. CASE Restart
  <2>1. /\ faults' \in 0 .. MaxFaults /\ changes' = changes /\ messages' = messages
        /\ onlyWrites' \in BOOLEAN
    BY <1>2, FaultType DEF Restart
  <2>2. obj' \in Objects(Payloads) /\ plc_out' \in Objects(Ints) \cup {Blank}
    BY <1>2, NoTagsType DEF Restart, Fresh
  <2>3. prev_value' \in [Tags -> Known]  BY <1>2, IntAssumption DEF Restart, Fresh, Known, Ints
  <2>4. inbox' \in Seq(Objects(Payloads))  BY <1>2 DEF Restart, Fresh
  <2>5. QED  BY <1>2, <2>1, <2>2, <2>3, <2>4 DEF Restart, Fresh, TypeOK
<1>3. CASE HandleMessage
  <2>1. inbox \in Seq(Objects(Payloads)) /\ inbox # <<>>  BY <1>3 DEF HandleMessage, TypeOK
  <2>2. Head(inbox) \in Objects(Payloads) /\ Tail(inbox) \in Seq(Objects(Payloads))  BY <2>1
  <2>3. QED  BY <1>3, <2>2 DEF HandleMessage, TypeOK, boundVars
<1>4. CASE NoMessage  BY <1>4 DEF NoMessage, TypeOK, linkVars, boundVars
<1>5. CASE ConnectS7  BY <1>5 DEF ConnectS7, TypeOK, boundVars
<1>6. CASE TooEarly  BY <1>6 DEF TooEarly, TypeOK, linkVars, boundVars
<1>7. QED  BY <1>1, <1>2, <1>3, <1>4, <1>5, <1>6

LEMMA WriteTypes ==
  ASSUME TypeOK, Write  PROVE TypeOK'
<1>1. ASSUME NEW t \in Tags, WriteTag(t)  PROVE TypeOK'
  <2>1. t \in DOMAIN obj /\ obj \in Objects(Payloads)  BY <1>1 DEF WriteTag, NextTag, TypeOK
  <2>2. obj[t] \in Payloads  BY <2>1, ObjectProps
  <2>3. Stored(obj[t]) \in Ints /\ obj[t] \in Known  BY <2>2, StoredType DEF Known
  <2>4. obj' \in Objects(Payloads)  BY <1>1, <2>1, WithoutType DEF WriteTag
  <2>5. QED  BY <1>1, <2>3, <2>4 DEF WriteTag, TypeOK, linkVars, boundVars
<1>2. ASSUME NEW t \in Tags, WriteTagFails(t)  PROVE TypeOK'
  <2>1. t \in DOMAIN obj /\ obj \in Objects(Payloads)
    BY <1>2 DEF WriteTagFails, NextTag, TypeOK
  <2>2. Stored(obj[t]) \in Ints  BY <2>1, ObjectProps, StoredType
  <2>3. obj' \in Objects(Payloads)  BY <1>2, <2>1, WithoutType DEF WriteTagFails
  <2>4. plc' \in [Tags -> Ints]  BY <1>2, <2>2 DEF WriteTagFails, TypeOK
  <2>5. /\ faults' \in 0 .. MaxFaults /\ changes' = changes /\ messages' = messages
        /\ onlyWrites' \in BOOLEAN
    BY <1>2, FaultType, NoFaultType DEF WriteTagFails
  <2>6. UNCHANGED <<pc, prev_value, plc_out, linkVars, told, view>>  BY <1>2 DEF WriteTagFails
  <2>7. QED  BY <2>3, <2>4, <2>5, <2>6 DEF TypeOK, linkVars
<1>3. CASE MessageDone  BY <1>3 DEF MessageDone, TypeOK, linkVars, boundVars
<1>4. QED  BY <1>1, <1>2, <1>3 DEF Write

LEMMA ReadAndSendTypes ==
  ASSUME TypeOK, S7Read \/ S7ReadFails \/ NothingToSend \/ MqttSend \/ MqttSendFails
  PROVE  TypeOK'
<1>1. CASE S7Read
  <2>1. Changed \subseteq Tags /\ plc \in [Tags -> Ints]  BY DEF Changed, TypeOK
  <2>2. plc_out' \in [Changed -> Ints]  BY <1>1, <2>1 DEF S7Read
  <2>3. plc_out' \in Objects(Ints)  BY <2>1, <2>2, ObjectIntro
  <2>4. prev_value' \in [Tags -> Known]  BY <1>1, <2>1 DEF S7Read, Known
  <2>5. QED  BY <1>1, <2>3, <2>4 DEF S7Read, TypeOK, linkVars, boundVars
<1>2. CASE S7ReadFails
  <2>1. /\ faults' \in 0 .. MaxFaults /\ changes' = changes /\ messages' = messages
        /\ onlyWrites' \in BOOLEAN
    BY <1>2, FaultType, NoFaultType DEF S7ReadFails
  <2>2. QED  BY <1>2, <2>1 DEF S7ReadFails, TypeOK, linkVars
<1>3. CASE NothingToSend  BY <1>3 DEF NothingToSend, TypeOK, linkVars, boundVars
<1>4. CASE MqttSend
  <2>1. Merge(Sent, told) \in [Tags -> Known] /\ Merge(Sent, view) \in [Tags -> Known]
    BY MergeType, SentType DEF TypeOK, Known
  <2>2. QED  BY <1>4, <2>1 DEF MqttSend, TypeOK, linkVars, boundVars
<1>5. CASE MqttSendFails
  <2>1. /\ faults' \in 0 .. MaxFaults /\ changes' = changes /\ messages' = messages
        /\ onlyWrites' \in BOOLEAN
    BY <1>5, FaultType, NoFaultType DEF MqttSendFails
  <2>2. inbox' \in Seq(Objects(Payloads))  BY <1>5 DEF MqttSendFails
  <2>3. QED  BY <1>5, <2>1, <2>2 DEF MqttSendFails, TypeOK
<1>6. QED  BY <1>1, <1>2, <1>3, <1>4, <1>5

LEMMA EnvironmentTypes ==
  ASSUME TypeOK, Environment  PROVE TypeOK'
<1>1. ASSUME NEW t \in Tags, PlcChanges(t)  PROVE TypeOK'
  BY <1>1, BoundsAssumption DEF PlcChanges, TypeOK, linkVars
<1>2. ASSUME NEW m \in Objects(Payloads), SendMessage(m)  PROVE TypeOK'
  <2>1. Merge(m, view) \in [Tags -> Known]  BY MergeType DEF TypeOK, Known
  <2>2. inbox' \in Seq(Objects(Payloads))  BY <1>2 DEF SendMessage, TypeOK
  <2>3. QED  BY <1>2, <2>1, <2>2, BoundsAssumption DEF SendMessage, TypeOK
<1>3. CASE MqttDrops
  <2>1. /\ faults' \in 0 .. MaxFaults /\ changes' = changes /\ messages' = messages
        /\ onlyWrites' \in BOOLEAN
    BY <1>3, FaultType DEF MqttDrops
  <2>2. inbox' \in Seq(Objects(Payloads))  BY <1>3 DEF MqttDrops
  <2>3. QED  BY <1>3, <2>1, <2>2 DEF MqttDrops, TypeOK
<1>4. CASE PlcDies
  <2>1. /\ faults' \in 0 .. MaxFaults /\ changes' = changes /\ messages' = messages
        /\ onlyWrites' \in BOOLEAN
    BY <1>4, FaultType DEF PlcDies
  <2>2. QED  BY <1>4, <2>1 DEF PlcDies, TypeOK
<1>5. QED  BY <1>1, <1>2, <1>3, <1>4 DEF Environment

LEMMA TypeNext ==
  ASSUME TypeOK, [Next]_vars  PROVE TypeOK'
<1>1. CASE Loop  BY <1>1, ConnectTypes, WriteTypes, ReadAndSendTypes DEF Loop
<1>2. CASE Environment  BY <1>2, EnvironmentTypes
<1>3. CASE UNCHANGED vars  BY <1>3 DEF vars, linkVars, boundVars, TypeOK
<1>4. QED  BY <1>1, <1>2, <1>3 DEF Next

(***************************************************************************)
(* The record.  A step after which nothing but writes has failed is one    *)
(* that nothing else fails in.                                             *)
(***************************************************************************)
\* What LossInv says of a history in which nothing but writes has failed.
RecordInv ==
  /\ pc # "send" => prev_value = told
  /\ Connected => alive
  /\ pc # "loop" => mqtt
  /\ pc = "send" => /\ prev_value = Merge(Sent, told)
                    /\ \A t \in DOMAIN Sent : Sent[t] # told[t]

LEMMA LossInvIs == LossInv <=> TypeOK /\ (onlyWrites => RecordInv)
BY DEF LossInv, NothingLost, RecordInv

\* loop() up to the message it takes, and s7_write(): a tag that was written is
\* known on both sides, one that was not on neither.
LEMMA ConnectAndWriteStep ==
  ASSUME TypeOK, RecordInv, onlyWrites',
         \/ Reconnect \/ Restart \/ HandleMessage \/ NoMessage \/ ConnectS7 \/ TooEarly
         \/ Write
  PROVE  RecordInv'
<1>1. CASE Reconnect  BY <1>1 DEF Reconnect, RecordInv
<1>2. CASE Restart  BY <1>2, FaultType DEF Restart
<1>3. CASE HandleMessage  BY <1>3 DEF HandleMessage, RecordInv
<1>4. CASE NoMessage  BY <1>4 DEF NoMessage, RecordInv, linkVars
<1>5. CASE ConnectS7  BY <1>5 DEF ConnectS7, RecordInv
<1>6. CASE TooEarly  BY <1>6 DEF TooEarly, RecordInv, linkVars
<1>7. ASSUME NEW t \in Tags, WriteTag(t)  PROVE RecordInv'
  BY <1>7 DEF WriteTag, NextTag, RecordInv, linkVars
<1>8. ASSUME NEW t \in Tags, WriteTagFails(t)  PROVE RecordInv'
  BY <1>8 DEF WriteTagFails, NextTag, RecordInv, linkVars
<1>9. CASE MessageDone  BY <1>9 DEF MessageDone, RecordInv, linkVars
<1>10. QED  BY <1>1, <1>2, <1>3, <1>4, <1>5, <1>6, <1>7, <1>8, <1>9 DEF Write

\* s7Read(): what told lacks is exactly what goes into plc_out.
LEMMA ReadStep ==
  ASSUME TypeOK, RecordInv, onlyWrites', S7Read \/ S7ReadFails  PROVE RecordInv'
<1>1. CASE S7Read
  <2>1. pc = "s7" /\ prev_value = told /\ plc \in [Tags -> Ints] /\ told \in [Tags -> Known]
    BY <1>1 DEF S7Read, TypeOK, RecordInv
  <2>2. Changed \subseteq Tags /\ plc_out' = [t \in Changed |-> plc[t]]
    BY <1>1 DEF S7Read, Changed
  <2>3. Sent' = plc_out'
    <3>1. plc_out' \in Objects(Ints)  BY <2>1, <2>2, ObjectIntro
    <3>2. QED  BY <3>1, BlankAssumption DEF Sent
  <2>4. prev_value' = Merge(plc_out', told)
    <3>1. ASSUME NEW t \in Tags  PROVE plc[t] = IF t \in Changed THEN plc_out'[t] ELSE told[t]
      BY <2>1, <2>2 DEF Changed
    <3>2. DOMAIN plc_out' = Changed /\ prev_value' = [t \in Tags |-> plc[t]]
      BY <1>1, <2>2 DEF S7Read
    <3>3. QED  BY <3>1, <3>2 DEF Merge
  <2>5. \A t \in DOMAIN plc_out' : plc_out'[t] # told[t]  BY <2>1, <2>2 DEF Changed
  <2>6. QED  BY <1>1, <2>3, <2>4, <2>5 DEF S7Read, RecordInv, linkVars
<1>2. CASE S7ReadFails
  <2>1. alive  BY <1>2 DEF S7ReadFails, RecordInv
  <2>2. QED  BY <1>2, <2>1, FaultType DEF S7ReadFails
<1>3. QED  BY <1>1, <1>2

\* mqttSend(): afterwards told has everything.
LEMMA SendStep ==
  ASSUME TypeOK, RecordInv, onlyWrites', NothingToSend \/ MqttSend \/ MqttSendFails
  PROVE  RecordInv'
<1>1. CASE NothingToSend
  <2>1. prev_value = Merge(NoTags, told)  BY <1>1 DEF NothingToSend, RecordInv, Sent
  <2>2. Merge(NoTags, told) = told  BY DEF Merge, NoTags, TypeOK
  <2>3. QED  BY <1>1, <2>1, <2>2 DEF NothingToSend, RecordInv, linkVars
<1>2. CASE MqttSend  BY <1>2 DEF MqttSend, RecordInv, linkVars
<1>3. CASE MqttSendFails
  <2>1. mqtt  BY <1>3 DEF MqttSendFails, RecordInv
  <2>2. QED  BY <1>3, <2>1, FaultType DEF MqttSendFails
<1>4. QED  BY <1>1, <1>2, <1>3

\* The PLC program and the remote client touch neither side of the record.
LEMMA EnvironmentStep ==
  ASSUME TypeOK, RecordInv, onlyWrites', Environment  PROVE RecordInv'
<1>1. ASSUME NEW t \in Tags, PlcChanges(t)  PROVE RecordInv'
  BY <1>1 DEF PlcChanges, RecordInv, linkVars, Sent
<1>2. ASSUME NEW m \in Objects(Payloads), SendMessage(m)  PROVE RecordInv'
  BY <1>2 DEF SendMessage, RecordInv, Sent
<1>3. CASE MqttDrops  BY <1>3, FaultType DEF MqttDrops
<1>4. CASE PlcDies  BY <1>4, FaultType DEF PlcDies
<1>5. QED  BY <1>1, <1>2, <1>3, <1>4 DEF Environment

\* Once something else than a write has failed, that stays so.
LEMMA OnlyWritesStep ==
  ASSUME TypeOK, [Next]_vars, onlyWrites'  PROVE onlyWrites
<1>1. CASE Loop
  <2>1. ASSUME NEW t \in Tags, WriteTag(t) \/ WriteTagFails(t)  PROVE onlyWrites
    BY <2>1, FaultType, NoFaultType DEF WriteTag, WriteTagFails, boundVars
  <2>2. CASE Reconnect \/ Restart \/ S7ReadFails \/ MqttSendFails
    BY <2>2, FaultType, NoFaultType DEF Reconnect, Restart, S7ReadFails, MqttSendFails
  <2>3. CASE \/ HandleMessage \/ NoMessage \/ MessageDone \/ ConnectS7 \/ TooEarly
             \/ S7Read \/ NothingToSend \/ MqttSend
    BY <2>3 DEF HandleMessage, NoMessage, MessageDone, ConnectS7, TooEarly, S7Read,
                NothingToSend, MqttSend, boundVars
  <2>4. QED  BY <1>1, <2>1, <2>2, <2>3 DEF Loop, Write
<1>2. CASE Environment
  BY <1>2, FaultType DEF Environment, PlcChanges, SendMessage, MqttDrops, PlcDies
<1>3. CASE UNCHANGED vars  BY <1>3 DEF vars, boundVars
<1>4. QED  BY <1>1, <1>2, <1>3 DEF Next

LEMMA LossNext ==
  ASSUME LossInv, [Next]_vars  PROVE LossInv'
<1>1. TypeOK /\ TypeOK'  BY TypeNext DEF LossInv
<1>2. ASSUME onlyWrites'  PROVE RecordInv'
  <2>1. RecordInv  BY <1>1, <1>2, OnlyWritesStep, LossInvIs
  <2>2. CASE Loop
    BY <1>1, <1>2, <2>1, <2>2, ConnectAndWriteStep, ReadStep, SendStep DEF Loop
  <2>3. CASE Environment  BY <1>1, <1>2, <2>1, <2>3, EnvironmentStep
  <2>4. CASE UNCHANGED vars  BY <2>1, <2>4 DEF vars, linkVars, RecordInv, Sent
  <2>5. QED  BY <2>2, <2>3, <2>4 DEF Next
<1>3. QED  BY <1>1, <1>2 DEF LossInv, NothingLost, RecordInv

LEMMA LossInit == Init => LossInv
BY TypeInit DEF Init, LossInv, NothingLost

(***************************************************************************)
(* Theorems                                                                *)
(***************************************************************************)
\* The invariant, and with it NothingLost: until something else than a write has
\* failed, the gateway's record of the broker is right whenever nothing is on its
\* way, whatever the PLC and the broker send.
THEOREM RecordIsRight == Spec => [](LossInv /\ NothingLost)
<1>1. LossInv => NothingLost  BY DEF LossInv
<1>2. QED  BY LossInit, LossNext, <1>1, PTL DEF Spec

\* OnlyChangesSent: until then, no tag is published with the value the broker
\* already has.
THEOREM SendsOnlyChanges == Spec => OnlyChangesSent
<1>1. LossInv /\ [Next]_vars
        => [MqttSend /\ onlyWrites => \A t \in DOMAIN Sent : Sent[t] # told[t]]_vars
  BY DEF LossInv, MqttSend
<1>2. QED  BY LossInit, LossNext, <1>1, PTL DEF Spec, OnlyChangesSent
=============================================================================
