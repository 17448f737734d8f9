------------------------- MODULE PubSubClient_proof -------------------------
(***************************************************************************)
(* Proofs about PubSubClient, for all intervals, messages and bounds.      *)
(***************************************************************************)
EXTENDS PubSubClient, TLAPS

(***************************************************************************)
(* Lemmas on the operators.                                                *)
(***************************************************************************)
\* The bounds of the ages are numbers.
LEMMA Caps == InCap \in Nat /\ OutCap \in Nat /\ DeadCap \in Nat /\ Round \in Nat
BY TimeAssumption DEF InCap, OutCap, DeadCap, Round

\* So 0 is an age.
LEMMA Zero == 0 \in 0 .. InCap /\ 0 \in 0 .. OutCap /\ 0 \in 0 .. DeadCap /\ 0 \in Nat
BY Caps

\* The age of t can be the age of lastOutActivity.
LEMMA InOut == 0 .. InCap \subseteq 0 .. OutCap
BY TimeAssumption DEF InCap, OutCap, Round

\* A written packet joins those on their way to the broker.
LEMMA WriteType ==
  ASSUME out \in Seq(Outgoing),
         NEW type \in {"CONNECT", "PUBLISH", "PUBACK", "PINGREQ", "PINGRESP", "SUBSCRIBE"},
         NEW id \in Msgs \cup {0}, Write(type, id)
  PROVE  out' \in Seq(Outgoing)
<1>1. [type |-> type, id |-> id] \in Outgoing  BY DEF Outgoing
<1>2. QED  BY <1>1 DEF Write

\* Marking a packet changes nothing else.
LEMMA MarkType ==
  ASSUME inq \in Seq(Incoming), NEW i \in 1 .. Len(inq),
         NEW h \in {"all", "head", "none", "torn"}
  PROVE  /\ Mark(i, h) \in Seq(Incoming) /\ Len(Mark(i, h)) = Len(inq)
         /\ Mark(i, h)[i].here = h
         /\ \A j \in 1 .. Len(inq) : j # i => Mark(i, h)[j] = inq[j]
<1>1. inq[i] \in Incoming  OBVIOUS
<1>2. [type |-> inq[i].type, id |-> inq[i].id, here |-> h] \in Incoming  BY <1>1 DEF Incoming
<1>3. QED  BY <1>2 DEF Mark

\* The answers of a broker are packets.
LEMMA AnswerType ==
  ASSUME NEW p \in Outgoing
  PROVE  /\ Answer(p) \in Seq(Incoming)
         /\ \A k \in 1 .. Len(Answer(p)) : Answer(p)[k].here = "all"
<1>1. \A t \in {"CONNACK", "PINGRESP", "SUBACK"} : Packet(t, 0, "all") \in Incoming
  BY DEF Packet, Incoming
<1>2. \A t \in {"CONNACK", "PINGRESP", "SUBACK"} : Packet(t, 0, "all").here = "all"
  BY DEF Packet
<1>3. \/ \E t \in {"CONNACK", "PINGRESP", "SUBACK"} : Answer(p) = <<Packet(t, 0, "all")>>
      \/ Answer(p) = <<>>
  BY DEF Answer
<1>4. ASSUME NEW t \in {"CONNACK", "PINGRESP", "SUBACK"}, Answer(p) = <<Packet(t, 0, "all")>>
      PROVE  /\ Answer(p) \in Seq(Incoming) /\ Len(Answer(p)) = 1
             /\ Answer(p)[1].here = "all"
  <2>1. <<Packet(t, 0, "all")>> \in Seq(Incoming)  BY <1>1
  <2>2. QED  BY <2>1, <1>2, <1>4
<1>5. CASE Answer(p) = <<>>  BY <1>5
<1>6. QED  BY <1>3, <1>4, <1>5

\* The age of a time stamp stays within its bound.
LEMMA OlderType ==
  ASSUME NEW cap \in Nat, NEW age \in 0 .. cap
  PROVE  Older(age, cap) \in 0 .. cap /\ (age < cap => Older(age, cap) = age + 1)
         /\ Older(age, cap) >= age /\ Older(age, cap) <= age + 1
         /\ (Older(age, cap) < cap => Older(age, cap) = age + 1)
BY DEF Older

\* nextMsgId is never 0.
LEMMA NextIdType ==
  ASSUME nextMsgId \in 1 .. IdSpace - 1  PROVE NextId \in 1 .. IdSpace - 1
BY BoundsAssumption DEF NextId

(***************************************************************************)
(* Types, in three parts.                                                  *)
(***************************************************************************)
LinkTypes ==
  /\ state \in States /\ sock \in {"open", "halfclosed", "closed"}
  /\ pingOutstanding \in BOOLEAN /\ hung \in BOOLEAN
  /\ pc \in {"user", "connect", "read", "callback"}
  /\ msgId \in Msgs \cup {0} /\ nextMsgId \in 1 .. IdSpace - 1
TimeTypes ==
  /\ inAge \in 0 .. InCap /\ outAge \in 0 .. OutCap /\ tAge \in 0 .. InCap
  /\ spent \in Nat /\ lag \in Nat /\ dead \in 0 .. DeadCap
DataTypes ==
  /\ inq \in Seq(Incoming) /\ out \in Seq(Outgoing)
  /\ sent \subseteq Msgs /\ acked \subseteq Msgs /\ handed \subseteq Msgs
  /\ faults \in 0 .. MaxFaults /\ stream \in {"whole", "late", "torn"}

LEMMA TypeParts == TypeOK <=> LinkTypes /\ TimeTypes /\ DataTypes
BY DEF TypeOK, LinkTypes, TimeTypes, DataTypes

LEMMA InitTypes == Init => TypeOK
<1> SUFFICES ASSUME Init PROVE TypeOK  OBVIOUS
<1>0. 1 \in 1 .. IdSpace - 1  BY BoundsAssumption
<1>1. LinkTypes  BY <1>0 DEF Init, LinkTypes, States
<1>2. TimeTypes  BY Zero DEF Init, TimeTypes
<1>3. DataTypes  BY BoundsAssumption DEF Init, DataTypes
<1>4. QED  BY <1>1, <1>2, <1>3, TypeParts

(***************************************************************************)
(* Every step keeps the types.                                             *)
(***************************************************************************)
\* The calls that open and lose a connection.
LEMMA NoticeLossTypes == TypeOK /\ NoticeLoss => TypeOK'
<1> SUFFICES ASSUME LinkTypes, TimeTypes, DataTypes, NoticeLoss PROVE TypeOK'  BY TypeParts
<1>1. LinkTypes'  BY DEF NoticeLoss, LinkTypes, timeVars, brokerVars, histVars, Stop, States
<1>2. TimeTypes'  BY Zero DEF NoticeLoss, TimeTypes, timeVars, brokerVars, histVars, Stop
<1>3. DataTypes'  BY DEF NoticeLoss, DataTypes, timeVars, brokerVars, histVars, Stop
<1>4. QED  BY <1>1, <1>2, <1>3 DEF TypeOK, LinkTypes, TimeTypes, DataTypes

LEMMA ConnectTypes == TypeOK /\ Connect => TypeOK'
<1> SUFFICES ASSUME LinkTypes, TimeTypes, DataTypes, Connect PROVE TypeOK'  BY TypeParts
<1>a. /\ inAge' = 0 /\ outAge' = 0 /\ tAge' = tAge /\ spent' = 0 /\ lag' = 0 /\ dead' = 0
  BY DEF Connect
<1>0. <<[type |-> "CONNECT", id |-> 0]>> \in Seq(Outgoing)  BY DEF Outgoing
<1>c. 1 \in 1 .. IdSpace - 1  BY BoundsAssumption
<1>1. LinkTypes'  BY <1>c DEF Connect, LinkTypes, timeVars, brokerVars, histVars
<1>2. TimeTypes'  BY <1>a, Zero DEF TimeTypes
<1>3. DataTypes'  BY <1>0 DEF Connect, DataTypes, timeVars, brokerVars, histVars
<1>4. QED  BY <1>1, <1>2, <1>3 DEF TypeOK, LinkTypes, TimeTypes, DataTypes

LEMMA ConnectFailsTypes == TypeOK /\ ConnectFails => TypeOK'
<1> SUFFICES ASSUME LinkTypes, TimeTypes, DataTypes, ConnectFails PROVE TypeOK'  BY TypeParts
<1>1. LinkTypes'  BY DEF ConnectFails, LinkTypes, timeVars, brokerVars, histVars, States
<1>2. TimeTypes'  BY Zero DEF ConnectFails, TimeTypes, timeVars, brokerVars, histVars
<1>3. DataTypes'  BY DEF ConnectFails, DataTypes, timeVars, brokerVars, histVars
<1>4. QED  BY <1>1, <1>2, <1>3 DEF TypeOK, LinkTypes, TimeTypes, DataTypes

LEMMA ConnectTimesOutTypes == TypeOK /\ ConnectTimesOut => TypeOK'
<1> SUFFICES ASSUME LinkTypes, TimeTypes, DataTypes, ConnectTimesOut PROVE TypeOK'  BY TypeParts
<1>1. LinkTypes'  BY DEF ConnectTimesOut, LinkTypes, timeVars, brokerVars, histVars, Stop, Return, States
<1>2. TimeTypes'  BY Zero DEF ConnectTimesOut, TimeTypes, timeVars, brokerVars, histVars, Stop, Return
<1>3. DataTypes'  BY DEF ConnectTimesOut, DataTypes, timeVars, brokerVars, histVars, Stop, Return
<1>4. QED  BY <1>1, <1>2, <1>3 DEF TypeOK, LinkTypes, TimeTypes, DataTypes

LEMMA ReadConnackTypes == TypeOK /\ ReadConnack => TypeOK'
<1> SUFFICES ASSUME LinkTypes, TimeTypes, DataTypes, ReadConnack PROVE TypeOK'  BY TypeParts
<1>0. Tail(inq) \in Seq(Incoming)  BY DEF ReadConnack, Available, DataTypes
<1>1. LinkTypes'  BY DEF ReadConnack, LinkTypes, timeVars, brokerVars, histVars, Stop, Return, States
<1>2. TimeTypes'  BY Zero DEF ReadConnack, TimeTypes, timeVars, brokerVars, histVars, Stop, Return
<1>a. \/ inq' = Tail(inq) /\ out' = out
      \/ inq' = <<>> /\ out' = <<>>
  BY DEF ReadConnack, Stop
<1>c. <<>> \in Seq(Incoming) /\ <<>> \in Seq(Outgoing)  OBVIOUS
<1>b. inq' \in Seq(Incoming) /\ out' \in Seq(Outgoing)  BY <1>a, <1>c, <1>0 DEF DataTypes
<1>3. DataTypes'  BY <1>b DEF ReadConnack, DataTypes, brokerVars, histVars
<1>4. QED  BY <1>1, <1>2, <1>3 DEF TypeOK, LinkTypes, TimeTypes, DataTypes

\* loop().
LEMMA LoopTimesOutTypes == TypeOK /\ LoopTimesOut => TypeOK'
<1> SUFFICES ASSUME LinkTypes, TimeTypes, DataTypes, LoopTimesOut PROVE TypeOK'  BY TypeParts
<1>1. LinkTypes'  BY DEF LoopTimesOut, LinkTypes, timeVars, brokerVars, histVars, Stop, Return, States
<1>2. TimeTypes'  BY Zero DEF LoopTimesOut, TimeTypes, timeVars, brokerVars, histVars, Stop, Return
<1>3. DataTypes'  BY DEF LoopTimesOut, DataTypes, timeVars, brokerVars, histVars, Stop, Return
<1>4. QED  BY <1>1, <1>2, <1>3 DEF TypeOK, LinkTypes, TimeTypes, DataTypes

LEMMA LoopTypes == TypeOK /\ Loop => TypeOK'
<1> SUFFICES ASSUME LinkTypes, TimeTypes, DataTypes, Loop PROVE TypeOK'  BY TypeParts
<1>0. out' \in Seq(Outgoing)  BY WriteType DEF Loop, Ping, NoPing, DataTypes
<1>1. LinkTypes'  BY DEF Loop, LinkTypes, timeVars, brokerVars, histVars, Ping, NoPing
<1>2. TimeTypes'  BY Zero DEF Loop, TimeTypes, timeVars, brokerVars, histVars, Ping, NoPing
<1>3. DataTypes'  BY <1>0 DEF Loop, DataTypes, timeVars, brokerVars, histVars, Ping, NoPing
<1>4. QED  BY <1>1, <1>2, <1>3 DEF TypeOK, LinkTypes, TimeTypes, DataTypes

LEMMA HandlePacketTypes ==
  ASSUME LinkTypes, TimeTypes, DataTypes,
         NEW type \in {"CONNACK", "REFUSAL", "PUBLISH", "PINGREQ", "PINGRESP", "SUBACK"},
         NEW id \in Msgs \cup {0}, HandlePacket(type, id)
  PROVE  /\ pc' \in {"user", "callback"} /\ msgId' \in Msgs \cup {0} /\ pingOutstanding' \in BOOLEAN
         /\ inAge' \in 0 .. InCap /\ tAge' \in 0 .. InCap /\ spent' = 0
         /\ out' \in Seq(Outgoing)
<1>1. out' \in Seq(Outgoing)  BY WriteType DEF HandlePacket, DataTypes
<1>2. pc' \in {"user", "callback"} /\ msgId' \in Msgs \cup {0} /\ pingOutstanding' \in BOOLEAN
  BY DEF HandlePacket, Return, LinkTypes
<1>3. inAge' \in 0 .. InCap /\ tAge' \in 0 .. InCap /\ spent' = 0
  BY Zero DEF HandlePacket, Return, TimeTypes
<1>4. QED  BY <1>1, <1>2, <1>3

LEMMA ReadPacketTypes == TypeOK /\ SpentInv /\ ReadPacket => TypeOK'
<1> SUFFICES ASSUME LinkTypes, TimeTypes, DataTypes, SpentInv, ReadPacket PROVE TypeOK'  BY TypeParts
<1>1. inq # <<>>  BY DEF SpentInv, ReadPacket, Available
<1>2. Head(inq) \in Incoming /\ Tail(inq) \in Seq(Incoming)  BY <1>1 DEF DataTypes
<1>3. Head(inq).id \in Msgs \cup {0}
      /\ Head(inq).type \in {"CONNACK", "REFUSAL", "PUBLISH", "PINGREQ", "PINGRESP", "SUBACK"}
  BY <1>2 DEF Incoming
<1>4. CASE HandlePacket(Head(inq).type, Head(inq).id)
  <2>1. handed' \subseteq Msgs  BY <1>3 DEF ReadPacket, DataTypes
  <2>2. LinkTypes' /\ TimeTypes'  BY <1>3, <1>4, HandlePacketTypes DEF ReadPacket, LinkTypes, TimeTypes, brokerVars
  <2>3. DataTypes'  BY <1>2, <1>3, <1>4, <2>1, HandlePacketTypes DEF ReadPacket, DataTypes, brokerVars
  <2>4. QED  BY <2>2, <2>3 DEF TypeOK, LinkTypes, TimeTypes, DataTypes
<1>5. CASE Return /\ UNCHANGED <<inAge, pingOutstanding, out, handed>>
  <2>1. LinkTypes' /\ TimeTypes'  BY <1>5, Zero DEF ReadPacket, Return, LinkTypes, TimeTypes, brokerVars
  <2>2. DataTypes'  BY <1>2, <1>5 DEF ReadPacket, DataTypes, brokerVars
  <2>3. QED  BY <2>1, <2>2 DEF TypeOK, LinkTypes, TimeTypes, DataTypes
<1>6. QED  BY <1>4, <1>5 DEF ReadPacket

LEMMA ReadGivesUpTypes == TypeOK /\ SpentInv /\ ReadGivesUp => TypeOK'
<1> SUFFICES ASSUME LinkTypes, TimeTypes, DataTypes, SpentInv, ReadGivesUp PROVE TypeOK'  BY TypeParts
<1>1. 1 \in 1 .. Len(inq)  BY DEF SpentInv, ReadGivesUp, Available, DataTypes
<1>2. inq' \in Seq(Incoming)  BY <1>1, MarkType DEF ReadGivesUp, DataTypes
<1>3. LinkTypes' /\ TimeTypes'  BY Zero DEF ReadGivesUp, Return, LinkTypes, TimeTypes, brokerVars
<1>4. DataTypes'  BY <1>2 DEF ReadGivesUp, DataTypes, brokerVars
<1>5. QED  BY <1>3, <1>4 DEF TypeOK, LinkTypes, TimeTypes, DataTypes

LEMMA ReadTornTypes == TypeOK /\ SpentInv /\ ReadTorn => TypeOK'
<1> SUFFICES ASSUME LinkTypes, TimeTypes, DataTypes, SpentInv, ReadTorn PROVE TypeOK'  BY TypeParts
<1>1. Tail(inq) \in Seq(Incoming)  BY DEF SpentInv, ReadTorn, Available, DataTypes
<1>2. CASE /\ inq' = Tail(inq) /\ UNCHANGED <<state, sock, lag>>
           /\ \E type \in {"PUBLISH", "PINGREQ", "PINGRESP", "SUBACK"}, id \in Msgs \cup {0} :
                HandlePacket(type, id)
  <2>1. PICK type \in {"PUBLISH", "PINGREQ", "PINGRESP", "SUBACK"}, id \in Msgs \cup {0} :
          HandlePacket(type, id)
    BY <1>2
  <2>2. LinkTypes' /\ TimeTypes'  BY <1>2, <2>1, HandlePacketTypes DEF ReadTorn, LinkTypes, TimeTypes, brokerVars, histVars
  <2>3. DataTypes'  BY <1>1, <1>2, <2>1, HandlePacketTypes DEF ReadTorn, DataTypes, brokerVars, histVars
  <2>4. QED  BY <2>2, <2>3 DEF TypeOK, LinkTypes, TimeTypes, DataTypes
<1>3. CASE inq' = Tail(inq) /\ Return /\ UNCHANGED <<state, sock, lag, inAge, pingOutstanding, out>>
  <2>1. LinkTypes' /\ TimeTypes'  BY <1>3, Zero DEF ReadTorn, Return, LinkTypes, TimeTypes, brokerVars, histVars
  <2>2. DataTypes'  BY <1>1, <1>3 DEF ReadTorn, DataTypes, brokerVars, histVars
  <2>3. QED  BY <2>1, <2>2 DEF TypeOK, LinkTypes, TimeTypes, DataTypes
<1>4. CASE state' = "DISCONNECTED" /\ Stop /\ Return /\ UNCHANGED <<inAge, pingOutstanding>>
  <2>1. LinkTypes'  BY <1>4 DEF ReadTorn, Stop, Return, LinkTypes, States, brokerVars, histVars
  <2>2. TimeTypes'  BY <1>4, Zero DEF ReadTorn, Stop, Return, TimeTypes, brokerVars, histVars
  <2>3. DataTypes'  BY <1>4 DEF ReadTorn, Stop, DataTypes, brokerVars, histVars
  <2>4. QED  BY <2>1, <2>2, <2>3 DEF TypeOK, LinkTypes, TimeTypes, DataTypes
<1>5. QED  BY <1>2, <1>3, <1>4 DEF ReadTorn

LEMMA CallbackReturnsTypes == TypeOK /\ CallbackReturns => TypeOK'
<1> SUFFICES ASSUME LinkTypes, TimeTypes, DataTypes, CallbackReturns PROVE TypeOK'  BY TypeParts
<1>0. out' \in Seq(Outgoing)  BY WriteType DEF CallbackReturns, DataTypes, LinkTypes
<1>1. LinkTypes'  BY DEF CallbackReturns, LinkTypes, timeVars, brokerVars, histVars, Return
<1>2. TimeTypes'  BY InOut, Zero DEF CallbackReturns, TimeTypes, timeVars, brokerVars, histVars, Return
<1>3. DataTypes'  BY <1>0 DEF CallbackReturns, DataTypes, timeVars, brokerVars, histVars, Return
<1>4. QED  BY <1>1, <1>2, <1>3 DEF TypeOK, LinkTypes, TimeTypes, DataTypes

\* The other calls.
LEMMA PublishTypes == TypeOK /\ Publish => TypeOK'
<1> SUFFICES ASSUME LinkTypes, TimeTypes, DataTypes, Publish PROVE TypeOK'  BY TypeParts
<1>0. out' \in Seq(Outgoing)  BY WriteType DEF Publish, DataTypes
<1>1. LinkTypes'  BY DEF Publish, LinkTypes, timeVars, brokerVars, histVars
<1>2. TimeTypes'  BY Zero DEF Publish, TimeTypes, timeVars, brokerVars, histVars
<1>3. DataTypes'  BY <1>0 DEF Publish, DataTypes, timeVars, brokerVars, histVars
<1>4. QED  BY <1>1, <1>2, <1>3 DEF TypeOK, LinkTypes, TimeTypes, DataTypes

LEMMA SubscribeTypes == TypeOK /\ Subscribe => TypeOK'
<1> SUFFICES ASSUME LinkTypes, TimeTypes, DataTypes, Subscribe PROVE TypeOK'  BY TypeParts
<1>0. out' \in Seq(Outgoing)  BY WriteType DEF Subscribe, DataTypes
<1>1. LinkTypes'  BY NextIdType DEF Subscribe, LinkTypes, timeVars, brokerVars, histVars
<1>2. TimeTypes'  BY Zero DEF Subscribe, TimeTypes, timeVars, brokerVars, histVars
<1>3. DataTypes'  BY <1>0 DEF Subscribe, DataTypes, timeVars, brokerVars, histVars
<1>4. QED  BY <1>1, <1>2, <1>3 DEF TypeOK, LinkTypes, TimeTypes, DataTypes

LEMMA DisconnectTypes == TypeOK /\ Disconnect => TypeOK'
<1> SUFFICES ASSUME LinkTypes, TimeTypes, DataTypes, Disconnect PROVE TypeOK'  BY TypeParts
<1>1. LinkTypes'  BY DEF Disconnect, LinkTypes, timeVars, brokerVars, histVars, Stop, Fault, States
<1>2. TimeTypes'  BY Zero DEF Disconnect, TimeTypes, timeVars, brokerVars, histVars, Stop, Fault
<1>3. DataTypes'  BY BoundsAssumption DEF Disconnect, DataTypes, timeVars, brokerVars, histVars, Stop, Fault
<1>4. QED  BY <1>1, <1>2, <1>3 DEF TypeOK, LinkTypes, TimeTypes, DataTypes

\* Time, the network and the broker.
LEMMA TickTypes == TypeOK /\ Tick => TypeOK'
<1> SUFFICES ASSUME LinkTypes, TimeTypes, DataTypes, Tick PROVE TypeOK'  BY TypeParts
<1>a. inAge' \in 0 .. InCap /\ outAge' \in 0 .. OutCap /\ tAge' \in 0 .. InCap
  BY OlderType, Caps DEF Tick, TimeTypes
<1>b. dead' \in 0 .. DeadCap /\ spent' \in Nat /\ lag' \in Nat
  BY OlderType, Caps, Zero DEF Tick, TimeTypes
<1>1. LinkTypes'  BY DEF Tick, LinkTypes, timeVars, brokerVars, histVars
<1>2. TimeTypes'  BY <1>a, <1>b, Zero DEF Tick, TimeTypes, timeVars, brokerVars, histVars
<1>3. DataTypes'  BY DEF Tick, DataTypes, timeVars, brokerVars, histVars
<1>4. QED  BY <1>1, <1>2, <1>3 DEF TypeOK, LinkTypes, TimeTypes, DataTypes

LEMMA BrokerReadsTypes == TypeOK /\ BrokerReads => TypeOK'
<1> SUFFICES ASSUME LinkTypes, TimeTypes, DataTypes, BrokerReads PROVE TypeOK'  BY TypeParts
<1>1. Head(out) \in Outgoing /\ out' \in Seq(Outgoing)  BY DEF BrokerReads, DataTypes
<1>2. Answer(Head(out)) \in Seq(Incoming)  BY <1>1, AnswerType
<1>3. Packet("REFUSAL", 0, "all") \in Incoming  BY DEF Packet, Incoming
<1>a. inq \o Answer(Head(out)) \in Seq(Incoming)  BY <1>2 DEF DataTypes
<1>b. Append(inq, Packet("REFUSAL", 0, "all")) \in Seq(Incoming)  BY <1>3 DEF DataTypes
<1>4. inq' \in Seq(Incoming)  BY <1>a, <1>b DEF BrokerReads
<1>5. acked' \subseteq Msgs  BY <1>1 DEF BrokerReads, DataTypes, Outgoing
<1>6. faults' \in 0 .. MaxFaults  BY BoundsAssumption DEF BrokerReads, Fault, DataTypes
<1>7. LinkTypes' /\ TimeTypes'  BY DEF BrokerReads, LinkTypes, TimeTypes, timeVars, histVars
<1>8. DataTypes'  BY <1>1, <1>4, <1>5, <1>6 DEF BrokerReads, DataTypes, histVars
<1>9. QED  BY <1>7, <1>8 DEF TypeOK, LinkTypes, TimeTypes, DataTypes

LEMMA BrokerPublishesTypes ==
  ASSUME NEW m \in Msgs \cup {0}, TypeOK, BrokerPublishes(m)  PROVE TypeOK'
<1> USE TypeParts
<1>1. \A h \in {"all", "head"} : Packet("PUBLISH", m, h) \in Incoming  BY DEF Packet, Incoming
<1>a. inq \in Seq(Incoming)  BY DEF DataTypes
<1>b. \A h \in {"all", "head"} : Append(inq, Packet("PUBLISH", m, h)) \in Seq(Incoming)  BY <1>1, <1>a
<1>2. inq' \in Seq(Incoming)  BY <1>a, <1>b DEF BrokerPublishes
<1>3. sent' \subseteq Msgs  BY DEF BrokerPublishes, DataTypes
<1>4. faults' \in 0 .. MaxFaults /\ stream' \in {"whole", "late", "torn"}
  BY BoundsAssumption DEF BrokerPublishes, Fault, DataTypes
<1>5. LinkTypes' /\ TimeTypes'  BY DEF BrokerPublishes, LinkTypes, TimeTypes, timeVars
<1>6. DataTypes'  BY <1>2, <1>3, <1>4 DEF BrokerPublishes, DataTypes
<1>7. QED  BY <1>5, <1>6 DEF TypeOK, LinkTypes, TimeTypes, DataTypes

LEMMA RestArrivesTypes == TypeOK /\ RestArrives => TypeOK'
<1> SUFFICES ASSUME LinkTypes, TimeTypes, DataTypes, RestArrives PROVE TypeOK'  BY TypeParts
<1>0. inq' \in Seq(Incoming)  BY MarkType DEF RestArrives, DataTypes
<1>1. LinkTypes'  BY DEF RestArrives, LinkTypes, timeVars, brokerVars, histVars
<1>2. TimeTypes'  BY Zero DEF RestArrives, TimeTypes, timeVars, brokerVars, histVars
<1>3. DataTypes'  BY <1>0 DEF RestArrives, DataTypes, timeVars, brokerVars, histVars
<1>4. QED  BY <1>1, <1>2, <1>3 DEF TypeOK, LinkTypes, TimeTypes, DataTypes

LEMMA BrokerHangsTypes == TypeOK /\ BrokerHangs => TypeOK'
<1> SUFFICES ASSUME LinkTypes, TimeTypes, DataTypes, BrokerHangs PROVE TypeOK'  BY TypeParts
<1>1. LinkTypes'  BY DEF BrokerHangs, LinkTypes, timeVars, brokerVars, histVars, Fault
<1>2. TimeTypes'  BY Zero DEF BrokerHangs, TimeTypes, timeVars, brokerVars, histVars, Fault
<1>3. DataTypes'  BY BoundsAssumption DEF BrokerHangs, DataTypes, timeVars, brokerVars, histVars, Fault
<1>4. QED  BY <1>1, <1>2, <1>3 DEF TypeOK, LinkTypes, TimeTypes, DataTypes

LEMMA BrokerClosesTypes == TypeOK /\ BrokerCloses => TypeOK'
<1> SUFFICES ASSUME LinkTypes, TimeTypes, DataTypes, BrokerCloses PROVE TypeOK'  BY TypeParts
<1>1. LinkTypes'  BY DEF BrokerCloses, LinkTypes, timeVars, brokerVars, histVars, Fault
<1>2. TimeTypes'  BY Zero DEF BrokerCloses, TimeTypes, timeVars, brokerVars, histVars, Fault
<1>3. DataTypes'  BY BoundsAssumption DEF BrokerCloses, DataTypes, timeVars, brokerVars, histVars, Fault
<1>4. QED  BY <1>1, <1>2, <1>3 DEF TypeOK, LinkTypes, TimeTypes, DataTypes

(***************************************************************************)
(* Where the sketch is, for how long, and with which connection.           *)
(***************************************************************************)
\* The actions a step can be.
LEMMA Steps ==
  ASSUME Next
  PROVE  \/ NoticeLoss \/ Connect \/ ConnectFails \/ ConnectTimesOut \/ ReadConnack
         \/ LoopTimesOut \/ Loop \/ ReadPacket \/ ReadGivesUp \/ ReadTorn \/ CallbackReturns
         \/ Publish \/ Subscribe \/ Disconnect \/ Tick \/ BrokerReads
         \/ (\E m \in Msgs \cup {0} : BrokerPublishes(m)) \/ RestArrives \/ BrokerHangs \/ BrokerCloses
BY DEF Next, Reading, Sketch, Broker

\* What is available stays so when more comes behind it.
LEMMA MoreIsAvailable ==
  ASSUME inq \in Seq(Incoming), Available, NEW s \in Seq(Incoming), NEW e \in Incoming,
         inq' = inq \o s \/ inq' = Append(inq, e)
  PROVE  Available'
<1>1. inq # <<>> /\ Head(inq) = inq[1] /\ 1 \in 1 .. Len(inq)  BY DEF Available
<1>2. inq' # <<>> /\ Head(inq') = inq[1]
  <2>1. CASE inq' = inq \o s
    <3>1. (inq \o s) \in Seq(Incoming) /\ Len(inq \o s) >= 1 /\ (inq \o s)[1] = inq[1]  BY <1>1
    <3>2. QED  BY <2>1, <3>1
  <2>2. CASE inq' = Append(inq, e)
    <3>1. Append(inq, e) \in Seq(Incoming) /\ Len(Append(inq, e)) >= 1 /\ Append(inq, e)[1] = inq[1]
      BY <1>1
    <3>2. QED  BY <2>2, <3>1
  <2>3. QED  BY <2>1, <2>2
<1>3. QED  BY <1>1, <1>2 DEF Available

\* Nothing else than the client takes packets away, once they have come.
LEMMA BrokerKeepsAvailable ==
  ASSUME TypeOK, Available,
         BrokerReads \/ (\E m \in Msgs \cup {0} : BrokerPublishes(m)) \/ RestArrives
  PROVE  Available'
<1> USE TypeParts
<1>1. inq \in Seq(Incoming)  BY DEF DataTypes
<1>2. CASE BrokerReads
  <2>1. Head(out) \in Outgoing  BY <1>2 DEF BrokerReads, DataTypes
  <2>2. Answer(Head(out)) \in Seq(Incoming)  BY <2>1, AnswerType
  <2>3. Packet("REFUSAL", 0, "all") \in Incoming  BY DEF Packet, Incoming
  <2>4. inq' = inq \o Answer(Head(out)) \/ inq' = Append(inq, Packet("REFUSAL", 0, "all"))
    BY <1>2 DEF BrokerReads
  <2>5. QED  BY <1>1, <2>2, <2>3, <2>4, MoreIsAvailable
<1>3. CASE \E m \in Msgs \cup {0} : BrokerPublishes(m)
  <2>1. PICK m \in Msgs \cup {0}, h \in {"all", "head"} : inq' = Append(inq, Packet("PUBLISH", m, h))
    BY <1>3 DEF BrokerPublishes
  <2>2. Packet("PUBLISH", m, h) \in Incoming  BY DEF Packet, Incoming
  <2>3. <<>> \in Seq(Incoming)  OBVIOUS
  <2>4. QED  BY <1>1, <2>1, <2>2, <2>3, MoreIsAvailable
<1>4. CASE RestArrives
  <2>1. PICK i \in 1 .. Len(inq) : inq' = Mark(i, IF inq[i].here = "head" THEN "all" ELSE "torn")
    BY <1>4 DEF RestArrives
  <2>2. inq # <<>> /\ inq[1].here # "none" /\ 1 \in 1 .. Len(inq)  BY <1>1 DEF Available
  <2>3. inq' \in Seq(Incoming) /\ Len(inq') = Len(inq)  BY <1>1, <2>1, MarkType
  <2>4. inq'[1].here # "none"
    <3>1. CASE i = 1  BY <1>1, <2>1, <3>1, MarkType
    <3>2. CASE i # 1  BY <1>1, <2>1, <2>2, <3>2, MarkType
    <3>3. QED  BY <3>1, <3>2
  <2>5. QED  BY <2>2, <2>3, <2>4 DEF Available
<1>5. QED  BY <1>2, <1>3, <1>4

LEMMA StepTypes == TypeOK /\ SpentInv /\ [Next]_vars => TypeOK'
<1> SUFFICES ASSUME TypeOK, SpentInv, [Next]_vars PROVE TypeOK'  OBVIOUS
<1>1. CASE UNCHANGED vars
  BY <1>1 DEF TypeOK, vars, timeVars, brokerVars, histVars
<1>2. CASE Next
  BY <1>2, Steps, NoticeLossTypes, ConnectTypes, ConnectFailsTypes, ConnectTimesOutTypes,
     ReadConnackTypes, LoopTimesOutTypes, LoopTypes, ReadPacketTypes, ReadGivesUpTypes, ReadTornTypes,
     CallbackReturnsTypes, PublishTypes, SubscribeTypes, DisconnectTypes, TickTypes, BrokerReadsTypes,
     BrokerPublishesTypes, RestArrivesTypes, BrokerHangsTypes, BrokerClosesTypes
<1>3. QED  BY <1>1, <1>2

\* How long the sketch has been where it is.
LEMMA StepSpent == TypeOK /\ SpentInv /\ [Next]_vars => SpentInv'
<1> SUFFICES ASSUME TypeOK, SpentInv, [Next]_vars PROVE SpentInv'  OBVIOUS
<1> USE TypeParts
<1>1. CASE UNCHANGED vars
  BY <1>1 DEF vars, SpentInv, Available, timeVars, brokerVars, histVars
<1>2. CASE NoticeLoss
  BY <1>2 DEF NoticeLoss, SpentInv, Available, timeVars, brokerVars, histVars
<1>3. CASE Connect
  BY <1>3, TimeAssumption DEF Connect, SpentInv, timeVars, brokerVars, histVars
<1>4. CASE ConnectFails
  BY <1>4 DEF ConnectFails, SpentInv, Available, timeVars, brokerVars, histVars
<1>5. CASE ConnectTimesOut
  BY <1>5, TimeAssumption DEF ConnectTimesOut, Return, SpentInv, timeVars, brokerVars, histVars
<1>6. CASE ReadConnack
  BY <1>6, TimeAssumption DEF ReadConnack, Return, SpentInv, timeVars, brokerVars, histVars
<1>7. CASE LoopTimesOut
  BY <1>7, TimeAssumption DEF LoopTimesOut, Return, SpentInv, timeVars, brokerVars, histVars
<1>8. CASE Loop
  BY <1>8, TimeAssumption DEF Loop, SpentInv, Available, timeVars, brokerVars, histVars
<1>9. CASE ReadPacket
  <2>1. \/ pc' = "user" /\ spent' = 0
        \/ pc' = "callback" /\ spent' = 0 /\ tAge' = tAge /\ tAge <= SocketTimeout
    BY <1>9, TimeAssumption DEF ReadPacket, HandlePacket, Return, SpentInv, TimeTypes
  <2>2. QED  BY <2>1, TimeAssumption DEF SpentInv, TimeTypes
<1>10. CASE ReadGivesUp
  BY <1>10, TimeAssumption DEF ReadGivesUp, Return, SpentInv
<1>11. CASE ReadTorn
  <2>1. \/ pc' = "user" /\ spent' = 0
        \/ pc' = "callback" /\ spent' = 0 /\ tAge' = tAge /\ tAge <= SocketTimeout
    BY <1>11, TimeAssumption DEF ReadTorn, HandlePacket, Return, SpentInv, TimeTypes
  <2>2. QED  BY <2>1, TimeAssumption DEF SpentInv, TimeTypes
<1>12. CASE CallbackReturns
  BY <1>12, TimeAssumption DEF CallbackReturns, Return, SpentInv
<1>13. CASE Publish
  BY <1>13 DEF Publish, SpentInv, Available, timeVars, brokerVars, histVars
<1>14. CASE Subscribe
  BY <1>14 DEF Subscribe, SpentInv, Available, timeVars, brokerVars, histVars
<1>15. CASE Disconnect
  BY <1>15 DEF Disconnect, SpentInv, Available, timeVars, brokerVars, histVars
<1>16. CASE Tick
  <2>a. tAge' = tAge \/ tAge' = Older(tAge, InCap)  BY <1>16 DEF Tick
  <2>b. outAge' = Older(outAge, OutCap) /\ spent' = spent + 1  BY <1>16 DEF Tick
  <2>c. Older(tAge, InCap) <= tAge + 1  BY OlderType, Caps DEF TimeTypes
  <2>d. Older(outAge, OutCap) <= outAge + 1  BY OlderType, Caps DEF TimeTypes
  <2>1. tAge' <= tAge + 1 /\ outAge' <= outAge + 1 /\ spent' = spent + 1
    BY <2>a, <2>b, <2>c, <2>d DEF TimeTypes
  <2>2. UNCHANGED <<pc, inq>>  BY <1>16 DEF Tick
  <2>3. pc = "user" => spent + 1 <= LoopGap  BY <1>16, TimeAssumption DEF Tick, MayWait, TimeTypes
  <2>4. pc = "callback" => spent + 1 <= CallbackTime  BY <1>16, TimeAssumption DEF Tick, MayWait, TimeTypes
  <2>5. pc \in {"connect", "read"} => spent + 1 <= SocketTimeout
    BY <1>16, TimeAssumption DEF Tick, MayWait, TimeTypes
  <2>6. tAge' \in Int /\ outAge' \in Int  BY <1>16, OlderType, Caps DEF Tick, TimeTypes
  <2>7. Available' <=> Available  BY <2>2 DEF Available
  <2>8. spent \in Int /\ tAge \in Int /\ outAge \in Int  BY Caps DEF TimeTypes
  <2>9. QED  BY <2>1, <2>2, <2>3, <2>4, <2>5, <2>6, <2>7, <2>8, TimeAssumption DEF SpentInv
<1>17. CASE BrokerReads
  BY <1>17, BrokerKeepsAvailable DEF BrokerReads, SpentInv, timeVars
<1>18. CASE \E m \in Msgs \cup {0} : BrokerPublishes(m)
  BY <1>18, BrokerKeepsAvailable DEF BrokerPublishes, SpentInv, timeVars
<1>19. CASE RestArrives
  BY <1>19, BrokerKeepsAvailable DEF RestArrives, SpentInv, timeVars
<1>20. CASE BrokerHangs
  BY <1>20 DEF BrokerHangs, SpentInv, Available, timeVars, brokerVars, histVars
<1>21. CASE BrokerCloses
  BY <1>21 DEF BrokerCloses, SpentInv, Available, timeVars, brokerVars, histVars
<1>22. QED  BY Steps, <1>1, <1>2, <1>3, <1>4, <1>5, <1>6, <1>7, <1>8, <1>9, <1>10, <1>11, <1>12, <1>13, <1>14, <1>15, <1>16, <1>17, <1>18, <1>19, <1>20, <1>21

\* Which connection the sketch has.
LEMMA StepLink == TypeOK /\ SpentInv /\ LinkInv /\ [Next]_vars => LinkInv'
<1> SUFFICES ASSUME TypeOK, SpentInv, LinkInv, [Next]_vars PROVE LinkInv'  OBVIOUS
<1> USE TypeParts
<1>1. CASE UNCHANGED vars
  BY <1>1 DEF vars, LinkInv
<1>2. CASE NoticeLoss
  BY <1>2 DEF NoticeLoss, Stop, LinkInv
<1>3. CASE Connect
  BY <1>3 DEF Connect, LinkInv
<1>4. CASE ConnectFails
  BY <1>4 DEF ConnectFails, LinkInv
<1>5. CASE ConnectTimesOut
  BY <1>5 DEF ConnectTimesOut, Stop, Return, LinkInv
<1>6. CASE ReadConnack
  BY <1>6 DEF ReadConnack, Stop, Return, LinkInv
<1>7. CASE LoopTimesOut
  BY <1>7 DEF LoopTimesOut, Stop, Return, LinkInv
<1>8. CASE Loop
  BY <1>8 DEF Loop, Up, LinkInv
<1>9. CASE ReadPacket
  BY <1>9 DEF ReadPacket, HandlePacket, Return, LinkInv
<1>10. CASE ReadGivesUp
  BY <1>10 DEF ReadGivesUp, Return, LinkInv
<1>11. CASE ReadTorn
  BY <1>11 DEF ReadTorn, HandlePacket, Return, Stop, LinkInv
<1>12. CASE CallbackReturns
  BY <1>12 DEF CallbackReturns, Return, LinkInv
<1>13. CASE Publish
  BY <1>13 DEF Publish, LinkInv
<1>14. CASE Subscribe
  BY <1>14 DEF Subscribe, LinkInv
<1>15. CASE Disconnect
  BY <1>15 DEF Disconnect, Stop, LinkInv
<1>16. CASE Tick
  BY <1>16 DEF Tick, LinkInv
<1>17. CASE BrokerReads
  BY <1>17 DEF BrokerReads, LinkInv
<1>18. CASE \E m \in Msgs \cup {0} : BrokerPublishes(m)
  BY <1>18 DEF BrokerPublishes, LinkInv
<1>19. CASE RestArrives
  BY <1>19 DEF RestArrives, LinkInv
<1>20. CASE BrokerHangs
  BY <1>20 DEF BrokerHangs, LinkInv
<1>21. CASE BrokerCloses
  BY <1>21 DEF BrokerCloses, LinkInv
<1>22. QED  BY Steps, <1>1, <1>2, <1>3, <1>4, <1>5, <1>6, <1>7, <1>8, <1>9, <1>10, <1>11, <1>12, <1>13, <1>14, <1>15, <1>16, <1>17, <1>18, <1>19, <1>20, <1>21

(***************************************************************************)
(* How long a hung broker goes unnoticed.                                  *)
(***************************************************************************)
\* dead grows only while a hung broker has nothing left to read.
LEMMA StepSilence ==
  ASSUME TypeOK, SpentInv, DeadInv, [Next]_vars
  PROVE  (Available' \/ ~hung') => dead' = 0
<1>1. CASE UNCHANGED vars
  BY <1>1 DEF vars, Available, DeadInv, brokerVars, histVars
<1>2. CASE NoticeLoss
  BY <1>2 DEF NoticeLoss, Stop, Available, DeadInv, brokerVars, histVars
<1>3. CASE Connect
  BY <1>3 DEF Connect
<1>4. CASE ConnectFails
  BY <1>4 DEF ConnectFails, Available, DeadInv, brokerVars, histVars
<1>5. CASE ConnectTimesOut
  BY <1>5 DEF ConnectTimesOut, Stop, Available, DeadInv, brokerVars, histVars
<1>6. CASE ReadConnack
  BY <1>6 DEF ReadConnack, Available, DeadInv, brokerVars, histVars
<1>7. CASE LoopTimesOut
  BY <1>7 DEF LoopTimesOut, Stop, Available, DeadInv, brokerVars, histVars
<1>8. CASE Loop
  BY <1>8 DEF Loop, Available, DeadInv, brokerVars, histVars
<1>9. CASE ReadPacket
  BY <1>9 DEF ReadPacket, SpentInv, DeadInv, brokerVars
<1>10. CASE ReadGivesUp
  BY <1>10 DEF ReadGivesUp, SpentInv, DeadInv, brokerVars
<1>11. CASE ReadTorn
  BY <1>11 DEF ReadTorn, SpentInv, DeadInv, brokerVars, histVars
<1>12. CASE CallbackReturns
  BY <1>12 DEF CallbackReturns, Available, DeadInv, brokerVars, histVars
<1>13. CASE Publish
  BY <1>13 DEF Publish, Available, DeadInv, brokerVars, histVars
<1>14. CASE Subscribe
  BY <1>14 DEF Subscribe, Available, DeadInv, brokerVars, histVars
<1>15. CASE Disconnect
  BY <1>15 DEF Disconnect, Stop, Available, DeadInv, histVars
<1>16. CASE Tick
  BY <1>16 DEF Tick, brokerVars, Available
<1>17. CASE BrokerReads
  BY <1>17 DEF BrokerReads, Flows, DeadInv, histVars
<1>18. CASE \E m \in Msgs \cup {0} : BrokerPublishes(m)
  BY <1>18 DEF BrokerPublishes, Flows, DeadInv
<1>19. CASE RestArrives
  BY <1>19 DEF RestArrives, DeadInv, brokerVars, histVars
<1>20. CASE BrokerHangs
  BY <1>20 DEF BrokerHangs
<1>21. CASE BrokerCloses
  BY <1>21 DEF BrokerCloses, DeadInv, histVars
<1>22. QED  BY Steps, <1>1, <1>2, <1>3, <1>4, <1>5, <1>6, <1>7, <1>8, <1>9, <1>10, <1>11, <1>12, <1>13, <1>14, <1>15, <1>16, <1>17, <1>18, <1>19, <1>20, <1>21

\* What a connected client knows of a hung broker.
Known == /\ pc = "callback" => dead <= spent
         /\ inAge < InCap => dead <= inAge + Asked
         /\ pc = "user" => dead <= KeepAlive + spent + Asked

LEMMA StepDead == TypeOK /\ SpentInv /\ LinkInv /\ DeadInv /\ [Next]_vars => DeadInv'
<1> SUFFICES ASSUME TypeOK, SpentInv, LinkInv, DeadInv, [Next]_vars,
                    CallbackTime <= KeepAlive, state' = "CONNECTED"
             PROVE  Known'
  BY StepSilence DEF DeadInv, Known
<1> USE TimeAssumption
<1>e. /\ inAge \in 0 .. InCap /\ dead \in 0 .. DeadCap /\ spent \in Nat /\ InCap \in Nat /\ DeadCap \in Nat
      /\ pingOutstanding \in BOOLEAN
  BY Caps DEF TypeOK
<1>f. inAge' \in 0 .. InCap /\ spent' \in Nat /\ pingOutstanding' \in BOOLEAN
  BY StepTypes DEF TypeOK
<1>a. Asked \in Nat /\ Asked' \in Nat
  BY <1>e, <1>f DEF Asked
<1>b. inAge' >= 0 /\ spent' >= 0 /\ inAge' \in Int /\ spent' \in Int  BY <1>e, <1>f
<1>c. ASSUME dead' = 0 PROVE Known'
  <2>1. 0 <= spent'  BY <1>b
  <2>a. \A a, b, c \in Nat : 0 <= a + b /\ 0 <= a + b + c  OBVIOUS
  <2>b. inAge' \in Nat  BY <1>b
  <2>2. 0 <= inAge' + Asked'  BY <1>a, <2>a, <2>b
  <2>3. 0 <= KeepAlive + spent' + Asked'  BY <1>a, <1>f, <2>a
  <2>4. QED  BY <1>c, <2>1, <2>2, <2>3, Zenon DEF Known
<1>d. CASE UNCHANGED <<state, pc, inAge, pingOutstanding, dead, spent>>
  <2>1. Known  BY <1>d DEF DeadInv, Known
  <2>2. Asked' = Asked  BY <1>d DEF Asked
  <2>3. QED  BY <1>d, <2>1, <2>2 DEF Known
<1>1. CASE UNCHANGED vars
  BY <1>1, <1>d DEF vars, timeVars, histVars
<1>2. CASE NoticeLoss
  BY <1>2 DEF NoticeLoss
<1>3. CASE Connect
  BY <1>3 DEF Connect, LinkInv
<1>4. CASE ConnectFails
  BY <1>4 DEF ConnectFails
<1>5. CASE ConnectTimesOut
  BY <1>5 DEF ConnectTimesOut
<1>6. CASE ReadConnack
  BY <1>6, <1>c DEF ReadConnack, DeadInv, histVars
<1>7. CASE LoopTimesOut
  BY <1>7 DEF LoopTimesOut
<1>8. CASE Loop
  <2>1. dead' = dead /\ state = "CONNECTED" /\ pc = "user" /\ spent' = 0 /\ pc' \in {"user", "read"}
    BY <1>8 DEF Loop, Up, histVars
  <2>2. Known  BY <2>1 DEF DeadInv, Known
  <2>3. spent <= LoopGap /\ spent \in Nat /\ dead \in Int  BY <2>1, <1>e DEF SpentInv
  <2>4. CASE Ping
    <3>1. inAge' = 0 /\ Asked = 0 /\ Asked' = KeepAlive + LoopGap
      BY <2>4 DEF Ping, Asked
    <3>2. dead <= KeepAlive + LoopGap  BY <2>1, <2>2, <2>3, <3>1 DEF Known
    <3>3. QED  BY <2>1, <3>1, <3>2, <2>3 DEF Known
  <2>5. CASE NoPing
    <3>1. inAge' = inAge /\ Asked' = Asked /\ inAge <= KeepAlive /\ inAge \in Nat
      BY <2>5, <1>e DEF NoPing, Asked, Late, InCap
    <3>2. inAge < InCap  BY <3>1 DEF InCap
    <3>3. dead <= inAge + Asked  BY <2>2, <3>2 DEF Known
    <3>4. QED  BY <1>a, <2>1, <2>3, <3>1, <3>3 DEF Known
  <2>6. QED  BY <1>8, <2>4, <2>5 DEF Loop
<1>9. CASE ReadPacket
  BY <1>9, <1>c DEF ReadPacket, SpentInv, DeadInv
<1>10. CASE ReadGivesUp
  BY <1>10, <1>c DEF ReadGivesUp, SpentInv, DeadInv
<1>11. CASE ReadTorn
  BY <1>11, <1>c DEF ReadTorn, SpentInv, DeadInv, histVars
<1>12. CASE CallbackReturns
  <2>1. /\ state = "CONNECTED" /\ pc = "callback" /\ pc' = "user" /\ spent' = 0
        /\ dead' = dead /\ inAge' = inAge /\ Asked' = Asked
    BY <1>12 DEF CallbackReturns, Return, histVars, Asked
  <2>2. Known  BY <2>1 DEF DeadInv, Known
  <2>3. dead <= CallbackTime  BY <2>1, <2>2, <1>e DEF SpentInv, Known
  <2>4. QED  BY <1>a, <2>1, <2>2, <2>3, <1>e DEF Known
<1>13. CASE Publish
  BY <1>13, <1>d DEF Publish, timeVars, brokerVars, histVars
<1>14. CASE Subscribe
  BY <1>14, <1>d DEF Subscribe, timeVars, brokerVars, histVars
<1>15. CASE Disconnect
  BY <1>15 DEF Disconnect
<1>16. CASE Tick
  <2>1. /\ state = "CONNECTED" /\ pc' = pc /\ Asked' = Asked /\ spent' = spent + 1
        /\ inAge' = Older(inAge, InCap)
    BY <1>16 DEF Tick, Asked
  <2>2. Known  BY <2>1 DEF DeadInv, Known
  <2>3. inAge' < InCap => inAge < InCap /\ inAge' = inAge + 1
    BY <2>1, <1>e DEF Older
  <2>4. CASE dead' = Older(dead, DeadCap)
    <3>1. dead' <= dead + 1 /\ dead' \in Int /\ dead \in Int  BY <2>4, <1>e DEF Older
    <3>2. QED  BY <1>a, <2>1, <2>2, <2>3, <3>1, <1>e DEF Known
  <2>5. CASE dead' = 0  BY <1>c, <2>5
  <2>6. QED  BY <1>16, <2>4, <2>5 DEF Tick
<1>17. CASE BrokerReads
  BY <1>17, <1>d DEF BrokerReads, timeVars, histVars
<1>18. CASE \E m \in Msgs \cup {0} : BrokerPublishes(m)
  BY <1>18, <1>d DEF BrokerPublishes, timeVars
<1>19. CASE RestArrives
  BY <1>19, <1>d DEF RestArrives, timeVars, histVars
<1>20. CASE BrokerHangs
  BY <1>20, <1>c DEF BrokerHangs
<1>21. CASE BrokerCloses
  BY <1>21, <1>d DEF BrokerCloses, timeVars, brokerVars, histVars
<1>22. QED  BY Steps, <1>1, <1>2, <1>3, <1>4, <1>5, <1>6, <1>7, <1>8, <1>9, <1>10, <1>11, <1>12, <1>13, <1>14, <1>15, <1>16, <1>17, <1>18, <1>19, <1>20, <1>21

(***************************************************************************)
(* How long the broker hears nothing.                                      *)
(***************************************************************************)
\* What a connected client knows of the age of lastOutActivity.
Quiet == /\ pc = "user" => outAge <= KeepAlive + SocketTimeout + CallbackTime + spent
         /\ pc = "read" => outAge <= KeepAlive + spent
         /\ pc = "callback" => outAge <= KeepAlive + SocketTimeout + spent

LEMMA StepHeard == TypeOK /\ SpentInv /\ LinkInv /\ HeardInv /\ [Next]_vars => HeardInv'
<1> SUFFICES ASSUME TypeOK, SpentInv, LinkInv, HeardInv, [Next]_vars, state' = "CONNECTED"
             PROVE  Quiet'
  BY DEF HeardInv, Quiet
<1> USE TimeAssumption
<1>e. outAge \in Nat /\ tAge \in Nat /\ spent \in Nat /\ OutCap \in Nat /\ outAge \in 0 .. OutCap
  BY Caps DEF TypeOK
<1>f. outAge' \in Nat /\ spent' \in Nat  BY StepTypes, Caps DEF TypeOK
<1>g. state = "CONNECTED" => Quiet  BY DEF HeardInv, Quiet
<1>z. ASSUME outAge' = 0 PROVE Quiet'
  <2>a. \A a, b, c, d \in Nat : 0 <= a + b /\ 0 <= a + b + c /\ 0 <= a + b + c + d  OBVIOUS
  <2>1. 0 <= KeepAlive + SocketTimeout + CallbackTime + spent'  BY <1>f, <2>a
  <2>2. 0 <= KeepAlive + spent' /\ 0 <= KeepAlive + SocketTimeout + spent'  BY <1>f, <2>a
  <2>3. QED  BY <1>z, <2>1, <2>2 DEF Quiet
<1>d. CASE UNCHANGED <<state, pc, outAge, spent>>
  BY <1>d, <1>g DEF Quiet
<1>r. ASSUME state = "CONNECTED", pc = "read", outAge' = outAge, spent' = 0,
             pc' \in {"user", "callback"}
      PROVE  Quiet'
  <2>1. outAge <= KeepAlive + SocketTimeout  BY <1>e, <1>g, <1>r DEF Quiet, SpentInv
  <2>2. QED  BY <1>e, <1>r, <2>1 DEF Quiet
<1>1. CASE UNCHANGED vars
  BY <1>1, <1>d DEF vars, timeVars
<1>2. CASE NoticeLoss
  BY <1>2 DEF NoticeLoss
<1>3. CASE Connect
  BY <1>3 DEF Connect, LinkInv
<1>4. CASE ConnectFails
  BY <1>4 DEF ConnectFails
<1>5. CASE ConnectTimesOut
  BY <1>5 DEF ConnectTimesOut
<1>6. CASE ReadConnack
  <2>1. pc = "connect" /\ pc' = "user" /\ spent' = 0 /\ outAge' = outAge
    BY <1>6 DEF ReadConnack, Return
  <2>2. outAge <= SocketTimeout  BY <1>e, <2>1 DEF SpentInv
  <2>3. QED  BY <1>e, <2>1, <2>2 DEF Quiet
<1>7. CASE LoopTimesOut
  BY <1>7 DEF LoopTimesOut
<1>8. CASE Loop
  <2>1. CASE Ping  BY <1>z, <2>1 DEF Ping
  <2>2. CASE NoPing
    <3>1. outAge' = outAge /\ outAge <= KeepAlive  BY <1>e, <2>2 DEF NoPing, Late
    <3>2. spent' = 0 /\ pc' \in {"user", "read"}  BY <1>8 DEF Loop
    <3>3. QED  BY <1>e, <3>1, <3>2 DEF Quiet
  <2>3. QED  BY <1>8, <2>1, <2>2 DEF Loop
<1>9. CASE ReadPacket
  BY <1>9, <1>r DEF ReadPacket, HandlePacket, Return
<1>10. CASE ReadGivesUp
  BY <1>10, <1>r DEF ReadGivesUp, Return
<1>11. CASE ReadTorn
  BY <1>11, <1>r DEF ReadTorn, HandlePacket, Return
<1>12. CASE CallbackReturns
  <2>1. state = "CONNECTED" /\ pc = "callback" /\ pc' = "user" /\ spent' = 0 /\ outAge' \in {outAge, tAge}
    BY <1>12 DEF CallbackReturns, Return
  <2>2. tAge <= SocketTimeout + CallbackTime  BY <1>e, <2>1 DEF SpentInv
  <2>3. outAge <= KeepAlive + SocketTimeout + CallbackTime  BY <1>e, <1>g, <2>1 DEF SpentInv, Quiet
  <2>4. outAge' <= KeepAlive + SocketTimeout + CallbackTime  BY <1>e, <2>1, <2>2, <2>3
  <2>5. QED  BY <2>1, <2>4, <1>f DEF Quiet
<1>13. CASE Publish
  BY <1>13, <1>z DEF Publish
<1>14. CASE Subscribe
  BY <1>14, <1>z DEF Subscribe
<1>15. CASE Disconnect
  BY <1>15 DEF Disconnect
<1>16. CASE Tick
  <2>1. state = "CONNECTED" /\ pc' = pc /\ spent' = spent + 1 /\ outAge' = Older(outAge, OutCap)
    BY <1>16 DEF Tick
  <2>2. outAge' <= outAge + 1  BY <1>e, <2>1 DEF Older
  <2>3. QED  BY <1>e, <1>f, <1>g, <2>1, <2>2 DEF Quiet
<1>17. CASE BrokerReads
  BY <1>17, <1>d DEF BrokerReads, timeVars
<1>18. CASE \E m \in Msgs \cup {0} : BrokerPublishes(m)
  BY <1>18, <1>d DEF BrokerPublishes, timeVars
<1>19. CASE RestArrives
  BY <1>19, <1>d DEF RestArrives, timeVars
<1>20. CASE BrokerHangs
  BY <1>20, <1>d DEF BrokerHangs, timeVars
<1>21. CASE BrokerCloses
  BY <1>21, <1>d DEF BrokerCloses, timeVars
<1>22. QED  BY Steps, <1>1, <1>2, <1>3, <1>4, <1>5, <1>6, <1>7, <1>8, <1>9, <1>10, <1>11, <1>12, <1>13, <1>14, <1>15, <1>16, <1>17, <1>18, <1>19, <1>20, <1>21

(***************************************************************************)
(* What is acknowledged was handed over.                                   *)
(***************************************************************************)
AcksIn(o, h) == \A i \in 1 .. Len(o) : o[i].type = "PUBACK" => o[i].id \in h
WholeIn(q)   == \A i \in 1 .. Len(q) : q[i].here \in {"all", "head"}

\* Packets that are no PUBACK, or one for a message of h, may be added.
LEMMA AcksAppend ==
  ASSUME NEW o \in Seq(Outgoing), NEW h, AcksIn(o, h), NEW type, NEW id, type = "PUBACK" => id \in h,
         [type |-> type, id |-> id] \in Outgoing
  PROVE  AcksIn(Append(o, [type |-> type, id |-> id]), h)
<1> DEFINE e == [type |-> type, id |-> id]
<1>1. e.type = type /\ e.id = id /\ e \in Outgoing  OBVIOUS
<1> HIDE DEF e
<1>2. SUFFICES ASSUME NEW i \in 1 .. Len(Append(o, e)), Append(o, e)[i].type = "PUBACK"
               PROVE  Append(o, e)[i].id \in h
  BY DEF AcksIn, e
<1>3. CASE i = Len(o) + 1  BY <1>1, <1>2, <1>3
<1>4. CASE i \in 1 .. Len(o)  BY <1>1, <1>2, <1>4 DEF AcksIn
<1>5. QED  BY <1>1, <1>3, <1>4

\* So write() may add one.
LEMMA WriteAcks ==
  ASSUME out \in Seq(Outgoing), AcksIn(out, handed),
         NEW type \in {"CONNECT", "PUBLISH", "PUBACK", "PINGREQ", "PINGRESP", "SUBSCRIBE"},
         NEW id \in Msgs \cup {0}, type = "PUBACK" => id \in handed, Write(type, id)
  PROVE  AcksIn(out', handed)
<1>1. [type |-> type, id |-> id] \in Outgoing  BY DEF Outgoing
<1>2. AcksIn(Append(out, [type |-> type, id |-> id]), handed)  BY <1>1, AcksAppend
<1>3. QED  BY <1>2 DEF Write

\* Messages handed over since change nothing.
LEMMA MoreAcks == ASSUME NEW o, NEW h, NEW g, h \subseteq g, AcksIn(o, h)  PROVE AcksIn(o, g)
BY DEF AcksIn

\* The broker reads the first packet.
LEMMA TailAcks ==
  ASSUME NEW o \in Seq(Outgoing), o # <<>>, NEW h, AcksIn(o, h)
  PROVE  AcksIn(Tail(o), h) /\ (Head(o).type = "PUBACK" => Head(o).id \in h)
<1>1. Len(o) >= 1 /\ Head(o) = o[1] /\ 1 \in 1 .. Len(o)  OBVIOUS
<1>2. \A i \in 1 .. Len(Tail(o)) : Tail(o)[i] = o[i + 1] /\ i + 1 \in 1 .. Len(o)  BY <1>1
<1>3. QED  BY <1>1, <1>2 DEF AcksIn

\* The client reads the first packet.
LEMMA WholeTail ==
  ASSUME NEW q \in Seq(Incoming), q # <<>>, WholeIn(q)  PROVE WholeIn(Tail(q))
<1>1. \A i \in 1 .. Len(Tail(q)) : Tail(q)[i] = q[i + 1] /\ i + 1 \in 1 .. Len(q)  OBVIOUS
<1>2. QED  BY <1>1 DEF WholeIn

\* Whole packets may be added: answers, and messages.
LEMMA WholeMore ==
  ASSUME NEW q \in Seq(Incoming), WholeIn(q), NEW r \in Seq(Incoming), WholeIn(r)
  PROVE  WholeIn(q \o r)
<1>1. SUFFICES ASSUME NEW i \in 1 .. Len(q \o r)  PROVE (q \o r)[i].here \in {"all", "head"}
  BY DEF WholeIn
<1>2. CASE i \in 1 .. Len(q)  BY <1>2 DEF WholeIn
<1>3. CASE i \notin 1 .. Len(q)
  <2>1. i - Len(q) \in 1 .. Len(r) /\ (q \o r)[i] = r[i - Len(q)]  BY <1>1, <1>3
  <2>2. QED  BY <2>1 DEF WholeIn
<1>4. QED  BY <1>2, <1>3

\* So may one whose second part is still to come.
LEMMA WholeAppend ==
  ASSUME NEW q \in Seq(Incoming), WholeIn(q), NEW e \in Incoming, e.here \in {"all", "head"}
  PROVE  WholeIn(Append(q, e))
<1>1. SUFFICES ASSUME NEW i \in 1 .. Len(Append(q, e))  PROVE Append(q, e)[i].here \in {"all", "head"}
  BY DEF WholeIn
<1>2. CASE i \in 1 .. Len(q)  BY <1>2 DEF WholeIn
<1>3. CASE i = Len(q) + 1  BY <1>3
<1>4. QED  BY <1>2, <1>3

\* AckInv, with its parts named.
Acks == /\ acked \subseteq handed /\ AcksIn(out, handed) /\ WholeIn(inq)
        /\ pc = "callback" => msgId \in handed \cup {0}

LEMMA AckParts == AckInv <=> (stream # "torn" => Acks)
BY DEF AckInv, Acks, AcksIn, WholeIn

LEMMA NoneIn == AcksIn(<<>>, handed) /\ WholeIn(<<>>)
BY DEF AcksIn, WholeIn

\* Every step keeps it.
LEMMA StepAck == TypeOK /\ SpentInv /\ AckInv /\ [Next]_vars => AckInv'
<1> SUFFICES ASSUME TypeOK, SpentInv, AckInv, [Next]_vars, stream' # "torn"
             PROVE  Acks'
  BY DEF AckInv, Acks, AcksIn, WholeIn
<1>e. out \in Seq(Outgoing) /\ inq \in Seq(Incoming) /\ msgId \in Msgs \cup {0} /\ handed \subseteq Msgs
  BY DEF TypeOK
<1>g. stream # "torn" => Acks  BY AckParts
<1>d. CASE UNCHANGED <<stream, acked, handed, out, inq, pc, msgId>>
  BY <1>d, <1>g DEF Acks, AcksIn, WholeIn
<1>s. ASSUME UNCHANGED <<stream, acked, handed>>, Stop, pc' = "callback" => pc = "callback" /\ msgId' = msgId
      PROVE  Acks'
  BY <1>g, <1>s, NoneIn DEF Stop, Acks
<1>1. CASE UNCHANGED vars
  BY <1>1, <1>d DEF vars, brokerVars, histVars
<1>2. CASE NoticeLoss
  BY <1>2, <1>s DEF NoticeLoss, brokerVars, histVars
<1>3. CASE Connect
  <2>1. AcksIn(<<[type |-> "CONNECT", id |-> 0]>>, handed)  BY DEF AcksIn
  <2>2. inq' = <<>> /\ out' = <<[type |-> "CONNECT", id |-> 0]>> /\ pc' = "connect"
        /\ UNCHANGED <<stream, acked, handed>>
    BY <1>3 DEF Connect
  <2>3. QED  BY <1>g, <2>1, <2>2, NoneIn DEF Acks
<1>4. CASE ConnectFails
  BY <1>4, <1>d DEF ConnectFails, brokerVars, histVars
<1>5. CASE ConnectTimesOut
  BY <1>5, <1>s DEF ConnectTimesOut, Return, brokerVars, histVars
<1>6. CASE ReadConnack
  <2>1. pc' = "user" /\ UNCHANGED <<stream, acked, handed>>
    BY <1>6 DEF ReadConnack, Return, brokerVars, histVars
  <2>2. CASE inq' = Tail(inq) /\ out' = out
    <3>1. inq # <<>>  BY <1>6 DEF ReadConnack, Available
    <3>2. QED  BY <1>e, <1>g, <2>1, <2>2, <3>1, WholeTail DEF Acks
  <2>3. CASE Stop  BY <1>s, <2>1, <2>3
  <2>4. QED  BY <1>6, <2>2, <2>3 DEF ReadConnack
<1>7. CASE LoopTimesOut
  BY <1>7, <1>s DEF LoopTimesOut, Return, brokerVars, histVars
<1>8. CASE Loop
  <2>1. pc' # "callback" /\ UNCHANGED <<stream, acked, handed, inq>>
    BY <1>8 DEF Loop, brokerVars, histVars
  <2>2. AcksIn(out', handed)
    <3>1. AcksIn(out, handed)  BY <1>g, <2>1 DEF Acks
    <3>2. CASE Ping  BY <1>e, <3>1, <3>2, WriteAcks DEF Ping
    <3>3. CASE NoPing  BY <3>1, <3>3 DEF NoPing
    <3>4. QED  BY <1>8, <3>2, <3>3 DEF Loop
  <2>3. QED  BY <1>g, <2>1, <2>2 DEF Acks
<1>9. CASE ReadPacket
  <2>1. inq # <<>> /\ inq' = Tail(inq) /\ UNCHANGED <<stream, acked>>
    BY <1>9 DEF ReadPacket, SpentInv, Available, brokerVars
  <2>a. Head(inq) \in Incoming  BY <1>e, <2>1
  <2>2. Head(inq).id \in Msgs \cup {0}  BY <2>a DEF Incoming
  <2>3. AcksIn(out, handed) /\ WholeIn(inq') /\ handed \subseteq handed' /\ acked' \subseteq handed'
    BY <1>e, <1>9, <1>g, <2>1, WholeTail DEF Acks, ReadPacket
  <2>4. CASE Return /\ UNCHANGED <<out, handed>>  BY <2>3, <2>4 DEF Acks, Return
  <2>5. CASE ~Drops(Head(inq)) /\ HandlePacket(Head(inq).type, Head(inq).id)
    <3>1. AcksIn(out', handed)  BY <1>e, <2>3, <2>5, WriteAcks DEF HandlePacket
    <3>2. AcksIn(out', handed')  BY <2>3, <3>1, MoreAcks
    <3>3. pc' = "callback" => msgId' = Head(inq).id /\ Head(inq).type = "PUBLISH" /\ Head(inq).id \notin Big
      BY <2>5 DEF HandlePacket, Return, Drops
    <3>4. pc' = "callback" => msgId' \in handed' \cup {0}  BY <1>9, <2>2, <3>3 DEF ReadPacket, Drops
    <3>5. QED  BY <2>3, <3>2, <3>4 DEF Acks
  <2>6. QED  BY <1>9, <2>4, <2>5 DEF ReadPacket
<1>10. CASE ReadGivesUp
  BY <1>10 DEF ReadGivesUp
<1>11. CASE ReadTorn
  <2>1. stream # "torn" /\ inq # <<>> /\ Head(inq).here = "torn"
    BY <1>11 DEF ReadTorn, SpentInv, Available, histVars
  <2>2. 1 \in 1 .. Len(inq) /\ Head(inq) = inq[1]  BY <1>e, <2>1
  <2>3. QED  BY <1>g, <2>1, <2>2 DEF Acks, WholeIn
<1>12. CASE CallbackReturns
  <2>1. pc = "callback" /\ pc' = "user" /\ UNCHANGED <<stream, acked, handed, inq>>
    BY <1>12 DEF CallbackReturns, Return, brokerVars, histVars
  <2>2. AcksIn(out, handed) /\ msgId \in handed \cup {0}  BY <1>g, <2>1 DEF Acks
  <2>3. AcksIn(out', handed)  BY <1>e, <1>12, <2>2, WriteAcks DEF CallbackReturns
  <2>4. QED  BY <1>g, <2>1, <2>3 DEF Acks
<1>13. CASE Publish
  <2>1. UNCHANGED <<stream, acked, handed, inq, pc, msgId>> /\ Write("PUBLISH", 0)
    BY <1>13 DEF Publish, brokerVars, histVars
  <2>2. AcksIn(out', handed)  BY <1>e, <1>g, <2>1, WriteAcks DEF Acks
  <2>3. QED  BY <1>g, <2>1, <2>2 DEF Acks
<1>14. CASE Subscribe
  <2>1. UNCHANGED <<stream, acked, handed, inq, pc, msgId>> /\ Write("SUBSCRIBE", 0)
    BY <1>14 DEF Subscribe, brokerVars, histVars
  <2>2. AcksIn(out', handed)  BY <1>e, <1>g, <2>1, WriteAcks DEF Acks
  <2>3. QED  BY <1>g, <2>1, <2>2 DEF Acks
<1>15. CASE Disconnect
  BY <1>15, <1>s DEF Disconnect, histVars
<1>16. CASE Tick
  BY <1>16, <1>d DEF Tick, brokerVars
<1>17. CASE BrokerReads
  <2>1. UNCHANGED <<stream, handed, pc, msgId>> /\ out # <<>> /\ out' = Tail(out)
    BY <1>17 DEF BrokerReads, histVars
  <2>2. AcksIn(out', handed) /\ (Head(out).type = "PUBACK" => Head(out).id \in handed)
    BY <1>e, <1>g, <2>1, TailAcks DEF Acks
  <2>3. acked' \subseteq handed  BY <1>17, <1>g, <2>1, <2>2 DEF BrokerReads, Acks
  <2>4. Head(out) \in Outgoing /\ WholeIn(inq)  BY <1>e, <1>g, <2>1 DEF Acks
  <2>5. Answer(Head(out)) \in Seq(Incoming) /\ WholeIn(Answer(Head(out)))
    BY <2>4, AnswerType DEF WholeIn
  <2>6. Packet("REFUSAL", 0, "all") \in Incoming /\ Packet("REFUSAL", 0, "all").here = "all"
    BY DEF Packet, Incoming
  <2>7. inq' = inq \o Answer(Head(out)) \/ inq' = Append(inq, Packet("REFUSAL", 0, "all"))
    BY <1>17 DEF BrokerReads
  <2>8. WholeIn(inq')  BY <1>e, <2>4, <2>5, <2>6, <2>7, WholeMore, WholeAppend
  <2>9. QED  BY <1>g, <2>1, <2>2, <2>3, <2>8 DEF Acks
<1>18. CASE \E m \in Msgs \cup {0} : BrokerPublishes(m)
  <2>1. PICK m \in Msgs \cup {0}, h \in {"all", "head"} : inq' = Append(inq, Packet("PUBLISH", m, h))
    BY <1>18 DEF BrokerPublishes
  <2>2. stream # "torn" /\ UNCHANGED <<acked, handed, out, pc, msgId>>
    BY <1>18 DEF BrokerPublishes
  <2>3. Packet("PUBLISH", m, h) \in Incoming /\ Packet("PUBLISH", m, h).here = h  BY DEF Packet, Incoming
  <2>4. WholeIn(inq')  BY <1>e, <1>g, <2>1, <2>2, <2>3, WholeAppend DEF Acks
  <2>5. QED  BY <1>g, <2>2, <2>4 DEF Acks
<1>19. CASE RestArrives
  <2>1. UNCHANGED <<stream, acked, handed, out, pc, msgId>>
    BY <1>19 DEF RestArrives, brokerVars, histVars
  <2>2. PICK i \in 1 .. Len(inq) : inq[i].here \in {"head", "none"}
                                   /\ inq' = Mark(i, IF inq[i].here = "head" THEN "all" ELSE "torn")
    BY <1>19 DEF RestArrives
  <2>3. WholeIn(inq)  BY <1>g, <2>1 DEF Acks
  <2>4. inq' = Mark(i, "all")  BY <2>2, <2>3 DEF WholeIn
  <2>5. Len(inq') = Len(inq) /\ inq'[i].here = "all" /\ \A j \in 1 .. Len(inq) : j # i => inq'[j] = inq[j]
    BY <1>e, <2>4, MarkType
  <2>6. WholeIn(inq')  BY <2>3, <2>5 DEF WholeIn
  <2>7. QED  BY <1>g, <2>1, <2>6 DEF Acks
<1>20. CASE BrokerHangs
  BY <1>20, <1>d DEF BrokerHangs
<1>21. CASE BrokerCloses
  <2>1. UNCHANGED <<stream, acked, handed, inq, pc, msgId>> /\ out' = <<>>
    BY <1>21 DEF BrokerCloses, histVars
  <2>2. QED  BY <1>g, <2>1, NoneIn DEF Acks
<1>22. QED  BY Steps, <1>1, <1>2, <1>3, <1>4, <1>5, <1>6, <1>7, <1>8, <1>9, <1>10, <1>11, <1>12, <1>13, <1>14, <1>15, <1>16, <1>17, <1>18, <1>19, <1>20, <1>21

(***************************************************************************)
(* A ping a broker that is well got is answered and its answer read in     *)
(* time.                                                                   *)
(***************************************************************************)
\* What a packet at the end adds to the places of its type.
LEMMA WrittenAt ==
  ASSUME NEW s \in Seq(Outgoing), NEW e \in Outgoing
  PROVE  \A type : /\ e.type # type => At(Append(s, e), type) = At(s, type)
                   /\ e.type = type => At(Append(s, e), type) = At(s, type) \cup {Len(s) + 1}
<1> DEFINE r == Append(s, e)
<1>1. Len(s) \in Nat /\ Len(r) = Len(s) + 1 /\ r[Len(s) + 1] = e
      /\ \A i \in 1 .. Len(s) : r[i] = s[i]
  OBVIOUS
<1> HIDE DEF r
<1>2. ASSUME NEW type
      PROVE  /\ e.type # type => At(r, type) = At(s, type)
             /\ e.type = type => At(r, type) = At(s, type) \cup {Len(s) + 1}
  <2>1. 1 .. Len(s) + 1 = (1 .. Len(s)) \cup {Len(s) + 1}  BY <1>1
  <2>2. QED  BY <1>1, <2>1 DEF At
<1>3. QED  BY <1>2 DEF r

LEMMA SentAt ==
  ASSUME NEW s \in Seq(Incoming), NEW e \in Incoming
  PROVE  \A type : /\ e.type # type => At(Append(s, e), type) = At(s, type)
                   /\ e.type = type => At(Append(s, e), type) = At(s, type) \cup {Len(s) + 1}
<1> DEFINE r == Append(s, e)
<1>1. Len(s) \in Nat /\ Len(r) = Len(s) + 1 /\ r[Len(s) + 1] = e
      /\ \A i \in 1 .. Len(s) : r[i] = s[i]
  OBVIOUS
<1> HIDE DEF r
<1>2. ASSUME NEW type
      PROVE  /\ e.type # type => At(r, type) = At(s, type)
             /\ e.type = type => At(r, type) = At(s, type) \cup {Len(s) + 1}
  <2>1. 1 .. Len(s) + 1 = (1 .. Len(s)) \cup {Len(s) + 1}  BY <1>1
  <2>2. QED  BY <1>1, <2>1 DEF At
<1>3. QED  BY <1>2 DEF r

\* One packet is followed by none.
LEMMA OneTail ==
  ASSUME NEW S, NEW s \in Seq(S), Len(s) = 1
  PROVE  Tail(s) = <<>>
<1>1. s # <<>>  OBVIOUS
<1>2. Tail(s) \in Seq(S) /\ Len(Tail(s)) = 0  BY <1>1
<1>3. \A t \in Seq(S) : Len(t) = 0 => t = <<>>  OBVIOUS
<1>4. QED  BY <1>2, <1>3

\* The rest of a queue, without its first packet.
LEMMA AtTail ==
  ASSUME NEW S, NEW s \in Seq(S), s # <<>>, NEW type
  PROVE  /\ At(Tail(s), type) \subseteq Nat \ {0} /\ At(s, type) \subseteq Nat \ {0}
         /\ \A i \in Nat \ {0} : i \in At(Tail(s), type) <=> i + 1 \in At(s, type)
         /\ 1 \in At(s, type) <=> Head(s).type = type
<1>1. Len(s) \in Nat \ {0} /\ Len(Tail(s)) = Len(s) - 1 /\ Head(s) = s[1]
      /\ \A i \in 1 .. Len(s) - 1 : Tail(s)[i] = s[i + 1]
  OBVIOUS
<1>2. QED  BY <1>1 DEF At

LEMMA AtPlaces ==
  ASSUME NEW S, NEW s \in Seq(S), NEW type
  PROVE  At(s, type) \subseteq 1 .. Len(s) /\ Len(s) \in Nat
BY DEF At

LEMMA AtNone == ASSUME NEW type PROVE At(<<>>, type) = {}
BY DEF At

\* The rounds of the sketch.
LEMMA TurnsAre ==
  ASSUME NEW n \in Nat
  PROVE  /\ Turns(n) \in Nat /\ Turns(n + 1) = Turns(n) + LoopGap + CallbackTime
         /\ Turns(0) = 0
         /\ \A m \in Nat : n <= m => Turns(n) <= Turns(m)
<1> DEFINE r == LoopGap + CallbackTime
<1>0. r \in Nat  BY TimeAssumption
<1>1. n * r \in Nat  BY <1>0
<1>2. (n + 1) * r = n * r + r /\ 0 * r = 0  BY <1>0
<1>3. ASSUME NEW m \in Nat, n <= m  PROVE n * r <= m * r
  <2>1. (m - n) \in Nat /\ m = n + (m - n)  BY <1>3
  <2>2. (n + (m - n)) * r = n * r + (m - n) * r  BY <1>0, <2>1
  <2>3. (m - n) * r \in Nat  BY <1>0, <2>1
  <2>4. m * r = n * r + (m - n) * r  BY <2>1, <2>2
  <2>5. m * r \in Nat  BY <1>0
  <2>6. QED  BY <1>1, <2>3, <2>4, <2>5
<1>4. QED  BY <1>0, <1>1, <1>2, <1>3, TimeAssumption DEF Turns

\* The queues of a connection, with their parts named.
OneIn(o, q, p) ==
  /\ \A i, j \in At(o, "PINGREQ") : i = j
  /\ \A i, j \in At(q, "PINGRESP") : i = j
  /\ At(o, "PINGREQ") = {} \/ At(q, "PINGRESP") = {}
  /\ ~p => At(o, "PINGREQ") = {} /\ At(q, "PINGRESP") = {}
RoomIn(o, q) ==
  /\ \A i \in At(o, "SUBSCRIBE") : i <= MaxOut /\ Len(q) + i <= Backlog + MaxOut
  /\ \/ Len(q) <= Backlog + MaxOut
     \/ At(q, "PINGRESP") # {} /\ Len(q) <= Backlog + MaxOut + 1
Queues(o, q, p) == At(o, "CONNECT") = {} /\ OneIn(o, q, p) /\ RoomIn(o, q)

\* The client writes something that is neither a ping nor a request.
LEMMA OtherWritten ==
  ASSUME NEW o \in Seq(Outgoing), NEW q, NEW p, Queues(o, q, p), NEW e \in Outgoing,
         e.type \notin {"CONNECT", "PINGREQ", "SUBSCRIBE"}
  PROVE  /\ Queues(Append(o, e), q, p)
         /\ At(Append(o, e), "PINGREQ") = At(o, "PINGREQ")
<1>1. /\ At(Append(o, e), "PINGREQ") = At(o, "PINGREQ")
      /\ At(Append(o, e), "SUBSCRIBE") = At(o, "SUBSCRIBE")
      /\ At(Append(o, e), "CONNECT") = At(o, "CONNECT")
  BY WrittenAt
<1>2. QED  BY <1>1 DEF Queues, OneIn, RoomIn

\* A ping follows no other.
LEMMA PingWritten ==
  ASSUME NEW o \in Seq(Outgoing), NEW q, Queues(o, q, FALSE), NEW e \in Outgoing,
         e.type = "PINGREQ"
  PROVE  Queues(Append(o, e), q, TRUE) /\ At(Append(o, e), "PINGREQ") # {}
<1>1. /\ At(Append(o, e), "PINGREQ") = At(o, "PINGREQ") \cup {Len(o) + 1}
      /\ At(Append(o, e), "SUBSCRIBE") = At(o, "SUBSCRIBE")
      /\ At(Append(o, e), "CONNECT") = At(o, "CONNECT")
  BY WrittenAt
<1>2. At(o, "PINGREQ") = {} /\ At(q, "PINGRESP") = {}  BY DEF Queues, OneIn
<1>3. QED  BY <1>1, <1>2 DEF Queues, OneIn, RoomIn

\* A request finds room for its answer.
LEMMA RequestWritten ==
  ASSUME NEW o \in Seq(Outgoing), NEW q \in Seq(Incoming), NEW p, Queues(o, q, p), NEW e \in Outgoing,
         e.type = "SUBSCRIBE", Len(o) < MaxOut, Len(q) < Backlog
  PROVE  Queues(Append(o, e), q, p) /\ At(Append(o, e), "PINGREQ") = At(o, "PINGREQ")
<1>1. /\ At(Append(o, e), "PINGREQ") = At(o, "PINGREQ")
      /\ At(Append(o, e), "SUBSCRIBE") = At(o, "SUBSCRIBE") \cup {Len(o) + 1}
      /\ At(Append(o, e), "CONNECT") = At(o, "CONNECT")
  BY WrittenAt
<1>2. Len(o) + 1 <= MaxOut /\ Len(q) + (Len(o) + 1) <= Backlog + MaxOut
  BY BoundsAssumption
<1>3. \A i \in At(Append(o, e), "SUBSCRIBE") : i <= MaxOut /\ Len(q) + i <= Backlog + MaxOut
  BY <1>1, <1>2 DEF Queues, RoomIn
<1>4. QED  BY <1>1, <1>3 DEF Queues, OneIn, RoomIn

\* The client reads a packet.
LEMMA PacketRead ==
  ASSUME NEW o, NEW q \in Seq(Incoming), q # <<>>, NEW p \in BOOLEAN, Queues(o, q, p),
         \A i \in At(o, "SUBSCRIBE") : i \in Nat
  PROVE  Queues(o, Tail(q), p /\ Head(q).type # "PINGRESP")
<1>1. Len(q) \in Nat /\ Len(Tail(q)) = Len(q) - 1  OBVIOUS
<1>2. /\ At(Tail(q), "PINGRESP") \subseteq Nat \ {0} /\ At(q, "PINGRESP") \subseteq Nat \ {0}
      /\ \A i \in Nat \ {0} : i \in At(Tail(q), "PINGRESP") <=> i + 1 \in At(q, "PINGRESP")
      /\ 1 \in At(q, "PINGRESP") <=> Head(q).type = "PINGRESP"
  BY AtTail
<1>3. \A i \in At(Tail(q), "PINGRESP") : i + 1 \in At(q, "PINGRESP") /\ i \in Nat \ {0}  BY <1>2
<1>4. ASSUME NEW i \in At(Tail(q), "PINGRESP"), NEW j \in At(Tail(q), "PINGRESP")  PROVE i = j
  <2>1. i + 1 = j + 1  BY <1>3 DEF Queues, OneIn
  <2>2. QED  BY <1>3, <2>1
<1>5. ASSUME Head(q).type = "PINGRESP"  PROVE At(Tail(q), "PINGRESP") = {} /\ At(o, "PINGREQ") = {}
  <2>1. \A i \in At(Tail(q), "PINGRESP") : i + 1 = 1  BY <1>2, <1>3, <1>5 DEF Queues, OneIn
  <2>2. At(q, "PINGRESP") # {}  BY <1>2, <1>5
  <2>3. QED  BY <1>3, <2>1, <2>2 DEF Queues, OneIn
<1>6. OneIn(o, Tail(q), p /\ Head(q).type # "PINGRESP")
  <2>1. At(q, "PINGRESP") = {} => At(Tail(q), "PINGRESP") = {}  BY <1>3
  <2>2. QED  BY <1>4, <1>5, <2>1 DEF Queues, OneIn
<1>7. RoomIn(o, Tail(q))
  <2>1. Len(q) <= Backlog + MaxOut + 1  BY <1>1, BoundsAssumption DEF Queues, RoomIn
  <2>2. Len(Tail(q)) <= Backlog + MaxOut  BY <1>1, <2>1, BoundsAssumption
  <2>3. QED  BY <1>1, <2>2, BoundsAssumption DEF Queues, RoomIn
<1>8. QED  BY <1>6, <1>7 DEF Queues

\* The broker publishes.
LEMMA PublishedTo ==
  ASSUME NEW o \in Seq(Outgoing), NEW q \in Seq(Incoming), NEW p, Queues(o, q, p), Len(q) < Backlog,
         NEW e \in Incoming, e.type # "PINGRESP"
  PROVE  Queues(o, Append(q, e), p) /\ At(Append(q, e), "PINGRESP") = At(q, "PINGRESP")
<1>1. At(Append(q, e), "PINGRESP") = At(q, "PINGRESP")  BY SentAt
<1>2. Len(q) \in Nat /\ Len(Append(q, e)) = Len(q) + 1  OBVIOUS
<1>3. At(o, "SUBSCRIBE") \subseteq 1 .. Len(o) /\ Len(o) \in Nat  BY AtPlaces
<1>4. Len(Append(q, e)) <= Backlog  BY <1>2, BoundsAssumption
<1>5. \A i \in At(o, "SUBSCRIBE") : i <= MaxOut /\ Len(Append(q, e)) + i <= Backlog + MaxOut
  BY <1>2, <1>3, <1>4, BoundsAssumption DEF Queues, RoomIn
<1>6. Len(Append(q, e)) <= Backlog + MaxOut  BY <1>2, <1>4, BoundsAssumption
<1>7. QED  BY <1>1, <1>5, <1>6 DEF Queues, OneIn, RoomIn

\* The broker reads a packet, and answers.
LEMMA Taken ==
  ASSUME NEW o \in Seq(Outgoing), o # <<>>, NEW q \in Seq(Incoming), NEW p, Queues(o, q, p)
  PROVE  /\ Queues(Tail(o), q \o Answer(Head(o)), p)
         /\ Head(o).type = "PINGREQ" =>
              /\ Len(q) + 1 \in At(q \o Answer(Head(o)), "PINGRESP") /\ Len(q) <= Backlog + MaxOut
         /\ Head(o).type # "PINGREQ" =>
              /\ At(o, "PINGREQ") # {} => At(Tail(o), "PINGREQ") # {}
              /\ At(q, "PINGRESP") \subseteq At(q \o Answer(Head(o)), "PINGRESP")
<1> DEFINE t == Tail(o)
           h == Head(o).type
           r == q \o Answer(Head(o))
<1>1. /\ t \in Seq(Outgoing) /\ Head(o) \in Outgoing
      /\ Len(q) \in Nat /\ Len(o) \in Nat \ {0} /\ Len(t) = Len(o) - 1
  OBVIOUS
<1>2. ASSUME NEW type
      PROVE  /\ At(t, type) \subseteq Nat \ {0} /\ At(o, type) \subseteq Nat \ {0}
             /\ \A i \in Nat \ {0} : i \in At(t, type) <=> i + 1 \in At(o, type)
             /\ 1 \in At(o, type) <=> h = type
  BY AtTail
<1>3. h # "CONNECT" /\ At(t, "CONNECT") = {}  BY <1>2 DEF Queues
<1>a. \A type \in {"PINGRESP", "SUBACK"} :
        Packet(type, 0, "all") \in Incoming /\ Packet(type, 0, "all").type = type
  BY DEF Packet, Incoming
<1>b. \A e \in Incoming : q \o <<e>> = Append(q, e)  OBVIOUS
<1>c. /\ h = "PINGREQ" => Answer(Head(o)) = <<Packet("PINGRESP", 0, "all")>>
      /\ h = "SUBSCRIBE" => Answer(Head(o)) = <<Packet("SUBACK", 0, "all")>>
      /\ h \notin {"CONNECT", "PINGREQ", "SUBSCRIBE"} => Answer(Head(o)) = <<>>
  BY DEF Answer
<1>d. q \o <<>> = q /\ \A e \in Incoming : Len(Append(q, e)) = Len(q) + 1  OBVIOUS
<1>f. r = q \o Answer(Head(o))  OBVIOUS
<1> HIDE DEF t, h, r
<1>4. /\ h = "PINGREQ" => r = Append(q, Packet("PINGRESP", 0, "all"))
      /\ h = "SUBSCRIBE" => r = Append(q, Packet("SUBACK", 0, "all"))
      /\ h \notin {"PINGREQ", "SUBSCRIBE"} => r = q
  <2>1. CASE h = "PINGREQ"  BY <1>a, <1>b, <1>c, <1>f, <2>1
  <2>2. CASE h = "SUBSCRIBE"  BY <1>a, <1>b, <1>c, <1>f, <2>2
  <2>3. CASE h \notin {"PINGREQ", "SUBSCRIBE"}  BY <1>3, <1>c, <1>d, <1>f, <2>3
  <2>4. QED  BY <2>1, <2>2, <2>3
<1>5. /\ h = "PINGREQ" => At(r, "PINGRESP") = At(q, "PINGRESP") \cup {Len(q) + 1}
      /\ h # "PINGREQ" => At(r, "PINGRESP") = At(q, "PINGRESP")
      /\ h \in {"PINGREQ", "SUBSCRIBE"} => Len(r) = Len(q) + 1
      /\ h \notin {"PINGREQ", "SUBSCRIBE"} => Len(r) = Len(q)
  <2>1. CASE h = "PINGREQ"
    <3> DEFINE e == Packet("PINGRESP", 0, "all")
    <3>1. r = Append(q, e) /\ e \in Incoming /\ e.type = "PINGRESP"  BY <1>4, <1>a, <2>1
    <3> HIDE DEF e
    <3>2. At(r, "PINGRESP") = At(q, "PINGRESP") \cup {Len(q) + 1} /\ Len(r) = Len(q) + 1
      BY <1>d, <3>1, SentAt
    <3>3. QED  BY <2>1, <3>2
  <2>2. CASE h = "SUBSCRIBE"
    <3> DEFINE e == Packet("SUBACK", 0, "all")
    <3>1. r = Append(q, e) /\ e \in Incoming /\ e.type # "PINGRESP"  BY <1>4, <1>a, <2>2
    <3> HIDE DEF e
    <3>2. At(r, "PINGRESP") = At(q, "PINGRESP") /\ Len(r) = Len(q) + 1
      BY <1>d, <3>1, SentAt
    <3>3. QED  BY <2>2, <3>2
  <2>3. CASE h \notin {"PINGREQ", "SUBSCRIBE"}  BY <1>4, <2>3
  <2>4. QED  BY <2>1, <2>2, <2>3
<1>6. \A i, j \in At(t, "PINGREQ") : i = j
  <2>1. TAKE i, j \in At(t, "PINGREQ")
  <2>2. i \in Nat /\ j \in Nat /\ i + 1 \in At(o, "PINGREQ") /\ j + 1 \in At(o, "PINGREQ")
    BY <1>2, <2>1
  <2>3. i + 1 = j + 1  BY <2>2 DEF Queues, OneIn
  <2>4. QED  BY <2>2, <2>3
<1>7. h = "PINGREQ" => At(t, "PINGREQ") = {} /\ At(q, "PINGRESP") = {} /\ At(o, "PINGREQ") # {}
  <2>1. SUFFICES ASSUME h = "PINGREQ"
                 PROVE  At(t, "PINGREQ") = {} /\ At(q, "PINGRESP") = {} /\ At(o, "PINGREQ") # {}
    OBVIOUS
  <2>2. 1 \in At(o, "PINGREQ")  BY <1>2, <2>1
  <2>3. \A i \in At(t, "PINGREQ") : i \in Nat \ {0} /\ i + 1 = 1  BY <1>2, <2>2 DEF Queues, OneIn
  <2>4. QED  BY <2>2, <2>3 DEF Queues, OneIn
<1>8. At(o, "PINGREQ") = {} => At(t, "PINGREQ") = {}
  BY <1>2
<1>9. h # "PINGREQ" /\ At(o, "PINGREQ") # {} => At(t, "PINGREQ") # {}
  <2>1. SUFFICES ASSUME h # "PINGREQ", NEW i \in At(o, "PINGREQ")  PROVE At(t, "PINGREQ") # {}
    OBVIOUS
  <2>2. i # 1 /\ i \in Nat \ {0}  BY <1>2, <2>1
  <2>3. i - 1 \in Nat \ {0} /\ (i - 1) + 1 = i  BY <2>2
  <2>4. i - 1 \in At(t, "PINGREQ")  BY <1>2, <2>3
  <2>5. QED  BY <2>4
<1>10. OneIn(t, r, p)
  <2>1. CASE h = "PINGREQ"  BY <1>5, <1>6, <1>7, <2>1 DEF Queues, OneIn
  <2>2. CASE h # "PINGREQ"  BY <1>5, <1>6, <1>8, <2>2 DEF Queues, OneIn
  <2>3. QED  BY <2>1, <2>2
<1>11. \A i \in At(t, "SUBSCRIBE") : i <= MaxOut /\ Len(r) + i <= Backlog + MaxOut
  <2>1. TAKE i \in At(t, "SUBSCRIBE")
  <2>2. i \in Nat /\ i + 1 \in At(o, "SUBSCRIBE")  BY <1>2, <2>1
  <2>3. i + 1 <= MaxOut /\ Len(q) + (i + 1) <= Backlog + MaxOut  BY <2>2 DEF Queues, RoomIn
  <2>4. Len(r) <= Len(q) + 1 /\ Len(r) \in Nat  BY <1>1, <1>5
  <2>5. QED  BY <1>1, <2>2, <2>3, <2>4, BoundsAssumption
<1>12. \/ Len(r) <= Backlog + MaxOut
       \/ At(r, "PINGRESP") # {} /\ Len(r) <= Backlog + MaxOut + 1
  <2>1. CASE h = "PINGREQ"
    <3>1. Len(q) <= Backlog + MaxOut  BY <1>7, <2>1 DEF Queues, RoomIn
    <3>2. Len(r) <= Backlog + MaxOut + 1  BY <1>1, <1>5, <2>1, <3>1, BoundsAssumption
    <3>3. At(r, "PINGRESP") # {}  BY <1>5, <2>1
    <3>4. QED  BY <3>2, <3>3
  <2>2. CASE h = "SUBSCRIBE"
    <3>1. 1 \in At(o, "SUBSCRIBE")  BY <1>2, <2>2
    <3>2. Len(q) + 1 <= Backlog + MaxOut  BY <3>1 DEF Queues, RoomIn
    <3>3. QED  BY <1>5, <2>2, <3>2
  <2>3. CASE h \notin {"PINGREQ", "SUBSCRIBE"}  BY <1>5, <2>3 DEF Queues, RoomIn
  <2>4. QED  BY <2>1, <2>2, <2>3
<1>13. Queues(t, r, p)  BY <1>3, <1>10, <1>11, <1>12 DEF Queues, RoomIn
<1>14. h = "PINGREQ" => Len(q) + 1 \in At(r, "PINGRESP") /\ Len(q) <= Backlog + MaxOut
  BY <1>5, <1>7 DEF Queues, RoomIn
<1>15. QED  BY <1>5, <1>9, <1>13, <1>14 DEF t, h, r

\* Recent and ReadIn, of the values they depend on.
Fresh(in, o, t, place, age) == in <= age /\ o <= age /\ (place = "callback" => t <= age)
Rest(place, s, i) ==
  CASE place = "user"     -> LoopGap - s + Turns(i - 1)
    [] place = "callback" -> CallbackTime - s + LoopGap + Turns(i - 1)
    [] OTHER              -> Turns(i - 1)

\* How PingInv says a ping stands.
Standing(o, q, link, in, oa, t, place, s, l) ==
  \/ At(o, "PINGREQ") # {} /\ Fresh(in, oa, t, place, l)
  \/ \E i \in At(q, "PINGRESP") : Fresh(in, oa, t, place, KeepAlive - Rest(place, s, i))
  \/ link = "halfclosed" /\ Fresh(in, oa, t, place, KeepAlive - Rest(place, s, Len(q) + 1))

StandingNow == Standing(out, inq, sock, inAge, outAge, tAge, pc, spent, lag)

Numbers ==
  /\ inq \in Seq(Incoming) /\ out \in Seq(Outgoing) /\ pingOutstanding \in BOOLEAN
  /\ inAge \in Nat /\ outAge \in Nat /\ tAge \in Nat /\ spent \in Nat /\ lag \in Nat

Pinged ==
  /\ Queues(out, inq, pingOutstanding)
  /\ pingOutstanding /\ Timely => StandingNow

WholePackets ==
  /\ \A i \in 1 .. Len(inq) : inq[i].here = "all"
  /\ pc = "read" => spent = 0 /\ tAge = 0

Connecting ==
  /\ out = <<>> \/ (out = <<[type |-> "CONNECT", id |-> 0]>> /\ inq = <<>>)
  /\ At(inq, "PINGRESP") = {} /\ Len(inq) <= Backlog + 1

LEMMA PingParts ==
  PingInv <=> /\ lag <= AnswerTime /\ (sock = "halfclosed" => out = <<>>)
              /\ stream = "whole" => WholePackets
              /\ stream = "whole" /\ ~hung /\ pc = "connect" => Connecting
              /\ stream = "whole" /\ ~hung /\ state = "CONNECTED" => Pinged
<1>1. OnePing <=> OneIn(out, inq, pingOutstanding)  BY DEF OnePing, OneIn
<1>2. Room <=> RoomIn(out, inq)  BY DEF Room, RoomIn
<1>3. Answered <=> StandingNow
  BY DEF Answered, StandingNow, Standing, Recent, Fresh, ReadIn, Rest
<1>4. QED  BY <1>1, <1>2, <1>3 DEF PingInv, WholePackets, Connecting, Pinged, Queues

\* A place in the queue is reached in time by what is answered in time.
LEMMA InGoodTime ==
  ASSUME Timely, NEW n \in 1 .. Backlog + MaxOut + 1
  PROVE  AnswerTime + Turns(n - 1) + LoopGap + CallbackTime <= KeepAlive /\ Turns(n - 1) \in Nat
<1>1. n - 1 \in Nat /\ n - 1 <= Backlog + MaxOut /\ Backlog + MaxOut \in Nat  BY BoundsAssumption
<1> DEFINE all == Backlog + MaxOut
<1>2. Turns(n - 1) <= Turns(all) /\ Turns(n - 1) \in Nat  BY <1>1, TurnsAre
<1>3. Turns(all + 1) = Turns(all) + LoopGap + CallbackTime /\ Turns(all) \in Nat  BY <1>1, TurnsAre
<1>4. AnswerTime + Turns(all + 1) <= KeepAlive  BY DEF Timely, Turns
<1>5. QED  BY <1>2, <1>3, <1>4, TimeAssumption

\* The rest of a wait, by place.
LEMMA RestIs ==
  ASSUME NEW s \in Nat, NEW i \in Nat \ {0}
  PROVE  /\ Turns(i - 1) \in Nat
         /\ Rest("user", s, i) = LoopGap - s + Turns(i - 1)
         /\ Rest("callback", s, i) = CallbackTime - s + LoopGap + Turns(i - 1)
         /\ Rest("read", s, i) = Turns(i - 1)
         /\ i > 1 => Turns(i - 1) = Turns(i - 2) + LoopGap + CallbackTime /\ Turns(i - 2) \in Nat
<1>1. i - 1 \in Nat  OBVIOUS
<1>2. Turns(i - 1) \in Nat  BY <1>1, TurnsAre
<1>3. ASSUME i > 1
      PROVE  Turns(i - 1) = Turns(i - 2) + LoopGap + CallbackTime /\ Turns(i - 2) \in Nat
  <2>1. i - 2 \in Nat /\ (i - 2) + 1 = i - 1  BY <1>3
  <2>2. Turns((i - 2) + 1) = Turns(i - 2) + LoopGap + CallbackTime /\ Turns(i - 2) \in Nat
    BY <2>1, TurnsAre
  <2>3. QED  BY <2>1, <2>2
<1>4. QED  BY <1>2, <1>3 DEF Rest

LEMMA RestType ==
  ASSUME NEW s \in Nat, NEW i \in Nat \ {0}, NEW place \in {"user", "read", "callback"}
  PROVE  Rest(place, s, i) \in Int /\ (place = "user" /\ s <= LoopGap => Rest(place, s, i) \in Nat)
<1>1. /\ Turns(i - 1) \in Nat
      /\ Rest("user", s, i) = LoopGap - s + Turns(i - 1)
      /\ Rest("callback", s, i) = CallbackTime - s + LoopGap + Turns(i - 1)
      /\ Rest("read", s, i) = Turns(i - 1)
  BY RestIs
<1>2. LoopGap - s + Turns(i - 1) \in Int /\ (s <= LoopGap => LoopGap - s + Turns(i - 1) \in Nat)
  BY <1>1, TimeAssumption
<1>3. CallbackTime - s + LoopGap + Turns(i - 1) \in Int  BY <1>1, TimeAssumption
<1>4. QED  BY <1>1, <1>2, <1>3

\* Time passes, or the sketch goes on, and the queue to the client stays.
LEMMA StandsStill ==
  ASSUME Numbers, Numbers', pc \in {"user", "read", "callback"}, pc' \in {"user", "read", "callback"},
         StandingNow, inq' = inq, sock' = sock, NEW d \in Nat,
         \A i \in Nat \ {0} : Rest(pc', spent', i) + d <= Rest(pc, spent, i),
         inAge' <= inAge + d, outAge' <= outAge + d \/ (pc = "callback" /\ outAge' <= tAge + d),
         pc' = "callback" => pc = "callback" /\ tAge' <= tAge + d,
         At(out, "PINGREQ") # {} => At(out', "PINGREQ") # {} /\ lag' >= lag + d
  PROVE  StandingNow'
<1>1. \A i \in Nat \ {0} : Rest(pc, spent, i) \in Int /\ Rest(pc', spent', i) \in Int
  BY RestType DEF Numbers
<1>2. ASSUME NEW age \in Int, NEW old \in Int, age + d <= old, Fresh(inAge, outAge, tAge, pc, age)
      PROVE  Fresh(inAge', outAge', tAge', pc', old)
  BY <1>2 DEF Fresh, Numbers
<1>3. CASE At(out, "PINGREQ") # {} /\ Fresh(inAge, outAge, tAge, pc, lag)
  <2>1. lag \in Int /\ lag' \in Int /\ lag + d <= lag'  BY <1>3 DEF Numbers
  <2>2. Fresh(inAge', outAge', tAge', pc', lag')  BY <1>2, <1>3, <2>1
  <2>3. QED  BY <1>3, <2>2 DEF StandingNow, Standing
<1>4. ASSUME NEW i \in Nat \ {0}, Fresh(inAge, outAge, tAge, pc, KeepAlive - Rest(pc, spent, i))
      PROVE  Fresh(inAge', outAge', tAge', pc', KeepAlive - Rest(pc', spent', i))
  <2>1. Rest(pc', spent', i) + d <= Rest(pc, spent, i)  OBVIOUS
  <2>2. Rest(pc, spent, i) \in Int /\ Rest(pc', spent', i) \in Int  BY <1>1
  <2>3. KeepAlive - Rest(pc, spent, i) \in Int /\ KeepAlive - Rest(pc', spent', i) \in Int
        /\ KeepAlive - Rest(pc, spent, i) + d <= KeepAlive - Rest(pc', spent', i)
    BY <2>1, <2>2, TimeAssumption
  <2>4. QED  BY <1>2, <1>4, <2>3
<1>5. At(inq, "PINGRESP") \subseteq Nat \ {0} /\ Len(inq) + 1 \in Nat \ {0}  BY DEF At, Numbers
<1>6. CASE \E i \in At(inq, "PINGRESP") : Fresh(inAge, outAge, tAge, pc, KeepAlive - Rest(pc, spent, i))
  <2>1. PICK i \in At(inq, "PINGRESP") : Fresh(inAge, outAge, tAge, pc, KeepAlive - Rest(pc, spent, i))
    BY <1>6
  <2>2. i \in Nat \ {0}  BY <1>5, <2>1
  <2>3. Fresh(inAge', outAge', tAge', pc', KeepAlive - Rest(pc', spent', i))  BY <1>4, <2>1, <2>2
  <2>4. i \in At(inq', "PINGRESP")  BY <2>1
  <2>5. QED  BY <2>3, <2>4 DEF StandingNow, Standing
<1>7. CASE sock = "halfclosed" /\ Fresh(inAge, outAge, tAge, pc, KeepAlive - Rest(pc, spent, Len(inq) + 1))
  <2>1. Fresh(inAge', outAge', tAge', pc', KeepAlive - Rest(pc', spent', Len(inq) + 1))
    BY <1>4, <1>5, <1>7
  <2>2. QED  BY <1>7, <2>1 DEF StandingNow, Standing
<1>8. QED  BY <1>3, <1>6, <1>7 DEF StandingNow, Standing

\* A packet is read that is not the answer to the ping.
LEMMA StandsCloser ==
  ASSUME Numbers, Numbers', inq # <<>>, Head(inq).type # "PINGRESP", pc = "read", StandingNow,
         pc' \in {"user", "callback"}, inq' = Tail(inq), sock' = sock, lag' = lag,
         spent' = 0, tAge' = 0, outAge' = outAge, inAge' <= inAge,
         At(out, "PINGREQ") # {} => At(out', "PINGREQ") # {}
  PROVE  StandingNow'
<1>1. Len(inq) \in Nat \ {0} /\ Len(inq') + 1 = Len(inq)  BY DEF Numbers
<1>a. inq \in Seq(Incoming)  BY DEF Numbers
<1>2. /\ At(inq', "PINGRESP") \subseteq Nat \ {0} /\ At(inq, "PINGRESP") \subseteq Nat \ {0}
      /\ \A i \in Nat \ {0} : i \in At(inq', "PINGRESP") <=> i + 1 \in At(inq, "PINGRESP")
      /\ 1 \in At(inq, "PINGRESP") <=> Head(inq).type = "PINGRESP"
  BY <1>a, AtTail
<1>3. ASSUME NEW i \in Nat \ {0}, i > 1, Fresh(inAge, outAge, tAge, pc, KeepAlive - Rest(pc, spent, i))
      PROVE  Fresh(inAge', outAge', tAge', pc', KeepAlive - Rest(pc', spent', i - 1))
  <2>1. i - 1 \in Nat \ {0} /\ (i - 1) - 1 = i - 2 /\ spent \in Nat  BY <1>3 DEF Numbers
  <2>2. Turns(i - 1) \in Nat /\ Turns(i - 1) = Turns(i - 2) + LoopGap + CallbackTime /\ Turns(i - 2) \in Nat
        /\ Rest(pc, spent, i) = Turns(i - 1)
    BY <1>3, <2>1, RestIs
  <2>3. Rest("user", 0, i - 1) = LoopGap - 0 + Turns(i - 2)
        /\ Rest("callback", 0, i - 1) = CallbackTime - 0 + LoopGap + Turns(i - 2)
    BY <2>1, RestIs
  <2>4. Rest(pc', spent', i - 1) \in Int /\ Rest(pc', spent', i - 1) <= Rest(pc, spent, i)
    BY <2>2, <2>3, TimeAssumption
  <2>5. Rest(pc, spent, i) \in Int  BY <2>2
  <2>6. inAge <= KeepAlive - Rest(pc, spent, i) /\ outAge <= KeepAlive - Rest(pc, spent, i)
    BY <1>3 DEF Fresh
  <2>7. /\ KeepAlive \in Int /\ outAge' = outAge /\ inAge' <= inAge /\ tAge' = 0
        /\ inAge \in Int /\ inAge' \in Nat /\ outAge \in Int
    BY TimeAssumption DEF Numbers
  <2> DEFINE before == Rest(pc, spent, i)
             now == Rest(pc', spent', i - 1)
  <2> HIDE DEF before, now
  <2>8. before \in Int /\ now \in Int /\ now <= before
        /\ inAge <= KeepAlive - before /\ outAge <= KeepAlive - before
    BY <2>4, <2>5, <2>6 DEF before, now
  <2>9. inAge' <= KeepAlive - now /\ outAge' <= KeepAlive - now /\ tAge' <= KeepAlive - now
    BY <2>7, <2>8
  <2>10. QED  BY <2>9 DEF Fresh, now
<1>4. CASE At(out, "PINGREQ") # {} /\ Fresh(inAge, outAge, tAge, pc, lag)
  <2>1. Fresh(inAge', outAge', tAge', pc', lag')  BY <1>4 DEF Fresh, Numbers
  <2>2. QED  BY <1>4, <2>1 DEF StandingNow, Standing
<1>5. CASE \E i \in At(inq, "PINGRESP") : Fresh(inAge, outAge, tAge, pc, KeepAlive - Rest(pc, spent, i))
  <2>1. PICK i \in At(inq, "PINGRESP") : Fresh(inAge, outAge, tAge, pc, KeepAlive - Rest(pc, spent, i))
    BY <1>5
  <2>2. i \in Nat \ {0} /\ i # 1  BY <1>2, <2>1
  <2>3. i - 1 \in Nat \ {0} /\ (i - 1) + 1 = i /\ i > 1  BY <2>2
  <2>4. i - 1 \in At(inq', "PINGRESP")  BY <1>2, <2>1, <2>3
  <2>5. Fresh(inAge', outAge', tAge', pc', KeepAlive - Rest(pc', spent', i - 1))
    BY <1>3, <2>1, <2>3, <2>2
  <2>6. QED  BY <2>4, <2>5 DEF StandingNow, Standing
<1>6. CASE sock = "halfclosed" /\ Fresh(inAge, outAge, tAge, pc, KeepAlive - Rest(pc, spent, Len(inq) + 1))
  <2>1. Len(inq) + 1 \in Nat \ {0} /\ Len(inq) + 1 > 1 /\ (Len(inq) + 1) - 1 = Len(inq') + 1  BY <1>1
  <2>2. Fresh(inAge', outAge', tAge', pc', KeepAlive - Rest(pc', spent', (Len(inq) + 1) - 1))
    BY <1>3, <1>6, <2>1
  <2>3. QED  BY <1>6, <2>1, <2>2 DEF StandingNow, Standing
<1>7. QED  BY <1>4, <1>5, <1>6 DEF StandingNow, Standing

\* Who stands so has time: a broker that is well is not given up.
LEMMA StandsWell ==
  ASSUME Numbers, pc = "user", spent <= LoopGap, lag <= AnswerTime, Timely, StandingNow
  PROVE  inAge <= KeepAlive /\ outAge <= KeepAlive
<1>1. AnswerTime <= KeepAlive
  <2>1. 1 \in 1 .. Backlog + MaxOut + 1  BY BoundsAssumption
  <2>2. Turns(1 - 1) \in Nat /\ AnswerTime + Turns(1 - 1) + LoopGap + CallbackTime <= KeepAlive
    BY <2>1, InGoodTime
  <2>3. QED  BY <2>2, TimeAssumption
<1>2. ASSUME NEW i \in Nat \ {0}  PROVE Rest("user", spent, i) \in Nat
  BY RestType DEF Numbers
<1>3. At(inq, "PINGRESP") \subseteq Nat \ {0} /\ Len(inq) + 1 \in Nat \ {0}  BY DEF At, Numbers
<1>4. \E age \in Int : age <= KeepAlive /\ Fresh(inAge, outAge, tAge, pc, age)
  <2>1. CASE Fresh(inAge, outAge, tAge, pc, lag)
    BY <1>1, <2>1, TimeAssumption DEF Numbers
  <2>2. ASSUME NEW i \in Nat \ {0}, Fresh(inAge, outAge, tAge, pc, KeepAlive - Rest(pc, spent, i))
        PROVE  \E age \in Int : age <= KeepAlive /\ Fresh(inAge, outAge, tAge, pc, age)
    <3>1. KeepAlive - Rest(pc, spent, i) \in Int /\ KeepAlive - Rest(pc, spent, i) <= KeepAlive
      BY <1>2, TimeAssumption
    <3>2. QED  BY <2>2, <3>1
  <2>3. QED  BY <1>3, <2>1, <2>2 DEF StandingNow, Standing
<1>5. QED  BY <1>4, TimeAssumption DEF Fresh, Numbers

\* The broker is never waited for longer than it takes, and a broker that closed the
\* connection is sent nothing.
LEMMA StepLag ==
  ASSUME TypeOK, lag <= AnswerTime, sock = "halfclosed" => out = <<>>, LinkInv, [Next]_vars
  PROVE  lag' <= AnswerTime /\ (sock' = "halfclosed" => out' = <<>>)
<1>0. AnswerTime \in Nat /\ lag \in Nat  BY TimeAssumption DEF TypeOK
<1>1. CASE UNCHANGED <<sock, out, lag>>  BY <1>1
<1>2. CASE Stop  BY <1>0, <1>2 DEF Stop
<1>3. CASE /\ lag' = lag /\ sock' = sock
           /\ (\E type, id : Write(type, id)) \/ out' = out
  BY <1>3 DEF Write
<1>4. CASE Connect  BY <1>0, <1>4 DEF Connect
<1>5. CASE Tick
  <2>1. sock' = sock /\ out' = out  BY <1>5 DEF Tick
  <2>2. lag' <= AnswerTime  BY <1>0, <1>5 DEF Tick
  <2>3. QED  BY <2>1, <2>2
<1>6. CASE BrokerReads
  <2>1. sock' = sock /\ sock = "open" /\ (lag' = 0 \/ lag' = lag)  BY <1>6 DEF BrokerReads, Flows
  <2>2. QED  BY <1>0, <2>1
<1>7. CASE BrokerCloses  BY <1>0, <1>7 DEF BrokerCloses
<1>8. CASE ReadPacket
  BY <1>3, <1>8 DEF ReadPacket, HandlePacket
<1>9. CASE ReadTorn
  BY <1>2, <1>3, <1>9 DEF ReadTorn, HandlePacket
<1>10. CASE ReadConnack
  BY <1>1, <1>2, <1>10 DEF ReadConnack
<1>11. CASE CallbackReturns
  BY <1>3, <1>11 DEF CallbackReturns
<1>12. CASE Loop
  BY <1>3, <1>12 DEF Loop, Ping, NoPing
<1>13. CASE Publish \/ Subscribe
  BY <1>3, <1>13 DEF Publish, Subscribe
<1>14. CASE UNCHANGED vars \/ ConnectFails \/ ReadGivesUp \/ RestArrives \/ BrokerHangs
            \/ \E m \in Msgs \cup {0} : BrokerPublishes(m)
  BY <1>1, <1>14 DEF vars, ConnectFails, ReadGivesUp, RestArrives, BrokerHangs, BrokerPublishes
<1>15. CASE NoticeLoss \/ ConnectTimesOut \/ LoopTimesOut \/ Disconnect
  BY <1>2, <1>15 DEF NoticeLoss, ConnectTimesOut, LoopTimesOut, Disconnect
<1>16. QED  BY Steps, <1>4, <1>5, <1>6, <1>7, <1>8, <1>9, <1>10, <1>11, <1>12, <1>13, <1>14, <1>15

\* Packets once come in one piece have done so all the time.
LEMMA StaysWhole ==
  ASSUME TypeOK, [Next]_vars, stream' = "whole"
  PROVE  stream = "whole"
BY Steps DEF vars, brokerVars, histVars, timeVars, NoticeLoss, Connect, ConnectFails, ConnectTimesOut,
       ReadConnack, LoopTimesOut, Loop, ReadPacket, ReadGivesUp, ReadTorn, CallbackReturns, Publish,
       Subscribe, Disconnect, Tick, BrokerReads, BrokerPublishes, RestArrives, BrokerHangs,
       BrokerCloses, TypeOK

AllIn(q) == \A i \in 1 .. Len(q) : q[i].here = "all"

LEMMA AllTail ==
  ASSUME NEW q \in Seq(Incoming), q # <<>>, AllIn(q)  PROVE AllIn(Tail(q)) /\ Head(q).here = "all"
<1>1. 1 \in 1 .. Len(q) /\ Head(q) = q[1]
      /\ \A i \in 1 .. Len(Tail(q)) : Tail(q)[i] = q[i + 1] /\ i + 1 \in 1 .. Len(q)
  OBVIOUS
<1>2. QED  BY <1>1 DEF AllIn

LEMMA AllMore ==
  ASSUME NEW q \in Seq(Incoming), AllIn(q), NEW r \in Seq(Incoming), AllIn(r)
  PROVE  AllIn(q \o r)
<1>1. SUFFICES ASSUME NEW i \in 1 .. Len(q \o r)  PROVE (q \o r)[i].here = "all"
  BY DEF AllIn
<1>2. CASE i \in 1 .. Len(q)  BY <1>2 DEF AllIn
<1>3. CASE i \notin 1 .. Len(q)
  <2>1. i - Len(q) \in 1 .. Len(r) /\ (q \o r)[i] = r[i - Len(q)]  BY <1>1, <1>3
  <2>2. QED  BY <2>1 DEF AllIn
<1>4. QED  BY <1>2, <1>3

LEMMA AllAppend ==
  ASSUME NEW q \in Seq(Incoming), AllIn(q), NEW e \in Incoming, e.here = "all"
  PROVE  AllIn(Append(q, e))
<1>1. SUFFICES ASSUME NEW i \in 1 .. Len(Append(q, e))  PROVE Append(q, e)[i].here = "all"
  BY DEF AllIn
<1>2. CASE i \in 1 .. Len(q)  BY <1>2 DEF AllIn
<1>3. CASE i = Len(q) + 1  BY <1>3
<1>4. QED  BY <1>2, <1>3

\* Then every packet that waits is here, and reading it takes no time.
LEMMA StepWhole ==
  ASSUME TypeOK, SpentInv, [Next]_vars, stream = "whole", stream' = "whole", WholePackets
  PROVE  WholePackets'
<1>e. inq \in Seq(Incoming) /\ out \in Seq(Outgoing)  BY DEF TypeOK
<1>a. AllIn(inq) /\ (pc = "read" => spent = 0 /\ tAge = 0)  BY DEF WholePackets, AllIn
<1>z. AllIn(<<>>)  BY DEF AllIn
<1>q. SUFFICES AllIn(inq') /\ (pc' = "read" => spent' = 0 /\ tAge' = 0)
  BY DEF WholePackets, AllIn
<1>1. CASE UNCHANGED <<inq, pc, spent, tAge>>  BY <1>1, <1>a
<1>2. CASE inq' = <<>> /\ pc' # "read"  BY <1>2, <1>z
<1>3. CASE Loop  BY <1>3, <1>a DEF Loop
<1>4. CASE Tick
  <2>1. pc # "read"
    <3>1. SUFFICES ASSUME pc = "read" PROVE FALSE  OBVIOUS
    <3>2. inq # <<>>  BY <3>1 DEF SpentInv, Available
    <3>3. Head(inq).here = "all"  BY <1>a, <1>e, <3>2, AllTail
    <3>4. QED  BY <1>4, <3>1, <3>3 DEF Tick, MayWait
  <2>2. QED  BY <1>4, <1>a, <2>1 DEF Tick
<1>5. CASE ReadPacket
  <2>1. inq # <<>> /\ inq' = Tail(inq)  BY <1>5 DEF ReadPacket, SpentInv, Available
  <2>2. pc' # "read"  BY <1>5 DEF ReadPacket, HandlePacket, Return
  <2>3. QED  BY <1>a, <1>e, <2>1, <2>2, AllTail
<1>6. CASE ReadConnack
  <2>1. pc' = "user"  BY <1>6 DEF ReadConnack, Return
  <2>2. inq # <<>> /\ (inq' = Tail(inq) \/ inq' = <<>>)  BY <1>6 DEF ReadConnack, Available, Stop
  <2>3. QED  BY <1>a, <1>e, <1>z, <2>1, <2>2, AllTail
<1>7. CASE ReadGivesUp  BY <1>7 DEF ReadGivesUp
<1>8. CASE ReadTorn
  <2>1. inq # <<>> /\ Head(inq).here = "torn"  BY <1>8 DEF ReadTorn, SpentInv, Available
  <2>2. QED  BY <1>a, <1>e, <2>1, AllTail
<1>9. CASE CallbackReturns  BY <1>9, <1>a DEF CallbackReturns, Return
<1>10. CASE BrokerReads
  <2>1. UNCHANGED <<pc, spent, tAge>> /\ out # <<>>  BY <1>10 DEF BrokerReads, timeVars
  <2>2. Head(out) \in Outgoing  BY <1>e, <2>1
  <2>3. Answer(Head(out)) \in Seq(Incoming) /\ AllIn(Answer(Head(out)))
    BY <2>2, AnswerType DEF AllIn
  <2>4. Packet("REFUSAL", 0, "all") \in Incoming /\ Packet("REFUSAL", 0, "all").here = "all"
    BY DEF Packet, Incoming
  <2>5. inq' = inq \o Answer(Head(out)) \/ inq' = Append(inq, Packet("REFUSAL", 0, "all"))
    BY <1>10 DEF BrokerReads
  <2>6. AllIn(inq')  BY <1>a, <1>e, <2>3, <2>4, <2>5, AllMore, AllAppend
  <2>7. QED  BY <1>a, <2>1, <2>6
<1>11. CASE \E m \in Msgs \cup {0} : BrokerPublishes(m)
  <2>1. PICK m \in Msgs \cup {0} : BrokerPublishes(m)  BY <1>11
  <2>2. inq' = Append(inq, Packet("PUBLISH", m, "all")) /\ UNCHANGED <<pc, spent, tAge>>
    BY <2>1 DEF BrokerPublishes, timeVars
  <2>3. Packet("PUBLISH", m, "all") \in Incoming /\ Packet("PUBLISH", m, "all").here = "all"
    BY DEF Packet, Incoming
  <2>4. QED  BY <1>a, <1>e, <2>2, <2>3, AllAppend
<1>12. CASE RestArrives  BY <1>12, <1>a DEF RestArrives, AllIn
<1>13. CASE NoticeLoss \/ Connect \/ ConnectTimesOut \/ LoopTimesOut \/ Disconnect
  BY <1>2, <1>13 DEF NoticeLoss, Connect, ConnectTimesOut, LoopTimesOut, Disconnect, Stop, Return
<1>14. CASE UNCHANGED vars \/ ConnectFails \/ Publish \/ Subscribe \/ BrokerHangs \/ BrokerCloses
  BY <1>1, <1>14 DEF vars, timeVars, ConnectFails, Publish, Subscribe, BrokerHangs, BrokerCloses
<1>15. QED  BY Steps, <1>3, <1>4, <1>5, <1>6, <1>7, <1>8, <1>9, <1>10, <1>11, <1>12, <1>13, <1>14

\* While connect() waits there is its packet, or the answer to it and messages.
LEMMA StepConnecting ==
  ASSUME TypeOK, [Next]_vars, ~hung', pc' = "connect",
         ~hung /\ pc = "connect" => Connecting
  PROVE  Connecting'
<1>e. inq \in Seq(Incoming) /\ out \in Seq(Outgoing) /\ hung \in BOOLEAN  BY DEF TypeOK
<1>1. CASE Connect
  <2>1. inq' = <<>> /\ out' = <<[type |-> "CONNECT", id |-> 0]>>  BY <1>1 DEF Connect
  <2>2. At(inq', "PINGRESP") = {} /\ Len(inq') <= Backlog + 1  BY <2>1, AtNone, BoundsAssumption
  <2>3. QED  BY <2>1, <2>2 DEF Connecting
<1>2. CASE UNCHANGED <<inq, out, pc, hung>>
  BY <1>2 DEF Connecting
<1>3. CASE BrokerReads
  <2>1. Connecting /\ out # <<>> /\ out' = Tail(out)  BY <1>3 DEF BrokerReads
  <2>2. out = <<[type |-> "CONNECT", id |-> 0]>> /\ inq = <<>>  BY <2>1 DEF Connecting
  <2>3. Head(out) = [type |-> "CONNECT", id |-> 0] /\ out' = <<>>  BY <2>1, <2>2
  <2>4. Head(out).type = "CONNECT"  BY <2>3
  <2>5. Answer(Head(out)) = <<Packet("CONNACK", 0, "all")>>  BY <2>4 DEF Answer
  <2>6. \A type \in {"CONNACK", "REFUSAL"} : Packet(type, 0, "all") \in Incoming
                                            /\ Packet(type, 0, "all").type # "PINGRESP"
    BY DEF Packet, Incoming
  <2>7. \A e \in Incoming : <<>> \o <<e>> = Append(<<>>, e)  OBVIOUS
  <2>8. PICK e \in Incoming : e.type # "PINGRESP" /\ inq' = Append(<<>>, e)
    BY <1>3, <2>2, <2>5, <2>6, <2>7 DEF BrokerReads
  <2>9. At(inq', "PINGRESP") = At(<<>>, "PINGRESP")
    <3>1. <<>> \in Seq(Incoming)  OBVIOUS
    <3>2. QED  BY <2>8, <3>1, SentAt
  <2>10. Len(inq') = 1  BY <2>8
  <2>11. Len(inq') <= Backlog + 1  BY <2>10, BoundsAssumption
  <2>12. At(inq', "PINGRESP") = {}  BY <2>9, AtNone
  <2>13. QED  BY <2>3, <2>11, <2>12 DEF Connecting
<1>4. CASE \E m \in Msgs \cup {0} : BrokerPublishes(m)
  <2>1. PICK m \in Msgs \cup {0}, h \in {"all", "head"} : inq' = Append(inq, Packet("PUBLISH", m, h))
    BY <1>4 DEF BrokerPublishes
  <2>2. Packet("PUBLISH", m, h) \in Incoming /\ Packet("PUBLISH", m, h).type = "PUBLISH"
    BY DEF Packet, Incoming
  <2>3. Connecting /\ out' = out /\ Len(inq) < Backlog
        /\ \A i \in 1 .. Len(out) : out[i].type # "CONNECT"
    BY <1>4 DEF BrokerPublishes
  <2>4. out = <<>>
    <3>1. SUFFICES ASSUME out = <<[type |-> "CONNECT", id |-> 0]>>  PROVE FALSE
      BY <2>3 DEF Connecting
    <3>2. Len(out) = 1 /\ out[1].type = "CONNECT"  BY <3>1
    <3>3. QED  BY <2>3, <3>2
  <2>5. At(inq', "PINGRESP") = At(inq, "PINGRESP")  BY <1>e, <2>1, <2>2, SentAt
  <2>6. Len(inq') = Len(inq) + 1 /\ Len(inq) \in Nat  BY <1>e, <2>1, <2>2
  <2>7. Len(inq') <= Backlog + 1  BY <2>3, <2>6, BoundsAssumption
  <2>8. QED  BY <2>3, <2>4, <2>5, <2>7 DEF Connecting
<1>5. CASE RestArrives
  <2>1. Connecting /\ out' = out  BY <1>5 DEF RestArrives, brokerVars
  <2>2. PICK i \in 1 .. Len(inq), h \in {"all", "torn"} : inq' = Mark(i, h)
    BY <1>5 DEF RestArrives
  <2>3. inq[i] \in Incoming  BY <1>e, <2>2
  <2>4. Len(inq') = Len(inq) /\ Len(inq) \in Nat /\ inq'[i].type = inq[i].type
        /\ \A j \in 1 .. Len(inq) : j # i => inq'[j] = inq[j]
    BY <1>e, <2>2, <2>3 DEF Mark
  <2>5. At(inq', "PINGRESP") = At(inq, "PINGRESP")  BY <2>4 DEF At
  <2>6. QED  BY <2>1, <2>4, <2>5 DEF Connecting
<1>6. CASE BrokerCloses
  <2>1. Connecting /\ out' = <<>> /\ inq' = inq  BY <1>6 DEF BrokerCloses
  <2>2. QED  BY <2>1 DEF Connecting
<1>7. CASE UNCHANGED vars \/ NoticeLoss \/ ConnectFails \/ Tick
  BY <1>2, <1>7 DEF vars, brokerVars, timeVars, NoticeLoss, ConnectFails, Tick
<1>8. CASE BrokerHangs  BY <1>8 DEF BrokerHangs
<1>9. CASE ConnectTimesOut \/ ReadConnack \/ LoopTimesOut \/ Loop \/ ReadPacket \/ ReadGivesUp
           \/ ReadTorn \/ CallbackReturns \/ Publish \/ Subscribe \/ Disconnect
  BY <1>9 DEF ConnectTimesOut, ReadConnack, LoopTimesOut, Loop, ReadPacket, ReadGivesUp, ReadTorn,
     HandlePacket, CallbackReturns, Publish, Subscribe, Disconnect, Return
<1>10. QED  BY Steps, <1>1, <1>3, <1>4, <1>5, <1>6, <1>7, <1>8, <1>9

\* What write() does to the queues.
LEMMA WritesOther ==
  ASSUME TypeOK, NEW q, NEW p, Queues(out, q, p),
         NEW type \in {"PUBLISH", "PUBACK", "PINGRESP"}, NEW id \in Msgs \cup {0}, Write(type, id)
  PROVE  Queues(out', q, p) /\ At(out', "PINGREQ") = At(out, "PINGREQ")
<1> DEFINE e == [type |-> type, id |-> id]
<1>1. e \in Outgoing /\ e.type = type /\ out \in Seq(Outgoing)  BY DEF Outgoing, TypeOK
<1>2. out' = Append(out, e) \/ out' = out  BY DEF Write
<1> HIDE DEF e
<1>3. Queues(Append(out, e), q, p) /\ At(Append(out, e), "PINGREQ") = At(out, "PINGREQ")
  BY <1>1, OtherWritten
<1>4. QED  BY <1>2, <1>3

\* What PingInv says is kept by every step of a connection that stands.
PingedNow ==
  /\ TypeOK /\ SpentInv /\ LinkInv /\ WholePackets /\ ~hung
  /\ lag <= AnswerTime /\ (sock = "halfclosed" => out = <<>>)
  /\ pc = "connect" => Connecting
  /\ state = "CONNECTED" => Pinged

\* The facts about the numbers and queues that the steps need.
LEMMA PingTypes ==
  ASSUME PingedNow
  PROVE  /\ inq \in Seq(Incoming) /\ out \in Seq(Outgoing) /\ pingOutstanding \in BOOLEAN
         /\ inAge \in Nat /\ outAge \in Nat /\ tAge \in Nat /\ spent \in Nat /\ lag \in Nat
         /\ \A i \in At(out, "SUBSCRIBE") : i \in Nat
         /\ Numbers
<1>1. inAge \in Nat /\ outAge \in Nat /\ tAge \in Nat  BY Caps DEF PingedNow, TypeOK
<1>2. out \in Seq(Outgoing)  BY DEF PingedNow, TypeOK
<1>3. \A i \in At(out, "SUBSCRIBE") : i \in Nat  BY <1>2 DEF At
<1>4. QED  BY <1>1, <1>2, <1>3 DEF PingedNow, TypeOK, Numbers

\* So do the steps.
LEMMA NextNumbers == TypeOK' => Numbers'
BY Caps DEF TypeOK, Numbers

LEMMA ConnackPinged == PingedNow /\ ReadConnack /\ state' = "CONNECTED" => Pinged'
<1> SUFFICES ASSUME PingedNow, ReadConnack, state' = "CONNECTED" PROVE Pinged'
  OBVIOUS
<1>1. /\ pc = "connect" /\ Connecting /\ Head(inq).type = "CONNACK" /\ inq # <<>>
      /\ pingOutstanding' = FALSE /\ inq' = Tail(inq) /\ out' = out
  BY DEF PingedNow, ReadConnack, Available
<1>2. out = <<>>  BY <1>1 DEF Connecting
<1>3. inq \in Seq(Incoming)  BY PingTypes
<1>4. /\ At(Tail(inq), "PINGRESP") \subseteq Nat \ {0}
      /\ \A i \in Nat \ {0} : i \in At(Tail(inq), "PINGRESP") <=> i + 1 \in At(inq, "PINGRESP")
  BY <1>1, <1>3, AtTail
<1>5. At(inq', "PINGRESP") = {}  BY <1>1, <1>4 DEF Connecting
<1>6. Len(inq') = Len(inq) - 1 /\ Len(inq) \in Nat /\ Len(inq) <= Backlog + 1
  BY <1>1, <1>3 DEF Connecting
<1>7. Len(inq') <= Backlog + MaxOut  BY <1>6, BoundsAssumption
<1>8. \A type : At(out', type) = {}  BY <1>1, <1>2, AtNone
<1>9. QED  BY <1>1, <1>5, <1>7, <1>8 DEF Pinged, Queues, OneIn, RoomIn

\* loop() sends a ping, or finds no reason to.
LEMMA LoopPinged == PingedNow /\ TypeOK' /\ Loop => Pinged'
<1> SUFFICES ASSUME PingedNow, TypeOK', Loop PROVE Pinged'
  OBVIOUS
<1>e. /\ inq \in Seq(Incoming) /\ out \in Seq(Outgoing) /\ pingOutstanding \in BOOLEAN
      /\ inAge \in Nat /\ outAge \in Nat /\ tAge \in Nat /\ spent \in Nat /\ lag \in Nat
  BY PingTypes
<1>1. /\ pc = "user" /\ state = "CONNECTED" /\ Pinged /\ spent <= LoopGap
      /\ pc' = (IF Available THEN "read" ELSE "user") /\ tAge' = 0 /\ spent' = 0
      /\ UNCHANGED <<sock, inq, lag>>
      /\ sock = "open" \/ (sock = "halfclosed" /\ Available)
  BY DEF PingedNow, Loop, Up, Alive, SpentInv
<1>2. ~Available => inq = <<>> /\ sock = "open"
  <2>1. inq # <<>> => 1 \in 1 .. Len(inq) /\ Head(inq) = inq[1]  BY <1>e
  <2>2. inq # <<>> => Head(inq).here = "all"  BY <2>1 DEF PingedNow, WholePackets
  <2>3. QED  BY <1>1, <2>2 DEF Available
<1>3. CASE NoPing
  <2>1. UNCHANGED <<out, pingOutstanding, inAge, outAge>>  BY <1>3 DEF NoPing
  <2>2. ASSUME pingOutstanding, Timely
        PROVE  StandingNow'
    <3>1. StandingNow  BY <1>1, <2>2 DEF Pinged
    <3>2. CASE Available
      <4>1. ASSUME NEW i \in Nat \ {0}  PROVE Rest(pc', spent', i) + 0 <= Rest(pc, spent, i)
        <5>1. Turns(i - 1) \in Nat /\ Rest("read", 0, i) = Turns(i - 1)
              /\ Rest("user", spent, i) = LoopGap - spent + Turns(i - 1)
          BY <1>e, RestIs
        <5>2. QED  BY <1>1, <1>e, <3>2, <5>1, TimeAssumption
      <4>2. /\ inAge' <= inAge + 0 /\ outAge' <= outAge + 0 /\ lag' >= lag + 0 /\ 0 \in Nat
            /\ pc' = "read" /\ inq' = inq /\ sock' = sock /\ out' = out
        BY <1>1, <1>e, <2>1, <3>2
      <4>3. Numbers /\ Numbers'  BY PingTypes, NextNumbers
      <4>4. QED  BY <1>1, <3>1, <4>1, <4>2, <4>3, StandsStill
    <3>3. CASE ~Available
      <4>1. At(inq, "PINGRESP") = {} /\ sock # "halfclosed"  BY <1>2, <3>3, AtNone
      <4>2. At(out, "PINGREQ") # {} /\ Fresh(inAge, outAge, tAge, pc, lag)
        BY <3>1, <4>1 DEF StandingNow, Standing
      <4>3. pc' = "user" /\ lag' = lag  BY <1>1, <3>3
      <4>4. QED  BY <2>1, <4>2, <4>3 DEF StandingNow, Standing, Fresh
    <3>4. QED  BY <3>2, <3>3
  <2>3. QED  BY <1>1, <2>1, <2>2 DEF Pinged
<1>4. CASE Ping
  <2> DEFINE e == [type |-> "PINGREQ", id |-> 0]
  <2>1. /\ pingOutstanding = FALSE /\ pingOutstanding' = TRUE /\ inAge' = 0 /\ outAge' = 0
        /\ out' = IF sock = "open" THEN Append(out, e) ELSE out
    BY <1>4, <1>e DEF Ping, Write
  <2>2. e \in Outgoing /\ e.type = "PINGREQ"  BY DEF Outgoing
  <2> HIDE DEF e
  <2>3. Queues(out, inq, FALSE)  BY <1>1, <2>1 DEF Pinged
  <2>4. pc' # "callback"  BY <1>1
  <2>5. CASE sock = "open"
    <3>1. Queues(out', inq', TRUE) /\ At(out', "PINGREQ") # {}
      BY <1>1, <1>e, <2>1, <2>2, <2>3, <2>5, PingWritten
    <3>2. Fresh(0, 0, 0, pc', lag)  BY <1>e, <2>4 DEF Fresh
    <3>3. QED  BY <1>1, <2>1, <3>1, <3>2 DEF Pinged, StandingNow, Standing
  <2>6. CASE sock # "open"
    <3>1. Queues(out', inq', TRUE)  BY <1>1, <2>1, <2>3, <2>6 DEF Queues, OneIn
    <3>2. At(inq, "PINGRESP") = {} /\ Len(inq) <= Backlog + MaxOut
      BY <2>3 DEF Queues, OneIn, RoomIn
    <3>3. Len(inq) + 1 \in 1 .. Backlog + MaxOut + 1 /\ Len(inq) + 1 \in Nat \ {0}
      BY <1>e, <3>2, BoundsAssumption
    <3>4. ASSUME Timely  PROVE 0 <= KeepAlive - Rest(pc', 0, Len(inq) + 1)
      <4>1. AnswerTime + Turns((Len(inq) + 1) - 1) + LoopGap + CallbackTime <= KeepAlive
            /\ Turns((Len(inq) + 1) - 1) \in Nat
        BY <3>3, <3>4, InGoodTime
      <4>2. Rest("user", 0, Len(inq) + 1) = LoopGap - 0 + Turns((Len(inq) + 1) - 1)
            /\ Rest("read", 0, Len(inq) + 1) = Turns((Len(inq) + 1) - 1)
        BY <3>3, RestIs
      <4>3. pc' \in {"user", "read"}  BY <1>1
      <4>4. QED  BY <4>1, <4>2, <4>3, TimeAssumption
    <3>5. Timely => Fresh(0, 0, 0, pc', KeepAlive - Rest(pc', 0, Len(inq) + 1))
      BY <2>4, <3>4 DEF Fresh
    <3>6. sock = "halfclosed"  BY <1>1, <2>6
    <3>7. QED  BY <1>1, <2>1, <3>1, <3>5, <3>6 DEF Pinged, StandingNow, Standing
  <2>7. QED  BY <2>5, <2>6
<1>5. QED  BY <1>3, <1>4 DEF Loop

\* A packet is read.
LEMMA ReadPinged == PingedNow /\ TypeOK' /\ ReadPacket => Pinged'
<1> SUFFICES ASSUME PingedNow, TypeOK', ReadPacket PROVE Pinged'
  OBVIOUS
<1>e. /\ inq \in Seq(Incoming) /\ out \in Seq(Outgoing) /\ pingOutstanding \in BOOLEAN
      /\ inAge \in Nat /\ outAge \in Nat /\ tAge \in Nat /\ spent \in Nat /\ lag \in Nat
      /\ \A i \in At(out, "SUBSCRIBE") : i \in Nat
  BY PingTypes
<1>1. /\ pc = "read" /\ inq # <<>> /\ state = "CONNECTED" /\ tAge = 0 /\ Pinged
      /\ inq' = Tail(inq) /\ UNCHANGED <<sock, outAge, lag>>
  BY DEF PingedNow, ReadPacket, SpentInv, LinkInv, Available, WholePackets
<1> DEFINE h == Head(inq).type
           p == pingOutstanding /\ h # "PINGRESP"
<1>2. /\ pingOutstanding' = p /\ pc' \in {"user", "callback"} /\ spent' = 0 /\ tAge' = 0
      /\ (inAge' = 0 \/ inAge' = inAge)
      /\ (out' = out \/ Write("PINGRESP", 0))
  <2>1. CASE HandlePacket(Head(inq).type, Head(inq).id)
    <3>1. pingOutstanding' = p  BY <2>1 DEF HandlePacket
    <3>2. QED  BY <1>1, <2>1, <3>1 DEF HandlePacket, Return
  <2>2. CASE Drops(Head(inq)) /\ Return /\ UNCHANGED <<inAge, pingOutstanding, out>>
    <3>1. h # "PINGRESP"  BY <2>2 DEF Drops
    <3>2. pingOutstanding' = p  BY <1>e, <2>2, <3>1
    <3>3. QED  BY <2>2, <3>2 DEF Return
  <2>3. QED  BY <2>1, <2>2 DEF ReadPacket
<1> HIDE DEF h, p
<1>3. Queues(out, inq', p)
  <2>1. Queues(out, inq, pingOutstanding)  BY <1>1 DEF Pinged
  <2>2. QED  BY <1>1, <1>e, <2>1, PacketRead DEF p, h
<1>4. Queues(out', inq', p) /\ At(out', "PINGREQ") = At(out, "PINGREQ")
  <2>1. TypeOK  BY DEF PingedNow
  <2>2. CASE Write("PINGRESP", 0)  BY <1>3, <2>1, <2>2, WritesOther
  <2>3. QED  BY <1>2, <1>3, <2>2
<1>5. ASSUME p, Timely  PROVE StandingNow'
  <2>1. StandingNow  BY <1>1, <1>5 DEF Pinged, p
  <2>2. Head(inq).type # "PINGRESP"  BY <1>5 DEF p, h
  <2>3. inAge' <= inAge  BY <1>2, <1>e
  <2>4. Numbers /\ Numbers'  BY PingTypes, NextNumbers
  <2>5. QED  BY <1>1, <1>2, <1>4, <2>1, <2>2, <2>3, <2>4, StandsCloser
<1>6. QED  BY <1>2, <1>4, <1>5 DEF Pinged

\* The callback returns.
LEMMA ReturnPinged == PingedNow /\ TypeOK' /\ CallbackReturns /\ state' = "CONNECTED" => Pinged'
<1> SUFFICES ASSUME PingedNow, TypeOK', CallbackReturns, state' = "CONNECTED" PROVE Pinged'
  OBVIOUS
<1>e. /\ inq \in Seq(Incoming) /\ out \in Seq(Outgoing) /\ pingOutstanding \in BOOLEAN
      /\ inAge \in Nat /\ outAge \in Nat /\ tAge \in Nat /\ spent \in Nat /\ lag \in Nat
  BY PingTypes
<1>1. /\ pc = "callback" /\ Pinged /\ spent <= CallbackTime /\ TypeOK
      /\ pc' = "user" /\ tAge' = 0 /\ spent' = 0
      /\ outAge' = outAge \/ outAge' = tAge
      /\ out' = out \/ Write("PUBACK", msgId)
      /\ UNCHANGED <<sock, inq, lag, inAge, pingOutstanding>>
  BY DEF PingedNow, CallbackReturns, Return, SpentInv
<1>2. Queues(out', inq, pingOutstanding) /\ At(out', "PINGREQ") = At(out, "PINGREQ")
  <2>1. Queues(out, inq, pingOutstanding) /\ msgId \in Msgs \cup {0}  BY <1>1 DEF Pinged, TypeOK
  <2>2. CASE Write("PUBACK", msgId)  BY <1>1, <2>1, <2>2, WritesOther
  <2>3. QED  BY <1>1, <2>1, <2>2
<1>3. ASSUME pingOutstanding, Timely  PROVE StandingNow'
  <2>1. StandingNow  BY <1>1, <1>3 DEF Pinged
  <2>2. ASSUME NEW i \in Nat \ {0}  PROVE Rest(pc', spent', i) + 0 <= Rest(pc, spent, i)
    <3>1. Turns(i - 1) \in Nat /\ Rest("user", 0, i) = LoopGap - 0 + Turns(i - 1)
      BY RestIs
    <3>2. Rest("callback", spent, i) = CallbackTime - spent + LoopGap + Turns(i - 1)
      BY <1>e, RestIs
    <3>3. QED  BY <1>1, <1>e, <3>1, <3>2, TimeAssumption
  <2>3. /\ inAge' <= inAge + 0 /\ lag' >= lag + 0 /\ 0 \in Nat
        /\ outAge' <= outAge + 0 \/ (pc = "callback" /\ outAge' <= tAge + 0)
    BY <1>1, <1>e
  <2>4. Numbers /\ Numbers'  BY PingTypes, NextNumbers
  <2>5. QED  BY <1>1, <1>2, <2>1, <2>2, <2>3, <2>4, StandsStill
<1>4. QED  BY <1>1, <1>2, <1>3 DEF Pinged

\* The sketch publishes or subscribes.
LEMMA CallPinged == PingedNow /\ TypeOK' /\ (Publish \/ Subscribe) => Pinged'
<1> SUFFICES ASSUME PingedNow, TypeOK', Publish \/ Subscribe PROVE Pinged'
  OBVIOUS
<1>e. /\ inq \in Seq(Incoming) /\ out \in Seq(Outgoing) /\ pingOutstanding \in BOOLEAN
      /\ inAge \in Nat /\ outAge \in Nat /\ tAge \in Nat /\ spent \in Nat /\ lag \in Nat
  BY PingTypes
<1>1. /\ pc \in {"user", "callback"} /\ state = "CONNECTED" /\ Pinged /\ TypeOK /\ outAge' = 0
      /\ UNCHANGED <<sock, inq, lag, inAge, tAge, spent, pc, pingOutstanding>>
  BY DEF PingedNow, Publish, Subscribe, Up
<1>2. Queues(out', inq, pingOutstanding) /\ At(out', "PINGREQ") = At(out, "PINGREQ")
  <2>1. Queues(out, inq, pingOutstanding)  BY <1>1 DEF Pinged
  <2>2. CASE Publish
    <3>1. Write("PUBLISH", 0)  BY <2>2 DEF Publish
    <3>2. QED  BY <1>1, <2>1, <3>1, WritesOther
  <2>3. CASE Subscribe
    <3> DEFINE e == [type |-> "SUBSCRIBE", id |-> 0]
    <3>1. e \in Outgoing /\ e.type = "SUBSCRIBE"  BY DEF Outgoing
    <3>2. Len(out) < MaxOut /\ Len(inq) < Backlog /\ (out' = Append(out, e) \/ out' = out)
      BY <2>3 DEF Subscribe, Write
    <3> HIDE DEF e
    <3>3. QED  BY <1>e, <2>1, <3>1, <3>2, RequestWritten
  <2>4. QED  BY <2>2, <2>3
<1>3. ASSUME pingOutstanding, Timely  PROVE StandingNow'
  <2>1. StandingNow  BY <1>1, <1>3 DEF Pinged
  <2>2. ASSUME NEW i \in Nat \ {0}  PROVE Rest(pc', spent', i) + 0 <= Rest(pc, spent, i)
    <3>1. Rest(pc, spent, i) \in Int  BY <1>1, <1>e, RestType
    <3>2. QED  BY <1>1, <3>1
  <2>3. /\ inAge' <= inAge + 0 /\ lag' >= lag + 0 /\ 0 \in Nat /\ outAge' <= outAge + 0
        /\ tAge' <= tAge + 0
    BY <1>1, <1>e
  <2>4. Numbers /\ Numbers'  BY PingTypes, NextNumbers
  <2>5. QED  BY <1>1, <1>2, <2>1, <2>2, <2>3, <2>4, StandsStill
<1>4. QED  BY <1>1, <1>2, <1>3 DEF Pinged

\* Time passes: at the broker, which answers in time, as it does in the sketch.
LEMMA TickPinged == PingedNow /\ TypeOK' /\ Tick /\ state = "CONNECTED" => Pinged'
<1> SUFFICES ASSUME PingedNow, TypeOK', Tick, state = "CONNECTED" PROVE Pinged'
  OBVIOUS
<1>e. /\ inq \in Seq(Incoming) /\ out \in Seq(Outgoing) /\ pingOutstanding \in BOOLEAN
      /\ inAge \in Nat /\ outAge \in Nat /\ tAge \in Nat /\ spent \in Nat /\ lag \in Nat
  BY PingTypes
<1>1. /\ Pinged /\ TypeOK /\ LinkInv /\ SpentInv /\ WholePackets
      /\ spent' = spent + 1
      /\ UNCHANGED <<sock, inq, out, pc, pingOutstanding>>
  BY DEF PingedNow, Tick
<1>2. pc \in {"user", "callback"}
  <2>1. pc # "connect"  BY <1>1 DEF LinkInv
  <2>2. pc # "read"
    <3>1. SUFFICES ASSUME pc = "read" PROVE FALSE  OBVIOUS
    <3>2. inq # <<>>  BY <1>1, <3>1 DEF SpentInv, Available
    <3>3. AllIn(inq)  BY <1>1 DEF WholePackets, AllIn
    <3>4. Head(inq).here = "all"  BY <1>e, <3>2, <3>3, AllTail
    <3>5. QED  BY <3>1, <3>4 DEF Tick, MayWait
  <2>3. QED  BY <1>1, <2>1, <2>2 DEF TypeOK
<1>3. inAge' <= inAge + 1 /\ outAge' <= outAge + 1 /\ tAge' <= tAge + 1
  <2>1. inAge \in 0 .. InCap /\ outAge \in 0 .. OutCap /\ tAge \in 0 .. InCap  BY <1>1 DEF TypeOK
  <2>2. Older(inAge, InCap) <= inAge + 1 /\ Older(outAge, OutCap) <= outAge + 1
        /\ Older(tAge, InCap) <= tAge + 1
    BY <2>1, OlderType, Caps
  <2>3. QED  BY <1>e, <2>2 DEF Tick
<1>4. At(out, "PINGREQ") # {} => lag' >= lag + 1
  <2>1. SUFFICES ASSUME At(out, "PINGREQ") # {}  PROVE lag' >= lag + 1  OBVIOUS
  <2>2. out # <<>>  BY <2>1, AtNone
  <2>3. sock = "open"  BY <1>1, <1>2, <2>2 DEF PingedNow, LinkInv, TypeOK
  <2>4. inq # <<>> => inq[Len(inq)].here = "all"
    <3>1. inq # <<>> => Len(inq) \in 1 .. Len(inq)  BY <1>e
    <3>2. QED  BY <1>1, <3>1 DEF WholePackets
  <2>5. Flows  BY <2>3, <2>4 DEF Flows, PingedNow
  <2>6. QED  BY <1>e, <2>2, <2>5 DEF Tick
<1>5. ASSUME pingOutstanding, Timely  PROVE StandingNow'
  <2>1. StandingNow  BY <1>1, <1>5 DEF Pinged
  <2>2. ASSUME NEW i \in Nat \ {0}  PROVE Rest(pc', spent', i) + 1 <= Rest(pc, spent, i)
    <3>1. /\ Turns(i - 1) \in Nat
          /\ Rest("user", spent, i) = LoopGap - spent + Turns(i - 1)
          /\ Rest("callback", spent, i) = CallbackTime - spent + LoopGap + Turns(i - 1)
      BY <1>e, RestIs
    <3>2. spent + 1 \in Nat  BY <1>e
    <3>3. /\ Rest("user", spent + 1, i) = LoopGap - (spent + 1) + Turns(i - 1)
          /\ Rest("callback", spent + 1, i) = CallbackTime - (spent + 1) + LoopGap + Turns(i - 1)
      BY <3>2, RestIs
    <3>4. QED  BY <1>1, <1>2, <1>e, <3>1, <3>3, TimeAssumption
  <2>3. Numbers /\ Numbers'  BY PingTypes, NextNumbers
  <2>4. 1 \in Nat /\ pc' \in {"user", "callback"} /\ (pc' = "callback" => pc = "callback")
    BY <1>1, <1>2
  <2>5. At(out, "PINGREQ") # {} => At(out', "PINGREQ") # {} /\ lag' >= lag + 1  BY <1>1, <1>4
  <2>6. QED  BY <1>1, <1>2, <1>3, <2>1, <2>2, <2>3, <2>4, <2>5, StandsStill
<1>6. QED  BY <1>1, <1>5 DEF Pinged

\* What is answered now is read in time.
LEMMA AnsweredNow ==
  ASSUME Numbers, Timely, lag <= AnswerTime, pc \in {"user", "read", "callback"},
         Len(inq) <= Backlog + MaxOut
  PROVE  /\ Rest(pc, spent, Len(inq) + 1) \in Int
         /\ lag <= KeepAlive - Rest(pc, spent, Len(inq) + 1)
<1> DEFINE n == Len(inq) + 1
           w == Turns(n - 1)
<1>e. inq \in Seq(Incoming) /\ spent \in Nat /\ lag \in Nat  BY DEF Numbers
<1>1. n \in 1 .. Backlog + MaxOut + 1 /\ n \in Nat \ {0}  BY <1>e, BoundsAssumption
<1> HIDE DEF n
<1>2. AnswerTime + w + LoopGap + CallbackTime <= KeepAlive /\ w \in Nat  BY <1>1, InGoodTime
<1>3. /\ Rest("user", spent, n) = LoopGap - spent + w
      /\ Rest("callback", spent, n) = CallbackTime - spent + LoopGap + w
      /\ Rest("read", spent, n) = w
  BY <1>e, <1>1, RestIs
<1> HIDE DEF w
<1>4. LoopGap - spent + w \in Int /\ lag <= KeepAlive - (LoopGap - spent + w)
  BY <1>e, <1>2, TimeAssumption
<1>5. CallbackTime - spent + LoopGap + w \in Int
      /\ lag <= KeepAlive - (CallbackTime - spent + LoopGap + w)
  BY <1>e, <1>2, TimeAssumption
<1>6. w \in Int /\ lag <= KeepAlive - w  BY <1>e, <1>2, TimeAssumption
<1>7. Rest(pc, spent, n) \in Int /\ lag <= KeepAlive - Rest(pc, spent, n)
  BY <1>3, <1>4, <1>5, <1>6
<1>8. QED  BY <1>7 DEF n

\* The broker reads, and answers a ping.
LEMMA TakenPinged == PingedNow /\ TypeOK' /\ BrokerReads /\ state = "CONNECTED" => Pinged'
<1> SUFFICES ASSUME PingedNow, TypeOK', BrokerReads, state = "CONNECTED" PROVE Pinged'
  OBVIOUS
<1>e. /\ inq \in Seq(Incoming) /\ out \in Seq(Outgoing) /\ pingOutstanding \in BOOLEAN
      /\ inAge \in Nat /\ outAge \in Nat /\ tAge \in Nat /\ spent \in Nat /\ lag \in Nat
  BY PingTypes
<1>1. /\ Pinged /\ TypeOK /\ LinkInv /\ SpentInv /\ sock = "open" /\ out # <<>> /\ out' = Tail(out)
      /\ lag <= AnswerTime /\ lag' = (IF Len(out) = 1 THEN 0 ELSE lag)
      /\ UNCHANGED <<sock, inAge, outAge, tAge, spent, pc, pingOutstanding>>
  BY DEF PingedNow, BrokerReads, timeVars, Flows
<1>2. Queues(out, inq, pingOutstanding)  BY <1>1 DEF Pinged
<1>3. Head(out).type # "CONNECT"
  <2>1. 1 \in At(out, "CONNECT") <=> Head(out).type = "CONNECT"  BY <1>1, <1>e, AtTail
  <2>2. QED  BY <1>2, <2>1 DEF Queues
<1>4. inq' = inq \o Answer(Head(out))  BY <1>3 DEF BrokerReads
<1>5. /\ Queues(out', inq', pingOutstanding)
      /\ Head(out).type = "PINGREQ" =>
           Len(inq) + 1 \in At(inq', "PINGRESP") /\ Len(inq) <= Backlog + MaxOut
      /\ Head(out).type # "PINGREQ" =>
           /\ At(out, "PINGREQ") # {} => At(out', "PINGREQ") # {}
           /\ At(inq, "PINGRESP") \subseteq At(inq', "PINGRESP")
  BY <1>1, <1>2, <1>4, <1>e, Taken
<1>6. pc \in {"user", "read", "callback"}  BY <1>1 DEF LinkInv, TypeOK
<1>7. ASSUME pingOutstanding, Timely  PROVE StandingNow'
  <2>1. StandingNow  BY <1>1, <1>7 DEF Pinged
  <2>2. CASE Head(out).type = "PINGREQ"
    <3>1. 1 \in At(out, "PINGREQ")  BY <1>1, <1>e, <2>2, AtTail
    <3>2. At(inq, "PINGRESP") = {}  BY <1>2, <3>1 DEF Queues, OneIn
    <3>3. Fresh(inAge, outAge, tAge, pc, lag)  BY <1>1, <2>1, <3>2 DEF StandingNow, Standing
    <3>7. Rest(pc, spent, Len(inq) + 1) \in Int /\ lag <= KeepAlive - Rest(pc, spent, Len(inq) + 1)
      BY <1>1, <1>5, <1>6, <1>7, <2>2, PingTypes, AnsweredNow
    <3>8. Fresh(inAge, outAge, tAge, pc, KeepAlive - Rest(pc, spent, Len(inq) + 1))
      BY <1>e, <3>3, <3>7, TimeAssumption DEF Fresh
    <3>9. QED  BY <1>1, <1>5, <2>2, <3>8 DEF StandingNow, Standing
  <2>3. CASE Head(out).type # "PINGREQ"
    <3>1. CASE At(out, "PINGREQ") # {} /\ Fresh(inAge, outAge, tAge, pc, lag)
      <4>1. At(out', "PINGREQ") # {}  BY <1>5, <2>3, <3>1
      <4>2. Len(out) # 1
        <5>1. Len(out) = 1 => Tail(out) = <<>>  BY <1>e, OneTail
        <5>2. QED  BY <1>1, <4>1, <5>1, AtNone
      <4>3. QED  BY <1>1, <3>1, <4>1, <4>2 DEF StandingNow, Standing
    <3>2. CASE \E i \in At(inq, "PINGRESP") : Fresh(inAge, outAge, tAge, pc, KeepAlive - Rest(pc, spent, i))
      BY <1>1, <1>5, <2>3, <3>2 DEF StandingNow, Standing
    <3>3. QED  BY <1>1, <2>1, <3>1, <3>2 DEF StandingNow, Standing
  <2>4. QED  BY <2>2, <2>3
<1>8. QED  BY <1>1, <1>5, <1>7 DEF Pinged

\* The broker publishes.
LEMMA PublishedPinged ==
  ASSUME PingedNow, TypeOK', state = "CONNECTED", NEW m \in Msgs \cup {0}, BrokerPublishes(m)
  PROVE  Pinged'
<1>e. inq \in Seq(Incoming) /\ out \in Seq(Outgoing)  BY PingTypes
<1>1. /\ Pinged /\ sock = "open" /\ Len(inq) < Backlog
      /\ UNCHANGED <<sock, inAge, outAge, tAge, spent, pc, pingOutstanding, out, lag>>
  BY DEF PingedNow, BrokerPublishes, timeVars, Flows
<1>2. PICK h \in {"all", "head"} : inq' = Append(inq, Packet("PUBLISH", m, h))
  BY DEF BrokerPublishes
<1>3. Packet("PUBLISH", m, h) \in Incoming /\ Packet("PUBLISH", m, h).type = "PUBLISH"
  BY DEF Packet, Incoming
<1>4. Queues(out, inq, pingOutstanding)  BY <1>1 DEF Pinged
<1>5. Queues(out, inq', pingOutstanding) /\ At(inq', "PINGRESP") = At(inq, "PINGRESP")
  BY <1>1, <1>2, <1>3, <1>4, <1>e, PublishedTo
<1>6. StandingNow => StandingNow'  BY <1>1, <1>5 DEF StandingNow, Standing
<1>7. QED  BY <1>1, <1>5, <1>6 DEF Pinged

\* The broker closes the connection: what it sent is still read in time.
LEMMA ClosedPinged == PingedNow /\ BrokerCloses /\ state = "CONNECTED" => Pinged'
<1> SUFFICES ASSUME PingedNow, BrokerCloses, state = "CONNECTED" PROVE Pinged'
  OBVIOUS
<1>e. /\ inq \in Seq(Incoming) /\ out \in Seq(Outgoing) /\ pingOutstanding \in BOOLEAN
      /\ inAge \in Nat /\ outAge \in Nat /\ tAge \in Nat /\ spent \in Nat /\ lag \in Nat
  BY PingTypes
<1>1. /\ Pinged /\ TypeOK /\ LinkInv /\ SpentInv /\ sock = "open" /\ sock' = "halfclosed" /\ out' = <<>>
      /\ lag <= AnswerTime
      /\ UNCHANGED <<inq, inAge, outAge, tAge, spent, pc, pingOutstanding>>
  BY DEF PingedNow, BrokerCloses, timeVars
<1>2. Queues(out, inq, pingOutstanding)  BY <1>1 DEF Pinged
<1>3. \A type : At(out', type) = {}  BY <1>1, AtNone
<1>4. Queues(out', inq, pingOutstanding)  BY <1>2, <1>3 DEF Queues, OneIn, RoomIn
<1>5. pc \in {"user", "read", "callback"}  BY <1>1 DEF LinkInv, TypeOK
<1>6. ASSUME pingOutstanding, Timely  PROVE StandingNow'
  <2>1. StandingNow  BY <1>1, <1>6 DEF Pinged
  <2>2. CASE At(out, "PINGREQ") # {} /\ Fresh(inAge, outAge, tAge, pc, lag)
    <3>1. Len(inq) <= Backlog + MaxOut  BY <1>2, <2>2 DEF Queues, OneIn, RoomIn
    <3>7. Rest(pc, spent, Len(inq) + 1) \in Int /\ lag <= KeepAlive - Rest(pc, spent, Len(inq) + 1)
      BY <1>1, <1>5, <1>6, <3>1, PingTypes, AnsweredNow
    <3>8. Fresh(inAge, outAge, tAge, pc, KeepAlive - Rest(pc, spent, Len(inq) + 1))
      BY <1>e, <2>2, <3>7, TimeAssumption DEF Fresh
    <3>9. QED  BY <1>1, <3>8 DEF StandingNow, Standing
  <2>3. CASE \E i \in At(inq, "PINGRESP") : Fresh(inAge, outAge, tAge, pc, KeepAlive - Rest(pc, spent, i))
    BY <1>1, <2>3 DEF StandingNow, Standing
  <2>4. QED  BY <1>1, <2>1, <2>2, <2>3 DEF StandingNow, Standing
<1>7. QED  BY <1>1, <1>4, <1>6 DEF Pinged

\* Every step keeps it.
LEMMA StepPing == TypeOK /\ SpentInv /\ LinkInv /\ PingInv /\ [Next]_vars => PingInv'
<1> SUFFICES ASSUME TypeOK, SpentInv, LinkInv, PingInv, [Next]_vars  PROVE PingInv'
  OBVIOUS
<1>t. TypeOK'  BY StepTypes
<1>1. lag' <= AnswerTime /\ (sock' = "halfclosed" => out' = <<>>)  BY StepLag, PingParts
<1>2. stream' = "whole" => stream = "whole" /\ WholePackets /\ WholePackets'
  BY StaysWhole, StepWhole, PingParts
<1>3. stream' = "whole" /\ ~hung' /\ pc' = "connect" => Connecting'
  BY <1>2, StepConnecting, PingParts
<1>4. ASSUME stream' = "whole", ~hung', state' = "CONNECTED"  PROVE Pinged'
  <2>p. stream = "whole" /\ WholePackets  BY <1>2, <1>4
  <2>1. CASE Connect
    <3>1. state = "CONNECTED" /\ pc = "user" /\ sock = "closed"  BY <1>4, <2>1 DEF Connect
    <3>2. QED  BY <3>1 DEF LinkInv
  <2>2. hung' = hung \/ Connect \/ BrokerHangs
    BY Steps DEF vars, brokerVars, NoticeLoss, ConnectFails, ConnectTimesOut, ReadConnack,
       LoopTimesOut, Loop, ReadPacket, ReadGivesUp, ReadTorn, CallbackReturns, Publish, Subscribe,
       Disconnect, Tick, BrokerReads, BrokerPublishes, RestArrives, BrokerCloses
  <2>3. CASE BrokerHangs  BY <1>4, <2>3 DEF BrokerHangs
  <2>4. CASE ~hung
    <3>n. PingedNow  BY <2>p, <2>4, PingParts DEF PingedNow
    <3>s. state = "CONNECTED" => Pinged  BY <3>n DEF PingedNow
    <3>1. CASE UNCHANGED <<state, out, inq, pingOutstanding, sock, inAge, outAge, tAge, pc, spent, lag>>
      BY <1>4, <3>1, <3>s DEF Pinged, StandingNow
    <3>2. CASE UNCHANGED vars \/ BrokerHangs
      BY <3>1, <3>2 DEF vars, timeVars, BrokerHangs
    <3>3. CASE NoticeLoss \/ ConnectFails \/ ConnectTimesOut \/ LoopTimesOut \/ Disconnect
      BY <1>4, <3>3 DEF NoticeLoss, ConnectFails, ConnectTimesOut, LoopTimesOut, Disconnect
    <3>4. CASE ReadConnack  BY <1>4, <3>4, <3>n, ConnackPinged
    <3>5. CASE Loop  BY <1>t, <3>5, <3>n, LoopPinged
    <3>6. CASE ReadPacket  BY <1>t, <3>6, <3>n, ReadPinged
    <3>7. CASE ReadGivesUp  BY <1>4, <3>7 DEF ReadGivesUp
    <3>8. CASE ReadTorn
      <4>1. inq # <<>> /\ Head(inq).here = "torn"  BY <3>8 DEF ReadTorn, SpentInv, Available
      <4>2. inq \in Seq(Incoming) /\ AllIn(inq)  BY <2>p DEF TypeOK, WholePackets, AllIn
      <4>3. QED  BY <4>1, <4>2, AllTail
    <3>9. CASE CallbackReturns  BY <1>t, <1>4, <3>9, <3>n, ReturnPinged
    <3>10. CASE Publish \/ Subscribe  BY <1>t, <3>10, <3>n, CallPinged
    <3>11. CASE Tick
      <4>1. state = "CONNECTED"  BY <1>4, <3>11 DEF Tick
      <4>2. QED  BY <1>t, <3>11, <3>n, <4>1, TickPinged
    <3>12. CASE BrokerReads
      <4>1. state = "CONNECTED"  BY <1>4, <3>12 DEF BrokerReads
      <4>2. QED  BY <1>t, <3>12, <3>n, <4>1, TakenPinged
    <3>13. CASE \E m \in Msgs \cup {0} : BrokerPublishes(m)
      <4>1. PICK m \in Msgs \cup {0} : BrokerPublishes(m)  BY <3>13
      <4>2. state = "CONNECTED"  BY <1>4, <4>1 DEF BrokerPublishes
      <4>3. QED  BY <1>t, <3>n, <4>1, <4>2, PublishedPinged
    <3>14. CASE RestArrives  BY <2>p, <3>14 DEF RestArrives, WholePackets
    <3>15. CASE BrokerCloses
      <4>1. state = "CONNECTED"  BY <1>4, <3>15 DEF BrokerCloses
      <4>2. QED  BY <3>15, <3>n, <4>1, ClosedPinged
    <3>16. QED
      BY Steps, <2>1, <3>2, <3>3, <3>4, <3>5, <3>6, <3>7, <3>8, <3>9, <3>10, <3>11, <3>12, <3>13,
         <3>14, <3>15
  <2>5. QED  BY <1>4, <2>1, <2>2, <2>3, <2>4
<1>5. OnePing' /\ Room' /\ At(out', "CONNECT") = {} <=> Queues(out', inq', pingOutstanding')
  BY DEF OnePing, OneIn, Room, RoomIn, Queues
<1>6. Answered' <=> StandingNow'
  BY DEF Answered, StandingNow, Standing, Recent, Fresh, ReadIn, Rest
<1>7. QED
  BY <1>1, <1>2, <1>3, <1>4, <1>5, <1>6 DEF PingInv, WholePackets, Connecting, Pinged

(***************************************************************************)
(* The theorems.                                                           *)
(***************************************************************************)
\* The first state.
LEMMA InitInvs == Init => TypeOK /\ SpentInv /\ LinkInv /\ DeadInv /\ HeardInv /\ AckInv /\ PingInv
<1> SUFFICES ASSUME Init
             PROVE  TypeOK /\ SpentInv /\ LinkInv /\ DeadInv /\ HeardInv /\ AckInv /\ PingInv
  OBVIOUS
<1>1. TypeOK  BY InitTypes
<1>2. SpentInv  BY TimeAssumption DEF Init, SpentInv
<1>3. LinkInv  BY DEF Init, LinkInv
<1>4. DeadInv  BY DEF Init, DeadInv
<1>5. HeardInv  BY DEF Init, HeardInv
<1>6. AckInv  BY DEF Init, AckInv
<1>7. PingInv  BY TimeAssumption DEF Init, PingInv
<1>8. QED  BY <1>1, <1>2, <1>3, <1>4, <1>5, <1>6, <1>7

\* Types, and the time the sketch may be at a place, are kept together: readPacket
\* takes a packet that is there.
LEMMA TypesAndTimes == Spec => [](TypeOK /\ SpentInv /\ LinkInv)
<1>1. Init => TypeOK /\ SpentInv /\ LinkInv  BY InitInvs
<1>2. TypeOK /\ SpentInv /\ LinkInv /\ [Next]_vars => (TypeOK /\ SpentInv /\ LinkInv)'
  BY StepTypes, StepSpent, StepLink
<1>3. QED  BY <1>1, <1>2, PTL DEF Spec

\* Every variable keeps its type; nextMsgId in particular is never 0 (subscribe()).
THEOREM TypeCorrect == Spec => []TypeOK
<1>1. QED  BY TypesAndTimes, PTL

\* keepalive_spec.cpp:146: loop() gives up a broker that hangs within two keep-alive
\* intervals and two pauses of the sketch.
THEOREM HungConnectionsEnd == Spec => []HungIsFound
<1>1. Init => DeadInv  BY InitInvs
<1>2. TypeOK /\ SpentInv /\ LinkInv /\ DeadInv /\ [Next]_vars => DeadInv'  BY StepDead
<1>3. TypeOK /\ SpentInv /\ DeadInv => HungIsFound
  <2> SUFFICES ASSUME TypeOK, SpentInv, DeadInv, CallbackTime <= KeepAlive, pc = "user", Up
               PROVE  dead <= 2 * (KeepAlive + LoopGap)
    BY DEF HungIsFound
  <2>1. spent \in Nat /\ spent <= LoopGap /\ dead \in Nat /\ pingOutstanding \in BOOLEAN
    BY Caps DEF TypeOK, SpentInv
  <2>2. dead <= KeepAlive + spent + Asked  BY DEF DeadInv, Up
  <2>3. Asked = 0 \/ Asked = KeepAlive + LoopGap  BY DEF Asked
  <2>4. QED  BY <2>1, <2>2, <2>3, TimeAssumption
<1>4. QED  BY <1>1, <1>2, <1>3, TypesAndTimes, PTL DEF Spec

\* A connected client lets the broker hear something within the interval it announced
\* and one round of the sketch.
THEOREM BrokerHears == Spec => []HeardInTime
<1>1. Init => HeardInv  BY InitInvs
<1>2. TypeOK /\ SpentInv /\ LinkInv /\ HeardInv /\ [Next]_vars => HeardInv'  BY StepHeard
<1>3. TypeOK /\ SpentInv /\ HeardInv => HeardInTime
  <2> SUFFICES ASSUME TypeOK, SpentInv, HeardInv, pc = "user", Up  PROVE outAge <= KeepAlive + Round
    BY DEF HeardInTime
  <2>1. spent \in Nat /\ spent <= LoopGap /\ outAge \in Nat  BY Caps DEF TypeOK, SpentInv
  <2>2. outAge <= KeepAlive + SocketTimeout + CallbackTime + spent  BY DEF HeardInv, Up
  <2>3. QED  BY <2>1, <2>2, TimeAssumption DEF Round
<1>4. QED  BY <1>1, <1>2, <1>3, TypesAndTimes, PTL DEF Spec

\* As long as readPacket gave up no packet, the broker is told of no message that
\* did not come to the callback.
THEOREM OnlyHandedAcked == Spec => []AckedWasHanded
<1>1. Init => AckInv  BY InitInvs
<1>2. TypeOK /\ SpentInv /\ AckInv /\ [Next]_vars => AckInv'  BY StepAck
<1>3. AckInv => AckedWasHanded  BY DEF AckInv, AckedWasHanded
<1>4. QED  BY <1>1, <1>2, <1>3, TypesAndTimes, PTL DEF Spec

\* keepalive_spec.cpp:85 "keeps a connection alive that only receives qos0": loop()
\* gives up no broker that is well and whose packets come in one piece, when the queue
\* in front of the answer is read within the interval.
THEOREM LiveBrokersKept == Spec => LiveBrokerKept
<1>1. Init => PingInv  BY InitInvs
<1>2. TypeOK /\ SpentInv /\ LinkInv /\ PingInv /\ [Next]_vars => PingInv'  BY StepPing
<1>3. TypeOK /\ SpentInv /\ LinkInv /\ PingInv /\ [Next]_vars
        => [(LoopTimesOut /\ Timely /\ stream = "whole") => hung]_vars
  <2> SUFFICES ASSUME TypeOK, SpentInv, LinkInv, PingInv, LoopTimesOut, Timely, stream = "whole", ~hung
               PROVE  FALSE
    OBVIOUS
  <2>1. pc = "user" /\ state = "CONNECTED" /\ pingOutstanding /\ Late /\ spent <= LoopGap
    BY DEF LoopTimesOut, Up, SpentInv
  <2>2. PingedNow  BY <2>1, PingParts DEF PingedNow
  <2>3. StandingNow /\ lag <= AnswerTime  BY <2>1, <2>2 DEF PingedNow, Pinged
  <2>4. Numbers  BY <2>2, PingTypes
  <2>5. inAge <= KeepAlive /\ outAge <= KeepAlive  BY <2>1, <2>3, <2>4, StandsWell
  <2>6. QED  BY <2>1, <2>4, <2>5, TimeAssumption DEF Late, Numbers
<1>4. QED  BY <1>1, <1>2, <1>3, TypesAndTimes, PTL DEF Spec, LiveBrokerKept
=============================================================================
