---------------------------- MODULE PubSubClient ----------------------------
(***************************************************************************)
(* PubSubClient: an MQTT client driven by calls from a sketch, over a TCP  *)
(* connection to a broker.                                                 *)
(*                                                                         *)
(* millis() advances by Tick.  A time stamp is modelled by its age, which  *)
(* stops growing where no comparison tells the difference.  loop() takes   *)
(* at most one packet per call, and everything that becomes of it happens  *)
(* before the call returns.  A packet may arrive in two parts: readPacket  *)
(* gives up when the second one takes too long, and the next call takes    *)
(* that part for the beginning of a packet.                                *)
(*                                                                         *)
(* Messages with QoS 1 are told apart, those with QoS 0 are not.           *)
(***************************************************************************)
EXTENDS Integers, Sequences

CONSTANTS
  Msgs,          \* the QoS 1 messages of the broker, by message id
  Big,           \* those that do not fit into the buffer
  KeepAlive, SocketTimeout, \* setKeepAlive() and setSocketTimeout()
  IdSpace,       \* the number of values of nextMsgId (2^16)
  LoopGap,       \* the longest time from one call of loop() to the next
  CallbackTime,  \* the longest time a callback takes
  AnswerTime,    \* the longest time a broker that is well takes to answer
  Faults,        \* what may go wrong: "stall", "hang", "close", "refuse", "disconnect"
  MaxFaults, Backlog, MaxOut \* bounds: faults, packets waiting to be read before
                 \* the broker publishes more, packets the broker has not read yet

ASSUME MsgsAssumption == Msgs \subseteq Nat \ {0} /\ Big \subseteq Msgs
ASSUME TimeAssumption ==
  /\ KeepAlive \in Nat /\ SocketTimeout \in Nat /\ LoopGap \in Nat /\ CallbackTime \in Nat
  /\ AnswerTime \in Nat
ASSUME BoundsAssumption ==
  IdSpace \in Nat \ {0, 1} /\ MaxFaults \in Nat /\ Backlog \in Nat /\ MaxOut \in Nat

\* The longest time from one check of the keep-alive interval to the next
Round == LoopGap + SocketTimeout + CallbackTime
\* The ages at which time stamps stop to grow
InCap   == KeepAlive + 1
OutCap  == KeepAlive + Round + 1
DeadCap == 2 * (KeepAlive + LoopGap) + 1

States == {"DISCONNECTED", "CONNECTED", "CONNECT_FAILED", "CONNECTION_LOST",
           "CONNECTION_TIMEOUT", "REFUSED"}

\* Packets to the client; id 0 is a PUBLISH with QoS 0.  here: how much of it is at
\* the client, "torn" after readPacket gave up on the second part
Incoming == [type : {"CONNACK", "REFUSAL", "PUBLISH", "PINGREQ", "PINGRESP", "SUBACK"},
             id : Msgs \cup {0}, here : {"all", "head", "none", "torn"}]
Outgoing == [type : {"CONNECT", "PUBLISH", "PUBACK", "PINGREQ", "PINGRESP", "SUBSCRIBE"},
             id : Msgs \cup {0}]

VARIABLES
  state,           \* _state
  sock,            \* the TCP connection: "open", "halfclosed" (by the broker), "closed"
  pingOutstanding,
  inAge, outAge,   \* the ages of lastInActivity and lastOutActivity
  nextMsgId,
  pc,              \* where the sketch is: "user" (outside), "connect", "read", "callback"
  tAge,            \* the age of the local t of loop()
  spent,           \* the time spent at pc
  msgId,           \* the local msgId of loop()
  inq, out,        \* packets on their way to the client and to the broker
  lag,             \* the time the first packet of out has been waiting
  hung,            \* the broker neither reads nor answers
  sent, acked,     \* QoS 1 messages: sent on this connection; acknowledged
  handed,          \* history: QoS 1 messages a callback was given
  dead,            \* history: the time for which nothing has come from a hung broker
  stream,          \* history: "late" once a packet came in two parts, "torn" once
                   \* readPacket gave up on the second
  faults

timeVars   == <<inAge, outAge, tAge, spent>>
brokerVars == <<hung, sent, acked, faults>>
histVars   == <<handed, dead, stream>>
vars == <<state, sock, pingOutstanding, timeVars, nextMsgId, pc, msgId, inq, out, lag,
          brokerVars, histVars>>

TypeOK ==
  /\ state \in States /\ sock \in {"open", "halfclosed", "closed"}
  /\ pingOutstanding \in BOOLEAN /\ hung \in BOOLEAN
  /\ inAge \in 0 .. InCap /\ outAge \in 0 .. OutCap /\ tAge \in 0 .. InCap
  /\ spent \in Nat /\ lag \in Nat /\ dead \in 0 .. DeadCap
  /\ nextMsgId \in 1 .. IdSpace - 1
  /\ msgId \in Msgs \cup {0}
  /\ pc \in {"user", "connect", "read", "callback"}
  /\ inq \in Seq(Incoming) /\ out \in Seq(Outgoing)
  /\ sent \subseteq Msgs /\ acked \subseteq Msgs /\ handed \subseteq Msgs
  /\ faults \in 0 .. MaxFaults /\ stream \in {"whole", "late", "torn"}

Init ==
  /\ state = "DISCONNECTED" /\ sock = "closed" /\ pingOutstanding = FALSE
  /\ inAge = 0 /\ outAge = 0 /\ tAge = 0 /\ spent = 0
  /\ nextMsgId = 1 /\ pc = "user" /\ msgId = 0
  /\ inq = <<>> /\ out = <<>> /\ lag = 0
  /\ hung = FALSE /\ sent = {} /\ acked = {} /\ handed = {} /\ dead = 0 /\ faults = 0
  /\ stream = "whole"
-----------------------------------------------------------------------------
\* _client->available(), and connected(): a connection the broker closed counts
\* while it still has bytes to read
Available == inq # <<>> /\ Head(inq).here # "none"
Alive     == sock = "open" \/ (sock = "halfclosed" /\ Available)
Up        == state = "CONNECTED" /\ Alive

\* More or less of the i-th packet is at the client
Mark(i, here) == [inq EXCEPT ![i] = [type |-> inq[i].type, id |-> inq[i].id, here |-> here]]

\* _client->write() on a closed connection goes nowhere
Write(type, id) ==
  out' = IF sock = "open" THEN Append(out, [type |-> type, id |-> id]) ELSE out

\* _client->stop()
Stop == sock' = "closed" /\ inq' = <<>> /\ out' = <<>> /\ lag' = 0

\* A call returns to the sketch; the locals of loop() go
Return == pc' = "user" /\ spent' = 0 /\ tAge' = 0 /\ msgId' = 0

Fault(kind) == kind \in Faults /\ faults < MaxFaults /\ faults' = faults + 1
-----------------------------------------------------------------------------
(***************************************************************************)
(* connect().                                                              *)
(***************************************************************************)
\* connected() finds the connection gone; every call begins with it
NoticeLoss ==
  /\ pc \in {"user", "callback"} /\ state = "CONNECTED" /\ ~Alive
  /\ state' = "CONNECTION_LOST" /\ Stop
  /\ UNCHANGED <<pingOutstanding, timeVars, nextMsgId, pc, msgId, brokerVars, histVars>>

\* The TCP connection stands: the broker is well
Connect ==
  /\ pc = "user" /\ sock = "closed"
  /\ sock' = "open" /\ hung' = FALSE /\ sent' = {} /\ dead' = 0
  /\ nextMsgId' = 1 /\ inAge' = 0 /\ outAge' = 0
  /\ inq' = <<>> /\ out' = <<[type |-> "CONNECT", id |-> 0]>> /\ lag' = 0
  /\ pc' = "connect" /\ spent' = 0
  /\ UNCHANGED <<state, pingOutstanding, tAge, msgId, acked, handed, stream, faults>>

ConnectFails ==
  /\ pc = "user" /\ sock = "closed" /\ hung
  /\ state' = "CONNECT_FAILED"
  /\ UNCHANGED <<sock, pingOutstanding, timeVars, nextMsgId, pc, msgId, inq, out, lag,
                 brokerVars, histVars>>

\* Mutant: the time the wait is measured from moves on with the wait
ConnectWaitsAgain ==
  /\ pc = "connect" /\ ~Available /\ spent >= SocketTimeout
  /\ spent' = 0
  /\ UNCHANGED <<state, sock, pingOutstanding, inAge, outAge, tAge, nextMsgId, pc, msgId, inq, out,
                 lag, brokerVars, histVars>>

ConnectTimesOut ==
  /\ pc = "connect" /\ ~Available /\ spent >= SocketTimeout
  /\ state' = "CONNECTION_TIMEOUT" /\ Stop /\ Return
  /\ UNCHANGED <<pingOutstanding, inAge, outAge, nextMsgId, brokerVars, histVars>>

\* Mutant: a ping of the connection before counts as outstanding
ReadConnackKeepsPing ==
  /\ pc = "connect" /\ Available /\ Return
  /\ IF Head(inq).type = "CONNACK"
     THEN state' = "CONNECTED" /\ inAge' = 0 /\ inq' = Tail(inq) /\ UNCHANGED <<sock, out, lag>>
     ELSE state' = "REFUSED" /\ Stop /\ UNCHANGED inAge
  /\ UNCHANGED <<pingOutstanding, outAge, nextMsgId, brokerVars, histVars>>

\* The four bytes of the answer come in one piece
ReadConnack ==
  /\ pc = "connect" /\ Available /\ Return
  /\ IF Head(inq).type = "CONNACK"
     THEN /\ state' = "CONNECTED" /\ pingOutstanding' = FALSE /\ inAge' = 0
          /\ inq' = Tail(inq) /\ UNCHANGED <<sock, out, lag>>
     ELSE state' = "REFUSED" /\ Stop /\ UNCHANGED <<pingOutstanding, inAge>>
  /\ UNCHANGED <<outAge, nextMsgId, brokerVars, histVars>>
-----------------------------------------------------------------------------
(***************************************************************************)
(* loop().                                                                 *)
(***************************************************************************)
\* Mutant: a ping only when neither direction was active
LateBoth == inAge > KeepAlive /\ outAge > KeepAlive

Late == inAge > KeepAlive \/ outAge > KeepAlive

LoopTimesOut ==
  /\ pc = "user" /\ Up /\ Late /\ pingOutstanding
  /\ state' = "CONNECTION_TIMEOUT" /\ Stop /\ Return
  /\ UNCHANGED <<pingOutstanding, inAge, outAge, nextMsgId, brokerVars, histVars>>

\* Mutant: pingOutstanding is not set
PingNotNoted ==
  /\ Late /\ ~pingOutstanding /\ Write("PINGREQ", 0)
  /\ pingOutstanding' = FALSE /\ inAge' = 0 /\ outAge' = 0

Ping ==
  /\ Late /\ ~pingOutstanding /\ Write("PINGREQ", 0)
  /\ pingOutstanding' = TRUE /\ inAge' = 0 /\ outAge' = 0

NoPing == ~Late /\ UNCHANGED <<out, pingOutstanding, inAge, outAge>>

Loop ==
  /\ pc = "user" /\ Up /\ (Ping \/ NoPing)
  /\ pc' = (IF Available THEN "read" ELSE "user")
  /\ tAge' = 0 /\ spent' = 0 /\ msgId' = 0
  /\ UNCHANGED <<state, sock, nextMsgId, inq, lag, brokerVars, histVars>>

\* What the client makes of the packet in the buffer
HandlePacket(type, id) ==
  /\ inAge' = tAge
  /\ IF type = "PUBLISH" THEN pc' = "callback" /\ spent' = 0 /\ msgId' = id /\ UNCHANGED tAge
     ELSE Return
  /\ pingOutstanding' = (pingOutstanding /\ type # "PINGRESP")
  /\ IF type = "PINGREQ" THEN Write("PINGRESP", 0) ELSE UNCHANGED out

\* Mutant: the first part of a packet that is too long is handed over
DropsNone(p) == FALSE

\* A packet that does not fit is read and dropped
Drops(p) == p.type = "PUBLISH" /\ p.id \in Big

ReadPacket ==
  /\ pc = "read" /\ Head(inq).here = "all"
  /\ inq' = Tail(inq)
  /\ LET p == Head(inq) IN
     \/ /\ ~Drops(p) /\ HandlePacket(p.type, p.id)
        /\ handed' = IF p.type = "PUBLISH" /\ p.id \notin Big \cup {0} THEN handed \cup {p.id} ELSE handed
     \/ /\ Drops(p) /\ Return
        /\ UNCHANGED <<inAge, pingOutstanding, out, handed>>
  /\ UNCHANGED <<state, sock, outAge, nextMsgId, lag, brokerVars, dead, stream>>

\* readPacket() returns 0: the first part is lost, the connection stays
ReadGivesUp ==
  /\ pc = "read" /\ Head(inq).here = "head" /\ spent >= SocketTimeout
  /\ inq' = Mark(1, "none") /\ Return
  /\ stream' = "torn"
  /\ UNCHANGED <<state, sock, pingOutstanding, inAge, outAge, nextMsgId, out, lag, brokerVars,
                 handed, dead>>

\* The second part alone can be taken for anything
ReadTorn ==
  /\ pc = "read" /\ Head(inq).here = "torn"
  /\ \/ /\ inq' = Tail(inq) /\ UNCHANGED <<state, sock, lag>>
        /\ \/ \E type \in {"PUBLISH", "PINGREQ", "PINGRESP", "SUBACK"}, id \in Msgs \cup {0} :
                HandlePacket(type, id)
           \/ /\ Return /\ UNCHANGED <<inAge, pingOutstanding, out>>
     \/ \* an invalid length: the connection is closed
        /\ state' = "DISCONNECTED" /\ Stop /\ Return
        /\ UNCHANGED <<inAge, pingOutstanding>>
  /\ UNCHANGED <<outAge, nextMsgId, brokerVars, histVars>>

\* The callback returns; a message with QoS 1 is acknowledged
CallbackReturns ==
  /\ pc = "callback" /\ Return
  /\ IF msgId # 0
     THEN Write("PUBACK", msgId) /\ outAge' = tAge
     ELSE UNCHANGED <<out, outAge>>
  /\ UNCHANGED <<state, sock, pingOutstanding, inAge, nextMsgId, inq, lag, brokerVars,
                 histVars>>
-----------------------------------------------------------------------------
(***************************************************************************)
(* Calls from the sketch or from its callback.                             *)
(***************************************************************************)
\* publish() of something that fits; a longer one does nothing
Publish ==
  /\ pc \in {"user", "callback"} /\ Up /\ Len(out) < MaxOut
  /\ Write("PUBLISH", 0) /\ outAge' = 0
  /\ UNCHANGED <<state, sock, pingOutstanding, inAge, tAge, spent, nextMsgId, pc, msgId, inq, lag,
                 brokerVars, histVars>>

\* Mutant: the id 0 is not skipped
NextIdMayBeZero == IF nextMsgId + 1 = IdSpace THEN 0 ELSE nextMsgId + 1

\* The increment wraps to 0, which is skipped
NextId == IF nextMsgId + 1 = IdSpace THEN 1 ELSE nextMsgId + 1

\* subscribe() and unsubscribe()
Subscribe ==
  /\ pc \in {"user", "callback"} /\ Up /\ Len(out) < MaxOut /\ Len(inq) < Backlog
  /\ nextMsgId' = NextId
  /\ Write("SUBSCRIBE", 0) /\ outAge' = 0
  /\ UNCHANGED <<state, sock, pingOutstanding, inAge, tAge, spent, pc, msgId, inq, lag,
                 brokerVars, histVars>>

\* disconnect(): the DISCONNECT packet goes with the connection
Disconnect ==
  /\ pc \in {"user", "callback"} /\ Fault("disconnect")
  /\ state' = "DISCONNECTED" /\ Stop /\ inAge' = 0 /\ outAge' = 0
  /\ UNCHANGED <<pingOutstanding, tAge, spent, nextMsgId, pc, msgId, hung, sent, acked, histVars>>
-----------------------------------------------------------------------------
(***************************************************************************)
(* Time, the network and the broker.                                       *)
(***************************************************************************)
Older(age, cap) == IF age < cap THEN age + 1 ELSE cap

\* Bytes arrive in order: none behind a packet whose second part is on its way
Flows == sock = "open" /\ ~hung /\ (inq # <<>> => inq[Len(inq)].here \in {"all", "torn"})

\* Code takes time only where it waits, or where it is the sketch's
MayWait ==
  \/ pc = "user" /\ spent < LoopGap
  \/ pc = "callback" /\ spent < CallbackTime
  \/ pc = "connect" /\ ~Available /\ spent < SocketTimeout
  \/ pc = "read" /\ Head(inq).here # "all" /\ spent < SocketTimeout

Tick ==
  /\ MayWait /\ ((out # <<>> /\ Flows) => lag < AnswerTime)
  /\ inAge' = Older(inAge, InCap) /\ outAge' = Older(outAge, OutCap)
  /\ tAge' = IF pc \in {"read", "callback"} THEN Older(tAge, InCap) ELSE tAge
  /\ spent' = spent + 1 /\ lag' = IF out = <<>> \/ ~Flows THEN 0 ELSE lag + 1
  /\ dead' = IF hung /\ sock = "open" /\ ~Available THEN Older(dead, DeadCap) ELSE 0
  /\ UNCHANGED <<state, sock, pingOutstanding, nextMsgId, pc, msgId, inq, out, brokerVars,
                 handed, stream>>

Packet(type, id, here) == [type |-> type, id |-> id, here |-> here]

Answer(p) ==
  CASE p.type = "CONNECT"   -> <<Packet("CONNACK", 0, "all")>>
    [] p.type = "PINGREQ"   -> <<Packet("PINGRESP", 0, "all")>>
    [] p.type = "SUBSCRIBE" -> <<Packet("SUBACK", 0, "all")>>
    [] OTHER                -> <<>>

BrokerReads ==
  /\ Flows /\ out # <<>>
  /\ out' = Tail(out) /\ lag' = IF Len(out) = 1 THEN 0 ELSE lag
  /\ acked' = IF Head(out).type = "PUBACK" THEN (acked \cup {Head(out).id}) \ {0} ELSE acked
  /\ \/ inq' = inq \o Answer(Head(out)) /\ UNCHANGED faults
     \/ /\ Head(out).type = "CONNECT" /\ Fault("refuse")
        /\ inq' = Append(inq, Packet("REFUSAL", 0, "all"))
  /\ UNCHANGED <<state, sock, pingOutstanding, timeVars, nextMsgId, pc, msgId, hung, sent,
                 histVars>>

\* A message with QoS 1 is sent again on each connection until it is acknowledged
BrokerPublishes(m) ==
  /\ Flows /\ (\A i \in 1 .. Len(out) : out[i].type # "CONNECT") /\ Len(inq) < Backlog
  /\ m \notin sent \cup acked
  /\ sent' = sent \cup ({m} \ {0})
  /\ \/ /\ inq' = Append(inq, Packet("PUBLISH", m, "all")) /\ UNCHANGED <<stream, faults>>
     \/ /\ inq' = Append(inq, Packet("PUBLISH", m, "head")) /\ Fault("stall")
        /\ stream' = IF stream = "whole" THEN "late" ELSE stream
  /\ UNCHANGED <<state, sock, pingOutstanding, timeVars, nextMsgId, pc, msgId, out, lag,
                 hung, acked, handed, dead>>

\* The second part of a packet arrives
RestArrives ==
  /\ sock # "closed" /\ ~hung
  /\ \E i \in 1 .. Len(inq) :
       /\ inq[i].here \in {"head", "none"}
       /\ inq' = Mark(i, IF inq[i].here = "head" THEN "all" ELSE "torn")
  /\ UNCHANGED <<state, sock, pingOutstanding, timeVars, nextMsgId, pc, msgId, out, lag,
                 brokerVars, histVars>>

BrokerHangs ==
  /\ sock = "open" /\ ~hung /\ Fault("hang") /\ hung' = TRUE /\ dead' = 0
  /\ UNCHANGED <<state, sock, pingOutstanding, timeVars, nextMsgId, pc, msgId, inq, out,
                 lag, sent, acked, handed, stream>>

BrokerCloses ==
  /\ sock = "open" /\ ~hung /\ Fault("close")
  /\ sock' = "halfclosed" /\ out' = <<>> /\ lag' = 0
  /\ UNCHANGED <<state, pingOutstanding, timeVars, nextMsgId, pc, msgId, inq, hung, sent,
                 acked, histVars>>
-----------------------------------------------------------------------------
Reading == ReadPacket \/ ReadGivesUp \/ ReadTorn
Sketch  == Publish \/ Subscribe \/ Disconnect
Broker  == BrokerReads \/ (\E m \in Msgs \cup {0} : BrokerPublishes(m)) \/ RestArrives
           \/ BrokerHangs \/ BrokerCloses

Next ==
  \/ NoticeLoss \/ Connect \/ ConnectFails \/ ConnectTimesOut \/ ReadConnack
  \/ LoopTimesOut \/ Loop \/ Reading \/ CallbackReturns \/ Sketch \/ Tick \/ Broker

Spec == Init /\ [][Next]_vars

\* Sketches call connect() whenever it is not connected and loop() all the time;
\* calls return, time passes, and the broker goes on
FairSpec ==
  /\ Spec
  /\ WF_vars(NoticeLoss) /\ WF_vars(Connect) /\ WF_vars(ConnectTimesOut) /\ WF_vars(ReadConnack)
  /\ SF_vars(LoopTimesOut) /\ SF_vars(Loop) /\ WF_vars(Reading) /\ SF_vars(CallbackReturns)
  /\ SF_vars(Tick) /\ WF_vars(BrokerReads) /\ WF_vars(RestArrives)
  /\ \A m \in Msgs : SF_vars(BrokerPublishes(m))
-----------------------------------------------------------------------------
(***************************************************************************)
(* Properties                                                              *)
(***************************************************************************)
\* keepalive_spec.cpp:146 "disconnects a hung connection (takes 30 seconds)": no
\* connection outlives its broker by more than two keep-alive intervals and the two
\* pauses between calls of loop() in which they end, unless a callback takes longer.
HungIsFound == (CallbackTime <= KeepAlive /\ pc = "user" /\ Up) => dead <= 2 * (KeepAlive + LoopGap)

\* A connected client lets the broker hear something before the interval it
\* announced in CONNECT is over and one round of the sketch has been through loop().
HeardInTime == (pc = "user" /\ Up) => outAge <= KeepAlive + Round

\* What waits in front of the answer to a ping is read within the interval
Timely == AnswerTime + (Backlog + MaxOut + 1) * (LoopGap + CallbackTime) <= KeepAlive

\* keepalive_spec.cpp:85 "keeps a connection alive that only receives qos0": loop()
\* gives up only a broker that hangs, although it looks at the interval before it
\* reads the answer that may be there, and reads one packet a call.
LiveBrokerKept == [][(LoopTimesOut /\ Timely /\ stream = "whole") => hung]_vars

\* A message the broker was told is delivered was given to the callback: PUBACK
\* carries its id, and a message that is too long for the buffer gets none.  Once
\* a packet was torn the client may acknowledge what it never read.
AckedWasHanded == stream # "torn" => acked \subseteq handed

\* Through hangs, closed connections and disconnects, the callback gets every
\* message that fits into the buffer, but for torn packets.
AllHanded == <>(stream = "torn" \/ Msgs \ Big \subseteq handed)
-----------------------------------------------------------------------------
(***************************************************************************)
(* The inductive invariants behind HungIsFound, HeardInTime,               *)
(* AckedWasHanded and LiveBrokerKept.                                      *)
(***************************************************************************)
\* How long the sketch can be at a place, how old t is by then, and when it has a
\* connection
SpentInv ==
  /\ pc = "user" => spent <= LoopGap
  /\ pc = "callback" => spent <= CallbackTime /\ tAge <= SocketTimeout + spent
  /\ pc \in {"connect", "read"} => spent <= SocketTimeout
  /\ pc = "read" => Available /\ tAge <= spent
  /\ pc = "connect" => outAge <= spent

LinkInv ==
  /\ pc = "connect" => state # "CONNECTED" /\ sock # "closed"
  /\ pc # "connect" => (state = "CONNECTED" <=> sock # "closed")
  /\ pc = "read" => state = "CONNECTED"

\* A hung broker that is still connected: the client has heard nothing since dead
\* began, but for the ping, which it takes for activity
Asked == IF pingOutstanding THEN KeepAlive + LoopGap ELSE 0

DeadInv ==
  /\ (Available \/ ~hung) => dead = 0
  /\ state = "CONNECTED" /\ CallbackTime <= KeepAlive =>
       /\ pc = "callback" => dead <= spent
       /\ inAge < InCap => dead <= inAge + Asked
       /\ pc = "user" => dead <= KeepAlive + spent + Asked

\* How long the broker may have heard nothing, by place
HeardInv ==
  state = "CONNECTED" =>
     /\ pc = "user" => outAge <= KeepAlive + SocketTimeout + CallbackTime + spent
     /\ pc = "read" => outAge <= KeepAlive + spent
     /\ pc = "callback" => outAge <= KeepAlive + SocketTimeout + spent

\* As long as no packet was torn, what is acknowledged was handed over
AckInv ==
  stream # "torn" =>
     /\ acked \subseteq handed
     /\ \A i \in 1 .. Len(out) : out[i].type = "PUBACK" => out[i].id \in handed
     /\ \A i \in 1 .. Len(inq) : inq[i].here \in {"all", "head"}
     /\ pc = "callback" => msgId \in handed \cup {0}

\* The places of the packets of a type in a queue
At(s, type) == {i \in 1 .. Len(s) : s[i].type = type}

\* The longest time until the i-th packet on its way to the client is read: one is
\* read per round of pause and callback
Turns(n) == n * (LoopGap + CallbackTime)
ReadIn(i) ==
  CASE pc = "user"     -> LoopGap - spent + Turns(i - 1)
    [] pc = "callback" -> CallbackTime - spent + LoopGap + Turns(i - 1)
    [] OTHER           -> Turns(i - 1)

\* The time stamps loop() looks at, and t, which may become one of them
Recent(age) == inAge <= age /\ outAge <= age /\ (pc = "callback" => tAge <= age)

\* There is at most one ping: it is on its way to the broker or its answer is on its
\* way to the client
OnePing ==
  /\ \A i, j \in At(out, "PINGREQ") : i = j
  /\ \A i, j \in At(inq, "PINGRESP") : i = j
  /\ At(out, "PINGREQ") = {} \/ At(inq, "PINGRESP") = {}
  /\ ~pingOutstanding => At(out, "PINGREQ") = {} /\ At(inq, "PINGRESP") = {}

\* What a broker answers finds at most Backlog + MaxOut packets waiting
Room ==
  /\ \A i \in At(out, "SUBSCRIBE") : i <= MaxOut /\ Len(inq) + i <= Backlog + MaxOut
  /\ \/ Len(inq) <= Backlog + MaxOut
     \/ At(inq, "PINGRESP") # {} /\ Len(inq) <= Backlog + MaxOut + 1

\* The ping, or its answer, comes in time; on a connection the broker closed, the
\* packets that are left are read in time
Answered ==
  \/ At(out, "PINGREQ") # {} /\ Recent(lag)
  \/ \E i \in At(inq, "PINGRESP") : Recent(KeepAlive - ReadIn(i))
  \/ sock = "halfclosed" /\ Recent(KeepAlive - ReadIn(Len(inq) + 1))

\* As long as all packets come in one piece, a ping a broker that is well got is
\* answered, and its answer read, before the interval is over
PingInv ==
  /\ lag <= AnswerTime /\ (sock = "halfclosed" => out = <<>>)
  /\ stream = "whole" =>
       /\ \A i \in 1 .. Len(inq) : inq[i].here = "all"
       /\ pc = "read" => spent = 0 /\ tAge = 0
  /\ stream = "whole" /\ ~hung /\ pc = "connect" =>
       /\ out = <<>> \/ (out = <<[type |-> "CONNECT", id |-> 0]>> /\ inq = <<>>)
       /\ At(inq, "PINGRESP") = {} /\ Len(inq) <= Backlog + 1
  /\ stream = "whole" /\ ~hung /\ state = "CONNECTED" =>
       /\ At(out, "CONNECT") = {} /\ OnePing /\ Room
       /\ pingOutstanding /\ Timely => Answered
=============================================================================
