------------------------------ MODULE S7Client ------------------------------
(***************************************************************************)
(* The Settimino S7 client (Settimino.cpp), driven by any caller, over one *)
(* TCP socket to a PLC.                                                    *)
(*                                                                         *)
(* The client is a blocking request/reply machine: a call writes one       *)
(* telegram, then RecvISOPacket takes the next telegram of the byte stream *)
(* in three reads (TPKT, COTP, payload), each bounded by RecvTimeout.      *)
(* Nothing in a telegram says which request it answers (the PDU reference  *)
(* is the constant 05 00), so after a timeout the stream may hold answers  *)
(* of earlier requests, or the end of a telegram whose start was consumed. *)
(*                                                                         *)
(* Time is abstracted: a wait either finds its bytes or times out.  The    *)
(* stream is a sequence of words; a telegram is four of them: TPKT, COTP   *)
(* and two halves of the payload, so that a wait can find part of it.      *)
(***************************************************************************)
EXTENDS Integers, Sequences

CONSTANTS
  Jobs,          \* the calls the caller makes: [fn, area, start, amount]
  PduSizes,      \* the PDU lengths a PLC may answer in the negotiation
  FlushDiscards, \* does EthernetClient::flush() drop received bytes?
  ReopenCloses,  \* does EthernetClient::connect() close a socket left open?
  U16Size,       \* 65536, the number of values of a uint16_t
  MaxBacklog     \* bound: words left in the stream when a call starts

\* The values of a uint16_t
U16 == 0 .. U16Size - 1

ASSUME WidthAssumption   == U16Size \in Nat /\ U16Size > 255

\* The client asks for a PDU of 240 bytes; a PLC grants no more
ASSUME PduAssumption     == PduSizes \subseteq 0 .. 240
ASSUME SocketAssumption  == FlushDiscards \in BOOLEAN /\ ReopenCloses \in BOOLEAN
ASSUME BacklogAssumption == MaxBacklog \in Nat

(***************************************************************************)
(* Error codes of Settimino.h; the severe ones are 0x0001 .. 0x00FF.       *)
(***************************************************************************)
SevereErrors ==
  {"errTCPConnectionFailed", "errTCPConnectionReset", "errTCPDataRecvTout",
   "errTCPDataSend", "errISOConnectionFailed", "errISONegotiatingPDU",
   "errISOInvalidPDU"}
S7Errors == {"errS7InvalidPDU", "errS7DataRead", "errS7DataWrite", "errS7Function"}
Errors   == {"ok"} \cup SevereErrors \cup S7Errors

Areas    == {"DB", "TM"}              \* S7AreaDB; S7AreaTM stands for S7AreaCT too
AreaFns  == {"ReadArea", "WriteArea"}
UnitFns  == {"PlcStop", "PlcStart", "GetPlcStatus", "GetDBSize"}
Requests == {"ISOConnect", "NegotiatePduLength"} \cup AreaFns \cup UnitFns

ASSUME JobsAssumption ==
  Jobs \subseteq [fn : AreaFns \cup UnitFns, area : Areas, start : Nat, amount : U16]

\* The telegram every answer begins with; cur: it answers the last request written
Telegrams ==
  [kind : Requests \cup {"Empty"}, len : Nat, ok : BOOLEAN,
   pdu : U16, addr : Nat, cur : BOOLEAN]
Words == [t : Telegrams, i : 1 .. 4]

VARIABLES
  Connected,   \* S7Client::Connected
  LastError,   \* S7Client::LastError, what the last call returned
  PDULength,   \* S7Client::PDULength
  sock,        \* TCPClient: no socket, a live connection, or a dead one
  stream,      \* words sent by the PLC and not read yet, oldest first
  avail,       \* how many of them TCPClient->available() counts
  pc,          \* where the running call is
  req,         \* the request being exchanged
  job,         \* the ReadArea / WriteArea / ... call being served
  TotElements, NumElements, LongStart, Offset,  \* locals of ReadArea and WriteArea
  tele,        \* the telegram whose TPKT is in PDU.H
  shifted,     \* its payload was read from the COTP bytes on
  got,         \* history: the chunks this call took as answered
  slipped      \* history: since the socket was opened a wait timed out, or a
               \* telegram was given up after its TPKT

netVars  == <<sock, stream, avail>>
loopVars == <<TotElements, NumElements, LongStart, Offset>>
recvVars == <<tele, shifted>>
vars == <<Connected, LastError, PDULength, netVars, pc, req, job, loopVars,
          recvVars, got, slipped>>

NoJob  == [fn |-> "GetPlcStatus", area |-> "DB", start |-> 0, amount |-> 0]
NoTele == [kind |-> "Empty", len |-> 0, ok |-> FALSE, pdu |-> 0, addr |-> 0,
           cur |-> FALSE]
-----------------------------------------------------------------------------
(***************************************************************************)
(* Arithmetic of ReadArea and WriteArea: uint16_t, and C division.         *)
(***************************************************************************)
WordSize == IF job.area = "TM" THEN 2 ELSE 1

HeaderSize == IF job.fn = "ReadArea" THEN 18 ELSE 35

\* PDULength - HeaderSize wraps around when it is negative
MaxElements ==
  LET room == PDULength - HeaderSize
      less == (- room) \div WordSize
  IN  IF room >= 0 THEN room \div WordSize ELSE IF less = 0 THEN 0 ELSE U16Size - less

\* Mutant: the chunk is always a full one
ChunkUnclamped == MaxElements

Chunk == IF TotElements > MaxElements THEN MaxElements ELSE TotElements

SizeRequested == (NumElements * WordSize) % U16Size

\* H[23] = NumElements << 8 is a byte, hence 0: the telegram counts to 255
Counted == Chunk % 256
-----------------------------------------------------------------------------
(***************************************************************************)
(* The PLC: one answer per request, in order.  It may precede the answer   *)
(* by an empty fragment (TPKT and COTP only), and it may refuse.           *)
(***************************************************************************)
Tele(kind, len, ok, pdu) ==
  [kind |-> kind, len |-> len, ok |-> ok, pdu |-> pdu, addr |-> LongStart,
   cur |-> TRUE]

\* The connection is refused with a Disconnect Request TPDU, with or without a
\* reason in its variable part.
AnswerLengths(r, ok) ==
  CASE r = "NegotiatePduLength" -> {20}
    [] r = "ReadArea"           -> {IF ok THEN 18 + Counted * WordSize ELSE 18}
    [] r = "WriteArea"          -> {15}
    [] r = "ISOConnect"         -> IF ok THEN {15} ELSE {4, 10}
    [] r = "GetPlcStatus"       -> {IF ok THEN 54 ELSE 26}
    [] r = "GetDBSize"          -> {80}
    [] OTHER                    -> {13}

Answers(r) ==
  UNION {{Tele(r, len, ok, IF r = "NegotiatePduLength" THEN p ELSE 0) : len \in AnswerLengths(r, ok)} :
           ok \in BOOLEAN, p \in PduSizes}

Split(t) == [i \in 1 .. 4 |-> [t |-> t, i |-> i]]
EmptyFragment == <<[t |-> NoTele, i |-> 1], [t |-> NoTele, i |-> 2]>>

\* What was answered before is not an answer to the request now written
Stale(t) == [t EXCEPT !.cur = FALSE]
Age(s) == [k \in DOMAIN s |-> [t |-> Stale(s[k].t), i |-> s[k].i]]
-----------------------------------------------------------------------------
TypeOK ==
  /\ Connected \in BOOLEAN /\ LastError \in Errors /\ PDULength \in U16
  /\ sock \in {"none", "up", "dead"}
  /\ stream \in Seq(Words) /\ avail \in 0 .. Len(stream)
  /\ pc \in {"idle", "send", "tpkt", "skip", "cotp", "data"}
  /\ req \in Requests /\ job \in Jobs \cup {NoJob}
  /\ TotElements \in U16 /\ NumElements \in U16
  /\ LongStart \in Nat /\ Offset \in Nat
  /\ tele \in Telegrams /\ shifted \in BOOLEAN /\ slipped \in BOOLEAN
  /\ got \in Seq([t : Telegrams, off : Nat])

Init ==
  /\ Connected = FALSE /\ LastError = "ok" /\ PDULength = 0
  /\ sock = "none" /\ stream = <<>> /\ avail = 0
  /\ pc = "idle" /\ req = "ISOConnect" /\ job = NoJob
  /\ TotElements = 0 /\ NumElements = 0 /\ LongStart = 0 /\ Offset = 0
  /\ tele = NoTele /\ shifted = FALSE
  /\ got = <<>> /\ slipped = FALSE
-----------------------------------------------------------------------------
(***************************************************************************)
(* Calls                                                                   *)
(***************************************************************************)
\* Connect() on a client that believes it is connected only clears LastError
ConnectAgain ==
  /\ pc = "idle" /\ Connected
  /\ LastError' = "ok"
  /\ UNCHANGED <<Connected, PDULength, netVars, pc, req, job, loopVars, recvVars, got, slipped>>

\* A socket left open by an earlier failed Connect() is refused or replaced,
\* depending on the Ethernet library
TCPConnect ==
  /\ pc = "idle" /\ ~Connected
  /\ sock = "none" \/ ReopenCloses
  /\ sock' = "up" /\ stream' = <<>> /\ avail' = 0
  /\ LastError' = "ok" /\ slipped' = FALSE
  /\ pc' = "send" /\ req' = "ISOConnect" /\ got' = <<>>
  /\ UNCHANGED <<Connected, PDULength, job, loopVars, recvVars>>

TCPConnectFails ==
  /\ pc = "idle" /\ ~Connected
  /\ sock' = IF sock = "none" \/ ReopenCloses THEN "none" ELSE sock
  /\ IF sock' = "none" THEN stream' = <<>> /\ avail' = 0 ELSE UNCHANGED <<stream, avail>>
  /\ LastError' = "errTCPConnectionFailed"
  /\ UNCHANGED <<Connected, PDULength, pc, req, job, loopVars, recvVars, got, slipped>>

\* Disconnect() does nothing unless Connected, even with a socket open
Disconnect ==
  /\ pc = "idle" /\ Connected
  /\ sock' = "none" /\ stream' = <<>> /\ avail' = 0
  /\ Connected' = FALSE /\ PDULength' = 0 /\ LastError' = "ok"
  /\ UNCHANGED <<pc, req, job, loopVars, recvVars, got, slipped>>

\* ReadArea, WriteArea, PlcStop, ...: no call looks at Connected
Call(j) ==
  /\ pc = "idle" /\ Len(stream) <= MaxBacklog
  /\ LastError' = "ok"
  /\ job' = j /\ req' = j.fn /\ got' = <<>>
  /\ TotElements' = j.amount /\ LongStart' = j.start /\ Offset' = 0
  /\ pc' = IF j.fn \in AreaFns /\ j.amount = 0 THEN "idle" ELSE "send"
  /\ UNCHANGED <<Connected, PDULength, netVars, NumElements, recvVars, slipped>>
-----------------------------------------------------------------------------
(***************************************************************************)
(* How an exchange ends, and what the call does next.                      *)
(***************************************************************************)
\* Mutant: Connected is set by the ISO connection, before the negotiation
FinishConnectEarly(err) ==
  /\ req \in {"ISOConnect", "NegotiatePduLength"}
  /\ LastError' = err
  /\ Connected' = (err = "ok")
  /\ req' = IF err = "ok" THEN "NegotiatePduLength" ELSE req
  /\ pc'  = IF req = "ISOConnect" /\ err = "ok" THEN "send" ELSE "idle"
  /\ UNCHANGED <<loopVars, got>>

\* Connect() goes from ISOConnect to NegotiatePduLength, and sets Connected
FinishConnect(err) ==
  /\ req \in {"ISOConnect", "NegotiatePduLength"}
  /\ LastError' = err
  /\ Connected' = (req = "NegotiatePduLength" /\ err = "ok")
  /\ req' = IF err = "ok" THEN "NegotiatePduLength" ELSE req
  /\ pc'  = IF req = "ISOConnect" /\ err = "ok" THEN "send" ELSE "idle"
  /\ UNCHANGED <<loopVars, got>>

\* The loop of ReadArea and WriteArea; on an error the call returns
FinishChunk(err) ==
  /\ req \in AreaFns
  /\ LastError' = err
  /\ IF err = "ok"
     THEN /\ TotElements' = TotElements - NumElements
          /\ LongStart' = LongStart + NumElements * WordSize
          /\ Offset' = Offset + SizeRequested
          /\ got' = Append(got, [t |-> tele, off |-> Offset])
          /\ pc' = IF TotElements' > 0 THEN "send" ELSE "idle"
     ELSE pc' = "idle" /\ UNCHANGED <<TotElements, LongStart, Offset, got>>
  /\ UNCHANGED <<Connected, req, NumElements>>

FinishUnit(err) ==
  /\ req \in UnitFns
  /\ LastError' = err /\ pc' = "idle"
  /\ got' = IF err = "ok" THEN <<[t |-> tele, off |-> 0]>> ELSE got
  /\ UNCHANGED <<Connected, req, loopVars>>

Finish(err) == FinishConnect(err) \/ FinishChunk(err) \/ FinishUnit(err)
-----------------------------------------------------------------------------
(***************************************************************************)
(* One exchange: write the telegram, then RecvISOPacket.                   *)
(***************************************************************************)
\* TCPClient->write() takes the whole telegram; a dead connection may take it too
Send ==
  /\ pc = "send" /\ sock # "none"
  /\ NumElements' = Chunk
  /\ \E a \in Answers(req), pre \in {<<>>, EmptyFragment} :
       stream' = Age(stream) \o (IF sock = "up" THEN pre \o Split(a) ELSE <<>>)
  /\ LastError' = "ok" /\ pc' = "tpkt"
  /\ UNCHANGED <<Connected, PDULength, sock, avail, req, job, TotElements,
                 LongStart, Offset, recvVars, got, slipped>>

SendError ==
  CASE req = "ISOConnect"         -> "errISOConnectionFailed"
    [] req = "NegotiatePduLength" -> "errISONegotiatingPDU"
    [] OTHER                      -> "errTCPDataSend"

SendFails ==
  /\ pc = "send" /\ sock # "up"
  /\ Finish(SendError)
  /\ UNCHANGED <<PDULength, netVars, job, recvVars, slipped>>

\* flush(), and a read of n words
Drop(n) == SubSeq(stream, n + 1, Len(stream))

Discard(n) == stream' = Drop(n) /\ avail' = avail - n

Flush == Discard(IF FlushDiscards THEN avail ELSE 0)

\* Mutant: the payload is read too short
TakeOneWord(n) == avail >= n /\ Discard(1)

Take(n) == avail >= n /\ Discard(n)

TakeAndFlush(n) == avail >= n /\ Discard(IF FlushDiscards THEN avail ELSE n)

\* MinPduSize and MaxPduSize, less the 7 bytes of TPKT and COTP
FitsPDU(t) == t.len \in 9 .. 240

\* The 4 bytes at the head are a TPKT: of an empty fragment, or of an answer
RecvTPKT ==
  /\ pc = "tpkt" /\ Take(1)
  /\ Head(stream).i = 1
  /\ Head(stream).t.kind = "Empty" \/ FitsPDU(Head(stream).t)
  /\ pc' = IF Head(stream).t.kind = "Empty" THEN "skip" ELSE "cotp"
  /\ tele' = Head(stream).t /\ shifted' = FALSE
  /\ UNCHANGED <<Connected, LastError, PDULength, sock, req, job, loopVars, got, slipped>>

\* They are not, or the size they give is out of bounds
RecvBadTPKT ==
  /\ pc = "tpkt" /\ TakeAndFlush(1)
  /\ Head(stream).i = 1 => (Head(stream).t.kind # "Empty" /\ ~FitsPDU(Head(stream).t))
  /\ Finish("errISOInvalidPDU") /\ slipped' = TRUE
  /\ UNCHANGED <<PDULength, sock, job, recvVars>>

SkipEmpty ==
  /\ pc = "skip" /\ Take(1) /\ pc' = "tpkt"
  /\ UNCHANGED <<Connected, LastError, PDULength, sock, req, job, loopVars, recvVars, got, slipped>>

RecvCOTP ==
  /\ pc = "cotp" /\ Take(1) /\ pc' = "data"
  /\ UNCHANGED <<Connected, LastError, PDULength, sock, req, job, loopVars, recvVars, got, slipped>>

\* What WaitForData leaves in LastError when it gives up
TimeoutErrors == {"errTCPDataRecvTout"} \cup
                 (IF avail = 0 /\ sock = "dead" THEN {"errTCPConnectionReset"} ELSE {})

\* The result of the COTP read is not looked at: the payload is read in its place
COTPTimesOut ==
  /\ pc = "cotp" /\ avail = 0 /\ pc' = "data"
  /\ LastError' \in TimeoutErrors /\ shifted' = TRUE /\ slipped' = TRUE
  /\ UNCHANGED <<Connected, PDULength, netVars, req, job, loopVars, tele, got>>

\* Read from the COTP bytes on, the payload ends three bytes early
Needed == IF shifted THEN 3 ELSE 2

\* Mutant: the wait for the rest of an empty fragment has no timeout
TimesOutNotInSkip ==
  /\ \/ pc = "tpkt" /\ avail = 0
     \/ pc = "data" /\ avail < Needed
  /\ slipped' = TRUE
  /\ Flush
  /\ \E err \in TimeoutErrors : Finish(err)
  /\ UNCHANGED <<PDULength, sock, job, recvVars>>

TimesOut ==
  /\ \/ pc \in {"tpkt", "skip"} /\ avail = 0
     \/ pc = "data" /\ avail < Needed
  /\ slipped' = TRUE
  /\ Flush
  /\ \E err \in TimeoutErrors : Finish(err)
  /\ UNCHANGED <<PDULength, sock, job, recvVars>>
-----------------------------------------------------------------------------
(***************************************************************************)
(* The checks each caller of RecvISOPacket makes of the telegram.  None    *)
(* compares it with the request: only lengths and result codes count.      *)
(***************************************************************************)
\* H[27] and H[28] are 0: for item level refusals too, not for SZL answers
HeaderClean ==
  /\ ~shifted
  /\ tele.kind \in AreaFns \/ (tele.kind \in {"PlcStop", "PlcStart", "NegotiatePduLength"} /\ tele.ok)

ConnectVerdict ==
  IF tele.len # 15 \/ (tele.kind = "ISOConnect" /\ ~shifted) THEN "ok" ELSE "errISOInvalidPDU"

NegotiationAccepted ==
  tele.kind = "NegotiatePduLength" /\ tele.len = 20 /\ tele.ok /\ ~shifted

\* Mutant: a negotiated length of 0 is accepted
NegotiateAnyLength == IF NegotiationAccepted THEN "ok" ELSE "errISONegotiatingPDU"

NegotiateVerdict ==
  IF NegotiationAccepted /\ tele.pdu > 0 THEN "ok" ELSE "errISONegotiatingPDU"

\* Mutant: the length of the answer is not compared with the request
ReadAnyLength ==
  IF tele.kind = "ReadArea" /\ tele.ok /\ ~shifted THEN "ok" ELSE "errS7DataRead"

ReadVerdict ==
  IF tele.len < 18 THEN "errS7InvalidPDU"
  ELSE IF tele.len - 18 = SizeRequested /\ tele.kind = "ReadArea" /\ tele.ok /\ ~shifted
       THEN "ok" ELSE "errS7DataRead"

WriteVerdict ==
  IF tele.len # 15 THEN "errS7InvalidPDU"
  ELSE IF tele.kind = "WriteArea" /\ tele.ok /\ ~shifted THEN "ok" ELSE "errS7DataWrite"

ControlVerdict ==
  IF tele.len <= 12 THEN "errS7InvalidPDU" ELSE IF HeaderClean THEN "ok" ELSE "errS7Function"

\* Mutant: a refusal, which is shorter, is taken for the status
StatusAnyLength == "ok"

StatusVerdict == IF tele.len > 53 THEN "ok" ELSE "errS7InvalidPDU"

\* The three bytes GetDBSize looks at may be process data of another answer
SizeVerdicts ==
  IF tele.len <= 25 THEN {"errS7InvalidPDU"}
  ELSE IF tele.kind # "GetDBSize" \/ shifted THEN {"ok", "errS7Function"}
  ELSE {IF tele.ok THEN "ok" ELSE "errS7Function"}

Verdict(err) ==
  \/ req = "ISOConnect" /\ err = ConnectVerdict
  \/ req = "NegotiatePduLength" /\ err = NegotiateVerdict
  \/ req = "ReadArea" /\ err = ReadVerdict
  \/ req = "WriteArea" /\ err = WriteVerdict
  \/ req \in {"PlcStop", "PlcStart"} /\ err = ControlVerdict
  \/ req = "GetPlcStatus" /\ err = StatusVerdict
  \/ req = "GetDBSize" /\ err \in SizeVerdicts

RecvData ==
  /\ pc = "data" /\ avail >= Needed /\ Take(2)
  /\ PDULength' = IF req = "NegotiatePduLength" /\ NegotiationAccepted THEN tele.pdu ELSE PDULength
  /\ \E err \in Errors : Verdict(err) /\ Finish(err)
  /\ UNCHANGED <<sock, job, recvVars, slipped>>
-----------------------------------------------------------------------------
(***************************************************************************)
(* The network                                                             *)
(***************************************************************************)
Deliver ==
  /\ avail < Len(stream) /\ avail' = avail + 1
  /\ UNCHANGED <<Connected, LastError, PDULength, sock, stream, pc, req, job,
                 loopVars, recvVars, got, slipped>>

\* The cable or the PLC goes: what is not delivered yet never will be
LinkDies ==
  /\ sock = "up" /\ sock' = "dead"
  /\ stream' = SubSeq(stream, 1, avail)
  /\ UNCHANGED <<Connected, LastError, PDULength, avail, pc, req, job,
                 loopVars, recvVars, got, slipped>>
-----------------------------------------------------------------------------
Caller == ConnectAgain \/ TCPConnect \/ TCPConnectFails \/ Disconnect \/ \E j \in Jobs : Call(j)

Step == Send \/ SendFails \/ RecvTPKT \/ RecvBadTPKT \/ SkipEmpty \/ RecvCOTP
        \/ COTPTimesOut \/ TimesOut \/ RecvData

Next == Caller \/ Step \/ Deliver \/ LinkDies

Spec == Init /\ [][Next]_vars

\* The call runs on: every wait is bounded by RecvTimeout
FairSpec == Spec /\ WF_vars(Step)
-----------------------------------------------------------------------------
(***************************************************************************)
(* Properties                                                              *)
(***************************************************************************)
\* A connection no wait has timed out on holds nothing between two calls: the
\* next telegram to arrive is the answer of the next request.  Breaking it takes
\* one exchange that reads too little or writes twice, and a later call.
NoLeftovers == (pc \in {"idle", "send"} /\ ~slipped) => stream = <<>>

\* What a call accepts on such a connection was sent in answer to its own
\* request, and for ReadArea and WriteArea to the chunk being transferred: no
\* check in the code says so, it follows from the order of the stream.
OwnAnswers ==
  (~slipped /\ req \in AreaFns \cup UnitFns) =>
     \A k \in DOMAIN got :
        /\ got[k].t.cur /\ got[k].t.kind = job.fn /\ got[k].t.ok
        /\ (job.fn \in AreaFns /\ job.area = "DB") => got[k].t.addr = job.start + got[k].off

\* Connected is only true on a client that holds a socket and a PDU length the
\* PLC gave it, whatever mix of failed and repeated Connect() came before: the
\* chunk sizes are computed from that length by unsigned subtraction.
ConnectedIsUsable == Connected => sock # "none" /\ PDULength \in PduSizes \ {0}

Returns(err) == pc # "idle" /\ pc' = "idle" /\ LastError' = err

\* The chunks of g lie end to end in the caller's buffer and fill it
FillsBuffer(g, size) ==
  /\ g # <<>> /\ g[1].off = 0
  /\ \A k \in 1 .. Len(g) - 1 : g[k + 1].off = g[k].off + g[k].t.len - 18
  /\ g[Len(g)].off + g[Len(g)].t.len - 18 = size

\* ReadArea returns 0 only after the whole buffer was written, without a hole or
\* an overlap, even when answers of earlier requests were taken for its own.
ReadFillsBuffer ==
  [][Returns("ok") /\ req = "ReadArea" => FillsBuffer(got', job.amount * WordSize)]_vars

\* Every call returns: no wait is longer than RecvTimeout and no loop of
\* ReadArea, WriteArea or RecvISOPacket runs for ever.
CallsReturn == pc # "idle" ~> pc = "idle"
-----------------------------------------------------------------------------
(***************************************************************************)
(* The inductive invariant behind NoLeftovers and OwnAnswers: on a         *)
(* connection without a timeout the stream is, at each stage of the        *)
(* exchange, what is left of the one answer to the request written last    *)
(* (cut short when the connection died).                                   *)
(***************************************************************************)
LoopInv ==
  /\ req \in AreaFns \cup UnitFns => req = job.fn
  /\ (pc \notin {"idle", "send"} /\ req \in AreaFns) => NumElements <= TotElements
  /\ (pc # "idle" /\ req \in AreaFns /\ job.area = "DB") => LongStart = job.start + Offset

Own(t) ==
  /\ t.cur /\ t.kind = req
  /\ req \in AreaFns => t.addr = LongStart
  /\ (req = "GetPlcStatus" /\ t.len > 53) => t.ok

\* d words of an empty fragment, then the answer
Segment(d) ==
  /\ Len(stream) <= 4 + d
  /\ \A k \in DOMAIN stream :
       k > d => /\ Own(stream[k].t) /\ stream[k].i = k - d
                /\ stream[k].t = stream[Len(stream)].t

\* The answer tele from its word i + 1 on
Rest(i) ==
  /\ Own(tele) /\ ~shifted /\ Len(stream) <= 4 - i
  /\ \A k \in DOMAIN stream : stream[k] = [t |-> tele, i |-> k + i]

StreamInv ==
  ~slipped =>
     /\ pc \in {"idle", "send"} => stream = <<>>
     /\ pc = "tpkt" => \/ Segment(0)
                       \/ /\ Segment(2)
                          /\ stream # <<>> => stream[1].i = 1 /\ stream[1].t.kind = "Empty"
     /\ pc = "skip" => Segment(1)
     /\ pc = "cotp" => Rest(1)
     /\ pc = "data" => Rest(2)

NegotiationInv ==
  /\ \A k \in DOMAIN stream : stream[k].t.pdu \in PduSizes \cup {0}
  /\ tele.pdu \in PduSizes \cup {0}
  /\ pc \notin {"idle", "send"} => sock # "none"
  /\ (pc # "idle" /\ req \in {"ISOConnect", "NegotiatePduLength"}) => ~Connected

IInv == TypeOK /\ LoopInv /\ StreamInv /\ NegotiationInv /\ OwnAnswers /\ ConnectedIsUsable
-----------------------------------------------------------------------------
\* The client as its caller sees it
Promise == INSTANCE S7Service WITH
  connected <- Connected,
  phase     <- IF pc = "idle" THEN "idle"
               ELSE IF req \in {"ISOConnect", "NegotiatePduLength"} THEN "opening" ELSE "busy",
  result    <- IF LastError = "ok" THEN "ok"
               ELSE IF LastError \in SevereErrors THEN "severe" ELSE "s7",
  trusted   <- ~slipped,
  served    <- \A k \in DOMAIN got : got[k].t.cur

\* The client keeps the promise of S7Service: its calls end in a result, and as
\* long as no wait timed out on the connection every answer taken is its own.
Implements == Promise!ServiceSpec
=============================================================================
