--------------------------- MODULE S7Client_proof ---------------------------
(***************************************************************************)
(* Proofs about S7Client, for every set of calls, of PDU lengths, and for  *)
(* each behaviour of the Ethernet library.                                 *)
(***************************************************************************)
EXTENDS S7Client, SequenceTheorems, TLAPS

(***************************************************************************)
(* Lemmas on the operators of the model.                                   *)
(***************************************************************************)
\* Dropping n words of the stream (a read, or flush()) leaves the others in order.
LEMMA DropProps ==
  ASSUME stream \in Seq(Words), NEW n \in 0 .. Len(stream)
  PROVE  /\ Drop(n) \in Seq(Words)
         /\ Len(Drop(n)) = Len(stream) - n
         /\ \A k \in 1 .. Len(Drop(n)) : k + n \in 1 .. Len(stream) /\ Drop(n)[k] = stream[k + n]
<1>1. Len(stream) \in Nat /\ \A k \in n + 1 .. Len(stream) : stream[k] \in Words
  OBVIOUS
<1>2. /\ Drop(n) \in Seq(Words)
      /\ Len(Drop(n)) = IF n + 1 <= Len(stream) THEN Len(stream) - (n + 1) + 1 ELSE 0
      /\ \A k \in 1 .. Len(stream) - (n + 1) + 1 : Drop(n)[k] = stream[n + 1 + k - 1]
  BY <1>1, SubSeqProperties DEF Drop
<1>3. QED  BY <1>1, <1>2

\* Writing a new request only marks the words of earlier answers as such.
LEMMA AgeProps ==
  ASSUME stream \in Seq(Words)
  PROVE  /\ Age(stream) \in Seq(Words) /\ Len(Age(stream)) = Len(stream)
         /\ \A k \in 1 .. Len(stream) : Age(stream)[k].t.pdu = stream[k].t.pdu
<1>1. ASSUME NEW t \in Telegrams  PROVE Stale(t) \in Telegrams /\ Stale(t).pdu = t.pdu
  BY DEF Stale, Telegrams
<1>2. ASSUME NEW k \in 1 .. Len(stream)
      PROVE  stream[k].t \in Telegrams /\ [t |-> Stale(stream[k].t), i |-> stream[k].i] \in Words
  <2>1. stream[k] \in Words  OBVIOUS
  <2>2. stream[k].t \in Telegrams /\ stream[k].i \in 1 .. 4  BY <2>1 DEF Words
  <2>3. QED  BY <1>1, <2>2 DEF Words
<1>3. Age(stream) = [k \in 1 .. Len(stream) |-> [t |-> Stale(stream[k].t), i |-> stream[k].i]]
  BY DEF Age
<1>4. Age(stream) \in Seq(Words) /\ Len(Age(stream)) = Len(stream)
  BY <1>2, <1>3
<1>5. QED  BY <1>1, <1>2, <1>3, <1>4

LEMMA ChunkType ==
  ASSUME PDULength \in U16, TotElements \in U16
  PROVE  WordSize \in {1, 2} /\ MaxElements \in U16 /\ Chunk \in U16 /\ Chunk <= TotElements
<1>1. WordSize \in {1, 2}  BY DEF WordSize
<1>2. HeaderSize \in {18, 35}  BY DEF HeaderSize
<1>3. MaxElements \in U16
  <2> DEFINE room == PDULength - HeaderSize
             less == (- room) \div WordSize
  <2>1. room \in Int /\ room <= PDULength /\ room >= -35  BY <1>2, WidthAssumption DEF U16
  <2>2. room >= 0 => room \div WordSize \in 0 .. room  BY <1>1, <2>1
  <2>3. room < 0 => less \in 0 .. 35  BY <1>1, <2>1
  <2> HIDE DEF room
  <2>4. QED  BY <2>1, <2>2, <2>3, WidthAssumption DEF MaxElements, U16, room
<1>4. QED  BY <1>1, <1>3, WidthAssumption DEF Chunk, U16

\* Every answer of the PLC is a telegram marked as answering the request just
\* written, for the chunk being transferred.
LEMMA AnswersProps ==
  ASSUME NEW r \in Requests, LongStart \in Nat, Chunk \in U16, WordSize \in {1, 2},
         NEW a \in Answers(r)
  PROVE  /\ a \in Telegrams /\ a.cur /\ a.kind = r /\ a.addr = LongStart
         /\ a.pdu \in PduSizes \cup {0}
         /\ (r = "GetPlcStatus" /\ a.len > 53) => a.ok
<1>1. PICK ok \in BOOLEAN, p \in PduSizes :
        \E len \in AnswerLengths(r, ok) :
          a = Tele(r, len, ok, IF r = "NegotiatePduLength" THEN p ELSE 0)
  BY DEF Answers
<1>2. PICK len \in AnswerLengths(r, ok) : a = Tele(r, len, ok, IF r = "NegotiatePduLength" THEN p ELSE 0)
  BY <1>1
<1>3. Counted * WordSize \in Nat /\ 0 \in U16
  <2>1. Counted \in Nat /\ 0 \in U16  BY WidthAssumption DEF U16, Counted
  <2>2. QED  BY <2>1
<1>4. len \in Nat /\ (r = "GetPlcStatus" /\ ok = FALSE => len = 26)
  BY <1>2, <1>3 DEF AnswerLengths
<1>5. p \in U16  BY PduAssumption, WidthAssumption DEF U16
<1>6. /\ a \in Telegrams /\ a.cur /\ a.kind = r /\ a.addr = LongStart
      /\ a.pdu \in PduSizes \cup {0} /\ a.len = len /\ a.ok = ok
  BY <1>2, <1>3, <1>4, <1>5, Zenon DEF Tele, Telegrams
<1>7. (r = "GetPlcStatus" /\ a.len > 53) => ok
  <2>1. SUFFICES ASSUME r = "GetPlcStatus", ok = FALSE  PROVE ~(a.len > 53)
    BY Zenon
  <2>2. a.len = 26  BY <1>4, <1>6, <2>1, Zenon
  <2>3. QED  BY <2>2
<1>8. QED  BY <1>6, <1>7

(***************************************************************************)
(* Types and counters.                                                     *)
(***************************************************************************)
Chunks == [t : Telegrams, off : Nat]

\* However an exchange ends, the call's variables keep their types and the
\* counters of ReadArea and WriteArea stay in step.
LEMMA FinishKeeps ==
  ASSUME TypeOK, LoopInv, NEW err \in Errors, Finish(err), job' = job,
         pc # "idle", err = "ok" => pc = "data"
  PROVE  /\ Connected' \in BOOLEAN /\ LastError' \in Errors
         /\ pc' \in {"idle", "send"} /\ req' \in Requests
         /\ TotElements' \in U16 /\ NumElements' \in U16
         /\ LongStart' \in Nat /\ Offset' \in Nat
         /\ got' \in Seq(Chunks)
         /\ LoopInv'
<1>1. WordSize \in {1, 2} /\ (job.area = "DB" => WordSize = 1)
  BY DEF WordSize
<1> /\ tele \in Telegrams /\ got \in Seq(Chunks)
    /\ TotElements \in U16 /\ NumElements \in U16 /\ LongStart \in Nat /\ Offset \in Nat
  BY Zenon DEF TypeOK, Chunks
<1>2. CASE FinishConnect(err)
  BY <1>2, Zenon DEF FinishConnect, TypeOK, LoopInv, loopVars, Requests, AreaFns, UnitFns, Chunks
<1>3. CASE FinishUnit(err)
  <2>1. [t |-> tele, off |-> 0] \in Chunks  BY DEF Chunks
  <2>2. got' \in Seq(Chunks)  BY <1>3, <2>1 DEF FinishUnit
  <2>3. QED  BY <1>3, <2>2, Zenon DEF FinishUnit, TypeOK, LoopInv, loopVars, Requests, AreaFns, UnitFns
<1>4. CASE FinishChunk(err)
  <2>1. CASE err = "ok"
    <3>1. NumElements <= TotElements
      BY <1>4, <2>1 DEF FinishChunk, LoopInv
    <3>2. NumElements * WordSize \in Nat /\ (WordSize = 1 => NumElements * WordSize = NumElements)
      BY <1>1, <3>1 DEF U16
    <3>3. SizeRequested \in Nat /\ (WordSize = 1 => SizeRequested = NumElements)
      BY <3>1, <3>2, WidthAssumption DEF SizeRequested, U16
    <3>4. [t |-> tele, off |-> Offset] \in Chunks  BY DEF Chunks
    <3>5. got' = Append(got, [t |-> tele, off |-> Offset])  BY <1>4, <2>1 DEF FinishChunk
    <3>. HIDE DEF SizeRequested
    <3>6. TotElements' \in U16 /\ LongStart' \in Nat /\ Offset' \in Nat
      <4>1. /\ TotElements' = TotElements - NumElements
            /\ LongStart' = LongStart + NumElements * WordSize
            /\ Offset' = Offset + SizeRequested
        BY <1>4, <2>1 DEF FinishChunk
      <4>2. TotElements' \in U16  BY <3>1, <4>1, WidthAssumption DEF U16
      <4>3. QED  BY <3>2, <3>3, <4>1, <4>2
    <3>7. job.area = "DB" => (LongStart = job.start + Offset => LongStart' = job.start + Offset')
      <4>1. job.start \in Nat  BY JobsAssumption DEF NoJob, TypeOK
      <4>2. QED  BY <1>1, <1>4, <2>1, <3>2, <3>3, <4>1 DEF FinishChunk
    <3>8. pc' \in {"idle", "send"}  BY <1>4, <2>1, Zenon DEF FinishChunk
    <3>9. LoopInv'
      BY <1>4, <3>7, <3>8, Zenon DEF FinishChunk, LoopInv
    <3>10. got' \in Seq(Chunks)  BY <3>4, <3>5, AppendProperties
    <3>11. QED  BY <1>4, <3>6, <3>8, <3>9, <3>10, Zenon DEF FinishChunk, TypeOK
  <2>2. CASE err # "ok"
    BY <1>4, <2>2, Zenon DEF FinishChunk, TypeOK, LoopInv, Chunks
  <2>3. QED  BY <2>1, <2>2
<1>5. QED  BY <1>2, <1>3, <1>4 DEF Finish

\* A read or a flush takes words from the front; what is left is still a stream.
LEMMA DiscardType ==
  ASSUME TypeOK, NEW n \in 0 .. avail, Discard(n)
  PROVE  /\ stream' \in Seq(Words) /\ avail' \in 0 .. Len(stream')
         /\ Len(stream') = Len(stream) - n
         /\ \A k \in 1 .. Len(stream') : k + n \in 1 .. Len(stream) /\ stream'[k] = stream[k + n]
<1>1. stream \in Seq(Words) /\ avail \in 0 .. Len(stream) /\ Len(stream) \in Nat
  BY DEF TypeOK
<1>2. n \in 0 .. Len(stream)  BY <1>1
<1>3. /\ Drop(n) \in Seq(Words) /\ Len(Drop(n)) = Len(stream) - n
      /\ \A k \in 1 .. Len(Drop(n)) : k + n \in 1 .. Len(stream) /\ Drop(n)[k] = stream[k + n]
  BY <1>1, <1>2, DropProps
<1>4. stream' = Drop(n) /\ avail' = avail - n  BY DEF Discard
<1>5. QED  BY <1>1, <1>3, <1>4

LEMMA FlushType ==
  ASSUME TypeOK, Flush \/ TakeAndFlush(1)
  PROVE  \E n \in 0 .. avail : Discard(n)
<1>1. avail \in Nat  BY DEF TypeOK
<1>2. CASE Flush
  BY <1>1, <1>2, SocketAssumption DEF Flush
<1>3. CASE TakeAndFlush(1)
  BY <1>1, <1>3, SocketAssumption DEF TakeAndFlush
<1>4. QED  BY <1>2, <1>3

LEMMA TakeType ==
  ASSUME TypeOK, NEW n \in {1, 2}, Take(n)
  PROVE  n \in 0 .. avail /\ Discard(n)
BY DEF Take, TypeOK

LEMMA ErrorTypes ==
  SendError \in Errors \ {"ok"} /\ TimeoutErrors \subseteq Errors \ {"ok"}
<1>1. SendError \in Errors \ {"ok"}
  BY Zenon DEF SendError, Errors, SevereErrors, S7Errors
<1>2. TimeoutErrors \subseteq Errors \ {"ok"}
  BY DEF TimeoutErrors, Errors, SevereErrors, S7Errors
<1>3. QED  BY <1>1, <1>2

\* r is the m words of s, then the l words of u
Joined(r, s, m, u, l) ==
  /\ r \in Seq(Words) /\ Len(r) = m + l
  /\ \A k \in 1 .. m : r[k] = s[k]
  /\ \A k \in m + 1 .. m + l : r[k] = u[k - m]

\* Concatenation, index by index, with the lengths named.
LEMMA ConcatWords ==
  ASSUME NEW s \in Seq(Words), NEW u \in Seq(Words), NEW m \in Nat, NEW l \in Nat,
         Len(s) = m, Len(u) = l
  PROVE  Joined(s \o u, s, m, u, l)
<1>1. /\ s \o u \in Seq(Words) /\ Len(s \o u) = Len(s) + Len(u)
      /\ \A i \in 1 .. Len(s) + Len(u) : (s \o u)[i] = IF i <= Len(s) THEN s[i] ELSE u[i - Len(s)]
  BY ConcatProperties
<1>2. QED  BY <1>1 DEF Joined

\* A new request leaves the unread words where they are, marked as answers to
\* earlier requests, and appends its own answer.
LEMMA SendStream ==
  ASSUME TypeOK, Send
  PROVE  /\ stream' \in Seq(Words) /\ Len(stream') >= Len(stream)
         /\ sock # "up" => Len(stream') = Len(stream)
         /\ \E a \in Answers(req), d \in {0, 2} :
              /\ Len(stream') <= Len(stream) + d + 4
              /\ \A k \in 1 .. Len(stream) : stream'[k].t.pdu = stream[k].t.pdu
              /\ \A k \in Len(stream) + 1 .. Len(stream') :
                   stream'[k] = IF k <= Len(stream) + d
                                THEN [t |-> NoTele, i |-> k - Len(stream)]
                                ELSE [t |-> a, i |-> k - Len(stream) - d]
<1> DEFINE n == Len(stream)
<1>1. stream \in Seq(Words) /\ n \in Nat  BY DEF TypeOK
<1>2. /\ Age(stream) \in Seq(Words) /\ Len(Age(stream)) = n
      /\ \A k \in 1 .. n : Age(stream)[k].t.pdu = stream[k].t.pdu
  BY <1>1, AgeProps
<1>3. PICK a \in Answers(req), pre \in {<<>>, EmptyFragment} :
         stream' = Age(stream) \o (IF sock = "up" THEN pre \o Split(a) ELSE <<>>)
  BY DEF Send
<1>4. a \in Telegrams
  BY ChunkType, AnswersProps DEF TypeOK
<1>5. Split(a) \in Seq(Words) /\ Len(Split(a)) = 4 /\ \A k \in 1 .. 4 : Split(a)[k] = [t |-> a, i |-> k]
  BY <1>4 DEF Split, Words
<1>6. NoTele \in Telegrams
  BY WidthAssumption DEF NoTele, Telegrams, U16
<1>7. /\ EmptyFragment \in Seq(Words) /\ Len(EmptyFragment) = 2
      /\ \A k \in 1 .. 2 : EmptyFragment[k] = [t |-> NoTele, i |-> k]
  BY <1>6 DEF EmptyFragment, Words
<1>8. CASE sock # "up"
  <2>1. stream' = Age(stream)  BY <1>2, <1>3, <1>8, ConcatEmptySeq
  <2>2. QED  BY <1>1, <1>2, <2>1
<1>9. CASE sock = "up" /\ pre = <<>>
  <2>1. stream' = Age(stream) \o Split(a)  BY <1>3, <1>5, <1>9, ConcatEmptySeq
  <2>2. /\ stream' \in Seq(Words) /\ Len(stream') = n + 4
        /\ \A k \in 1 .. n : stream'[k] = Age(stream)[k]
        /\ \A k \in n + 1 .. n + 4 : stream'[k] = Split(a)[k - n]
    <3>1. Joined(Age(stream) \o Split(a), Age(stream), n, Split(a), 4)
      BY <1>1, <1>2, <1>5, 4 \in Nat, ConcatWords, Zenon
    <3>2. QED  BY <2>1, <3>1 DEF Joined
  <2>3. \A k \in n + 1 .. n + 4 : stream'[k] = [t |-> a, i |-> k - n - 0]
    BY <1>1, <1>5, <2>2
  <2>4. \A k \in 1 .. n : stream'[k].t.pdu = stream[k].t.pdu
    BY <1>1, <1>2, <2>2
  <2>5. QED  BY <1>1, <1>9, <2>2, <2>3, <2>4
<1>10. CASE sock = "up" /\ pre = EmptyFragment
  <2> DEFINE ans == EmptyFragment \o Split(a)
  <2>1. /\ ans \in Seq(Words) /\ Len(ans) = 6
        /\ \A k \in 1 .. 2 : ans[k] = EmptyFragment[k]
        /\ \A k \in 3 .. 6 : ans[k] = Split(a)[k - 2]
    <3>1. Joined(ans, EmptyFragment, 2, Split(a), 4)
      BY <1>5, <1>7, 2 \in Nat, 4 \in Nat, ConcatWords, Zenon
    <3>2. QED  BY <3>1 DEF Joined
  <2>2. \A k \in 1 .. 6 : ans[k] = IF k <= 2 THEN [t |-> NoTele, i |-> k] ELSE [t |-> a, i |-> k - 2]
    BY <1>5, <1>7, <2>1
  <2>3. stream' = Age(stream) \o ans  BY <1>3, <1>10
  <2> HIDE DEF ans
  <2>4. /\ stream' \in Seq(Words) /\ Len(stream') = n + 6
        /\ \A k \in 1 .. n : stream'[k] = Age(stream)[k]
        /\ \A k \in n + 1 .. n + 6 : stream'[k] = ans[k - n]
    <3>1. Joined(Age(stream) \o ans, Age(stream), n, ans, 6)
      BY <1>1, <1>2, <2>1, 6 \in Nat, ConcatWords, Zenon
    <3>2. QED  BY <2>3, <3>1 DEF Joined
  <2>5. \A k \in n + 1 .. n + 6 :
           stream'[k] = IF k <= n + 2 THEN [t |-> NoTele, i |-> k - n] ELSE [t |-> a, i |-> k - n - 2]
    BY <1>1, <2>2, <2>4
  <2>6. \A k \in 1 .. n : stream'[k].t.pdu = stream[k].t.pdu
    BY <1>1, <1>2, <2>4
  <2>7. QED  BY <1>1, <1>10, <2>4, <2>5, <2>6
<1>11. QED  BY <1>8, <1>9, <1>10

(***************************************************************************)
(* Type correctness.                                                       *)
(***************************************************************************)
LEMMA Nothing == <<>> \in Seq(Words) /\ <<>> \in Seq(Chunks) /\ 0 \in 0 .. Len(<<>>)
OBVIOUS

LEMMA TypeStep ==
  ASSUME TypeOK, LoopInv, Next  PROVE TypeOK' /\ LoopInv'
<1>1. CASE ConnectAgain
  BY <1>1, Zenon DEF ConnectAgain, TypeOK, LoopInv, netVars, loopVars, recvVars, Errors
<1>2. CASE TCPConnect
  BY <1>2, Nothing, Zenon DEF TCPConnect, TypeOK, LoopInv, loopVars, recvVars, Errors, Requests, AreaFns, UnitFns, Chunks
<1>3. CASE TCPConnectFails
  <2>1. sock' \in {"none", "up", "dead"} /\ LastError' \in Errors
    BY <1>3 DEF TCPConnectFails, TypeOK, Errors, SevereErrors
  <2>2. stream' \in Seq(Words) /\ avail' \in 0 .. Len(stream')
    BY <1>3, Nothing, Zenon DEF TCPConnectFails, TypeOK
  <2>3. QED  BY <1>3, <2>1, <2>2, Zenon DEF TCPConnectFails, TypeOK, LoopInv, loopVars, recvVars
<1>4. CASE Disconnect
  <2>1. 0 \in U16  BY WidthAssumption DEF U16
  <2>2. QED
    BY <1>4, <2>1, Nothing, Zenon DEF Disconnect, TypeOK, LoopInv, loopVars, recvVars, Errors
<1>5. ASSUME NEW j \in Jobs, Call(j)  PROVE TypeOK' /\ LoopInv'
  BY <1>5, JobsAssumption DEF Call, TypeOK, LoopInv, netVars, recvVars, Errors, Requests
<1>6. CASE Send
  <2>1. /\ stream' \in Seq(Words) /\ Len(stream') >= Len(stream) /\ Len(stream) \in Nat /\ Len(stream') \in Nat
    BY <1>6, SendStream DEF TypeOK
  <2>2. avail' \in 0 .. Len(stream')  BY <1>6, <2>1 DEF Send, TypeOK
  <2>3. NumElements' \in U16 /\ NumElements' <= TotElements  BY <1>6, ChunkType DEF Send, TypeOK
  <2>4. QED  BY <1>6, <2>1, <2>2, <2>3, Zenon DEF Send, TypeOK, LoopInv, recvVars, Errors
<1>7. CASE SendFails
  <2>1. Finish(SendError) /\ job' = job /\ pc # "idle"  BY <1>7 DEF SendFails
  <2>2. QED
    BY <1>7, <2>1, FinishKeeps, ErrorTypes, Zenon DEF SendFails, TypeOK, netVars, recvVars, Chunks
<1>8. CASE RecvTPKT
  <2>1. 1 \in 0 .. avail /\ Discard(1)  BY <1>8, TakeType DEF RecvTPKT
  <2>2. stream' \in Seq(Words) /\ avail' \in 0 .. Len(stream')  BY <2>1, DiscardType
  <2>3. Head(stream).t \in Telegrams
    <3>1. stream \in Seq(Words) /\ Len(stream) \in Nat \ {0}  BY <1>8 DEF RecvTPKT, Take, TypeOK
    <3>2. Head(stream) \in Words  BY <3>1
    <3>3. QED  BY <3>2 DEF Words
  <2>4. QED  BY <1>8, <2>2, <2>3, Zenon DEF RecvTPKT, TypeOK, LoopInv, loopVars
<1>9. CASE RecvBadTPKT
  <2>1. Finish("errISOInvalidPDU") /\ job' = job /\ pc # "idle" /\ TakeAndFlush(1)
    BY <1>9 DEF RecvBadTPKT
  <2>2. stream' \in Seq(Words) /\ avail' \in 0 .. Len(stream')  BY <2>1, FlushType, DiscardType
  <2>3. "errISOInvalidPDU" \in Errors  BY DEF Errors, SevereErrors
  <2>4. QED
    BY <1>9, <2>1, <2>2, <2>3, FinishKeeps, Zenon DEF RecvBadTPKT, TypeOK, recvVars, Chunks
<1>10. CASE SkipEmpty \/ RecvCOTP
  <2>1. 1 \in 0 .. avail /\ Discard(1)  BY <1>10, TakeType DEF SkipEmpty, RecvCOTP
  <2>2. stream' \in Seq(Words) /\ avail' \in 0 .. Len(stream')  BY <2>1, DiscardType
  <2>3. QED  BY <1>10, <2>2, Zenon DEF SkipEmpty, RecvCOTP, TypeOK, LoopInv, loopVars, recvVars
<1>11. CASE COTPTimesOut
  BY <1>11, ErrorTypes, Zenon DEF COTPTimesOut, TypeOK, LoopInv, netVars, loopVars
<1>12. CASE TimesOut
  <2>1. PICK err \in TimeoutErrors : Finish(err)  BY <1>12 DEF TimesOut
  <2>2. job' = job /\ pc # "idle" /\ Flush  BY <1>12 DEF TimesOut
  <2>3. stream' \in Seq(Words) /\ avail' \in 0 .. Len(stream')  BY <2>2, FlushType, DiscardType
  <2>4. QED
    BY <1>12, <2>1, <2>2, <2>3, ErrorTypes, FinishKeeps, Zenon DEF TimesOut, TypeOK, recvVars, Chunks
<1>13. CASE RecvData
  <2>1. PICK err \in Errors : Finish(err)  BY <1>13 DEF RecvData
  <2>2. job' = job /\ pc = "data" /\ 2 \in 0 .. avail /\ Discard(2)  BY <1>13, TakeType DEF RecvData
  <2>3. stream' \in Seq(Words) /\ avail' \in 0 .. Len(stream')  BY <2>2, DiscardType
  <2>4. PDULength' \in U16
    <3>1. tele.pdu \in U16  BY DEF TypeOK, Telegrams
    <3>2. QED  BY <1>13, <3>1 DEF RecvData, TypeOK
  <2>5. QED
    BY <1>13, <2>1, <2>2, <2>3, <2>4, FinishKeeps, Zenon DEF RecvData, TypeOK, recvVars, Chunks
<1>14. CASE Deliver
  BY <1>14 DEF Deliver, TypeOK, LoopInv, loopVars, recvVars
<1>15. CASE LinkDies
  <2>1. SubSeq(stream, 1, avail) \in Seq(Words) /\ Len(SubSeq(stream, 1, avail)) = avail
    BY SubSeqProperties DEF TypeOK
  <2>2. avail \in 0 .. avail  BY DEF TypeOK
  <2>3. QED  BY <1>15, <2>1, <2>2, Zenon DEF LinkDies, TypeOK, LoopInv, loopVars, recvVars
<1>16. QED
  BY <1>1, <1>2, <1>3, <1>4, <1>5, <1>6, <1>7, <1>8, <1>9, <1>10, <1>11, <1>12, <1>13, <1>14, <1>15
     DEF Next, Caller, Step

LEMMA TypeInit == Init => TypeOK /\ LoopInv
<1>1. NoTele \in Telegrams /\ 0 \in U16 /\ 0 \in Nat
  BY WidthAssumption DEF NoTele, Telegrams, U16
<1>2. QED
  BY <1>1, Nothing, Zenon DEF Init, TypeOK, LoopInv, Errors, Requests, AreaFns, UnitFns, Chunks

\* Every variable of the client keeps its type: in particular the uint16_t
\* counters of ReadArea and WriteArea never pass below zero.
THEOREM TypeCorrect == Spec => []TypeOK
<1>1. TypeOK /\ LoopInv /\ [Next]_vars => TypeOK' /\ LoopInv'
  <2>1. ASSUME TypeOK, LoopInv, UNCHANGED vars  PROVE TypeOK' /\ LoopInv'
    BY <2>1, ZenonT(30) DEF vars, TypeOK, LoopInv, netVars, loopVars, recvVars
  <2>2. QED  BY <2>1, TypeStep
<1>2. QED  BY <1>1, TypeInit, PTL DEF Spec

(***************************************************************************)
(* The stream: on a connection no wait timed out on, the words not read    *)
(* yet are what is left of the one answer to the request written last.     *)
(***************************************************************************)
\* Reading one word of a segment leaves the segment that starts a word later.
LEMMA SegmentTake ==
  ASSUME TypeOK, NEW d \in {1, 2}, Segment(d), Discard(1), 1 \in 0 .. avail,
         UNCHANGED <<req, LongStart>>
  PROVE  Segment(d - 1)'
<1>1. /\ stream' \in Seq(Words) /\ Len(stream') = Len(stream) - 1
      /\ \A k \in 1 .. Len(stream') : k + 1 \in 1 .. Len(stream) /\ stream'[k] = stream[k + 1]
  BY DiscardType
<1>2. Len(stream) \in Nat /\ Len(stream') \in Nat /\ stream \in Seq(Words)  BY <1>1 DEF TypeOK
<1>3. Len(stream') <= 4 + (d - 1)  BY <1>1, <1>2 DEF Segment
<1>4. ASSUME NEW k \in 1 .. Len(stream'), k > d - 1
      PROVE  /\ Own(stream[k].t)' /\ stream'[k].i = k - (d - 1)
             /\ stream'[k].t = stream'[Len(stream')].t
  <2>1. k + 1 \in 1 .. Len(stream) /\ k + 1 > d /\ stream'[k] = stream[k + 1]
    BY <1>1, <1>2, <1>4
  <2>2. stream'[Len(stream')] = stream[Len(stream)]
    BY <1>1, <1>2, <1>4
  <2>3. /\ Own(stream[k + 1].t) /\ stream[k + 1].i = (k + 1) - d
        /\ stream[k + 1].t = stream[Len(stream)].t
    BY <1>2, <2>1 DEF Segment
  <2>4. Own(stream[k].t)'  BY <2>1, <2>3 DEF Own
  <2>5. QED  BY <2>1, <2>2, <2>3, <2>4
<1>5. DOMAIN stream' = 1 .. Len(stream')  BY <1>1
<1>6. QED  BY <1>3, <1>4, <1>5, Zenon DEF Segment

\* A connection that dies cuts the stream short, it does not reorder it.
LEMMA CutKeeps ==
  ASSUME TypeOK, LinkDies
  PROVE  /\ Len(stream') \in Nat /\ Len(stream') <= Len(stream)
         /\ \A k \in 1 .. Len(stream') : k \in 1 .. Len(stream) /\ stream'[k] = stream[k]
         /\ stream' \in Seq(Words)
<1>1. avail \in 0 .. Len(stream) /\ stream \in Seq(Words)  BY DEF TypeOK
<1>2. /\ SubSeq(stream, 1, avail) \in Seq(Words) /\ Len(SubSeq(stream, 1, avail)) = avail
      /\ \A k \in 1 .. avail : SubSeq(stream, 1, avail)[k] = stream[k]
  BY <1>1, SubSeqProperties
<1>3. QED  BY <1>1, <1>2 DEF LinkDies

LEMMA StreamStep ==
  ASSUME TypeOK, LoopInv, StreamInv, Next, ~slipped'  PROVE StreamInv'
<1>0. stream \in Seq(Words) /\ Len(stream) \in Nat /\ avail \in 0 .. Len(stream)
  BY DEF TypeOK
<1>a. (pc' \in {"idle", "send"} /\ stream' = <<>>) => StreamInv'
  BY Zenon DEF StreamInv
<1>b. (~slipped /\ pc \in {"idle", "send"}) => stream = <<>>
  BY Zenon DEF StreamInv
<1>c. ASSUME NEW err \in Errors, Finish(err), job' = job, pc # "idle", err = "ok" => pc = "data"
      PROVE  pc' \in {"idle", "send"}
  BY <1>c, FinishKeeps
<1>1. CASE ConnectAgain
  BY <1>1, <1>a, <1>b DEF ConnectAgain, netVars
<1>2. CASE TCPConnect
  BY <1>2, <1>a DEF TCPConnect
<1>3. CASE TCPConnectFails
  BY <1>3, <1>a, <1>b DEF TCPConnectFails
<1>4. CASE Disconnect
  BY <1>4, <1>a DEF Disconnect
<1>5. ASSUME NEW j \in Jobs, Call(j)  PROVE StreamInv'
  BY <1>5, <1>a, <1>b DEF Call, netVars
<1>6. CASE Send
  <2>1. stream = <<>> /\ Len(stream) = 0  BY <1>6, <1>b DEF Send
  <2>2. PICK a \in Answers(req), d \in {0, 2} :
              /\ Len(stream') <= Len(stream) + d + 4
              /\ \A k \in Len(stream) + 1 .. Len(stream') :
                   stream'[k] = IF k <= Len(stream) + d
                                THEN [t |-> NoTele, i |-> k - Len(stream)]
                                ELSE [t |-> a, i |-> k - Len(stream) - d]
    BY <1>6, SendStream
  <2>3. stream' \in Seq(Words) /\ Len(stream') \in Nat
    BY <1>6, SendStream
  <2>4. Own(a)'
    <3>1. a.cur /\ a.kind = req /\ a.addr = LongStart /\ ((req = "GetPlcStatus" /\ a.len > 53) => a.ok)
      BY ChunkType, AnswersProps DEF TypeOK
    <3>2. req' = req /\ LongStart' = LongStart  BY <1>6 DEF Send
    <3>3. QED  BY <3>1, <3>2, Zenon DEF Own
  <2>5. Len(stream') <= 4 + d  BY <2>1, <2>2, <2>3
  <2>6. ASSUME NEW k \in 1 .. Len(stream'), k > d
        PROVE  stream'[k].t = a /\ stream'[k].i = k - d
    <3>1. k \in Len(stream) + 1 .. Len(stream') /\ ~(k <= Len(stream) + d) /\ k - Len(stream) - d = k - d
      BY <2>1, <2>3, <2>6
    <3>2. stream'[k] = [t |-> a, i |-> k - d]  BY <2>2, <3>1, Zenon
    <3>3. QED  BY <3>2
  <2>7. Segment(d)'
    <3>1. ASSUME NEW k \in 1 .. Len(stream'), k > d
          PROVE  /\ Own(stream[k].t)' /\ stream'[k].i = k - d
                 /\ stream'[k].t = stream'[Len(stream')].t
      <4>1. stream'[k].t = a /\ stream'[k].i = k - d  BY <2>6, <3>1
      <4>2. Len(stream') \in 1 .. Len(stream') /\ Len(stream') > d  BY <2>3, <3>1
      <4>3. stream'[Len(stream')].t = a  BY <2>6, <4>2
      <4>4. Own(stream[k].t)'  BY <2>4, <4>1 DEF Own
      <4>5. QED  BY <4>1, <4>3, <4>4
    <3>2. QED  BY <2>3, <2>5, <3>1 DEF Segment
  <2>8. d = 2 => (stream' # <<>> => stream'[1].i = 1 /\ stream'[1].t.kind = "Empty")
    <3>1. ASSUME d = 2, stream' # <<>>  PROVE stream'[1] = [t |-> NoTele, i |-> 1]
      <4>1. 1 \in Len(stream) + 1 .. Len(stream') /\ 1 <= Len(stream) + d /\ 1 - Len(stream) = 1
        BY <2>1, <2>3, <3>1
      <4>2. QED  BY <2>2, <4>1, Zenon
    <3>2. QED  BY <3>1 DEF NoTele
  <2>9. pc' = "tpkt"  BY <1>6 DEF Send
  <2>10. QED  BY <2>7, <2>8, <2>9, Zenon DEF StreamInv
<1>7. CASE SendFails
  <2>1. pc' \in {"idle", "send"}  BY <1>7, <1>c, ErrorTypes DEF SendFails
  <2>2. QED  BY <1>7, <1>a, <1>b, <2>1 DEF SendFails, netVars
<1>8. CASE RecvTPKT
  <2>1. 1 \in 0 .. avail /\ Discard(1)  BY <1>8, TakeType DEF RecvTPKT
  <2>2. /\ stream' \in Seq(Words) /\ Len(stream') = Len(stream) - 1
        /\ \A k \in 1 .. Len(stream') : k + 1 \in 1 .. Len(stream) /\ stream'[k] = stream[k + 1]
    BY <2>1, DiscardType
  <2>3. /\ 1 \in 1 .. Len(stream) /\ Head(stream) = stream[1] /\ stream # <<>>
    BY <1>0, <2>1
  <2>4. ~slipped /\ req' = req /\ LongStart' = LongStart /\ tele' = stream[1].t /\ ~shifted'
        /\ pc' = IF stream[1].t.kind = "Empty" THEN "skip" ELSE "cotp"
    BY <1>8, <2>3 DEF RecvTPKT, loopVars
  <2>5. CASE Segment(0)
    <3>1. Own(stream[1].t)  BY <2>3, <2>5 DEF Segment
    <3>2. pc' = "cotp"
      BY <2>4, <3>1 DEF Own, TypeOK, Requests, AreaFns, UnitFns
    <3>3. Own(tele)'  BY <2>4, <3>1 DEF Own
    <3>4. Len(stream') <= 4 - 1  BY <1>0, <2>2, <2>5 DEF Segment
    <3>5. ASSUME NEW k \in 1 .. Len(stream')  PROVE stream'[k] = [t |-> tele', i |-> k + 1]
      <4>1. k + 1 \in 1 .. Len(stream) /\ k \in Nat /\ stream'[k] = stream[k + 1]
        BY <1>0, <2>2
      <4>2. stream[k + 1].t = stream[1].t /\ stream[k + 1].i = (k + 1) - 0
        BY <1>0, <2>3, <2>5, <4>1 DEF Segment
      <4>3. stream[k + 1] \in Words  BY <1>0, <4>1
      <4>4. stream[k + 1] = [t |-> stream[k + 1].t, i |-> stream[k + 1].i]  BY <4>3 DEF Words
      <4>5. (k + 1) - 0 = k + 1  BY <4>1
      <4>6. QED  BY <2>4, <4>1, <4>2, <4>4, <4>5, Zenon
    <3>6. DOMAIN stream' = 1 .. Len(stream')  BY <2>2
    <3>7. Rest(1)'  BY <2>4, <3>3, <3>4, <3>5, <3>6, Zenon DEF Rest
    <3>8. QED  BY <3>2, <3>7, Zenon DEF StreamInv
  <2>6. CASE Segment(2) /\ stream[1].t.kind = "Empty"
    <3>1. Segment(2 - 1)'  BY <2>1, <2>4, <2>6, SegmentTake
    <3>2. QED  BY <2>4, <2>6, <3>1 DEF StreamInv
  <2>7. QED  BY <1>8, <2>3, <2>4, <2>5, <2>6 DEF StreamInv, RecvTPKT
<1>9. CASE RecvBadTPKT
  BY <1>9 DEF RecvBadTPKT
<1>10. CASE SkipEmpty
  <2>1. 1 \in 0 .. avail /\ Discard(1)  BY <1>10, TakeType DEF SkipEmpty
  <2>2. Segment(1) /\ UNCHANGED <<req, LongStart>> /\ pc' = "tpkt"
    BY <1>10 DEF SkipEmpty, StreamInv, loopVars
  <2>3. Segment(1 - 1)'  BY <2>1, <2>2, SegmentTake
  <2>4. QED  BY <2>2, <2>3 DEF StreamInv
<1>11. CASE RecvCOTP
  <2>1. 1 \in 0 .. avail /\ Discard(1)  BY <1>11, TakeType DEF RecvCOTP
  <2>2. /\ stream' \in Seq(Words) /\ Len(stream') = Len(stream) - 1
        /\ \A k \in 1 .. Len(stream') : k + 1 \in 1 .. Len(stream) /\ stream'[k] = stream[k + 1]
    BY <2>1, DiscardType
  <2>3. Rest(1) /\ UNCHANGED <<req, LongStart, tele, shifted>> /\ pc' = "data"
    BY <1>11 DEF RecvCOTP, StreamInv, loopVars, recvVars
  <2>4. Own(tele)' /\ ~shifted'  BY <2>3 DEF Rest, Own
  <2>5. ASSUME NEW k \in DOMAIN stream'  PROVE stream'[k] = [t |-> tele', i |-> k + 2]
    <3>1. k + 1 \in DOMAIN stream /\ stream'[k] = stream[k + 1] /\ (k + 1) + 1 = k + 2
      BY <1>0, <2>2, <2>5
    <3>2. stream[k + 1] = [t |-> tele, i |-> (k + 1) + 1]  BY <2>3, <3>1, Zenon DEF Rest
    <3>3. QED  BY <2>3, <3>1, <3>2, Zenon
  <2>6. Len(stream') <= 4 - 2  BY <1>0, <2>2, <2>3 DEF Rest
  <2>7. Rest(2)'  BY <2>4, <2>5, <2>6, Zenon DEF Rest
  <2>8. QED  BY <2>3, <2>7, Zenon DEF StreamInv
<1>12. CASE COTPTimesOut
  BY <1>12 DEF COTPTimesOut
<1>13. CASE TimesOut
  BY <1>13 DEF TimesOut
<1>14. CASE RecvData
  <2>1. 2 \in 0 .. avail /\ Discard(2) /\ pc = "data" /\ ~slipped
    BY <1>14, TakeType DEF RecvData
  <2>2. stream' \in Seq(Words) /\ Len(stream') = Len(stream) - 2  BY <2>1, DiscardType
  <2>3. Len(stream) <= 4 - 2  BY <2>1 DEF StreamInv, Rest
  <2>4. stream' = <<>>  BY <1>0, <2>1, <2>2, <2>3
  <2>5. pc' \in {"idle", "send"}  BY <1>14, <1>c, <2>1 DEF RecvData
  <2>6. QED  BY <1>a, <2>4, <2>5
<1>15. CASE Deliver
  BY <1>15 DEF Deliver, StreamInv, Segment, Rest, Own, recvVars, loopVars
<1>16. CASE LinkDies
  <2>1. /\ Len(stream') \in Nat /\ Len(stream') <= Len(stream)
        /\ \A k \in 1 .. Len(stream') : k \in 1 .. Len(stream) /\ stream'[k] = stream[k]
        /\ stream' \in Seq(Words)
    BY <1>16, CutKeeps
  <2>2. UNCHANGED <<pc, req, LongStart, tele, shifted, slipped>>
    BY <1>16 DEF LinkDies, loopVars, recvVars
  <2>3. ASSUME NEW d \in 0 .. 2, Segment(d)  PROVE Segment(d)'
    <3>1. Len(stream') <= 4 + d  BY <1>0, <2>1, <2>3 DEF Segment
    <3>2. ASSUME NEW k \in 1 .. Len(stream'), k > d
          PROVE  /\ Own(stream[k].t)' /\ stream'[k].i = k - d
                 /\ stream'[k].t = stream'[Len(stream')].t
      <4>1. Len(stream') \in 1 .. Len(stream') /\ Len(stream') > d  BY <2>1, <3>2
      <4>2. stream'[k] = stream[k] /\ stream'[Len(stream')] = stream[Len(stream')]
            /\ k \in 1 .. Len(stream) /\ Len(stream') \in 1 .. Len(stream)
        BY <2>1, <4>1
      <4>3. Own(stream[k].t) /\ stream[k].i = k - d /\ stream[k].t = stream[Len(stream')].t
        BY <1>0, <2>3, <3>2, <4>1, <4>2 DEF Segment
      <4>4. Own(stream[k].t)'  BY <2>2, <4>2, <4>3 DEF Own
      <4>5. QED  BY <4>2, <4>3, <4>4
    <3>3. QED  BY <2>1, <3>1, <3>2 DEF Segment
  <2>4. ASSUME NEW i \in {1, 2}, Rest(i)  PROVE Rest(i)'
    <3>1. Own(tele)' /\ ~shifted'  BY <2>2, <2>4 DEF Rest, Own
    <3>2. QED  BY SMTT(30), <1>0, <2>1, <2>2, <2>4, <3>1 DEF Rest
  <2>5. (stream' # <<>> => stream'[1] = stream[1] /\ stream # <<>>)
    <3>1. ASSUME stream' # <<>>  PROVE 1 \in 1 .. Len(stream')  BY <2>1, <3>1
    <3>2. QED  BY <1>0, <2>1, <3>1
  <2>6. stream = <<>> => stream' = <<>>  BY <2>5
  <2>7. QED  BY <2>2, <2>3, <2>4, <2>5, <2>6 DEF StreamInv
<1>17. QED
  BY <1>1, <1>2, <1>3, <1>4, <1>5, <1>6, <1>7, <1>8, <1>9, <1>10, <1>11, <1>12, <1>13, <1>14, <1>15, <1>16
     DEF Next, Caller, Step

(***************************************************************************)
(* Connected, the socket and the PDU length.                               *)
(***************************************************************************)
ConnectFns == {"ISOConnect", "NegotiatePduLength"}

\* Connected is set by the end of a negotiation and by nothing else, and it is
\* false as long as Connect() is running.
LEMMA FinishConnected ==
  ASSUME TypeOK, NegotiationInv, pc # "idle", NEW err \in Errors, Finish(err)
  PROVE  /\ (pc' # "idle" /\ req' \in ConnectFns) => ~Connected'
         /\ Connected' => (Connected /\ req \notin ConnectFns) \/ (req = "NegotiatePduLength" /\ err = "ok")
<1>1. CASE FinishConnect(err)
  BY <1>1, Zenon DEF FinishConnect, TypeOK, NegotiationInv, ConnectFns
<1>2. req \notin AreaFns \cup UnitFns => FinishConnect(err)
  BY Zenon DEF Finish, FinishChunk, FinishUnit
<1>3. CASE FinishChunk(err)
  BY <1>3, Zenon DEF FinishChunk, AreaFns, ConnectFns
<1>4. CASE FinishUnit(err)
  BY <1>4, Zenon DEF FinishUnit, UnitFns, ConnectFns
<1>5. QED  BY <1>1, <1>3, <1>4 DEF Finish

\* A PDU length in a word of the stream.
Granted(s) == \A k \in DOMAIN s : s[k].t.pdu \in PduSizes \cup {0}

LEMMA DiscardGranted ==
  ASSUME TypeOK, NegotiationInv, NEW n \in 0 .. avail, Discard(n)
  PROVE  Granted(stream')
<1>1. /\ stream' \in Seq(Words)
      /\ \A k \in 1 .. Len(stream') : k + n \in 1 .. Len(stream) /\ stream'[k] = stream[k + n]
  BY DiscardType
<1>2. stream \in Seq(Words)  BY DEF TypeOK
<1>3. QED  BY <1>1, <1>2 DEF NegotiationInv, Granted

\* Every PDU length under way, in the stream or in the telegram at hand, is one
\* the PLC may grant, or 0.
LEMMA GrantedStep ==
  ASSUME TypeOK, NegotiationInv, Next
  PROVE  Granted(stream') /\ tele'.pdu \in PduSizes \cup {0}
<1>0. Granted(<<>>)  BY DEF Granted
<1>a. Granted(stream) /\ tele.pdu \in PduSizes \cup {0}  BY DEF NegotiationInv, Granted
<1>1. CASE ConnectAgain \/ Disconnect \/ TCPConnect \/ TCPConnectFails \/ \E j \in Jobs : Call(j)
  <2>1. tele' = tele
    BY <1>1 DEF ConnectAgain, Disconnect, TCPConnect, TCPConnectFails, Call, recvVars
  <2>2. stream' = stream \/ stream' = <<>>
    BY <1>1 DEF ConnectAgain, Disconnect, TCPConnect, TCPConnectFails, Call, netVars
  <2>3. QED  BY <1>0, <1>a, <2>1, <2>2, Zenon
<1>2. CASE Send
  <2>1. /\ stream' \in Seq(Words)
        /\ \E a \in Answers(req), d \in {0, 2} :
              /\ \A k \in 1 .. Len(stream) : stream'[k].t.pdu = stream[k].t.pdu
              /\ \A k \in Len(stream) + 1 .. Len(stream') :
                   stream'[k] = IF k <= Len(stream) + d
                                THEN [t |-> NoTele, i |-> k - Len(stream)]
                                ELSE [t |-> a, i |-> k - Len(stream) - d]
    BY <1>2, SendStream, Zenon
  <2>2. PICK a \in Answers(req), d \in {0, 2} :
              /\ \A k \in 1 .. Len(stream) : stream'[k].t.pdu = stream[k].t.pdu
              /\ \A k \in Len(stream) + 1 .. Len(stream') :
                   stream'[k] = IF k <= Len(stream) + d
                                THEN [t |-> NoTele, i |-> k - Len(stream)]
                                ELSE [t |-> a, i |-> k - Len(stream) - d]
    BY <2>1, Zenon
  <2>3. a.pdu \in PduSizes \cup {0}  BY ChunkType, AnswersProps DEF TypeOK
  <2>4. NoTele.pdu = 0  BY DEF NoTele
  <2>5. ASSUME NEW k \in DOMAIN stream'  PROVE stream'[k].t.pdu \in PduSizes \cup {0}
    <3>1. k \in 1 .. Len(stream) \/ k \in Len(stream) + 1 .. Len(stream')
      BY <2>1, <2>5 DEF TypeOK
    <3>2. CASE k \in 1 .. Len(stream)  BY <1>a, <2>2, <3>2 DEF Granted, TypeOK
    <3>3. CASE k \in Len(stream) + 1 .. Len(stream')
      <4>1. stream'[k] = [t |-> NoTele, i |-> k - Len(stream)]
            \/ stream'[k] = [t |-> a, i |-> k - Len(stream) - d]
        BY <2>2, <3>3, Zenon
      <4>2. stream'[k].t = NoTele \/ stream'[k].t = a  BY <4>1
      <4>3. QED  BY <2>3, <2>4, <4>2, Zenon
    <3>4. QED  BY <3>1, <3>2, <3>3
  <2>6. tele' = tele  BY <1>2 DEF Send, recvVars
  <2>7. QED  BY <1>a, <2>5, <2>6 DEF Granted
<1>3. CASE RecvTPKT
  <2>1. 1 \in 0 .. avail /\ Discard(1)  BY <1>3, TakeType DEF RecvTPKT
  <2>2. tele' = stream[1].t /\ 1 \in DOMAIN stream  BY <1>3, <2>1 DEF RecvTPKT, TypeOK
  <2>3. QED  BY <1>a, <2>1, <2>2, DiscardGranted DEF Granted
<1>4. CASE RecvBadTPKT \/ TimesOut
  <2>1. \E n \in 0 .. avail : Discard(n)  BY <1>4, FlushType DEF RecvBadTPKT, TimesOut
  <2>2. tele' = tele  BY <1>4, Zenon DEF RecvBadTPKT, TimesOut, recvVars
  <2>3. QED  BY <1>a, <2>1, <2>2, DiscardGranted
<1>5. CASE SkipEmpty \/ RecvCOTP \/ RecvData
  <2>1. \E n \in 0 .. avail : Discard(n)
    BY <1>5, TakeType DEF SkipEmpty, RecvCOTP, RecvData
  <2>2. tele' = tele  BY <1>5 DEF SkipEmpty, RecvCOTP, RecvData, recvVars
  <2>3. QED  BY <1>a, <2>1, <2>2, DiscardGranted
<1>6. CASE COTPTimesOut \/ Deliver \/ SendFails
  BY <1>6, <1>a DEF COTPTimesOut, Deliver, SendFails, netVars, recvVars
<1>7. CASE LinkDies
  <2>1. /\ \A k \in 1 .. Len(stream') : k \in 1 .. Len(stream) /\ stream'[k] = stream[k]
        /\ stream' \in Seq(Words)
    BY <1>7, CutKeeps
  <2>2. tele' = tele  BY <1>7 DEF LinkDies, recvVars
  <2>3. DOMAIN stream = 1 .. Len(stream) /\ DOMAIN stream' = 1 .. Len(stream')
    BY <2>1 DEF TypeOK
  <2>4. QED  BY <1>a, <2>1, <2>2, <2>3, Zenon DEF Granted
<1>8. QED
  BY <1>1, <1>2, <1>3, <1>4, <1>5, <1>6, <1>7 DEF Next, Caller, Step

\* A verdict of "ok" on the negotiation is about a length above 0, which is kept.
LEMMA NegotiatedLength ==
  ASSUME TypeOK, NegotiationInv, RecvData, req = "NegotiatePduLength", Verdict("ok")
  PROVE  PDULength' \in PduSizes \ {0}
<1>1. NegotiateVerdict = "ok"  BY Zenon DEF Verdict, AreaFns
<1>2. NegotiationAccepted /\ tele.pdu > 0  BY <1>1, Zenon DEF NegotiateVerdict
<1>3. PDULength' = tele.pdu  BY <1>2 DEF RecvData
<1>4. QED  BY <1>2, <1>3 DEF NegotiationInv, TypeOK, Telegrams, U16

LEMMA ConnectedStep ==
  ASSUME TypeOK, LoopInv, NegotiationInv, ConnectedIsUsable, Next
  PROVE  NegotiationInv' /\ ConnectedIsUsable'
<1>0. Granted(stream') /\ tele'.pdu \in PduSizes \cup {0}  BY GrantedStep
<1> DEFINE Exchange == /\ pc' \notin {"idle", "send"} => sock' # "none"
                       /\ (pc' # "idle" /\ req' \in ConnectFns) => ~Connected'
<1>a. Exchange => NegotiationInv'
  BY <1>0, Zenon DEF NegotiationInv, Granted, ConnectFns
<1>b. SUFFICES Exchange /\ ConnectedIsUsable'  BY <1>a
<1>c. /\ pc \notin {"idle", "send"} => sock # "none"
      /\ (pc # "idle" /\ req \in ConnectFns) => ~Connected
  BY Zenon DEF NegotiationInv, ConnectFns
<1>1. CASE ConnectAgain
  BY <1>1 DEF ConnectAgain, ConnectedIsUsable, netVars
<1>2. CASE TCPConnect
  BY <1>2 DEF TCPConnect, ConnectedIsUsable
<1>3. CASE TCPConnectFails
  BY <1>3 DEF TCPConnectFails, ConnectedIsUsable
<1>4. CASE Disconnect
  BY <1>4 DEF Disconnect, ConnectedIsUsable
<1>5. ASSUME NEW j \in Jobs, Call(j)  PROVE Exchange /\ ConnectedIsUsable'
  <2>1. req' \notin ConnectFns  BY <1>5, JobsAssumption DEF Call, ConnectFns, AreaFns, UnitFns
  <2>2. QED  BY <1>5, <2>1 DEF Call, ConnectedIsUsable, netVars
<1>6. CASE Send
  BY <1>6, <1>c DEF Send, ConnectedIsUsable
<1>d. ASSUME NEW err \in Errors \ {"ok"}, Finish(err), job' = job, pc # "idle",
             sock' = sock, PDULength' = PDULength
      PROVE  Exchange /\ ConnectedIsUsable'
  <2>1. /\ (pc' # "idle" /\ req' \in ConnectFns) => ~Connected'
        /\ Connected' => Connected
    BY <1>d, FinishConnected
  <2>2. pc' \in {"idle", "send"}  BY <1>d, FinishKeeps
  <2>3. QED  BY <1>d, <2>1, <2>2, Zenon DEF ConnectedIsUsable
<1>7. CASE SendFails
  BY <1>7, <1>d, ErrorTypes DEF SendFails, netVars
<1>8. CASE RecvTPKT \/ SkipEmpty \/ RecvCOTP \/ COTPTimesOut
  BY <1>8, <1>c DEF RecvTPKT, SkipEmpty, RecvCOTP, COTPTimesOut, ConnectedIsUsable, netVars
<1>9. CASE RecvBadTPKT
  <2>1. "errISOInvalidPDU" \in Errors \ {"ok"}  BY DEF Errors, SevereErrors
  <2>2. QED  BY <1>9, <1>d, <2>1 DEF RecvBadTPKT
<1>10. CASE TimesOut
  BY <1>10, <1>d, ErrorTypes DEF TimesOut
<1>11. CASE RecvData
  <2>1. PICK err \in Errors : Verdict(err) /\ Finish(err)  BY <1>11 DEF RecvData
  <2>2. /\ (pc' # "idle" /\ req' \in ConnectFns) => ~Connected'
        /\ Connected' => (Connected /\ req \notin ConnectFns) \/ (req = "NegotiatePduLength" /\ err = "ok")
    BY <1>11, <2>1, FinishConnected DEF RecvData
  <2>3. pc' \in {"idle", "send"} /\ sock # "none" /\ sock' = sock
    BY <1>11, <1>c, <2>1, FinishKeeps DEF RecvData
  <2>4. CASE req = "NegotiatePduLength" /\ err = "ok"
    BY <1>11, <2>1, <2>2, <2>3, <2>4, NegotiatedLength, Zenon DEF ConnectedIsUsable
  <2>5. CASE ~(req = "NegotiatePduLength" /\ err = "ok")
    <3>1. Connected' => PDULength' = PDULength  BY <1>11, <2>2, <2>5 DEF RecvData, ConnectFns
    <3>2. QED  BY <2>2, <2>3, <2>5, <3>1, Zenon DEF ConnectedIsUsable
  <2>6. QED  BY <2>4, <2>5
<1>12. CASE Deliver
  BY <1>12, <1>c DEF Deliver, ConnectedIsUsable
<1>13. CASE LinkDies
  BY <1>13, <1>c DEF LinkDies, ConnectedIsUsable
<1>14. QED
  BY <1>1, <1>2, <1>3, <1>4, <1>5, <1>6, <1>7, <1>8, <1>9, <1>10, <1>11, <1>12, <1>13
     DEF Next, Caller, Step

(***************************************************************************)
(* The answers a call takes.                                               *)
(***************************************************************************)
\* Answer c is what OwnAnswers asks of the running call's answers
Belongs(c) ==
  /\ c.t.cur /\ c.t.kind = job.fn /\ c.t.ok
  /\ (job.fn \in AreaFns /\ job.area = "DB") => c.t.addr = job.start + c.off

\* A verdict of "ok" on a telegram that answers the request says that the PLC
\* did not refuse it: the lengths and result codes are enough for that.
LEMMA OwnVerdict ==
  ASSUME tele \in Telegrams, Own(tele), ~shifted, Verdict("ok"), req \in AreaFns \cup UnitFns
  PROVE  tele.ok
<1>1. tele.ok \in BOOLEAN /\ tele.kind = req  BY DEF Telegrams, Own
<1>2. CASE req = "ReadArea"
  <2>1. ReadVerdict = "ok"  BY <1>2, Zenon DEF Verdict
  <2>2. QED  BY <2>1, Zenon DEF ReadVerdict
<1>3. CASE req = "WriteArea"
  <2>1. WriteVerdict = "ok"  BY <1>3, Zenon DEF Verdict
  <2>2. QED  BY <2>1, Zenon DEF WriteVerdict
<1>4. CASE req \in {"PlcStop", "PlcStart"}
  <2>1. ControlVerdict = "ok"  BY <1>4, Zenon DEF Verdict
  <2>2. HeaderClean  BY <2>1, Zenon DEF ControlVerdict
  <2>3. QED  BY <1>1, <1>4, <2>2 DEF HeaderClean, AreaFns
<1>5. CASE req = "GetPlcStatus"
  <2>1. StatusVerdict = "ok"  BY <1>5, Zenon DEF Verdict
  <2>2. tele.len > 53  BY <2>1, Zenon DEF StatusVerdict
  <2>3. QED  BY <1>5, <2>2, Zenon DEF Own
<1>6. CASE req = "GetDBSize"
  <2>1. "ok" \in SizeVerdicts  BY <1>6, Zenon DEF Verdict
  <2>2. QED  BY <1>1, <1>6, <2>1 DEF SizeVerdicts
<1>7. QED  BY <1>2, <1>3, <1>4, <1>5, <1>6 DEF AreaFns, UnitFns

\* An exchange ended by an answer of its own adds that answer, and no other.
LEMMA FinishOwn ==
  ASSUME TypeOK, LoopInv, Own(tele), ~shifted, pc = "data",
         NEW err \in Errors, Verdict(err), Finish(err), job' = job,
         \A k \in DOMAIN got : Belongs(got[k]), req \in AreaFns \cup UnitFns
  PROVE  \A k \in DOMAIN got' : Belongs(got'[k])
<1>1. /\ tele \in Telegrams /\ got \in Seq(Chunks) /\ Offset \in Nat /\ req = job.fn
  BY DEF TypeOK, Chunks, LoopInv
<1>2. CASE err # "ok"
  <2>1. got' = got  BY <1>2, Zenon DEF Finish, FinishConnect, FinishChunk, FinishUnit
  <2>2. QED  BY <2>1, Zenon
<1>3. CASE err = "ok" /\ req \in AreaFns
  <2>1. got' = Append(got, [t |-> tele, off |-> Offset])
    <3>1. FinishChunk("ok")
      BY <1>3, Zenon DEF Finish, FinishConnect, FinishUnit, AreaFns, UnitFns
    <3>2. QED  BY <3>1 DEF FinishChunk
  <2>2. Belongs([t |-> tele, off |-> Offset])
    <3>1. tele.cur /\ tele.kind = req /\ tele.addr = LongStart  BY <1>3, Zenon DEF Own
    <3>2. tele.ok  BY <1>1, <1>3, OwnVerdict
    <3>3. job.area = "DB" => LongStart = job.start + Offset  BY <1>3 DEF LoopInv
    <3>4. QED  BY <1>1, <3>1, <3>2, <3>3 DEF Belongs
  <2>3. [t |-> tele, off |-> Offset] \in Chunks  BY <1>1 DEF Chunks
  <2>4. ASSUME NEW k \in DOMAIN got'  PROVE Belongs(got'[k])
    <3>1. (k \in DOMAIN got /\ got'[k] = got[k]) \/ got'[k] = [t |-> tele, off |-> Offset]
      BY <1>1, <2>1, <2>3, <2>4, AppendProperties
    <3>2. QED  BY <2>2, <3>1, Zenon
  <2>5. QED  BY <2>4
<1>4. CASE err = "ok" /\ req \in UnitFns
  <2>1. got' = <<[t |-> tele, off |-> 0]>>
    <3>1. FinishUnit("ok")
      BY <1>4, Zenon DEF Finish, FinishConnect, FinishChunk, AreaFns, UnitFns
    <3>2. QED  BY <3>1 DEF FinishUnit
  <2>2. Belongs([t |-> tele, off |-> 0])
    <3>1. tele.cur /\ tele.kind = req  BY Zenon DEF Own
    <3>2. tele.ok  BY <1>1, <1>4, OwnVerdict
    <3>3. job.fn \notin AreaFns  BY <1>1, <1>4 DEF AreaFns, UnitFns
    <3>4. QED  BY <1>1, <3>1, <3>2, <3>3 DEF Belongs
  <2>3. QED  BY <2>1, <2>2
<1>5. QED  BY <1>2, <1>3, <1>4

LEMMA OwnStep ==
  ASSUME TypeOK, LoopInv, StreamInv, OwnAnswers, Next  PROVE OwnAnswers'
<1>0. ASSUME UNCHANGED <<got, req, job>>, ~slipped' => ~slipped  PROVE OwnAnswers'
  BY <1>0, Zenon DEF OwnAnswers
<1>a. got' = <<>> => OwnAnswers'
  BY DEF OwnAnswers
<1>b. slipped' => OwnAnswers'  BY Zenon DEF OwnAnswers
<1>c. req' \notin AreaFns \cup UnitFns => OwnAnswers'  BY Zenon DEF OwnAnswers
<1>1. CASE ConnectAgain \/ TCPConnectFails \/ Disconnect \/ Send \/ RecvTPKT \/ SkipEmpty \/ RecvCOTP
           \/ Deliver \/ LinkDies
  <2>1. UNCHANGED <<got, req, job, slipped>>
    BY <1>1, Zenon DEF ConnectAgain, TCPConnectFails, Disconnect, Send, RecvTPKT, SkipEmpty, RecvCOTP, Deliver, LinkDies
  <2>2. QED  BY <2>1, <1>0, Zenon
<1>2. CASE TCPConnect \/ \E j \in Jobs : Call(j)
  <2>1. got' = <<>>  BY <1>2 DEF TCPConnect, Call
  <2>2. QED  BY <2>1, <1>a
<1>3. CASE RecvBadTPKT \/ COTPTimesOut \/ TimesOut
  <2>1. slipped'  BY <1>3, Zenon DEF RecvBadTPKT, COTPTimesOut, TimesOut
  <2>2. QED  BY <2>1, <1>b
<1>d. ASSUME NEW err \in Errors, FinishConnect(err)  PROVE req' \notin AreaFns \cup UnitFns
  BY <1>d DEF FinishConnect, AreaFns, UnitFns
<1>4. CASE SendFails
  <2>1. Finish(SendError) /\ SendError # "ok" /\ SendError \in Errors /\ UNCHANGED <<job, slipped>>
    BY <1>4, ErrorTypes DEF SendFails
  <2>2. CASE FinishConnect(SendError)  BY <1>c, <1>d, <2>1, <2>2, Zenon
  <2>3. CASE FinishChunk(SendError) \/ FinishUnit(SendError)
    <3>1. UNCHANGED <<got, req>>  BY <2>1, <2>3, Zenon DEF FinishChunk, FinishUnit
    <3>2. QED  BY <1>0, <2>1, <3>1, Zenon
  <2>4. QED  BY <2>1, <2>2, <2>3 DEF Finish
<1>5. CASE RecvData
  <2>1. PICK err \in Errors : Verdict(err) /\ Finish(err)  BY <1>5 DEF RecvData
  <2>2. CASE FinishConnect(err)  BY <1>c, <1>d, <2>2, Zenon
  <2>3. CASE ~slipped /\ (FinishChunk(err) \/ FinishUnit(err))
    <3>1. req' = req /\ req \in AreaFns \cup UnitFns /\ job' = job /\ pc = "data"
      BY <1>5, <2>3, Zenon DEF RecvData, FinishChunk, FinishUnit
    <3>2. Own(tele) /\ ~shifted  BY <2>3, <3>1, Zenon DEF StreamInv, Rest
    <3>3. \A k \in DOMAIN got : Belongs(got[k])  BY <2>3, <3>1, Zenon DEF OwnAnswers, Belongs
    <3>4. \A k \in DOMAIN got' : Belongs(got'[k])
      BY <2>1, <3>1, <3>2, <3>3, FinishOwn
    <3>5. QED  BY <3>1, <3>4, Zenon DEF OwnAnswers, Belongs
  <2>4. CASE slipped  BY <1>5, <1>b, <2>4 DEF RecvData
  <2>5. QED  BY <2>1, <2>2, <2>3, <2>4 DEF Finish
<1>6. QED
  BY <1>1, <1>2, <1>3, <1>4, <1>5 DEF Next, Caller, Step

(***************************************************************************)
(* The invariant, and what it says of the client.                          *)
(***************************************************************************)
LEMMA InvInit == Init => IInv
<1>1. Init => TypeOK /\ LoopInv  BY TypeInit
<1>2. Init => StreamInv  BY Zenon DEF Init, StreamInv
<1>3. Init => NegotiationInv  BY DEF Init, NegotiationInv, NoTele
<1>4. Init => OwnAnswers /\ ConnectedIsUsable  BY DEF Init, OwnAnswers, ConnectedIsUsable
<1>5. QED  BY <1>1, <1>2, <1>3, <1>4 DEF IInv

LEMMA InvStep == IInv /\ [Next]_vars => IInv'
<1>1. ASSUME IInv, Next  PROVE IInv'
  <2>1. TypeOK' /\ LoopInv'  BY <1>1, TypeStep DEF IInv
  <2>2. StreamInv'
    <3>1. CASE slipped'  BY <3>1, Zenon DEF StreamInv
    <3>2. CASE ~slipped'  BY <1>1, <3>2, StreamStep DEF IInv
    <3>3. QED  BY <3>1, <3>2
  <2>3. NegotiationInv' /\ ConnectedIsUsable'  BY <1>1, ConnectedStep DEF IInv
  <2>4. OwnAnswers'  BY <1>1, OwnStep DEF IInv
  <2>5. QED  BY <2>1, <2>2, <2>3, <2>4 DEF IInv
<1>2. ASSUME IInv, UNCHANGED vars  PROVE IInv'
  <2> USE <1>2 DEF vars, netVars, loopVars, recvVars
  <2>1. TypeOK' /\ LoopInv'  BY ZenonT(30) DEF IInv, TypeOK, LoopInv
  <2>2. StreamInv'  BY Zenon DEF IInv, StreamInv, Segment, Rest, Own
  <2>3. NegotiationInv' /\ OwnAnswers' /\ ConnectedIsUsable'
    BY Zenon DEF IInv, NegotiationInv, OwnAnswers, ConnectedIsUsable
  <2>4. QED  BY <2>1, <2>2, <2>3 DEF IInv
<1>3. QED  BY <1>1, <1>2

\* The inductive invariant: the place of the call, the words in the stream, the
\* telegram at hand and the counters of the loop agree at every step.
THEOREM Invariant == Spec => []IInv
BY InvInit, InvStep, PTL DEF Spec

\* On a connection no wait timed out on, nothing is left over when a call begins.
THEOREM NothingLeftOver == Spec => []NoLeftovers
<1>1. IInv => NoLeftovers  BY Zenon DEF IInv, StreamInv, NoLeftovers
<1>2. QED  BY <1>1, Invariant, PTL

\* On such a connection every answer a call takes is the PLC's to this very
\* call, to the chunk being transferred, and not a refusal.
THEOREM AnswersAreOwn == Spec => []OwnAnswers
<1>1. IInv => OwnAnswers  BY DEF IInv
<1>2. QED  BY <1>1, Invariant, PTL

\* A client that believes it is connected holds a socket and a PDU length that
\* the PLC granted.
THEOREM ConnectedMeansUsable == Spec => []ConnectedIsUsable
<1>1. IInv => ConnectedIsUsable  BY DEF IInv
<1>2. QED  BY <1>1, Invariant, PTL

(***************************************************************************)
(* The client as its caller sees it: S7Client implements S7Service.        *)
(***************************************************************************)
SeenPhase  == IF pc = "idle" THEN "idle"
              ELSE IF req \in {"ISOConnect", "NegotiatePduLength"} THEN "opening" ELSE "busy"
SeenResult == IF LastError = "ok" THEN "ok"
              ELSE IF LastError \in SevereErrors THEN "severe" ELSE "s7"
SeenServed == \A k \in DOMAIN got : got[k].t.cur

LEMMA ErrorClasses ==
  /\ "ok" \notin SevereErrors /\ S7Errors \cap SevereErrors = {}
  /\ "errISOInvalidPDU" \in SevereErrors /\ TimeoutErrors \subseteq SevereErrors
  /\ req \in {"ISOConnect", "NegotiatePduLength"} => SendError \in SevereErrors
BY DEF SevereErrors, S7Errors, TimeoutErrors, SendError

\* On a trusted connection all answers of a running call are its own.
LEMMA ServedWhileTrusted ==
  IInv => (~slipped /\ req \in AreaFns \cup UnitFns => SeenServed)
BY DEF IInv, OwnAnswers, SeenServed

\* The end of an exchange ends Connect(), or is a step of the call.
LEMMA FinishMaps ==
  ASSUME IInv, IInv', pc # "idle", pc' \in {"idle", "send"}, NEW err \in Errors, Finish(err),
         slipped' = slipped \/ (slipped' /\ err # "ok"), job' = job,
         req \in ConnectFns => err \in {"ok"} \cup SevereErrors
  PROVE  Promise!ServiceNext
<1>0. /\ slipped \in BOOLEAN /\ slipped' \in BOOLEAN /\ SeenServed' \in BOOLEAN /\ Connected' \in BOOLEAN
      /\ LastError' = err /\ "idle" # "send"
  BY Zenon DEF IInv, TypeOK, Finish, FinishConnect, FinishChunk, FinishUnit, SeenServed
<1>1. slipped' = slipped \/ slipped' = TRUE  BY <1>0
<1>2. CASE FinishConnect(err)
  <2>1. req \in ConnectFns /\ req' \in ConnectFns /\ SeenServed' = SeenServed
    BY <1>2, Zenon DEF FinishConnect, ConnectFns, SeenServed
  <2>2. CASE pc' = "idle"
    <3>1. SeenPhase = "opening" /\ SeenPhase' = "idle"  BY <2>1, <2>2 DEF SeenPhase, ConnectFns
    <3>2. SeenResult' \in {"ok", "severe"} /\ (SeenResult' = "ok" <=> err = "ok")
      BY <1>0, <2>1 DEF SeenResult
    <3>3. Connected' = (SeenResult' = "ok")
      BY <1>2, <2>2, <3>2 DEF FinishConnect
    <3>4. Promise!Opened
      BY <1>0, <1>1, <2>1, <3>1, <3>2, <3>3
         DEF Promise!Opened, Promise!MayLoseTrust, SeenPhase, SeenResult, SeenServed
    <3>5. QED  BY <3>4, Zenon DEF Promise!ServiceNext
  <2>3. CASE pc' = "send"
    <3>1. err = "ok" /\ Connected' = FALSE
      BY <1>0, <1>2, <2>3 DEF FinishConnect
    <3>2. Connected = FALSE  BY <2>1 DEF IInv, TypeOK, NegotiationInv, ConnectFns
    <3>3. SeenPhase = "opening" /\ SeenPhase' = "opening"  BY <2>1, <2>3 DEF SeenPhase, ConnectFns
    <3>4. SeenResult' = "ok"  BY <1>0, <3>1 DEF SeenResult
    <3>5. Promise!Progress
      BY <1>0, <1>1, <2>1, <3>1, <3>2, <3>3, <3>4
         DEF Promise!Progress, Promise!MayLoseTrust, Promise!MayMisserve, Promise!Results,
             SeenPhase, SeenResult, SeenServed
    <3>6. QED  BY <3>5, Zenon DEF Promise!ServiceNext
  <2>4. QED  BY <2>2, <2>3
<1>3. CASE FinishChunk(err) \/ FinishUnit(err)
  <2>1. /\ req \in AreaFns \cup UnitFns /\ req' = req /\ Connected' = Connected
        /\ err # "ok" => got' = got
    BY <1>3, Zenon DEF FinishChunk, FinishUnit
  <2>2. req \notin {"ISOConnect", "NegotiatePduLength"}  BY <2>1 DEF AreaFns, UnitFns
  <2>3. SeenPhase = "busy" /\ SeenPhase' \in {"idle", "busy"}
    BY <2>1, <2>2 DEF SeenPhase
  <2>4. SeenServed' = SeenServed \/ slipped
    <3>1. CASE err # "ok"  BY <2>1, <3>1, Zenon DEF SeenServed
    <3>2. CASE err = "ok" /\ ~slipped
      <4>1. ~slipped'  BY <3>2
      <4>2. IInv' => (~slipped' /\ req' \in AreaFns \cup UnitFns => SeenServed')
        BY DEF IInv, OwnAnswers, SeenServed
      <4>3. SeenServed' /\ SeenServed  BY <2>1, <3>2, <4>1, <4>2, ServedWhileTrusted
      <4>4. QED  BY <4>3 DEF SeenServed
    <3>3. QED  BY <1>0, <3>1, <3>2
  <2>5. SeenResult' \in {"ok", "s7", "severe"}  BY DEF SeenResult
  <2>6. Promise!Progress
    BY <1>0, <1>1, <2>1, <2>3, <2>4, <2>5
       DEF Promise!Progress, Promise!MayLoseTrust, Promise!MayMisserve, Promise!Results,
           SeenPhase, SeenResult, SeenServed
  <2>7. QED  BY <2>6, Zenon DEF Promise!ServiceNext
<1>4. QED  BY <1>2, <1>3 DEF Finish

\* Nothing the caller sees changes.
LEMMA SeesNothing ==
  ASSUME UNCHANGED <<Connected, LastError, req, got, slipped>>, (pc = "idle") <=> (pc' = "idle")
  PROVE  UNCHANGED Promise!svars
<1>1. SeenPhase' = SeenPhase  BY Zenon DEF SeenPhase
<1>2. SeenResult' = SeenResult /\ SeenServed' = SeenServed  BY Zenon DEF SeenResult, SeenServed
<1>3. QED
  BY <1>1, <1>2, Zenon DEF Promise!svars, SeenPhase, SeenResult, SeenServed

\* Every step of the client is a step of S7Service, or nothing its caller sees.
LEMMA StepMaps ==
  ASSUME IInv, IInv', Next  PROVE [Promise!ServiceNext]_(Promise!svars)
<1>0. /\ slipped \in BOOLEAN /\ slipped' \in BOOLEAN /\ SeenServed' \in BOOLEAN
      /\ Connected \in BOOLEAN /\ Connected' \in BOOLEAN
  BY Zenon DEF IInv, TypeOK, SeenServed
<1>1. CASE ConnectAgain \/ Disconnect
  <2>1. /\ pc = "idle" /\ pc' = "idle" /\ Connected = TRUE /\ LastError' = "ok"
        /\ UNCHANGED <<got, slipped>>
    BY <1>1, <1>0 DEF ConnectAgain, Disconnect
  <2>2. SeenPhase = "idle" /\ SeenPhase' = "idle" /\ SeenResult' = "ok" /\ SeenServed' = SeenServed
    BY <2>1, Zenon DEF SeenPhase, SeenResult, SeenServed
  <2>3. Promise!Confirm
    BY <1>0, <2>1, <2>2 DEF Promise!Confirm, SeenPhase, SeenResult, SeenServed
  <2>4. QED  BY <2>3, Zenon DEF Promise!ServiceNext
<1>2. CASE TCPConnect
  <2>1. SeenPhase = "idle" /\ SeenPhase' = "opening" /\ SeenResult' = "ok" /\ SeenServed'
    BY <1>2 DEF TCPConnect, SeenPhase, SeenResult, SeenServed
  <2>2. ~Connected /\ ~slipped' /\ Connected' = Connected  BY <1>2 DEF TCPConnect
  <2>3. Promise!Open
    BY <1>0, <2>1, <2>2 DEF Promise!Open, SeenPhase, SeenResult, SeenServed
  <2>4. QED  BY <2>3, Zenon DEF Promise!ServiceNext
<1>3. CASE TCPConnectFails
  <2>1. ~Connected /\ UNCHANGED <<Connected, pc, req, got, slipped>> /\ pc = "idle"
        /\ LastError' = "errTCPConnectionFailed"
    BY <1>3, Zenon DEF TCPConnectFails
  <2>2. SeenPhase = "idle" /\ SeenPhase' = SeenPhase /\ SeenServed' = SeenServed
    BY <2>1, Zenon DEF SeenPhase, SeenServed
  <2>3. SeenResult' = "severe"  BY <2>1 DEF SeenResult, SevereErrors
  <2>4. Promise!OpenRefused
    BY <2>1, <2>2, <2>3, Zenon DEF Promise!OpenRefused, SeenPhase, SeenResult, SeenServed
  <2>5. QED  BY <2>4, Zenon DEF Promise!ServiceNext
<1>4. ASSUME NEW j \in Jobs, Call(j)  PROVE Promise!ServiceNext
  <2>1. req' \notin {"ISOConnect", "NegotiatePduLength"}
    BY <1>4, JobsAssumption DEF Call, AreaFns, UnitFns
  <2>2. pc = "idle" /\ LastError' = "ok" /\ got' = <<>> /\ UNCHANGED <<Connected, slipped>>
    BY <1>4, Zenon DEF Call
  <2>3. SeenPhase = "idle" /\ SeenPhase' \in {"idle", "busy"} /\ SeenResult' = "ok" /\ SeenServed'
    BY <2>1, <2>2 DEF SeenPhase, SeenResult, SeenServed
  <2>4. Promise!Begin
    BY <1>0, <2>2, <2>3 DEF Promise!Begin, SeenPhase, SeenResult, SeenServed
  <2>5. QED  BY <2>4, Zenon DEF Promise!ServiceNext
<1>5. CASE Send \/ COTPTimesOut
  <2>1. /\ pc # "idle" /\ pc' # "idle" /\ UNCHANGED <<Connected, req, got>>
        /\ slipped' = slipped \/ slipped' = TRUE
    BY <1>5 DEF Send, COTPTimesOut
  <2>2. SeenPhase' = SeenPhase /\ SeenPhase # "idle" /\ SeenServed' = SeenServed
    BY <2>1 DEF SeenPhase, SeenServed
  <2>3. SeenResult' \in {"ok", "s7", "severe"}  BY DEF SeenResult
  <2>4. Promise!Progress
    BY <1>0, <2>1, <2>2, <2>3
       DEF Promise!Progress, Promise!MayLoseTrust, Promise!MayMisserve, Promise!Results,
           SeenPhase, SeenResult, SeenServed
  <2>5. QED  BY <2>4, Zenon DEF Promise!ServiceNext
<1>6. CASE RecvTPKT \/ SkipEmpty \/ RecvCOTP \/ Deliver \/ LinkDies
  <2>1. UNCHANGED <<Connected, LastError, req, got, slipped>> /\ ((pc = "idle") <=> (pc' = "idle"))
    BY <1>6 DEF RecvTPKT, SkipEmpty, RecvCOTP, Deliver, LinkDies
  <2>2. QED  BY <2>1, SeesNothing
<1>7. ASSUME NEW err \in Errors, Finish(err), pc # "idle", job' = job, err = "ok" => pc = "data",
             slipped' = slipped \/ (slipped' /\ err # "ok"),
             req \in ConnectFns => err \in {"ok"} \cup SevereErrors
      PROVE  Promise!ServiceNext
  <2>1. pc' \in {"idle", "send"}  BY <1>7, FinishKeeps DEF IInv
  <2>2. QED  BY <1>7, <2>1, FinishMaps
<1>8. CASE SendFails
  <2>1. /\ Finish(SendError) /\ pc # "idle" /\ job' = job /\ slipped' = slipped
        /\ SendError \in Errors /\ SendError # "ok"
    BY <1>8, ErrorTypes DEF SendFails
  <2>2. req \in ConnectFns => SendError \in {"ok"} \cup SevereErrors
    BY ErrorClasses DEF ConnectFns
  <2>3. QED  BY <1>7, <2>1, <2>2
<1>9. CASE RecvBadTPKT
  <2>1. Finish("errISOInvalidPDU") /\ pc # "idle" /\ job' = job /\ slipped'
    BY <1>9 DEF RecvBadTPKT
  <2>2. "errISOInvalidPDU" \in Errors /\ "errISOInvalidPDU" \in {"ok"} \cup SevereErrors
    BY ErrorClasses DEF Errors
  <2>3. QED  BY <1>7, <2>1, <2>2
<1>10. CASE TimesOut
  <2>1. PICK err \in TimeoutErrors : Finish(err)  BY <1>10 DEF TimesOut
  <2>2. err \in Errors /\ err # "ok" /\ err \in {"ok"} \cup SevereErrors  BY ErrorTypes, ErrorClasses
  <2>3. pc # "idle" /\ job' = job /\ slipped'  BY <1>10 DEF TimesOut
  <2>4. QED  BY <1>7, <2>1, <2>2, <2>3
<1>11. CASE RecvData
  <2>1. PICK err \in Errors : Verdict(err) /\ Finish(err)  BY <1>11 DEF RecvData
  <2>2. pc = "data" /\ pc # "idle" /\ job' = job /\ slipped' = slipped  BY <1>11 DEF RecvData
  <2>3. req \in ConnectFns => err \in {"ok"} \cup SevereErrors
    BY <2>1 DEF ConnectFns, Verdict, ConnectVerdict, NegotiateVerdict, SevereErrors
  <2>4. QED  BY <1>7, <2>1, <2>2, <2>3
<1>12. QED
  BY <1>1, <1>2, <1>3, <1>4, <1>5, <1>6, <1>8, <1>9, <1>10, <1>11 DEF Next, Caller, Step

\* The client keeps the promise of S7Service, whatever the calls, the PLC's
\* answers, the timeouts and the Ethernet library.
THEOREM ServiceKept == Spec => Implements
<1>1. Init => Promise!ServiceInit
  BY DEF Init, Promise!ServiceInit
<1>2. IInv /\ IInv' /\ [Next]_vars => [Promise!ServiceNext]_(Promise!svars)
  <2>1. ASSUME UNCHANGED vars  PROVE UNCHANGED Promise!svars
    BY <2>1, SeesNothing DEF vars
  <2>2. QED  BY <2>1, StepMaps
<1>3. QED  BY <1>1, <1>2, Invariant, PTL DEF Spec, Implements, Promise!ServiceSpec

(***************************************************************************)
(* The buffer ReadArea fills.                                              *)
(***************************************************************************)
\* The size in bytes of what is asked for, in elements, fits in a uint16_t.  A PLC
\* has far fewer timers and counters than the 32768 it would take to break this.
BuffersFit ==
  \A j \in Jobs : j.fn = "ReadArea" => j.amount * (IF j.area = "TM" THEN 2 ELSE 1) < U16Size

\* The chunks of g lie end to end from the start of the buffer up to byte o
UpTo(g, o) == IF g = <<>> THEN o = 0 ELSE FillsBuffer(g, o)

\* Inside ReadArea: what was taken fills the buffer up to Offset, and the elements
\* still to be read are those the rest of it holds.
FillInv ==
  (req = "ReadArea" /\ pc # "idle") =>
     /\ UpTo(got, Offset)
     /\ TotElements * WordSize + Offset = job.amount * WordSize
     /\ job.amount * WordSize < U16Size

LEMMA UpToAppend ==
  ASSUME NEW g \in Seq(Chunks), NEW o \in Nat, NEW n \in Nat, NEW t \in Telegrams,
         t.len - 18 = n, UpTo(g, o)
  PROVE  FillsBuffer(Append(g, [t |-> t, off |-> o]), o + n)
<1> DEFINE c == [t |-> t, off |-> o]
           h == Append(g, c)
<1>1. c \in Chunks /\ c.off = o /\ c.t = t /\ t.len \in Nat  BY DEF Chunks, Telegrams
<1>2. /\ h \in Seq(Chunks) /\ Len(h) = Len(g) + 1 /\ Len(g) \in Nat /\ h[Len(g) + 1] = c
      /\ \A k \in 1 .. Len(g) : h[k] = g[k]
  BY <1>1, AppendProperties
<1> HIDE DEF c, h
<1>3. h # <<>>  BY <1>2
<1>4. h[Len(h)].off + h[Len(h)].t.len - 18 = o + n  BY <1>1, <1>2
<1>5. CASE g = <<>>
  <2>1. Len(g) = 0 /\ o = 0  BY <1>5 DEF UpTo
  <2>2. h[1].off = 0 /\ Len(h) = 1  BY <1>1, <1>2, <2>1
  <2>3. QED  BY <1>3, <1>4, <2>2 DEF FillsBuffer, h, c
<1>6. CASE g # <<>>
  <2>1. /\ g[1].off = 0
        /\ \A k \in 1 .. Len(g) - 1 : g[k + 1].off = g[k].off + g[k].t.len - 18
        /\ g[Len(g)].off + g[Len(g)].t.len - 18 = o
    BY <1>6 DEF UpTo, FillsBuffer
  <2>2. 1 \in 1 .. Len(g) /\ Len(g) \in 1 .. Len(g)  BY <1>2, <1>6
  <2>3. h[1].off = 0  BY <1>2, <2>1, <2>2
  <2>4. ASSUME NEW k \in 1 .. Len(h) - 1  PROVE h[k + 1].off = h[k].off + h[k].t.len - 18
    <3>1. k \in 1 .. Len(g) /\ h[k] = g[k]  BY <1>2, <2>4
    <3>2. CASE k = Len(g)  BY <1>1, <1>2, <2>1, <3>1, <3>2
    <3>3. CASE k # Len(g)
      <4>1. k \in 1 .. Len(g) - 1 /\ k + 1 \in 1 .. Len(g)  BY <1>2, <3>1, <3>3
      <4>2. QED  BY <1>2, <2>1, <3>1, <4>1
    <3>4. QED  BY <3>2, <3>3
  <2>5. QED  BY <1>3, <1>4, <2>3, <2>4 DEF FillsBuffer, h, c
<1>7. QED  BY <1>5, <1>6

\* The end of an exchange of ReadArea without an error adds one chunk at Offset.
LEMMA FinishFills ==
  ASSUME TypeOK, LoopInv, FillInv, pc = "data", req = "ReadArea", job' = job,
         Verdict("ok"), FinishChunk("ok")
  PROVE  /\ FillsBuffer(got', Offset') /\ pc' = IF TotElements' > 0 THEN "send" ELSE "idle"
         /\ TotElements' * WordSize + Offset' = job.amount * WordSize /\ TotElements' \in Nat
<1>1. /\ WordSize \in {1, 2} /\ NumElements \in Nat /\ TotElements \in Nat /\ Offset \in Nat
      /\ NumElements <= TotElements /\ got \in Seq(Chunks) /\ tele \in Telegrams
  BY DEF WordSize, TypeOK, LoopInv, AreaFns, U16, Chunks
<1>2. job.amount \in Nat
  BY JobsAssumption, WidthAssumption DEF TypeOK, NoJob, U16
<1>3. NumElements * WordSize < U16Size /\ NumElements * WordSize \in Nat
  BY <1>1, <1>2, WidthAssumption DEF FillInv
<1>4. SizeRequested = NumElements * WordSize
  BY <1>3, WidthAssumption DEF SizeRequested
<1>5. tele.len - 18 = SizeRequested
  <2>1. ReadVerdict = "ok"  BY Zenon DEF Verdict
  <2>2. QED  BY <2>1 DEF ReadVerdict
<1>6. /\ TotElements' = TotElements - NumElements /\ Offset' = Offset + SizeRequested
      /\ got' = Append(got, [t |-> tele, off |-> Offset])
      /\ pc' = IF TotElements' > 0 THEN "send" ELSE "idle"
  BY DEF FinishChunk
<1>7. FillsBuffer(got', Offset')
  <2>1. UpTo(got, Offset)  BY DEF FillInv
  <2>2. SizeRequested \in Nat  BY <1>3, <1>4
  <2>3. FillsBuffer(Append(got, [t |-> tele, off |-> Offset]), Offset + SizeRequested)
    BY <1>1, <1>5, <2>1, <2>2, UpToAppend
  <2>4. QED  BY <1>6, <2>3, Zenon
<1>8. TotElements' * WordSize + Offset' = job.amount * WordSize /\ TotElements' \in Nat
  <2>1. TotElements * WordSize + Offset = job.amount * WordSize  BY DEF FillInv
  <2>2. QED  BY <1>1, <1>2, <1>4, <1>6, <2>1
<1>9. QED  BY <1>6, <1>7, <1>8

LEMMA FillStep ==
  ASSUME BuffersFit, TypeOK, LoopInv, FillInv, Next
  PROVE  FillInv' /\ (Returns("ok") /\ req = "ReadArea" => FillsBuffer(got', job.amount * WordSize))
<1>0. (req' # "ReadArea" \/ pc' = "idle") => FillInv'  BY Zenon DEF FillInv
<1>a. ASSUME UNCHANGED <<req, job, got, Offset, TotElements>>, pc' # "idle" => pc # "idle"
      PROVE  FillInv'
  BY <1>a, Zenon DEF FillInv, WordSize
<1>1. CASE ConnectAgain \/ TCPConnectFails \/ Disconnect \/ TCPConnect
  <2>1. pc = "idle" /\ (pc' = "idle" \/ req' # "ReadArea")
    BY <1>1 DEF ConnectAgain, TCPConnectFails, Disconnect, TCPConnect
  <2>2. QED  BY <1>0, <2>1, Zenon DEF Returns
<1>2. ASSUME NEW j \in Jobs, Call(j)
      PROVE  FillInv' /\ ~Returns("ok")
  <2>1. j.amount \in Nat  BY JobsAssumption, WidthAssumption DEF U16
  <2>2. /\ req' = j.fn /\ job' = j /\ got' = <<>> /\ Offset' = 0 /\ TotElements' = j.amount /\ pc = "idle"
    BY <1>2, Zenon DEF Call
  <2>3. WordSize' \in {1, 2} /\ WordSize' = IF j.area = "TM" THEN 2 ELSE 1  BY <2>2 DEF WordSize
  <2>4. req' = "ReadArea" => j.amount * WordSize' < U16Size  BY <2>2, <2>3 DEF BuffersFit
  <2>5. TotElements' * WordSize' + Offset' = j.amount * WordSize'  BY <2>1, <2>2, <2>3
  <2>6. UpTo(got, Offset)'  BY <2>2, Zenon DEF UpTo
  <2>7. FillInv'  BY <2>2, <2>4, <2>5, <2>6, Zenon DEF FillInv
  <2>8. QED  BY <2>2, <2>7, Zenon DEF Returns
<1>3. CASE Send \/ RecvTPKT \/ SkipEmpty \/ RecvCOTP \/ COTPTimesOut \/ Deliver \/ LinkDies
  <2>1. /\ UNCHANGED <<req, job, got, Offset, TotElements>> /\ (pc' = "idle" => pc = "idle")
        /\ (pc' # "idle" => pc # "idle")
    BY <1>3 DEF Send, RecvTPKT, SkipEmpty, RecvCOTP, COTPTimesOut, Deliver, LinkDies, loopVars
  <2>2. QED  BY <1>a, <2>1, Zenon DEF Returns
<1>4. ASSUME NEW err \in Errors, Finish(err), job' = job, pc # "idle", err # "ok"
      PROVE  FillInv' /\ ~Returns("ok")
  <2>1. LastError' = err /\ (req' \in ConnectFns \/ pc' = "idle")
    BY <1>4, Zenon DEF Finish, FinishConnect, FinishChunk, FinishUnit, ConnectFns
  <2>2. FillInv'  BY <1>0, <2>1 DEF ConnectFns
  <2>3. QED  BY <1>4, <2>1, <2>2, Zenon DEF Returns
<1>5. CASE SendFails
  BY <1>4, <1>5, ErrorTypes DEF SendFails
<1>6. CASE RecvBadTPKT
  <2>1. "errISOInvalidPDU" \in Errors /\ "errISOInvalidPDU" # "ok"  BY DEF Errors, SevereErrors
  <2>2. QED  BY <1>4, <1>6, <2>1 DEF RecvBadTPKT
<1>7. CASE TimesOut
  BY <1>4, <1>7, ErrorTypes DEF TimesOut
<1>8. CASE RecvData
  <2>1. PICK err \in Errors : Verdict(err) /\ Finish(err)  BY <1>8 DEF RecvData
  <2>2. pc = "data" /\ job' = job  BY <1>8 DEF RecvData
  <2>3. CASE err # "ok"  BY <1>4, <2>1, <2>2, <2>3
  <2>4. CASE err = "ok" /\ req = "ReadArea"
    <3>1. FinishChunk("ok")
      BY <2>1, <2>4 DEF Finish, FinishConnect, FinishUnit, UnitFns
    <3>2. /\ FillsBuffer(got', Offset') /\ pc' = IF TotElements' > 0 THEN "send" ELSE "idle"
          /\ TotElements' * WordSize + Offset' = job.amount * WordSize /\ TotElements' \in Nat
      BY <2>1, <2>2, <2>4, <3>1, FinishFills
    <3>3. WordSize' = WordSize /\ WordSize \in {1, 2}  BY <2>2 DEF WordSize
    <3>4. UpTo(got, Offset)'  BY <3>2, Zenon DEF UpTo, FillsBuffer
    <3>5. job.amount * WordSize < U16Size  BY <2>2, <2>4 DEF FillInv
    <3>6. FillInv'  BY <2>2, <3>2, <3>3, <3>4, <3>5, Zenon DEF FillInv
    <3>7. pc' = "idle" => Offset' = job.amount * WordSize
      <4>1. Offset' \in Nat  BY <2>1, <2>2, FinishKeeps
      <4>2. pc' = "idle" => TotElements' = 0  BY <3>2
      <4>3. 0 * WordSize + Offset' = Offset'
        <5>1. ASSUME NEW w \in {1, 2}, NEW o \in Nat  PROVE 0 * w + o = o
          <6>1. 0 * w = 0  OBVIOUS
          <6>2. QED  BY <6>1
        <5>2. QED  BY <3>3, <4>1, <5>1, Zenon
      <4>4. QED  BY <3>2, <4>2, <4>3, Zenon
    <3>8. QED  BY <3>2, <3>6, <3>7, Zenon DEF Returns
  <2>5. CASE req # "ReadArea"
    <3>1. req' # "ReadArea"
      BY <2>1, <2>5, Zenon DEF Finish, FinishConnect, FinishChunk, FinishUnit
    <3>2. QED  BY <1>0, <2>5, <3>1, Zenon
  <2>6. QED  BY <2>3, <2>4, <2>5
<1>9. QED
  BY <1>1, <1>2, <1>3, <1>5, <1>6, <1>7, <1>8 DEF Next, Caller, Step

\* ReadArea returns 0 only when the chunks it took lie end to end and fill the
\* caller's buffer, on any connection: with stale answers, refusals and timeouts.
THEOREM ReadsFillTheBuffer == BuffersFit => (Spec => ReadFillsBuffer)
<1>1. SUFFICES ASSUME BuffersFit  PROVE Spec => ReadFillsBuffer  OBVIOUS
<1>2. Init => FillInv  BY DEF Init, FillInv
<1>3. IInv /\ FillInv /\ [Next]_vars => FillInv'
  <2>1. ASSUME FillInv, UNCHANGED vars  PROVE FillInv'
    BY <2>1, Zenon DEF FillInv, WordSize, vars, loopVars
  <2>2. QED  BY <1>1, <2>1, FillStep DEF IInv
<1>4. IInv /\ FillInv /\ [Next]_vars =>
        [Returns("ok") /\ req = "ReadArea" => FillsBuffer(got', job.amount * WordSize)]_vars
  BY <1>1, FillStep DEF IInv
<1>5. QED  BY <1>2, <1>3, <1>4, Invariant, PTL DEF Spec, ReadFillsBuffer
=============================================================================
