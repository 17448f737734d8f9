------------------------- MODULE ReadBothPlc_proof -------------------------
(***************************************************************************)
(* Proofs about ReadBothPlc: the lock discipline of its three tasks, for   *)
(* every outcome of ConnectTo(), every dying link and every value the      *)
(* Connect functions may fall off with.                                    *)
(***************************************************************************)
EXTENDS ReadBothPlc, TLAPS

LEMMA OtherType ==
  ASSUME NEW c \in PLCs  PROVE Other(c) \in PLCs /\ Other(c) # c
BY DEF Other, PLCs

LEMMA TargetType ==
  ASSUME TypeOK, NEW t \in Copiers
  PROVE  Source(t) \in PLCs /\ Target(t) \in PLCs /\ Kind(t) \in {"read", "write"}
BY OtherType DEF Source, Target, Kind, PLCs, Copiers

\* However a call of a copier ends, it goes on to the next call, to CheckError()
\* or to xSemaphoreGive(), and keeps its place in the round.
LEMMA ReturnProps ==
  ASSUME TypeOK, NEW t \in Copiers, pc[t] \in {"send", "recv", "check"},
         NEW err \in {"ok", "severe", "s7"}, Return(t, err)
  PROVE  /\ LastError' \in [PLCs -> {"ok", "severe", "s7"}]
         /\ step' \in [Copiers -> 1 .. 3]
         /\ \E place \in {"fill", "connect", "give"} : pc' = [pc EXCEPT ![t] = place]
<1>1. LastError' \in [PLCs -> {"ok", "severe", "s7"}]
  BY TargetType DEF Return, TypeOK
<1>2. step' \in [Copiers -> 1 .. 3]
  BY DEF Return, TypeOK
<1>3. \E place \in {"fill", "connect", "give"} : pc' = [pc EXCEPT ![t] = place]
  BY DEF Return, Goto
<1>4. QED  BY <1>1, <1>2, <1>3

LEMMA TypeInit == Init => TypeOK
<1>1. <<>> \in Seq({"read", "write"})  OBVIOUS
<1>2. SUFFICES ASSUME Init  PROVE TypeOK  OBVIOUS
<1>3. /\ mate \in [PLCs -> Tasks \cup {"free"}]
      /\ pc \in [Tasks -> {"delay", "fill", "send", "recv", "check", "connect", "give", "poll"}]
      /\ step \in [Copiers -> 1 .. 3] /\ visits \in PLCs
  BY <1>2 DEF Init, PLCs
<1>4. /\ Connected \in [PLCs -> BOOLEAN] /\ alive \in [PLCs -> BOOLEAN]
      /\ LastError \in [PLCs -> {"ok", "severe", "s7"}]
      /\ inbox \in [PLCs -> Seq({"read", "write"})]
  BY <1>1, <1>2 DEF Init
<1>5. /\ PDU \in [head : {"read", "write", "answer"}, code : BOOLEAN, data : Data]
      /\ Length \in [Copiers -> {"read", "write"}]
      /\ MyBuffer \in [Copiers -> Data] /\ stored \in [PLCs -> Data]
      /\ connected_1200 \in BOOLEAN
  BY <1>2 DEF Init, Data
<1>6. QED  BY <1>3, <1>4, <1>5 DEF TypeOK

LEMMA ConnectType ==
  ASSUME TypeOK, NEW c \in PLCs, ConnectSucceeds(c) \/ ConnectFails(c)
  PROVE  /\ Connected' \in [PLCs -> BOOLEAN] /\ alive' \in [PLCs -> BOOLEAN]
         /\ LastError' \in [PLCs -> {"ok", "severe", "s7"}]
         /\ inbox' \in [PLCs -> Seq({"read", "write"})]
         /\ PDU' \in [head : {"read", "write", "answer"}, code : BOOLEAN, data : Data]
         /\ connected_1200' \in BOOLEAN
<1> <<>> \in Seq({"read", "write"})  OBVIOUS
<1>1. CASE ConnectSucceeds(c)
  <2>1. connected_1200' \in BOOLEAN /\ Connected' \in [PLCs -> BOOLEAN]
    BY <1>1 DEF ConnectSucceeds, TypeOK
  <2>2. LastError' \in [PLCs -> {"ok", "severe", "s7"}]
    BY <1>1 DEF ConnectSucceeds, TypeOK
  <2>3. CASE Connected[c]
    BY <1>1, <2>1, <2>2, <2>3 DEF ConnectSucceeds, TypeOK
  <2>4. CASE ~Connected[c]
    <3>1. /\ alive' = [alive EXCEPT ![c] = TRUE] /\ inbox' = [inbox EXCEPT ![c] = <<>>]
          /\ PDU' = [head |-> "answer", code |-> FALSE, data |-> "negotiation"]
      BY <1>1, <2>4 DEF ConnectSucceeds
    <3>2. alive' \in [PLCs -> BOOLEAN] /\ inbox' \in [PLCs -> Seq({"read", "write"})]
      BY <3>1 DEF TypeOK
    <3>3. PDU' \in [head : {"read", "write", "answer"}, code : BOOLEAN, data : Data]
      BY <3>1 DEF Data
    <3>4. QED  BY <2>1, <2>2, <3>2, <3>3
  <2>5. QED  BY <2>3, <2>4
<1>2. CASE ConnectFails(c)
  BY <1>2 DEF ConnectFails, TypeOK
<1>3. QED  BY <1>1, <1>2

(***************************************************************************)
(* The steps of the copiers.                                               *)
(***************************************************************************)
LEMMA CopierStep ==
  ASSUME LockInv, NEW t \in Copiers, Copier(t)  PROVE LockInv'
<1> USE DEF LockInv
<1>0. /\ Source(t) \in PLCs /\ Target(t) \in PLCs /\ t \in Tasks /\ t # "Task3"
      /\ \A u \in Copiers : Source(u) \in PLCs /\ (u # t => Source(u) # Source(t))
  BY TargetType DEF Copiers, Tasks, Source, PLCs
<1>1. CASE TakeMate(t)
  BY <1>0, <1>1 DEF TakeMate, Goto, TypeOK, HoldsWhat, netVars, Tasks, Copiers, PLCs
<1>2. CASE FillPDU(t)
  <2>1. PDU' \in [head : {"read", "write", "answer"}, code : BOOLEAN, data : Data]
    BY <1>2 DEF FillPDU, TypeOK
  <2>2. QED
    BY <1>0, <1>2, <2>1 DEF FillPDU, Goto, TypeOK, HoldsWhat, netVars, Tasks
<1>3. CASE Send(t)
  <2>1. inbox' \in [PLCs -> Seq({"read", "write"})]
    BY <1>0, <1>3 DEF Send, TypeOK, Understood
  <2>2. stored' \in [PLCs -> Data]
    BY <1>0, <1>3 DEF Send, TypeOK
  <2>3. QED
    BY <1>0, <1>3, <2>1, <2>2 DEF Send, Goto, TypeOK, HoldsWhat, netVars, Tasks
<1>4. CASE SendFails(t) \/ RecvTimesOut(t)
  <2>1. pc[t] \in {"send", "recv"} /\ Return(t, "severe")  BY <1>4 DEF SendFails, RecvTimesOut
  <2>2. /\ LastError' \in [PLCs -> {"ok", "severe", "s7"}] /\ step' \in [Copiers -> 1 .. 3]
        /\ \E place \in {"fill", "connect", "give"} : pc' = [pc EXCEPT ![t] = place]
    BY <2>1, ReturnProps
  <2>3. QED
    BY <1>0, <1>4, <2>1, <2>2 DEF SendFails, RecvTimesOut, TypeOK, HoldsWhat, netVars, Tasks
<1>5. CASE SendToDead(t)
  BY <1>0, <1>5 DEF SendToDead, Goto, TypeOK, HoldsWhat, netVars, Tasks
<1>6. CASE Recv(t)
  <2>1. inbox[Target(t)] \in Seq({"read", "write"}) /\ inbox[Target(t)] # <<>>
    BY <1>0, <1>6 DEF Recv, TypeOK
  <2>2. /\ Head(inbox[Target(t)]) \in {"read", "write"}
        /\ Tail(inbox[Target(t)]) \in Seq({"read", "write"})
    BY <2>1
  <2>3. PDU' \in [head : {"read", "write", "answer"}, code : BOOLEAN, data : Data]
    <3>1. PDU.data \in Data /\ Target(t) \in Data  BY <1>0 DEF TypeOK, Data
    <3>2. QED  BY <1>6, <3>1 DEF Recv
  <2>4. QED
    BY <1>0, <1>6, <2>2, <2>3 DEF Recv, Goto, TypeOK, HoldsWhat, netVars, Tasks
<1>7. CASE Check(t)
  <2>1. PICK err \in {"ok", "severe", "s7"} : Return(t, err)
    BY <1>0, <1>7 DEF Check, TypeOK
  <2>2. MyBuffer' \in [Copiers -> Data]
    BY <1>7 DEF Check, TypeOK
  <2>3. pc[t] = "check"  BY <1>7 DEF Check
  <2>4. /\ LastError' \in [PLCs -> {"ok", "severe", "s7"}] /\ step' \in [Copiers -> 1 .. 3]
        /\ \E place \in {"fill", "connect", "give"} : pc' = [pc EXCEPT ![t] = place]
    BY <2>1, <2>3, ReturnProps
  <2>5. UNCHANGED <<mate, visits, netVars, inbox, PDU, Length, stored>>  BY <1>7 DEF Check
  <2>6. QED
    BY <1>0, <2>2, <2>3, <2>4, <2>5 DEF TypeOK, HoldsWhat, netVars, Tasks
<1>8. CASE CopierConnects(t)
  BY <1>0, <1>8, ConnectType DEF CopierConnects, Goto, TypeOK, HoldsWhat, Tasks
<1>9. CASE GiveMate(t)
  BY <1>0, <1>9 DEF GiveMate, Goto, TypeOK, HoldsWhat, netVars, Tasks, Copiers, PLCs
<1>10. QED
  BY <1>1, <1>2, <1>3, <1>4, <1>5, <1>6, <1>7, <1>8, <1>9 DEF Copier

(***************************************************************************)
(* The steps of Task3, and the network.                                    *)
(***************************************************************************)
LEMMA Task3Step ==
  ASSUME LockInv, Task3  PROVE LockInv'
<1> USE DEF LockInv
<1>0. /\ visits \in PLCs /\ Other(visits) \in PLCs /\ "Task3" \in Tasks /\ "Task3" \notin Copiers
      /\ \A t \in Copiers : t \in Tasks /\ Source(t) \in PLCs
  BY OtherType, TargetType DEF TypeOK, Copiers, Tasks
<1>1. CASE Task3Moves
  BY <1>0, <1>1 DEF Task3Moves, Task3Unchanged, TypeOK, HoldsWhat, netVars
<1>2. CASE Task3Takes
  BY <1>0, <1>2 DEF Task3Takes, Task3Unchanged, Goto, TypeOK, HoldsWhat, netVars, Copiers, PLCs
<1>3. CASE Task3Connects
  <2>1. ConnectSucceeds(visits) \/ ConnectFails(visits)  BY <1>3 DEF Task3Connects
  <2>2. \E place \in {"give", "poll"} : pc' = [pc EXCEPT !["Task3"] = place]
    BY <1>3 DEF Task3Connects, Goto
  <2>3. QED
    BY <1>0, <1>3, <2>1, <2>2, ConnectType DEF Task3Connects, Task3Unchanged, TypeOK, HoldsWhat
<1>4. CASE Task3Gives
  <2>1. /\ mate[visits] = "Task3" /\ mate' = [mate EXCEPT ![visits] = "free"]
        /\ pc' = [pc EXCEPT !["Task3"] = "poll"] /\ visits' = visits
    BY <1>4 DEF Task3Gives, HoldsWhat, Goto
  <2>2. TypeOK'
    <3>1. mate' \in [PLCs -> Tasks \cup {"free"}]  BY <2>1 DEF TypeOK
    <3>2. pc' \in [Tasks -> {"delay", "fill", "send", "recv", "check", "connect", "give", "poll"}]
      BY <2>1 DEF TypeOK
    <3>3. QED  BY <1>4, <3>1, <3>2 DEF Task3Gives, Task3Unchanged, TypeOK, netVars
  <2>3. HoldsWhat'
    <3>1. \A t \in Copiers : pc'[t] = pc[t] /\ t # "Task3"  BY <1>0, <2>1 DEF TypeOK
    <3>2. pc'["Task3"] = "poll"  BY <1>0, <2>1 DEF TypeOK
    <3>3. \A c \in PLCs : mate'[c] = mate[c] \/ (c = visits /\ mate'[c] = "free")
      BY <2>1 DEF TypeOK
    <3>4. "free" \notin Copiers  BY DEF Copiers
    <3>5. QED  BY <1>0, <2>1, <3>1, <3>2, <3>3, <3>4 DEF HoldsWhat
  <2>4. QED  BY <2>2, <2>3
<1>5. QED  BY <1>1, <1>2, <1>3, <1>4 DEF Task3

LEMMA LinkDiesStep ==
  ASSUME LockInv, NEW c \in PLCs, LinkDies(c)  PROVE LockInv'
<1>1. <<>> \in Seq({"read", "write"})  OBVIOUS
<1>2. QED  BY <1>1 DEF LockInv, LinkDies, TypeOK, HoldsWhat

\* In every reachable state each mutex is held by the task whose place in its
\* code says so: a copier from its xSemaphoreTake() to its xSemaphoreGive().
THEOREM LockDiscipline == Spec => []LockInv
<1>1. Init => LockInv
  BY TypeInit DEF LockInv, Init, HoldsWhat, Tasks, Copiers, PLCs
<1>2. LockInv /\ [Next]_vars => LockInv'
  <2>1. SUFFICES ASSUME LockInv, [Next]_vars  PROVE LockInv'
    OBVIOUS
  <2>2. CASE UNCHANGED vars
    BY <2>1, <2>2 DEF vars, LockInv, TypeOK, HoldsWhat, netVars
  <2>3. QED  BY <2>1, <2>2, CopierStep, Task3Step, LinkDiesStep DEF Next
<1>3. QED  BY <1>1, <1>2, PTL DEF Spec

\* A client is never read by one task while another reads or connects it: what
\* the two mutexes achieve, whatever the connections do.
THEOREM ReadsAreExclusive == Spec => []ReadsExclusive
<1>1. LockInv => ReadsExclusive
  <2>1. SUFFICES ASSUME LockInv, NEW c \in PLCs, NEW t \in Busy(c)  PROVE mate[c] = t
    BY DEF ReadsExclusive
  <2>2. CASE t \in Copiers
    BY <2>1, <2>2 DEF LockInv, HoldsWhat, Busy, Copiers
  <2>3. CASE t = "Task3"
    BY <2>1, <2>3 DEF LockInv, HoldsWhat, Busy, Copiers
  <2>4. QED  BY <2>1, <2>2, <2>3 DEF Busy
<1>2. QED  BY <1>1, LockDiscipline, PTL
=============================================================================
