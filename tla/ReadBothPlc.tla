---------------------------- MODULE ReadBothPlc ----------------------------
(***************************************************************************)
(* READ_BOTH_PLC.ino: three FreeRTOS tasks copy values between two PLCs.   *)
(*                                                                         *)
(* Task1 reads the S7-200 under mate_200 and writes what it read to the    *)
(* S7-1200; Task2 does the reverse under mate_1200; Task3 connects the     *)
(* clients that are not Connected.  The mutexes guard one client each, but *)
(* all Settimino clients build and receive their telegrams in one global   *)
(* PDU, and the writes go to a client whose mutex is not held.             *)
(*                                                                         *)
(* The PDU is three zones: the header of a request (bytes 0 to 30), the    *)
(* return code (byte 31) and the data (from byte 35).  The answer to a     *)
(* telegram arrives at once; a wait times out when another task took it.   *)
(***************************************************************************)
EXTENDS Integers, Sequences

CONSTANTS
  ConnectMayFail, \* can ConnectTo() fail?
  MortalLinks,    \* the PLCs whose link may die
  FallsOff        \* what Connect_1200() and Connect_200() may return on success:
                  \* they reach their closing brace without a return statement

ASSUME FallsOffAssumption == FallsOff \subseteq BOOLEAN /\ FallsOff # {}
ASSUME FailAssumption     == ConnectMayFail \in BOOLEAN

Copiers == {"Task1", "Task2"}
Tasks   == Copiers \cup {"Task3"}
PLCs    == {"200", "1200"}
Other(c) == CHOOSE d \in PLCs : d # c

\* Task1 reads the 200, Task2 the 1200
Source(t) == IF t = "Task1" THEN "200" ELSE "1200"

VARIABLES
  mate,      \* mate_200 and mate_1200: the task that holds the mutex, or "free"
  pc,        \* where each task is
  step,      \* the call a copier is at: 1 the ReadArea, 2 and 3 the WriteAreas
  visits,    \* the client Task3 is looking at
  Connected, \* S7Client::Connected
  LastError, \* S7Client::LastError, of each client
  alive,     \* the client holds a socket, and its PLC answers on it
  inbox,     \* answers that arrived on the socket
  PDU,       \* the zones of the global PDU
  Length,    \* the local Length of each task: the kind of answer it received
  MyBuffer,  \* whose data the last successful ReadArea of a task delivered
  stored,    \* whose data was written last to each PLC
  connected_1200  \* the global connected_1200 is 1200

vars == <<mate, pc, step, visits, Connected, LastError, alive, inbox, PDU, Length,
          MyBuffer, stored, connected_1200>>

netVars == <<Connected, alive, connected_1200>>

Data == PLCs \cup {"none", "negotiation"}

TypeOK ==
  /\ mate \in [PLCs -> Tasks \cup {"free"}]
  /\ pc \in [Tasks -> {"delay", "fill", "send", "recv", "check", "connect", "give", "poll"}]
  /\ step \in [Copiers -> 1 .. 3] /\ visits \in PLCs
  /\ Connected \in [PLCs -> BOOLEAN] /\ alive \in [PLCs -> BOOLEAN]
  /\ LastError \in [PLCs -> {"ok", "severe", "s7"}]
  /\ inbox \in [PLCs -> Seq({"read", "write"})]
  /\ PDU \in [head : {"read", "write", "answer"}, code : BOOLEAN, data : Data]
  /\ Length \in [Copiers -> {"read", "write"}]
  /\ MyBuffer \in [Copiers -> Data] /\ stored \in [PLCs -> Data]
  /\ connected_1200 \in BOOLEAN

Init ==
  /\ mate = [c \in PLCs |-> "free"]
  /\ pc = [t \in Tasks |-> IF t = "Task3" THEN "poll" ELSE "delay"]
  /\ step = [t \in Copiers |-> 1] /\ visits = "1200"
  /\ Connected = [c \in PLCs |-> FALSE] /\ alive = [c \in PLCs |-> FALSE]
  /\ LastError = [c \in PLCs |-> "ok"] /\ inbox = [c \in PLCs |-> <<>>]
  /\ PDU = [head |-> "answer", code |-> FALSE, data |-> "none"]
  /\ Length = [t \in Copiers |-> "read"]
  /\ MyBuffer = [t \in Copiers |-> "none"] /\ stored = [c \in PLCs |-> "none"]
  /\ connected_1200 = FALSE
-----------------------------------------------------------------------------
Goto(t, place) == pc' = [pc EXCEPT ![t] = place]

\* The client and the kind of the call a copier is making
Target(t) == IF step[t] = 1 THEN Source(t) ELSE Other(Source(t))
Kind(t)   == IF step[t] = 1 THEN "read" ELSE "write"

\* What a copier does with the result: only the result of ReadArea is looked at;
\* CheckError() reconnects on the severe errors
Return(t, err) ==
  /\ LastError' = [LastError EXCEPT ![Target(t)] = err]
  /\ IF step[t] = 1
     THEN IF err = "ok" THEN Goto(t, "fill") ELSE Goto(t, IF err = "severe" THEN "connect" ELSE "give")
     ELSE Goto(t, IF step[t] = 3 THEN "give" ELSE "fill")
  /\ step' = [step EXCEPT ![t] = IF step[t] = 1 /\ err # "ok" THEN 1
                                 ELSE IF step[t] = 3 THEN 1 ELSE step[t] + 1]

\* Mutant: the wait for the mutex ends without it, and nobody looks
TakeMateAnyway(t) ==
  /\ pc[t] = "delay"
  /\ mate' = [mate EXCEPT ![Source(t)] = t] /\ Goto(t, "fill")
  /\ UNCHANGED <<step, visits, netVars, LastError, inbox, PDU, Length, MyBuffer, stored>>

TakeMate(t) ==
  /\ pc[t] = "delay" /\ mate[Source(t)] = "free"
  /\ mate' = [mate EXCEPT ![Source(t)] = t] /\ Goto(t, "fill")
  /\ UNCHANGED <<step, visits, netVars, LastError, inbox, PDU, Length, MyBuffer, stored>>

\* memcpy(&PDU.H, S7_RW, ...): 31 bytes for a read, 35 and the value for a write
FillPDU(t) ==
  /\ pc[t] = "fill" /\ Goto(t, "send")
  /\ LastError' = [LastError EXCEPT ![Target(t)] = "ok"]
  /\ PDU' = IF Kind(t) = "read" THEN [PDU EXCEPT !.head = "read"]
            ELSE [head |-> "write", code |-> FALSE, data |-> MyBuffer[t]]
  /\ UNCHANGED <<mate, step, visits, netVars, inbox, Length, MyBuffer, stored>>

\* A writer sends 35 bytes and the value, a reader 31: too few for a write
Understood(t) == PDU.head = "read" \/ (PDU.head = "write" /\ Kind(t) = "write")

\* TCPClient->write(&PDU.H[0], ...) sends whatever the PDU holds by now
Send(t) ==
  LET c == Target(t) IN
  /\ pc[t] = "send" /\ alive[c] /\ Goto(t, "recv")
  /\ inbox' = IF Understood(t) THEN [inbox EXCEPT ![c] = Append(@, PDU.head)] ELSE inbox
  /\ stored' = IF Understood(t) /\ PDU.head = "write" THEN [stored EXCEPT ![c] = PDU.data]
               ELSE stored
  /\ UNCHANGED <<mate, step, visits, netVars, LastError, PDU, Length, MyBuffer>>

\* A client without a socket takes nothing; a dead connection may take it
SendFails(t) ==
  /\ pc[t] = "send" /\ ~alive[Target(t)]
  /\ Return(t, "severe")
  /\ UNCHANGED <<mate, visits, netVars, inbox, PDU, Length, MyBuffer, stored>>

SendToDead(t) ==
  /\ pc[t] = "send" /\ ~alive[Target(t)] /\ Connected[Target(t)]
  /\ Goto(t, "recv")
  /\ UNCHANGED <<mate, step, visits, netVars, LastError, inbox, PDU, Length, MyBuffer, stored>>

\* RecvISOPacket(): the next answer on the socket goes into the PDU
Recv(t) ==
  LET c == Target(t)
      a == Head(inbox[c])
  IN
  /\ pc[t] = "recv" /\ inbox[c] # <<>> /\ Goto(t, "check")
  /\ inbox' = [inbox EXCEPT ![c] = Tail(@)]
  /\ PDU' = [head |-> "answer", code |-> TRUE, data |-> IF a = "read" THEN c ELSE PDU.data]
  /\ Length' = [Length EXCEPT ![t] = a]
  /\ LastError' = [LastError EXCEPT ![c] = "ok"]
  /\ UNCHANGED <<mate, step, visits, netVars, MyBuffer, stored>>

RecvTimesOut(t) ==
  /\ pc[t] = "recv" /\ inbox[Target(t)] = <<>>
  /\ Return(t, "severe")
  /\ UNCHANGED <<mate, visits, netVars, inbox, PDU, Length, MyBuffer, stored>>

\* if (LastError == 0): ReadArea looks at its Length and at the return code,
\* WriteArea at two bytes of the header as well
Accepts(t) ==
  /\ Length[t] = Kind(t) /\ PDU.code
  /\ Kind(t) = "write" => PDU.head = "answer"

Check(t) ==
  LET before == LastError[Target(t)]
      err    == IF before # "ok" THEN before ELSE IF Accepts(t) THEN "ok" ELSE "s7"
  IN
  /\ pc[t] = "check" /\ Return(t, err)
  /\ MyBuffer' = IF step[t] = 1 /\ err = "ok" THEN [MyBuffer EXCEPT ![t] = PDU.data] ELSE MyBuffer
  /\ UNCHANGED <<mate, visits, netVars, inbox, PDU, Length, stored>>

GiveMate(t) ==
  /\ pc[t] = "give" /\ mate' = [mate EXCEPT ![Source(t)] = "free"]
  /\ Goto(t, "delay")
  /\ UNCHANGED <<step, visits, netVars, LastError, inbox, PDU, Length, MyBuffer, stored>>
-----------------------------------------------------------------------------
(***************************************************************************)
(* Connect_1200() and Connect_200().                                       *)
(***************************************************************************)
\* ConnectTo() on a Connected client does nothing and returns 0; otherwise the
\* answers of the connection pass through the PDU
ConnectSucceeds(c) ==
  /\ LastError' = [LastError EXCEPT ![c] = "ok"]
  /\ Connected' = [Connected EXCEPT ![c] = TRUE]
  /\ connected_1200' = (connected_1200 \/ c = "1200")
  /\ IF Connected[c]
     THEN UNCHANGED <<alive, inbox, PDU>>
     ELSE /\ alive' = [alive EXCEPT ![c] = TRUE] /\ inbox' = [inbox EXCEPT ![c] = <<>>]
          /\ PDU' = [head |-> "answer", code |-> FALSE, data |-> "negotiation"]

\* On a failure the Ethernet chip is reset, and the sockets of both clients go
ConnectFails(c) ==
  /\ ConnectMayFail /\ ~Connected[c]
  /\ LastError' = [LastError EXCEPT ![c] = "severe"]
  /\ alive' = [d \in PLCs |-> FALSE] /\ inbox' = [d \in PLCs |-> <<>>]
  /\ UNCHANGED <<Connected, connected_1200, PDU>>

\* CheckError(): the result is not looked at
CopierConnects(t) ==
  /\ pc[t] = "connect" /\ t \in Copiers
  /\ ConnectSucceeds(Source(t)) \/ ConnectFails(Source(t))
  /\ Goto(t, "give")
  /\ UNCHANGED <<mate, step, visits, Length, MyBuffer, stored>>

Task3Unchanged == UNCHANGED <<step, Length, MyBuffer, stored>>

\* while (!Client.Connected): the 200 only once the 1200 has been connected
Task3Wants == ~Connected[visits] /\ (visits = "200" => connected_1200)

Task3Moves ==
  /\ pc["Task3"] = "poll" /\ ~Task3Wants
  /\ visits' = Other(visits)
  /\ UNCHANGED <<mate, pc, netVars, LastError, inbox, PDU>> /\ Task3Unchanged

Task3Takes ==
  /\ pc["Task3"] = "poll" /\ Task3Wants /\ mate[visits] = "free"
  /\ mate' = [mate EXCEPT ![visits] = "Task3"] /\ Goto("Task3", "connect")
  /\ UNCHANGED <<visits, netVars, LastError, inbox, PDU>> /\ Task3Unchanged

\* The mutex is given back only where Connect returned true
Task3Connects ==
  /\ pc["Task3"] = "connect"
  /\ \/ ConnectSucceeds(visits) /\ \E r \in FallsOff : Goto("Task3", IF r THEN "give" ELSE "poll")
     \/ ConnectFails(visits) /\ Goto("Task3", "poll")
  /\ UNCHANGED <<mate, visits>> /\ Task3Unchanged

\* Mutant: the mutex of the other PLC is given
Task3GivesOther ==
  /\ pc["Task3"] = "give" /\ Goto("Task3", "poll")
  /\ mate' = [mate EXCEPT ![Other(visits)] = "free"]
  /\ UNCHANGED <<visits, netVars, LastError, inbox, PDU>> /\ Task3Unchanged

Task3Gives ==
  /\ pc["Task3"] = "give" /\ Goto("Task3", "poll")
  /\ mate' = [mate EXCEPT ![visits] = "free"]
  /\ UNCHANGED <<visits, netVars, LastError, inbox, PDU>> /\ Task3Unchanged

\* The cable or the PLC goes
LinkDies(c) ==
  /\ c \in MortalLinks /\ alive[c]
  /\ alive' = [alive EXCEPT ![c] = FALSE] /\ inbox' = [inbox EXCEPT ![c] = <<>>]
  /\ UNCHANGED <<mate, pc, step, visits, Connected, LastError, PDU, Length, MyBuffer, stored,
                 connected_1200>>
-----------------------------------------------------------------------------
Copier(t) ==
  \/ TakeMate(t) \/ FillPDU(t) \/ Send(t) \/ SendFails(t) \/ SendToDead(t)
  \/ Recv(t) \/ RecvTimesOut(t) \/ Check(t) \/ CopierConnects(t) \/ GiveMate(t)

Task3 == Task3Moves \/ Task3Takes \/ Task3Connects \/ Task3Gives

Next == (\E t \in Copiers : Copier(t)) \/ Task3 \/ (\E c \in PLCs : LinkDies(c))

Spec == Init /\ [][Next]_vars

\* Every task runs when it can: all of them block or delay in every round.  A
\* waiter gets its mutex: whoever gives it delays before taking it again.
FairSpec ==
  /\ Spec /\ \A t \in Copiers : WF_vars(Copier(t)) /\ SF_vars(TakeMate(t))
  /\ WF_vars(Task3) /\ SF_vars(Task3Takes)
-----------------------------------------------------------------------------
(***************************************************************************)
(* Properties                                                              *)
(***************************************************************************)
\* The tasks inside ReadArea() or ConnectTo() of the client of PLC c
Busy(c) ==
  {t \in Copiers : Source(t) = c /\ (pc[t] = "connect" \/ (step[t] = 1 /\ pc[t] \in {"fill", "send", "recv", "check"}))}
  \cup {t \in {"Task3"} : pc[t] = "connect" /\ visits = c}

\* What the mutexes do achieve: a client is never read by one task while another
\* reads or connects it.
ReadsExclusive == \A c \in PLCs : \A t, u \in Busy(c) : t = u

\* READ_BOTH_PLC.ino:6 "Also reading from st 30 and sending over to s71200 vice
\* versa": what is written to a PLC was read from the other one.
CopiesCross == \A c \in PLCs : stored[c] \in {Other(c), "none"}

\* READ_BOTH_PLC.ino:297 "Checking Connection with S7": Task3 goes on checking.
KeepsChecking == []<><<Task3>>_vars

\* The lock discipline behind ReadsExclusive: who holds what, by position
HoldsWhat ==
  /\ \A t \in Copiers : pc[t] # "delay" => mate[Source(t)] = t
  /\ \A t \in Copiers, c \in PLCs : mate[c] = t => c = Source(t) /\ pc[t] # "delay"
  /\ pc["Task3"] \in {"connect", "give"} => mate[visits] = "Task3"

LockInv == TypeOK /\ HoldsWhat
=============================================================================
