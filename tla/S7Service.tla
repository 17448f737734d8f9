------------------------------ MODULE S7Service ------------------------------
(***************************************************************************)
(* What the S7 client promises its caller (the abstract specification of   *)
(* S7Client): calls are made one at a time and end in a result; a result   *)
(* of 0 on a trusted connection means the data answer this call; trust is  *)
(* lost by a timeout and comes back only with a new connection.            *)
(***************************************************************************)
VARIABLES
  connected,  \* S7Client::Connected
  phase,      \* is a call running, and is it Connect()?
  result,     \* class of S7Client::LastError
  trusted,    \* nothing was abandoned on this connection
  served      \* do all answers taken by the last call belong to it?

svars == <<connected, phase, result, trusted, served>>

Results == {"ok", "s7", "severe"}

ServiceTypeOK ==
  /\ connected \in BOOLEAN /\ phase \in {"idle", "opening", "busy"}
  /\ result \in Results /\ trusted \in BOOLEAN /\ served \in BOOLEAN

ServiceInit ==
  /\ connected = FALSE /\ phase = "idle" /\ result = "ok" /\ trusted = TRUE /\ served = TRUE

MayLoseTrust == trusted' \in {trusted, FALSE}

\* Foreign answers are possible only where trust was lost before
MayMisserve == served' = served \/ (~trusted /\ served' \in BOOLEAN)

Open ==
  /\ phase = "idle" /\ ~connected
  /\ phase' = "opening" /\ result' = "ok" /\ trusted' = TRUE /\ served' = TRUE
  /\ UNCHANGED connected

\* The connection could not be made
OpenRefused ==
  /\ phase = "idle" /\ ~connected /\ result' = "severe"
  /\ UNCHANGED <<connected, phase, trusted, served>>

Opened ==
  /\ phase = "opening" /\ phase' = "idle"
  /\ result' \in {"ok", "severe"} /\ connected' = (result' = "ok")
  /\ MayLoseTrust /\ UNCHANGED served

\* Connect() on a connected client, and Disconnect()
Confirm ==
  /\ phase = "idle" /\ connected /\ result' = "ok" /\ connected' \in BOOLEAN
  /\ UNCHANGED <<phase, trusted, served>>

Begin ==
  /\ phase = "idle" /\ phase' \in {"idle", "busy"} /\ result' = "ok" /\ served' = TRUE
  /\ UNCHANGED <<connected, trusted>>

\* Part of an exchange, or its end
Progress ==
  /\ phase # "idle"
  /\ \/ phase' = phase
     \/ phase = "busy" /\ phase' = "idle"
  /\ result' \in Results
  /\ MayLoseTrust /\ MayMisserve
  /\ UNCHANGED connected

ServiceNext == Open \/ OpenRefused \/ Opened \/ Confirm \/ Begin \/ Progress

ServiceSpec == ServiceInit /\ [][ServiceNext]_svars

\* While nothing was abandoned on the connection, a caller has its own answers
Honest == trusted => served
=============================================================================
