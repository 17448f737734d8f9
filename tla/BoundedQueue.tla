---------------------------- MODULE BoundedQueue ----------------------------
(***************************************************************************)
(* What queue.c promises of a queue of messages: it holds up to so many of *)
(* them, and one that reads it gets the one at its front.                  *)
(***************************************************************************)
EXTENDS Integers, Sequences

CONSTANTS
  DataQueues, \* the queues
  uxLength,   \* how many messages each may hold
  Messages,   \* what may be sent
  NoMessage   \* nothing has been read yet

VARIABLES
  items, \* the messages of each queue, its front first
  copied \* what was last read from each queue

Init ==
  /\ items = [q \in DataQueues |-> <<>>]
  /\ copied = [q \in DataQueues |-> NoMessage]

SendToBack(q, m) ==
  /\ Len(items[q]) < uxLength[q]
  /\ items' = [items EXCEPT ![q] = Append(@, m)] /\ UNCHANGED copied

SendToFront(q, m) ==
  /\ Len(items[q]) < uxLength[q]
  /\ items' = [items EXCEPT ![q] = <<m>> \o @] /\ UNCHANGED copied

Overwrite(q, m) ==
  /\ uxLength[q] = 1
  /\ items' = [items EXCEPT ![q] = <<m>>] /\ UNCHANGED copied

Receive(q) ==
  /\ items[q] # <<>>
  /\ items' = [items EXCEPT ![q] = Tail(@)]
  /\ copied' = [copied EXCEPT ![q] = Head(items[q])]

Peek(q) ==
  /\ items[q] # <<>>
  /\ copied' = [copied EXCEPT ![q] = Head(items[q])] /\ UNCHANGED items

Reset(q) == items' = [items EXCEPT ![q] = <<>>] /\ UNCHANGED copied

Next ==
  \E q \in DataQueues :
    \/ \E m \in Messages : SendToBack(q, m) \/ SendToFront(q, m) \/ Overwrite(q, m)
    \/ Receive(q) \/ Peek(q) \/ Reset(q)

Spec == Init /\ [][Next]_<<items, copied>>
=============================================================================
