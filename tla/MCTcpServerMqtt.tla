-------------------------- MODULE MCTcpServerMqtt --------------------------
(* TcpServerMqtt for TLC *)
EXTENDS TcpServerMqtt

MCCutValues == {<<99, 99>>}

One == <<[tag |-> 1, value |-> <<99, 4>>]>>
Another == <<[tag |-> 2, value |-> <<99, 99>>]>>
Both == One \o Another

MCMessages == {One, Another, Both}

MCBounds == {[messages |-> <<Another, One>>, parts |-> 6, writes |-> FALSE],
             [messages |-> <<Both>>, parts |-> 2, writes |-> FALSE],
             [messages |-> <<One>>, parts |-> 1, writes |-> TRUE]}
=============================================================================
