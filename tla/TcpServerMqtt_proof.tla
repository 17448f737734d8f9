------------------------ MODULE TcpServerMqtt_proof ------------------------
(***************************************************************************)
(* Proofs about TcpServerMqtt: its types, that a set of changes goes out   *)
(* as Task3 wrote it, where changes get lost, when the first registers do  *)
(* not mix two tags, and how a message gets lost on its way to Task1.      *)
(***************************************************************************)
EXTENDS TcpServerMqtt, SequenceTheorems, TLAPS

(* The types, by what changes together *)

LoopTypes ==
  /\ buffer \in [1 .. SIZE -> Parts \cup {Other, Ours}] /\ messageTemp \in Seq(Parts \cup {Other})
  /\ i \in 1 .. SIZE /\ length \in 0 .. SIZE
  /\ bound \in Bounds /\ arrived \in 0 .. Len(bound.messages) /\ last \in Messages \cup {<<>>}
  /\ fate \in {"none", "arriving", "waiting"}

ReaderTypes ==
  /\ pc1 \in {"delay", "parse", "tag", "high", "low", "erase", "pause"}
  /\ at \in Nat \ {0} /\ size \in Nat /\ key \in Names \cup {0} /\ IsDocument(obj, Tags, Values)
  /\ replaced \in BOOLEAN /\ whole \in BOOLEAN /\ clean \in BOOLEAN

RegisterTypes == Hreg \in [Registers -> Words] /\ asSet \in BOOLEAN

RoundTypes ==
  /\ baton \in {"free", "Task3", "Task4"} /\ pc3 \in {"delay", "wait", "read", "write"}
  /\ current_value \in Seq(Words) /\ IsDocument(root, Registers, Words)
  /\ prev_value \in [Registers -> Words \cup {0}]
  /\ plc_out \in {Unwritten, Half} \/ IsDocument(plc_out, Registers, Words)
  /\ pc4 \in {"delay", "publish", "fill"} /\ filled \in 0 .. SIZE
  /\ packet = Unwritten \/ IsDocument(packet, Registers, Words)
  /\ unpublished \subseteq Registers

(* The strengthened invariant *)

\* Who is where holds the mutex, and plc_out is being written only there.
BatonInv ==
  /\ pc3 \in {"read", "write"} <=> baton = "Task3"
  /\ pc4 # "delay" <=> baton = "Task4"
  /\ plc_out = Half <=> pc3 = "write"

\* What a round writes are the values it has stored, and publish() is called for
\* what has been written.
RoundInv ==
  /\ pc3 = "write" => \A r \in DOMAIN root : root[r] = prev_value[r]
  /\ pc3 # "write" /\ plc_out # Unwritten => \A r \in DOMAIN plc_out : plc_out[r] = prev_value[r]
  /\ pc4 = "fill" => packet = plc_out /\ bound.parts <= SIZE

\* A value that came with a tag, or the beginning of it
Came(tag, value) == \E piece \in Pieces : piece.tag = tag /\ value \in {piece.value} \cup CutValues

\* What the callback has still to append is of one message, or publish()'s, and so
\* is what it has appended last.
CallInv ==
  InCallback => \E m \in Messages :
    /\ length = Len(Text(m))
    /\ \A k \in i .. length : buffer[k] \in {Text(m)[k], Ours, Other}
    /\ i = 1 => messageTemp = <<>>
    /\ messageTemp # <<>> => messageTemp[Len(messageTemp)] \in {Text(m)[i - 1], Other}

\* A tag and the value behind it are those of a piece, where neither is another packet's.
PairInv ==
  \A k \in DOMAIN messageTemp : k + 1 \in DOMAIN messageTemp =>
    \A tag \in Names, value \in Values :
      /\ messageTemp[k] = Key(tag) /\ messageTemp[k] # Other
      /\ messageTemp[k + 1] = Val(value) /\ messageTemp[k + 1] # Other
      => \E piece \in Pieces : piece.tag = tag /\ piece.value = value

\* Task1 begins with nothing; the tag it has read last is still in front of it,
\* unless messageTemp has been replaced or the tag was another packet's.
ReadInv ==
  /\ pc1 # "parse" => at = 1 /\ key = 0 /\ ~replaced
  /\ pc1 = "delay" \/ (pc1 = "parse" /\ at = 1) => obj = Nothing /\ key = 0
  /\ pc1 = "parse" /\ clean => ~replaced
  /\ pc1 = "parse" /\ clean /\ key # 0
       => at - 1 \in DOMAIN messageTemp /\ messageTemp[at - 1] = Key(key) /\ messageTemp[at - 1] # Other

\* The tags Task1 has read, and the first registers while it sets one
TagInv ==
  /\ clean => \A t \in DOMAIN obj : Came(t, obj[t])
  /\ pc1 \in {"tag", "high", "low", "erase", "pause"} => DOMAIN obj # {}
  /\ asSet /\ pc1 = "high" => clean /\ Hreg[0] = Next1
  /\ asSet /\ pc1 = "low" => clean /\ Hreg[0] = Next1 /\ Hreg[1] = obj[Next1][1]

\* the invariant, in four parts each of which some steps leave alone
Rounds34 == RoundTypes /\ BatonInv /\ RoundInv /\ OnlyARoundLosesChanges
Callback == LoopTypes /\ CallInv /\ PairInv
Reader   == ReaderTypes /\ ReadInv
Setting  == RegisterTypes /\ TagInv /\ RegistersAreATag

IInv == Rounds34 /\ Callback /\ Reader /\ Setting

LEMMA TypesAre == IInv => TypeOK
<1> SUFFICES ASSUME IInv PROVE TypeOK
  OBVIOUS
<1>1. LoopTypes /\ ReaderTypes /\ RegisterTypes /\ RoundTypes
  BY DEF IInv, Callback, Reader, Setting, Rounds34
<1>2. {replaced, whole, clean, asSet} \subseteq BOOLEAN
  <2>1. replaced \in BOOLEAN /\ whole \in BOOLEAN /\ clean \in BOOLEAN /\ asSet \in BOOLEAN
    BY <1>1, Zenon DEF ReaderTypes, RegisterTypes
  <2> QED BY <2>1
<1> QED BY <1>1, <1>2, Zenon DEF TypeOK, LoopTypes, ReaderTypes, RegisterTypes, RoundTypes

---------------------------------------------------------------------------
(* Documents *)

LEMMA SomeWords ==
  /\ 99 \in Words /\ Tags \subseteq Words /\ MasterValues \subseteq Words
  /\ \A v \in Values : v[1] \in Words /\ v[2] \in Words
  /\ CutValues \subseteq Values /\ \A p \in Pieces : p.value \in Values /\ p.tag \in Names
BY DEF Words, Values, Names

LEMMA NoDocument ==
  ASSUME NEW d, IsDocument(d, Registers, Words) PROVE d \notin {Unwritten, Half}
<1>1. d \in Rounds
  BY DEF IsDocument, Rounds
<1> QED BY <1>1, TextsAssumption

LEMMA NothingIs == \A keys, values : IsDocument(Nothing, keys, values) /\ DOMAIN Nothing = {}
BY DEF IsDocument, Nothing

LEMMA EmptyIsNothing == ASSUME NEW d, NEW values, d \in [DOMAIN d -> values], d # Nothing PROVE DOMAIN d # {}
BY DEF Nothing

LEMMA WithIs ==
  ASSUME NEW o, IsDocument(o, Tags, Values), NEW tag, NEW v \in Values
  PROVE  /\ IsDocument(With(o, tag, v), Tags, Values)
         /\ (\A t \in DOMAIN o : Came(t, o[t])) /\ (tag \in Tags => Came(tag, v))
              => \A t \in DOMAIN With(o, tag, v) : Came(t, With(o, tag, v)[t])
<1>1. CASE tag \notin Tags
  BY <1>1 DEF With
<1>2. CASE tag \in Tags
  <2> DEFINE w == [t \in DOMAIN o \cup {tag} |-> IF t = tag THEN v ELSE o[t]]
  <2>1. With(o, tag, v) = w
    BY <1>2 DEF With
  <2>2. IsDocument(w, Tags, Values)
    BY <1>2 DEF IsDocument
  <2>3. ASSUME \A t \in DOMAIN o : Came(t, o[t]), Came(tag, v), NEW t \in DOMAIN w
        PROVE  Came(t, w[t])
    BY <2>3
  <2> QED BY <1>2, <2>1, <2>2, <2>3
<1> QED BY <1>1, <1>2

LEMMA LeastTag ==
  ASSUME NEW D \in SUBSET Tags, D # {} PROVE \E t \in D : \A u \in D : t <= u
<1>1. \A t \in D : t \in 1 .. 10
  BY DEF Tags
<1>2. CASE 1 \in D \/ 2 \in D \/ 3 \in D
  BY <1>1, <1>2, SMT
<1>3. CASE ~(1 \in D \/ 2 \in D \/ 3 \in D) /\ (4 \in D \/ 5 \in D \/ 6 \in D)
  BY <1>1, <1>3, SMT
<1>4. CASE ~(1 \in D \/ 2 \in D \/ 3 \in D \/ 4 \in D \/ 5 \in D \/ 6 \in D)
  BY <1>1, <1>4, SMT
<1> QED BY <1>2, <1>3, <1>4

LEMMA Next1Is == ASSUME ReaderTypes, DOMAIN obj # {} PROVE Next1 \in DOMAIN obj /\ Next1 \in Tags
<1>1. \E t \in DOMAIN obj : \A u \in DOMAIN obj : t <= u
  BY LeastTag DEF ReaderTypes, IsDocument
<1> QED BY <1>1 DEF Next1, ReaderTypes, IsDocument

---------------------------------------------------------------------------
(* Texts *)

\* The parts of a text: a tag, its value, and so on, and the brace.
LEMMA TextIs ==
  ASSUME NEW m \in Messages
  PROVE  /\ m \in Seq(Pieces) /\ Len(m) \in Nat /\ Text(m) \in Seq(Parts) /\ Len(Text(m)) = 2 * Len(m) + 1
         /\ Text(m)[2 * Len(m) + 1] = Close
         /\ \A n \in 1 .. Len(m) : /\ m[n] \in Pieces
                                   /\ Text(m)[2 * n - 1] = Key(m[n].tag) /\ Text(m)[2 * n] = Val(m[n].value)
<1>1. m \in Seq(Pieces) /\ Len(m) \in Nat
  BY InputsAssumption
<1>2. \A n \in 1 .. Len(m) : m[n] \in Pieces
  BY <1>1
<1> DEFINE L == 2 * Len(m) + 1
           part(k) == IF k > 2 * Len(m) THEN Close
                      ELSE IF k % 2 = 1 THEN Key(m[(k + 1) \div 2].tag) ELSE Val(m[k \div 2].value)
<1>3. Text(m) = [k \in 1 .. L |-> part(k)]
  BY DEF Text
<1>4. \A k \in 1 .. L : part(k) \in Parts
  <2> TAKE k \in 1 .. L
  <2>1. CASE k > 2 * Len(m)
    BY <2>1 DEF Parts
  <2>2. CASE k <= 2 * Len(m) /\ k % 2 = 1
    <3>1. (k + 1) \div 2 \in 1 .. Len(m)
      BY <1>1, <2>2
    <3> QED BY <1>1, <1>2, <2>2, <3>1 DEF Parts
  <2>3. CASE k <= 2 * Len(m) /\ k % 2 # 1
    <3>1. k \div 2 \in 1 .. Len(m)
      BY <1>1, <2>3
    <3> QED BY <1>1, <1>2, <2>3, <3>1 DEF Parts
  <2> QED BY <1>1, <2>1, <2>2, <2>3
<1>5. L \in Nat
  BY <1>1
<1>6. Text(m) \in Seq(Parts) /\ Len(Text(m)) = L
  <2> HIDE DEF L, part
  <2> QED BY <1>3, <1>4, <1>5
<1>7. Text(m)[L] = Close
  BY <1>1, <1>3, <1>5
<1>8. ASSUME NEW n \in 1 .. Len(m)
      PROVE  Text(m)[2 * n - 1] = Key(m[n].tag) /\ Text(m)[2 * n] = Val(m[n].value)
  <2>1. /\ 2 * n - 1 \in 1 .. L /\ 2 * n \in 1 .. L /\ ~(2 * n - 1 > 2 * Len(m)) /\ ~(2 * n > 2 * Len(m))
        /\ (2 * n - 1) % 2 = 1 /\ ((2 * n - 1) + 1) \div 2 = n /\ (2 * n) % 2 # 1 /\ (2 * n) \div 2 = n
    BY <1>1
  <2> QED BY <1>3, <2>1
<1> QED BY <1>1, <1>2, <1>6, <1>7, <1>8

LEMMA KeyIs ==
  /\ \A t, u : Key(t) = Key(u) => t = u
  /\ \A v, w : Val(v) = Val(w) => v = w
  /\ \A t, v : Key(t) # Val(v)
BY DEF Key, Val

\* Where a place of a text is: it holds a tag, a value or the brace.
LEMMA PlaceIs ==
  ASSUME NEW L \in Nat, NEW k \in 1 .. 2 * L + 1
  PROVE  k = 2 * L + 1 \/ \E n \in 1 .. L : k = 2 * n - 1 \/ k = 2 * n
<1>1. CASE k = 2 * L + 1
  BY <1>1
<1>2. CASE k # 2 * L + 1 /\ k % 2 = 1
  <2>1. (k + 1) \div 2 \in 1 .. L /\ k = 2 * ((k + 1) \div 2) - 1
    BY <1>2
  <2> QED BY <2>1
<1>3. CASE k # 2 * L + 1 /\ k % 2 # 1
  <2>1. k \div 2 \in 1 .. L /\ k = 2 * (k \div 2)
    BY <1>3
  <2> QED BY <2>1
<1> QED BY <1>1, <1>2, <1>3

\* A tag and a value that follow each other in a text are those of a piece.
LEMMA TextPairs ==
  ASSUME NEW m \in Messages, NEW k \in 1 .. Len(Text(m)) - 1, NEW tag \in Names, NEW value \in Values,
         Text(m)[k] = Key(tag), Text(m)[k + 1] = Val(value)
  PROVE  \E piece \in Pieces : piece.tag = tag /\ piece.value = value
<1>1. /\ Len(m) \in Nat /\ Len(Text(m)) = 2 * Len(m) + 1
      /\ \A n \in 1 .. Len(m) : /\ m[n] \in Pieces
                                /\ Text(m)[2 * n - 1] = Key(m[n].tag) /\ Text(m)[2 * n] = Val(m[n].value)
  BY TextIs
<1>2. k \in 1 .. 2 * Len(m) + 1 /\ k # 2 * Len(m) + 1
  BY <1>1
<1>3. PICK n \in 1 .. Len(m) : k = 2 * n - 1 \/ k = 2 * n
  BY <1>1, <1>2, PlaceIs
<1>4. CASE k = 2 * n - 1
  <2>1. k + 1 = 2 * n
    BY <1>4
  <2>2. Key(m[n].tag) = Key(tag) /\ Val(m[n].value) = Val(value)
    BY <1>1, <1>3, <1>4, <2>1
  <2>3. m[n].tag = tag /\ m[n].value = value
    BY <2>2, KeyIs
  <2> QED BY <1>1, <2>3
<1>5. CASE k = 2 * n
  BY <1>1, <1>5, KeyIs
<1> QED BY <1>3, <1>4, <1>5

---------------------------------------------------------------------------
(* The beginning, and what a step leaves as it was *)

LEMMA InitInv == Init => IInv
<1> SUFFICES ASSUME Init PROVE IInv
  OBVIOUS
<1>1. LoopTypes
  <2>1. bound \in Bounds /\ arrived \in 0 .. Len(bound.messages)
    BY InputsAssumption DEF Init
  <2>2. buffer \in [1 .. SIZE -> Parts \cup {Other, Ours}] /\ messageTemp \in Seq(Parts \cup {Other})
    BY DEF Init
  <2>3. i \in 1 .. SIZE /\ length \in 0 .. SIZE
    BY SizeAssumption DEF Init
  <2>4. last \in Messages \cup {<<>>} /\ fate \in {"none", "arriving", "waiting"}
    BY DEF Init
  <2> QED BY <2>1, <2>2, <2>3, <2>4 DEF LoopTypes
<1>2. ReaderTypes
  <2>1. IsDocument(obj, Tags, Values)
    BY NothingIs DEF Init
  <2>2. replaced \in BOOLEAN /\ whole \in BOOLEAN /\ clean \in BOOLEAN
    BY Zenon DEF Init
  <2> QED BY <2>1, <2>2 DEF Init, ReaderTypes
<1>3. RegisterTypes
  BY SomeWords DEF Init, RegisterTypes
<1>4. RoundTypes
  <2>1. IsDocument(root, Registers, Words)
    BY NothingIs DEF Init
  <2>2. IsDocument(packet, Registers, Words)
    BY NothingIs DEF Init
  <2>3. filled \in 0 .. SIZE
    BY SizeAssumption DEF Init
  <2>4. prev_value \in [Registers -> Words \cup {0}]
    BY DEF Init
  <2>5. /\ baton = "free" /\ pc3 = "delay" /\ current_value = <<>> /\ plc_out = Unwritten /\ pc4 = "delay"
        /\ unpublished = {}
    BY DEF Init
  <2> QED BY <2>1, <2>2, <2>3, <2>4, <2>5 DEF RoundTypes
<1>5. BatonInv /\ RoundInv
  BY TextsAssumption DEF Init, BatonInv, RoundInv
<1>6. OnlyARoundLosesChanges /\ CallInv /\ PairInv
  BY DEF Init, OnlyARoundLosesChanges, CallInv, InCallback, PairInv
<1>7. ReadInv /\ TagInv
  BY NothingIs DEF Init, ReadInv, TagInv
<1>8. RegistersAreATag
  BY RegistersAssumption DEF Init, RegistersAreATag, Registers
<1> QED BY <1>1, <1>2, <1>3, <1>4, <1>5, <1>6, <1>7, <1>8 DEF IInv, Rounds34, Callback, Reader, Setting

LEMMA SameRounds ==
  ASSUME Rounds34, UNCHANGED <<baton, roundVars, task4Vars, bound>> PROVE Rounds34'
BY DEF Rounds34, RoundTypes, BatonInv, RoundInv, OnlyARoundLosesChanges, Pending, roundVars, task4Vars

LEMMA SameCallback ==
  ASSUME Callback, UNCHANGED <<buffer, callbackVars, fate>> PROVE Callback'
BY DEF Callback, LoopTypes, CallInv, InCallback, PairInv, callbackVars

LEMMA SameReader ==
  ASSUME Reader, UNCHANGED <<messageTemp, task1Vars>> PROVE Reader'
BY DEF Reader, ReaderTypes, ReadInv, task1Vars

\* Registers behind the first may change, and so may asSet become false.
LEMMA SameSetting ==
  ASSUME Setting, UNCHANGED <<pc1, obj>>, clean' => clean, clean /\ pc1 \in {"high", "low"} => clean',
         Hreg' \in [Registers -> Words], asSet' \in BOOLEAN,
         asSet' => asSet /\ \A r \in 0 .. 2 : Hreg'[r] = Hreg[r]
  PROVE  Setting'
<1>1. Next1' = Next1
  BY DEF Next1
<1>2. asSet' => asSet /\ Hreg'[0] = Hreg[0] /\ Hreg'[1] = Hreg[1] /\ Hreg'[2] = Hreg[2]
  OBVIOUS
<1>3. TagInv'
  <2> QED BY <1>1, <1>2 DEF Setting, TagInv
<1>4. RegistersAreATag'
  BY <1>2 DEF Setting, RegistersAreATag
<1> QED BY <1>3, <1>4 DEF Setting, RegisterTypes

LEMMA SameRegisters ==
  ASSUME Setting, UNCHANGED <<pc1, obj, hregVars>>, clean' => clean, clean /\ pc1 \in {"high", "low"} => clean'
  PROVE  Setting'
<1>1. /\ Hreg' \in [Registers -> Words] /\ asSet' \in BOOLEAN
      /\ asSet' => asSet /\ \A r \in 0 .. 2 : Hreg'[r] = Hreg[r]
  BY DEF Setting, RegisterTypes, hregVars
<1> QED BY <1>1, SameSetting

---------------------------------------------------------------------------
(* loop() *)

LEMMA LoopSendsInv == ASSUME IInv, LoopSends PROVE IInv'
<1>1. ~InCallback /\ UNCHANGED <<callbackVars, task1Vars, fate, hregVars, baton, roundVars, task4Vars>>
  BY DEF LoopSends
<1>2. Callback'
  <2>1. Callback
    BY DEF IInv
  <2>2. buffer' \in [1 .. SIZE -> Parts \cup {Other, Ours}]
    BY <2>1 DEF LoopSends, Callback, LoopTypes
  <2> QED BY <1>1, <2>1, <2>2 DEF Callback, LoopTypes, CallInv, InCallback, PairInv, callbackVars
<1>3. Rounds34' /\ Reader' /\ Setting'
  <2>1. /\ UNCHANGED <<baton, roundVars, task4Vars, bound>> /\ UNCHANGED <<messageTemp, task1Vars>>
        /\ UNCHANGED <<pc1, obj, hregVars>> /\ clean' = clean
    BY <1>1 DEF callbackVars, task1Vars
  <2> QED BY <2>1, SameRounds, SameReader, SameRegisters DEF IInv
<1> QED BY <1>2, <1>3 DEF IInv

LEMMA CallbackBeginsInv == ASSUME IInv, CallbackBegins PROVE IInv'
<1>1. /\ UNCHANGED <<bound, pc1, at, key, size, obj, hregVars, baton, roundVars, task4Vars>>
      /\ arrived < Len(bound.messages) /\ last' = bound.messages[arrived + 1] /\ arrived' = arrived + 1
      /\ i' = 1 /\ length' = Len(Text(last')) /\ fate' = "arriving" /\ whole' = FALSE /\ messageTemp' = <<>>
      /\ buffer' = [k \in 1 .. SIZE |-> IF k <= length' THEN Text(last')[k] ELSE buffer[k]]
      /\ replaced' = (pc1 = "parse") /\ clean' = (clean /\ pc1 # "parse")
  BY DEF CallbackBegins, Receives
<1>2. Rounds34 /\ Callback /\ Reader /\ Setting
  BY DEF IInv
<1>3. last' \in Messages /\ arrived' \in 0 .. Len(bound'.messages) /\ bound' \in Bounds
  <2>1. bound \in Bounds /\ arrived \in 0 .. Len(bound.messages)
    BY <1>2 DEF Callback, LoopTypes
  <2>2. bound.messages \in Seq(Messages)
    BY <2>1, InputsAssumption
  <2> QED BY <1>1, <2>1, <2>2
<1>4. /\ Text(last') \in Seq(Parts) /\ Len(Text(last')) \in Nat /\ Len(Text(last')) <= SIZE
  BY <1>3, TextIs, InputsAssumption
<1>5. \A k \in 1 .. length' : buffer'[k] = Text(last')[k]
  BY <1>1, <1>4, SizeAssumption
<1>6. Callback'
  <2>1. buffer' \in [1 .. SIZE -> Parts \cup {Other, Ours}]
    <3>1. \A k \in 1 .. SIZE : k <= length' => Text(last')[k] \in Parts
      BY <1>1, <1>4
    <3>2. \A k \in 1 .. SIZE : buffer[k] \in Parts \cup {Other, Ours}
      BY <1>2 DEF Callback, LoopTypes
    <3> QED BY <1>1, <3>1, <3>2
  <2>2. LoopTypes'
    BY <1>1, <1>3, <1>4, <2>1, SizeAssumption DEF LoopTypes
  <2>3. CallInv'
    <3>1. \A k \in i' .. length' : buffer'[k] \in {Text(last')[k], Ours, Other}
      BY <1>1, <1>5
    <3> QED BY <1>1, <1>3, <3>1 DEF CallInv
  <2>4. PairInv'
    BY <1>1 DEF PairInv
  <2> QED BY <2>2, <2>3, <2>4 DEF Callback
<1>7. Reader'
  <2>1. /\ replaced' \in BOOLEAN /\ clean' \in BOOLEAN
    <3>1. clean \in BOOLEAN
      BY <1>2 DEF Reader, ReaderTypes
    <3>2. (pc1 = "parse") \in BOOLEAN /\ (clean /\ pc1 # "parse") \in BOOLEAN
      OBVIOUS
    <3> QED BY <1>1, <3>2, Zenon
  <2>2. ReaderTypes'
    BY <1>1, <1>2, <2>1 DEF Reader, ReaderTypes
  <2>3. ReadInv'
    BY <1>1, <1>2 DEF Reader, ReadInv
  <2> QED BY <2>2, <2>3 DEF Reader
<1>8. Setting'
  <2>1. /\ clean' => clean
        /\ clean /\ pc1 \in {"high", "low"} => clean'
    BY <1>1
  <2> QED BY <1>1, <1>2, <2>1, SameRegisters
<1>9. Rounds34'
  BY <1>1, <1>2, SameRounds
<1> QED BY <1>6, <1>7, <1>8, <1>9 DEF IInv

\* The part appended is of the message the callback has before it, or another packet's.
LEMMA CallbackAppendsInv == ASSUME IInv, CallbackAppends PROVE IInv'
<1> DEFINE part == IF buffer[i] = Ours THEN Other ELSE buffer[i]
<1>1. /\ InCallback /\ messageTemp' = Append(messageTemp, part)
      /\ IF i < length THEN i' = i + 1 /\ length' = length ELSE i' = 1 /\ length' = 0
      /\ buffer' = [buffer EXCEPT ![i] = IF buffer[i] = Ours THEN buffer[i] ELSE Other]
      /\ fate' = IF i = length /\ fate = "arriving" THEN "waiting" ELSE fate
      /\ UNCHANGED <<arrived, last, bound, task1Vars, hregVars, baton, roundVars, task4Vars>>
  BY DEF CallbackAppends
<1>2. Rounds34 /\ Callback /\ Reader /\ Setting
  BY DEF IInv
<1>3. /\ buffer \in [1 .. SIZE -> Parts \cup {Other, Ours}] /\ messageTemp \in Seq(Parts \cup {Other})
      /\ i \in 1 .. SIZE /\ length \in 0 .. SIZE /\ i <= length /\ fate \in {"none", "arriving", "waiting"}
  BY <1>1, <1>2 DEF Callback, LoopTypes, InCallback
<1>4. part \in Parts \cup {Other}
  BY <1>3
<1>5. PICK m \in Messages :
        /\ length = Len(Text(m))
        /\ \A k \in i .. length : buffer[k] \in {Text(m)[k], Ours, Other}
        /\ i = 1 => messageTemp = <<>>
        /\ messageTemp # <<>> => messageTemp[Len(messageTemp)] \in {Text(m)[i - 1], Other}
  BY <1>1, <1>2 DEF Callback, CallInv
<1>6. part \in {Text(m)[i], Other}
  BY <1>3, <1>5
<1> HIDE DEF part
<1>7. /\ messageTemp' \in Seq(Parts \cup {Other}) /\ Len(messageTemp') = Len(messageTemp) + 1
      /\ messageTemp'[Len(messageTemp) + 1] = part /\ Len(messageTemp) \in Nat
      /\ \A k \in 1 .. Len(messageTemp) : messageTemp'[k] = messageTemp[k]
      /\ messageTemp' # <<>>
  BY <1>1, <1>3, <1>4
<1>8. LoopTypes'
  <2>1. buffer' \in [1 .. SIZE -> Parts \cup {Other, Ours}]
    BY <1>1, <1>3
  <2>2. i' \in 1 .. SIZE /\ length' \in 0 .. SIZE
    BY <1>1, <1>3, SizeAssumption
  <2>3. fate' \in {"none", "arriving", "waiting"}
    BY <1>1, <1>3
  <2> QED BY <1>1, <1>2, <1>7, <2>1, <2>2, <2>3 DEF Callback, LoopTypes
<1>9. CallInv'
  <2>1. CASE i < length
    <3>1. i' = i + 1 /\ length' = length
      BY <1>1, <2>1
    <3>2. \A k \in i' .. length' : buffer'[k] = buffer[k] /\ k \in i .. length
      BY <1>1, <1>3, <3>1
    <3>3. \A k \in i' .. length' : buffer'[k] \in {Text(m)[k], Ours, Other}
      BY <1>5, <3>2
    <3>4. messageTemp'[Len(messageTemp')] \in {Text(m)[i' - 1], Other}
      BY <1>3, <1>6, <1>7, <3>1
    <3> QED BY <1>3, <1>5, <3>1, <3>3, <3>4 DEF CallInv
  <2>2. CASE ~(i < length)
    BY <1>1, <2>2 DEF CallInv, InCallback
  <2> QED BY <2>1, <2>2
<1>10. PairInv'
  <2> SUFFICES ASSUME NEW k \in DOMAIN messageTemp', k + 1 \in DOMAIN messageTemp',
                      NEW tag \in Names, NEW value \in Values,
                      messageTemp'[k] = Key(tag), messageTemp'[k] # Other,
                      messageTemp'[k + 1] = Val(value), messageTemp'[k + 1] # Other
               PROVE  \E piece \in Pieces : piece.tag = tag /\ piece.value = value
    BY DEF PairInv
  <2>1. k \in 1 .. Len(messageTemp) /\ DOMAIN messageTemp = 1 .. Len(messageTemp)
    BY <1>3, <1>7
  <2>2. CASE k + 1 \in 1 .. Len(messageTemp)
    BY <1>2, <1>7, <2>1, <2>2 DEF Callback, PairInv
  <2>3. CASE k = Len(messageTemp)
    <3>1. messageTemp # <<>> /\ messageTemp[k] = Text(m)[i - 1] /\ i # 1
      BY <1>5, <1>7, <2>1, <2>3
    <3>2. Text(m)[i - 1] = Key(tag) /\ Text(m)[i] = Val(value)
      BY <1>6, <1>7, <2>1, <2>3, <3>1
    <3>3. i - 1 \in 1 .. Len(Text(m)) - 1 /\ (i - 1) + 1 = i
      BY <1>3, <1>5, <3>1
    <3> QED BY <3>2, <3>3, TextPairs
  <2> QED BY <1>7, <2>1, <2>2, <2>3
<1>11. Reader'
  <2>1. ReaderTypes'
    BY <1>1, <1>2 DEF Reader, ReaderTypes, task1Vars
  <2>2. ReadInv'
    <3>1. \A k \in DOMAIN messageTemp : k \in DOMAIN messageTemp' /\ messageTemp'[k] = messageTemp[k]
      BY <1>3, <1>7
    <3> QED BY <1>1, <1>2, <3>1 DEF Reader, ReadInv, task1Vars
  <2> QED BY <2>1, <2>2 DEF Reader
<1>12. Rounds34' /\ Setting'
  <2>1. /\ UNCHANGED <<baton, roundVars, task4Vars, bound>>
        /\ UNCHANGED <<pc1, obj, hregVars>> /\ clean' = clean
    BY <1>1 DEF task1Vars
  <2> QED BY <1>2, <2>1, SameRounds, SameRegisters
<1> QED BY <1>8, <1>9, <1>10, <1>11, <1>12 DEF IInv, Callback

LEMMA LoopInv == ASSUME IInv, loop PROVE IInv'
BY LoopSendsInv, CallbackBeginsInv, CallbackAppendsInv DEF loop

---------------------------------------------------------------------------
(* Task1 *)

\* Task1 leaves the parts of Task3 and Task4 alone and, but for the erasing, that of
\* the callback.
LEMMA Task1Leaves ==
  ASSUME IInv, Task1
  PROVE  /\ UNCHANGED <<buffer, i, length, arrived, bound, baton, roundVars, task4Vars>> /\ Rounds34'
         /\ ~Task1Erases => UNCHANGED <<callbackVars, fate>> /\ Callback'
<1>1. /\ UNCHANGED <<buffer, i, length, arrived, bound, baton, roundVars, task4Vars>>
      /\ ~Task1Erases => UNCHANGED <<callbackVars, fate>>
  BY DEF Task1, Task1Wakes, Task1ReadsTag, Task1ReadsValue, ReadsOn, Task1Stops, Task1Sets,
         Task1SetsRegister, Task1Erases, Task1HasSet, Task1Resumes, callbackVars
<1>2. UNCHANGED <<baton, roundVars, task4Vars, bound>>
  BY <1>1
<1>3. ~Task1Erases => UNCHANGED <<buffer, callbackVars, fate>>
  BY <1>1
<1> QED BY <1>1, <1>2, <1>3, SameRounds, SameCallback DEF IInv

\* Where Task1 finds something else than another packet's, in a text that has not
\* been replaced, it reads what is there.
LEMMA CleanReads ==
  ASSUME ReadsOn, ReadInv, clean'
  PROVE  clean /\ ~replaced /\ ~Finds(Other) /\ ~Garbled /\ pc1 = "parse" /\ pc1' = "parse" /\ ~replaced'
BY DEF ReadsOn, ReadInv, Garbled

LEMMA ReadsOnIs ==
  ASSUME IInv, ReadsOn
  PROVE  /\ pc1 = "parse" /\ pc1' = "parse" /\ at' = at + 1 /\ UNCHANGED <<size, replaced, whole, hregVars, messageTemp>>
         /\ clean' \in BOOLEAN /\ (clean' => clean) /\ at \in Nat \ {0}
<1>1. /\ pc1 = "parse" /\ pc1' = pc1 /\ at' = at + 1 /\ UNCHANGED <<size, replaced, whole, hregVars, messageTemp>>
      /\ clean' = (clean /\ ~Finds(Other))
  BY DEF ReadsOn, callbackVars
<1>2. clean \in BOOLEAN /\ at \in Nat \ {0}
  BY DEF IInv, Reader, ReaderTypes
<1>3. (clean /\ ~Finds(Other)) \in BOOLEAN
  OBVIOUS
<1> QED BY <1>1, <1>2, <1>3, Zenon

LEMMA Task1ReadsTagInv == ASSUME IInv, Task1ReadsTag PROVE IInv'
<1>1. ReadsOn /\ obj' = obj /\ Task1
  BY DEF Task1ReadsTag, Task1
<1>2. PICK tag \in Names : (Finds(Key(tag)) \/ Garbled) /\ key' = tag
  BY DEF Task1ReadsTag
<1>3. /\ pc1 = "parse" /\ pc1' = "parse" /\ at' = at + 1 /\ UNCHANGED <<size, replaced, whole, hregVars, messageTemp>>
      /\ clean' \in BOOLEAN /\ (clean' => clean) /\ at \in Nat \ {0}
  BY <1>1, ReadsOnIs
<1>4. Rounds34' /\ Callback'
  <2>1. ~Task1Erases
    BY <1>3 DEF Task1Erases, Task1HasSet
  <2> QED BY <1>1, <2>1, Task1Leaves
<1>5. ReaderTypes'
  BY <1>1, <1>2, <1>3 DEF IInv, Reader, ReaderTypes
<1>6. ReadInv'
  <2>1. ASSUME clean'
        PROVE  /\ ~replaced' /\ at' - 1 \in DOMAIN messageTemp' /\ messageTemp'[at' - 1] = Key(key')
               /\ messageTemp'[at' - 1] # Other
    <3>1. ~replaced' /\ ~Finds(Other) /\ Finds(Key(tag))
      BY <1>1, <1>2, <2>1, CleanReads DEF IInv, Reader
    <3>2. at' - 1 = at
      BY <1>3
    <3> QED BY <1>2, <1>3, <3>1, <3>2 DEF Finds
  <2>2. at' # 1
    BY <1>3
  <2> QED BY <1>3, <2>1, <2>2 DEF ReadInv
<1>7. Setting'
  <2>1. UNCHANGED <<pc1, obj, hregVars>> /\ ~(pc1 \in {"high", "low"})
    BY <1>1, <1>3
  <2> QED BY <1>3, <2>1, SameRegisters DEF IInv
<1> QED BY <1>4, <1>5, <1>6, <1>7 DEF IInv, Reader

LEMMA Task1ReadsValueInv == ASSUME IInv, Task1ReadsValue PROVE IInv'
<1>1. ReadsOn /\ key' = 0 /\ Task1
  BY DEF Task1ReadsValue, Task1
<1>2. PICK value \in Values : (Finds(Val(value)) \/ Garbled) /\ obj' = With(obj, key, value)
  BY DEF Task1ReadsValue
<1>3. /\ pc1 = "parse" /\ pc1' = "parse" /\ at' = at + 1 /\ UNCHANGED <<size, replaced, whole, hregVars, messageTemp>>
      /\ clean' \in BOOLEAN /\ (clean' => clean) /\ at \in Nat \ {0}
  BY <1>1, ReadsOnIs
<1>4. Rounds34' /\ Callback'
  <2>1. ~Task1Erases
    BY <1>3 DEF Task1Erases, Task1HasSet
  <2> QED BY <1>1, <2>1, Task1Leaves
<1>5. ReaderTypes /\ ReadInv /\ TagInv /\ PairInv /\ RegistersAreATag /\ RegisterTypes
  BY DEF IInv, Reader, Setting, Callback
<1>6. IsDocument(obj', Tags, Values)
  BY <1>2, <1>5, WithIs DEF ReaderTypes
<1>7. ReaderTypes'
  BY <1>1, <1>3, <1>5, <1>6 DEF ReaderTypes
<1>8. ReadInv'
  <2>1. clean' => ~replaced'
    BY <1>1, <1>5, CleanReads
  <2>2. at' # 1
    BY <1>3
  <2> QED BY <1>1, <1>3, <2>1, <2>2 DEF ReadInv
<1>9. clean' => \A t \in DOMAIN obj' : Came(t, obj'[t])
  <2> SUFFICES ASSUME clean' PROVE \A t \in DOMAIN obj' : Came(t, obj'[t])
    OBVIOUS
  <2>1. clean /\ ~Finds(Other) /\ Finds(Val(value))
    BY <1>1, <1>2, <1>5, CleanReads
  <2>2. \A t \in DOMAIN obj : Came(t, obj[t])
    BY <1>5, <2>1 DEF TagInv
  <2>3. key \in Tags => Came(key, value)
    <3> SUFFICES ASSUME key \in Tags PROVE Came(key, value)
      OBVIOUS
    <3>1. key # 0 /\ key \in Names
      BY <1>5 DEF Tags, ReaderTypes
    <3>2. /\ at - 1 \in DOMAIN messageTemp /\ messageTemp[at - 1] = Key(key) /\ messageTemp[at - 1] # Other
      BY <1>3, <1>5, <2>1, <3>1 DEF ReadInv
    <3>3. /\ at \in DOMAIN messageTemp /\ messageTemp[at] = Val(value) /\ messageTemp[at] # Other
          /\ (at - 1) + 1 = at
      BY <1>3, <2>1 DEF Finds
    <3>4. \E piece \in Pieces : piece.tag = key /\ piece.value = value
      BY <1>5, <3>1, <3>2, <3>3 DEF PairInv
    <3> QED BY <3>4 DEF Came
  <2>4. IsDocument(obj, Tags, Values)
    BY <1>5 DEF ReaderTypes
  <2> QED BY <1>2, <2>2, <2>3, <2>4, WithIs
<1>10. Setting'
  <2>1. TagInv'
    BY <1>3, <1>9 DEF TagInv
  <2>2. RegistersAreATag' /\ RegisterTypes'
    BY <1>3, <1>5 DEF RegistersAreATag, RegisterTypes, hregVars
  <2> QED BY <2>1, <2>2 DEF Setting
<1> QED BY <1>4, <1>7, <1>8, <1>10 DEF IInv, Reader

LEMMA GoOnIs ==
  ASSUME Setting, clean \in BOOLEAN, pc1 = "parse", UNCHANGED hregVars, NEW o, IsDocument(o, Tags, Values),
         clean => \A t \in DOMAIN o : Came(t, o[t]), NEW of \in BOOLEAN, GoOnWith(o, of)
  PROVE  /\ pc1' \in {"delay", "tag"} /\ (pc1' = "delay" => obj' = Nothing)
         /\ IsDocument(obj', Tags, Values) /\ whole' \in BOOLEAN /\ clean' \in BOOLEAN /\ Setting'
<1>1. RegisterTypes' /\ RegistersAreATag /\ UNCHANGED <<Hreg, asSet>>
  BY DEF Setting, RegisterTypes, hregVars
<1>2. CASE o = Nothing
  <2>1. pc1' = "delay" /\ obj' = Nothing /\ whole' = FALSE /\ clean' = TRUE
    BY <1>2 DEF GoOnWith, Task1Delays
  <2>2. TagInv' /\ RegistersAreATag'
    BY <1>1, <2>1, NothingIs DEF TagInv, RegistersAreATag
  <2> QED BY <1>1, <2>1, <2>2, NothingIs DEF Setting
<1>3. CASE o # Nothing
  <2>1. pc1' = "tag" /\ obj' = o /\ whole' = of /\ clean' = clean
    BY <1>3 DEF GoOnWith
  <2>2. DOMAIN o # {}
    BY <1>3, EmptyIsNothing DEF IsDocument
  <2>3. TagInv'
    BY <2>1, <2>2 DEF TagInv
  <2>4. RegistersAreATag'
    BY <1>1, <2>1 DEF RegistersAreATag
  <2> QED BY <1>1, <2>1, <2>3, <2>4 DEF Setting
<1> QED BY <1>2, <1>3

LEMMA Task1StopsInv == ASSUME IInv, Task1Stops PROVE IInv'
<1>1. /\ pc1 = "parse" /\ at' = 1 /\ key' = 0 /\ size' = 0 /\ replaced' = FALSE /\ UNCHANGED hregVars /\ Task1
  BY DEF Task1Stops, Task1
<1>2. PICK o \in {obj} \cup IF key = 0 THEN {} ELSE {With(obj, key, value) : value \in CutValues} :
        GoOnWith(o, whole /\ Finds(Close))
  BY DEF Task1Stops
<1>3. Rounds34' /\ Callback'
  <2>1. ~Task1Erases
    BY <1>1 DEF Task1Erases, Task1HasSet
  <2> QED BY <1>1, <2>1, Task1Leaves
<1>4. ReaderTypes /\ ReadInv /\ TagInv /\ LoopTypes /\ Setting
  BY DEF IInv, Reader, Setting, Callback
<1>5. IsDocument(o, Tags, Values) /\ (clean => \A t \in DOMAIN o : Came(t, o[t]))
  <2>1. IsDocument(obj, Tags, Values) /\ (clean => \A t \in DOMAIN obj : Came(t, obj[t]))
    BY <1>4 DEF ReaderTypes, TagInv
  <2>2. CASE o = obj
    BY <2>1, <2>2
  <2>3. CASE o # obj
    <3>1. PICK value \in CutValues : o = With(obj, key, value) /\ key # 0
      BY <1>2, <2>3
    <3>2. value \in Values
      BY SomeWords
    <3>3. clean => Came(key, value)
      <4> SUFFICES ASSUME clean PROVE Came(key, value)
        OBVIOUS
      <4>1. /\ at - 1 \in DOMAIN messageTemp /\ messageTemp[at - 1] = Key(key) /\ messageTemp[at - 1] # Other
            /\ key \in Names
        BY <1>1, <1>4, <3>1 DEF ReadInv, ReaderTypes
      <4>2. Key(key) \in Parts /\ Key(key) # Close
        BY <1>4, <4>1, TextsAssumption DEF LoopTypes
      <4>3. PICK p \in Pieces : Key(key) = Key(p.tag) \/ Key(key) = Val(p.value)
        BY <4>2 DEF Parts
      <4>4. p.tag = key
        BY <4>3, KeyIs
      <4> QED BY <4>4 DEF Came
    <3> QED BY <2>1, <3>1, <3>2, <3>3, WithIs
  <2> QED BY <2>2, <2>3
<1>6. whole \in BOOLEAN /\ clean \in BOOLEAN /\ (whole /\ Finds(Close)) \in BOOLEAN
  BY <1>4, Zenon DEF ReaderTypes
<1>7. /\ pc1' \in {"delay", "tag"} /\ (pc1' = "delay" => obj' = Nothing)
      /\ IsDocument(obj', Tags, Values) /\ whole' \in BOOLEAN /\ clean' \in BOOLEAN /\ Setting'
  <2> DEFINE of == whole /\ Finds(Close)
  <2>1. of \in BOOLEAN /\ GoOnWith(o, of)
    BY <1>2, <1>6
  <2> HIDE DEF of
  <2> QED BY <1>1, <1>4, <1>5, <1>6, <2>1, GoOnIs
<1>8. Reader'
  <2>1. replaced' \in BOOLEAN /\ at' \in Nat \ {0} /\ size' \in Nat /\ key' \in Names \cup {0}
    <3>1. replaced' \in BOOLEAN
      BY <1>1, Zenon
    <3>2. at' \in Nat \ {0} /\ size' \in Nat /\ key' \in Names \cup {0}
      BY <1>1
    <3> QED BY <3>1, <3>2
  <2>2. ReaderTypes'
    BY <1>7, <2>1 DEF ReaderTypes
  <2>3. ReadInv'
    BY <1>1, <1>7 DEF ReadInv
  <2> QED BY <2>2, <2>3 DEF Reader
<1> QED BY <1>3, <1>7, <1>8 DEF IInv

LEMMA Task1SetsInv == ASSUME IInv, Task1Sets PROVE IInv'
<1>1. PICK from, to, register, word :
        /\ \/ from = "tag" /\ to = "high" /\ register = 0 /\ word = Next1
           \/ from = "high" /\ to = "low" /\ register = 1 /\ word = obj[Next1][1]
           \/ from = "low" /\ to = "erase" /\ register = 2 /\ word = obj[Next1][2]
        /\ Task1SetsRegister(from, to, register, word)
  BY DEF Task1Sets
<1>2. /\ pc1 = from /\ pc1' = to /\ Hreg' = [Hreg EXCEPT ![register] = word]
      /\ asSet' = IF register = 0 THEN clean ELSE asSet
      /\ UNCHANGED <<at, key, size, replaced, obj, whole, clean, messageTemp>>
  BY <1>1 DEF Task1SetsRegister, callbackVars
<1>3. ReaderTypes /\ ReadInv /\ TagInv /\ RegisterTypes
  BY DEF IInv, Reader, Setting
<1>4. DOMAIN obj # {} /\ Next1 \in DOMAIN obj /\ Next1 \in Tags
  BY <1>1, <1>2, <1>3, Next1Is DEF TagInv
<1>5. obj[Next1] \in Values /\ (clean => Came(Next1, obj[Next1]))
  BY <1>3, <1>4 DEF ReaderTypes, IsDocument, TagInv
<1>6. register \in Registers /\ word \in Words
  BY <1>1, <1>4, <1>5, SomeWords, RegistersAssumption DEF Registers
<1>7. Hreg \in [Registers -> Words] /\ 0 \in Registers /\ 1 \in Registers /\ 2 \in Registers
  BY <1>3, RegistersAssumption DEF RegisterTypes, Registers
<1>8. Hreg' \in [Registers -> Words] /\ Hreg'[register] = word
      /\ \A r \in Registers \ {register} : Hreg'[r] = Hreg[r]
  BY <1>2, <1>6, <1>7
<1>9. asSet \in BOOLEAN /\ clean \in BOOLEAN /\ asSet' \in BOOLEAN
  <2>1. asSet \in BOOLEAN /\ clean \in BOOLEAN
    BY <1>3 DEF RegisterTypes, ReaderTypes
  <2>2. asSet' = asSet \/ asSet' = clean
    BY <1>2
  <2> QED BY <2>1, <2>2, Zenon
<1>10. Reader'
  <2>1. ReaderTypes'
    BY <1>1, <1>2, <1>3 DEF ReaderTypes
  <2>2. ReadInv'
    BY <1>1, <1>2, <1>3 DEF ReadInv
  <2> QED BY <2>1, <2>2 DEF Reader
<1>11. Next1' = Next1
  BY <1>2 DEF Next1
<1>12. TagInv'
  <2>1. to = "high" => (asSet' => clean) /\ Hreg'[0] = Next1
    BY <1>1, <1>2, <1>8
  <2>2. to = "low" => (asSet' => clean /\ Hreg'[0] = Next1) /\ Hreg'[1] = obj[Next1][1]
    <3> SUFFICES ASSUME to = "low" PROVE (asSet' => clean /\ Hreg'[0] = Next1) /\ Hreg'[1] = obj[Next1][1]
      OBVIOUS
    <3>1. from = "high" /\ register = 1 /\ word = obj[Next1][1]
      BY <1>1
    <3>2. asSet' => asSet
      BY <1>2, <3>1
    <3>3. asSet => clean /\ Hreg[0] = Next1
      BY <1>2, <1>3, <3>1 DEF TagInv
    <3> QED BY <1>7, <1>8, <3>1, <3>2, <3>3
  <2>3. to \in {"high", "low", "erase"}
    BY <1>1
  <2> QED BY <1>2, <1>3, <1>4, <1>11, <2>1, <2>2, <2>3 DEF TagInv
<1>13. RegistersAreATag'
  <2>1. CASE to \in {"high", "low"}
    BY <1>2, <2>1 DEF RegistersAreATag
  <2>2. CASE to = "erase" /\ asSet'
    <3>1. from = "low" /\ register = 2 /\ word = obj[Next1][2]
      BY <1>1, <2>2
    <3>2. asSet
      BY <1>2, <2>2, <3>1
    <3>3. clean /\ Hreg'[0] = Next1 /\ Hreg'[1] = obj[Next1][1] /\ Hreg'[2] = obj[Next1][2]
      BY <1>2, <1>3, <1>7, <1>8, <3>1, <3>2 DEF TagInv
    <3>4. <<Hreg'[1], Hreg'[2]>> = obj[Next1]
      BY <1>5, <3>3, InputsAssumption
    <3>5. PICK piece \in Pieces : piece.tag = Next1 /\ obj[Next1] \in {piece.value} \cup CutValues
      BY <1>5, <3>3 DEF Came
    <3> QED BY <3>3, <3>4, <3>5 DEF RegistersAreATag
  <2>3. CASE ~asSet'
    BY <2>3 DEF RegistersAreATag
  <2> QED BY <1>1, <2>1, <2>2, <2>3
<1>14. Rounds34' /\ Callback'
  <2>1. ~Task1Erases
    BY <1>1, <1>2 DEF Task1Erases, Task1HasSet
  <2> QED BY <2>1, Task1Leaves DEF Task1
<1> QED BY <1>8, <1>9, <1>10, <1>12, <1>13, <1>14 DEF IInv, Setting, RegisterTypes

LEMMA Task1OtherInv == ASSUME IInv, Task1Wakes \/ Task1Resumes PROVE IInv'
<1>1. ReaderTypes /\ ReadInv /\ TagInv /\ RegistersAreATag /\ RegisterTypes
  BY DEF IInv, Reader, Setting
<1>2. UNCHANGED <<Hreg, asSet, at, key, replaced, obj>>
  BY DEF Task1Wakes, Task1Resumes, hregVars
<1>3. Rounds34' /\ Callback'
  <2>1. ~Task1Erases
    BY DEF Task1Erases, Task1HasSet, Task1Wakes, Task1Resumes
  <2> QED BY <2>1, Task1Leaves DEF Task1
<1>4. CASE Task1Wakes
  <2>1. /\ pc1 = "delay" /\ pc1' = "parse" /\ size' = Len(messageTemp) /\ clean' = TRUE
        /\ whole' = (fate \in {"arriving", "waiting"})
    BY <1>4 DEF Task1Wakes
  <2>2. whole' \in BOOLEAN /\ clean' \in BOOLEAN
    <3>1. (fate \in {"arriving", "waiting"}) \in BOOLEAN
      OBVIOUS
    <3> QED BY <2>1, <3>1, Zenon
  <2>3. size' \in Nat
    BY <2>1 DEF IInv, Callback, LoopTypes
  <2>4. ReaderTypes'
    BY <1>1, <1>2, <2>1, <2>2, <2>3 DEF ReaderTypes
  <2>5. ReadInv'
    BY <1>1, <1>2, <2>1 DEF ReadInv
  <2>6. TagInv'
    <3>1. DOMAIN obj = {}
      BY <1>1, <2>1, NothingIs DEF ReadInv
    <3> QED BY <1>2, <2>1, <3>1 DEF TagInv
  <2>7. RegistersAreATag' /\ RegisterTypes'
    BY <1>1, <1>2, <2>1 DEF RegistersAreATag, RegisterTypes
  <2> QED BY <1>3, <2>4, <2>5, <2>6, <2>7 DEF IInv, Reader, Setting
<1>5. CASE Task1Resumes
  <2>1. /\ pc1 = "pause" /\ pc1' = "tag" /\ UNCHANGED <<size, whole, clean, messageTemp>>
    BY <1>5 DEF Task1Resumes, callbackVars
  <2>2. Reader'
    BY <1>1, <1>2, <2>1 DEF Reader, ReaderTypes, ReadInv
  <2>3. Setting'
    BY <1>1, <1>2, <2>1 DEF Setting, TagInv, RegistersAreATag, RegisterTypes
  <2> QED BY <1>3, <2>2, <2>3 DEF IInv
<1> QED BY <1>4, <1>5

LEMMA Task1ErasesInv == ASSUME IInv, Task1Erases PROVE IInv'
<1> DEFINE rest == [t \in DOMAIN obj \ {Next1} |-> obj[t]]
<1>1. ReaderTypes /\ ReadInv /\ TagInv /\ RegistersAreATag /\ RegisterTypes /\ Callback
  BY DEF IInv, Reader, Setting
<1>2. IsDocument(rest, Tags, Values) /\ (clean => \A t \in DOMAIN rest : Came(t, rest[t]))
  BY <1>1 DEF IsDocument, ReaderTypes, TagInv
<1>3. /\ pc1 = "erase" /\ messageTemp' = <<>>
      /\ UNCHANGED <<buffer, i, length, arrived, bound, at, key, size, replaced, Hreg, asSet>>
      /\ IF rest = Nothing THEN Task1Delays ELSE pc1' = "pause" /\ obj' = rest /\ UNCHANGED <<whole, clean>>
      /\ last' \in {last, <<>>} /\ fate' \in {fate, "none"}
  BY DEF Task1Erases, Task1HasSet, hregVars
<1> HIDE DEF rest
<1>4. Rounds34'
  BY Task1Leaves DEF Task1
<1>5. Callback'
  <2>1. LoopTypes'
    BY <1>1, <1>3 DEF Callback, LoopTypes
  <2>2. CallInv'
    <3> SUFFICES ASSUME InCallback' PROVE CallInv'
      BY DEF CallInv
    <3>1. InCallback
      BY <1>3 DEF InCallback
    <3> QED BY <1>1, <1>3, <3>1 DEF Callback, CallInv
  <2>3. PairInv'
    BY <1>3 DEF PairInv
  <2> QED BY <2>1, <2>2, <2>3 DEF Callback
<1>6. RegisterTypes' /\ RegistersAreATag'
  <2>1. pc1' \in {"delay", "pause"}
    BY <1>3 DEF Task1Delays
  <2> QED BY <1>1, <1>3, <2>1 DEF RegisterTypes, RegistersAreATag
<1>7. CASE rest = Nothing
  <2>1. pc1' = "delay" /\ obj' = Nothing /\ whole' = FALSE /\ clean' = TRUE
    BY <1>3, <1>7 DEF Task1Delays
  <2>2. TagInv'
    BY <2>1, NothingIs DEF TagInv
  <2>3. ReaderTypes'
    <3>1. IsDocument(obj', Tags, Values) /\ whole' \in BOOLEAN /\ clean' \in BOOLEAN
      BY <2>1, NothingIs
    <3> QED BY <1>1, <1>3, <2>1, <3>1 DEF ReaderTypes
  <2>4. ReadInv'
    BY <1>1, <1>3, <2>1 DEF ReadInv
  <2> QED BY <1>4, <1>5, <1>6, <2>2, <2>3, <2>4 DEF IInv, Reader, Setting
<1>8. CASE rest # Nothing
  <2>1. pc1' = "pause" /\ obj' = rest /\ UNCHANGED <<whole, clean>>
    BY <1>3, <1>8
  <2>2. DOMAIN rest # {}
    BY <1>2, <1>8, EmptyIsNothing DEF IsDocument
  <2>3. TagInv'
    BY <1>2, <2>1, <2>2 DEF TagInv
  <2>4. ReaderTypes'
    BY <1>1, <1>2, <1>3, <2>1 DEF ReaderTypes
  <2>5. ReadInv'
    BY <1>1, <1>3, <2>1 DEF ReadInv
  <2> QED BY <1>4, <1>5, <1>6, <2>3, <2>4, <2>5 DEF IInv, Reader, Setting
<1> QED BY <1>7, <1>8

LEMMA Task1Inv == ASSUME IInv, Task1 PROVE IInv'
BY Task1ReadsTagInv, Task1ReadsValueInv, Task1StopsInv, Task1SetsInv, Task1OtherInv, Task1ErasesInv DEF Task1

---------------------------------------------------------------------------
(* Task2 and Task3 *)

LEMMA Task2Inv == ASSUME IInv, Task2 PROVE IInv'
<1>1. PICK r \in MasterRegisters, v \in MasterValues :
        Hreg' = [Hreg EXCEPT ![r] = v] /\ asSet' = (asSet /\ r > 2)
  BY DEF Task2
<1>2. /\ UNCHANGED <<buffer, callbackVars, fate>> /\ UNCHANGED <<messageTemp, task1Vars>>
      /\ UNCHANGED <<baton, roundVars, task4Vars, bound>>
  BY DEF Task2, callbackVars
<1>3. Hreg \in [Registers -> Words] /\ asSet \in BOOLEAN /\ v \in Words /\ r \in Registers
  BY SomeWords, RegistersAssumption DEF IInv, Setting, RegisterTypes, Registers
<1>4. Hreg' \in [Registers -> Words]
  BY <1>1, <1>3
<1>5. asSet' \in BOOLEAN
  <2>1. (asSet /\ r > 2) \in BOOLEAN
    OBVIOUS
  <2> QED BY <1>1, <2>1, Zenon
<1>6. asSet' => asSet /\ \A s \in 0 .. 2 : Hreg'[s] = Hreg[s]
  <2> SUFFICES ASSUME asSet' PROVE asSet /\ \A s \in 0 .. 2 : Hreg'[s] = Hreg[s]
    OBVIOUS
  <2>1. asSet /\ r > 2
    BY <1>1
  <2>2. \A s \in 0 .. 2 : s \in Registers /\ s # r
    BY <2>1, RegistersAssumption DEF Registers
  <2> QED BY <1>1, <1>3, <2>1, <2>2
<1>7. Setting'
  <2>1. UNCHANGED <<pc1, obj, clean>>
    BY <1>2 DEF task1Vars
  <2> QED BY <1>4, <1>5, <1>6, <2>1, SameSetting DEF IInv
<1> QED BY <1>2, <1>7, SameCallback, SameReader, SameRounds DEF IInv

LEMMA Task34Leave ==
  ASSUME IInv, UNCHANGED <<messageTemp, task1Vars>>, UNCHANGED hregVars PROVE Reader' /\ Setting'
<1>1. UNCHANGED <<pc1, obj, hregVars>> /\ UNCHANGED clean
  BY DEF task1Vars
<1> QED BY <1>1, SameReader, SameRegisters DEF IInv

\* what Task3 finds in its round
LEMMA ComparesIs ==
  ASSUME RoundTypes, Task3Compares
  PROVE  /\ IsDocument(root', Registers, Words) /\ prev_value' \in [Registers -> Words]
         /\ \A r \in DOMAIN root' : root'[r] = prev_value'[r]
         /\ unpublished' = DOMAIN root'
<1> DEFINE changed == {r \in Registers : current_value[r + 1] # prev_value[r]}
<1>1. /\ root' = [r \in changed |-> current_value[r + 1]]
      /\ unpublished' = changed
      /\ prev_value' = [r \in Registers |-> current_value[r + 1]]
  BY DEF Task3Compares
<1>2. \A r \in Registers : current_value[r + 1] \in Words
  BY RegistersAssumption DEF Task3Compares, RoundTypes, Registers
<1>3. changed \subseteq Registers
  OBVIOUS
<1> HIDE DEF changed
<1> QED BY <1>1, <1>2, <1>3 DEF IsDocument

LEMMA Task3Inv == ASSUME IInv, Task3 PROVE IInv'
<1>1. RoundTypes /\ BatonInv /\ RoundInv /\ OnlyARoundLosesChanges
  BY DEF IInv, Rounds34
<1>2. /\ UNCHANGED <<buffer, callbackVars, fate>> /\ UNCHANGED <<messageTemp, task1Vars>> /\ UNCHANGED hregVars
      /\ UNCHANGED <<bound, pc4, filled, packet>>
  BY DEF Task3, Task3Wakes, Task3Takes, Task3Reads, Task3Compares, Task3Gives, callbackVars, task4Vars
<1>3. Callback' /\ Reader' /\ Setting'
  BY <1>2, SameCallback, Task34Leave DEF IInv
<1>4. Rounds34'
  <2>1. CASE Task3Wakes
    BY <1>1, <1>2, <2>1 DEF Task3Wakes, Rounds34, RoundTypes, BatonInv, RoundInv, OnlyARoundLosesChanges,
                            Pending, task4Vars
  <2>2. CASE Task3Takes
    BY <1>1, <1>2, <2>2 DEF Task3Takes, Rounds34, RoundTypes, BatonInv, RoundInv, OnlyARoundLosesChanges,
                            Pending, task4Vars
  <2>3. CASE Task3Reads
    <3>1. current_value' \in Seq(Words)
      BY <1>1, <2>3, RegistersAssumption DEF Task3Reads, RoundTypes, Registers, IInv, Setting, RegisterTypes
    <3>2. /\ UNCHANGED <<baton, pc3, root, prev_value, plc_out, unpublished>>
      BY <2>3 DEF Task3Reads, task4Vars
    <3> QED BY <1>1, <1>2, <3>1, <3>2 DEF Rounds34, RoundTypes, BatonInv, RoundInv, OnlyARoundLosesChanges, Pending
  <2>4. CASE Task3Compares
    <3>1. /\ IsDocument(root', Registers, Words) /\ prev_value' \in [Registers -> Words]
          /\ \A r \in DOMAIN root' : root'[r] = prev_value'[r]
          /\ unpublished' = DOMAIN root'
      BY <1>1, <2>4, ComparesIs
    <3>2. pc3 = "read" /\ pc3' = "write" /\ plc_out' = Half /\ current_value' = <<>> /\ UNCHANGED baton
      BY <2>4 DEF Task3Compares
    <3>3. BatonInv' /\ RoundInv'
      BY <1>1, <1>2, <3>1, <3>2 DEF BatonInv, RoundInv
    <3>4. OnlyARoundLosesChanges'
      BY <3>1, <3>2 DEF OnlyARoundLosesChanges, Pending
    <3>5. /\ prev_value' \in [Registers -> Words \cup {0}] /\ current_value' \in Seq(Words)
          /\ unpublished' \subseteq Registers
      BY <3>1, <3>2 DEF IsDocument
    <3>6. RoundTypes'
      BY <1>1, <1>2, <3>1, <3>2, <3>5 DEF RoundTypes
    <3> QED BY <3>3, <3>4, <3>6 DEF Rounds34
  <2>5. CASE Task3Gives
    <3>1. /\ pc3 = "write" /\ pc3' = "delay" /\ plc_out' = root /\ root' = Nothing /\ baton' = "free"
          /\ UNCHANGED <<prev_value, current_value, unpublished>>
      BY <2>5 DEF Task3Gives, task4Vars
    <3>2. IsDocument(root, Registers, Words) /\ root \notin {Unwritten, Half} /\ IsDocument(root', Registers, Words)
      BY <1>1, <3>1, NoDocument, NothingIs DEF RoundTypes
    <3>3. BatonInv' /\ RoundInv'
      BY <1>1, <1>2, <3>1, <3>2 DEF BatonInv, RoundInv
    <3>4. OnlyARoundLosesChanges'
      BY <1>1, <3>1, <3>2 DEF OnlyARoundLosesChanges, Pending
    <3>5. RoundTypes'
      BY <1>1, <1>2, <3>1, <3>2 DEF RoundTypes
    <3> QED BY <3>3, <3>4, <3>5 DEF Rounds34
  <2> QED BY <2>1, <2>2, <2>3, <2>4, <2>5 DEF Task3
<1> QED BY <1>3, <1>4 DEF IInv

---------------------------------------------------------------------------
(* Task4 *)

\* publish() may write over the part of a message that the callback has not read,
\* but puts nothing there that the callback could take for another's.
LEMMA SpoiltCallback ==
  ASSUME Callback, UNCHANGED <<messageTemp, i, length, arrived, bound>>,
         buffer' \in [1 .. SIZE -> Parts \cup {Other, Ours}],
         \A k \in 1 .. SIZE : buffer'[k] \in {buffer[k], Ours, Other},
         last' \in {last, <<>>}, fate' \in {fate, "none"}
  PROVE  Callback'
<1>1. LoopTypes'
  BY DEF Callback, LoopTypes
<1>2. PairInv'
  BY DEF Callback, PairInv
<1>3. CallInv'
  <2> SUFFICES ASSUME InCallback PROVE CallInv'
    BY DEF CallInv, InCallback
  <2>1. PICK m \in Messages :
          /\ length = Len(Text(m))
          /\ \A k \in i .. length : buffer[k] \in {Text(m)[k], Ours, Other}
          /\ i = 1 => messageTemp = <<>>
          /\ messageTemp # <<>> => messageTemp[Len(messageTemp)] \in {Text(m)[i - 1], Other}
    BY DEF Callback, CallInv
  <2>2. \A k \in i .. length : k \in 1 .. SIZE
    BY SizeAssumption DEF Callback, LoopTypes
  <2>3. \A k \in i .. length : buffer'[k] \in {Text(m)[k], Ours, Other}
    BY <2>1, <2>2
  <2> QED BY <2>1, <2>3 DEF CallInv
<1> QED BY <1>1, <1>2, <1>3 DEF Callback

LEMMA Task4Inv == ASSUME IInv, Task4 PROVE IInv'
<1>1. RoundTypes /\ BatonInv /\ RoundInv /\ OnlyARoundLosesChanges /\ Callback /\ LoopTypes
  BY DEF IInv, Rounds34, Callback
<1>2. /\ UNCHANGED <<messageTemp, i, length, arrived, bound>> /\ UNCHANGED <<messageTemp, task1Vars>>
      /\ UNCHANGED hregVars /\ UNCHANGED roundVars
  BY DEF Task4, Task4Takes, Task4Publishes, Publishes, Task4Fills, Task4Sends, Task4Gives, callbackVars
<1>3. Reader' /\ Setting'
  BY <1>2, Task34Leave
<1>4. Callback'
  <2>1. CASE Task4Fills
    <3>1. /\ buffer' = [buffer EXCEPT ![filled'] = Ours] /\ fate' \in {fate, "none"} /\ last' \in {last, <<>>}
      BY <2>1 DEF Task4Fills
    <3>2. /\ buffer' \in [1 .. SIZE -> Parts \cup {Other, Ours}]
          /\ \A k \in 1 .. SIZE : buffer'[k] \in {buffer[k], Ours, Other}
      BY <1>1, <3>1 DEF LoopTypes
    <3> QED BY <1>1, <1>2, <3>1, <3>2, SpoiltCallback
  <2>2. CASE Task4Sends
    <3>1. /\ buffer' = [k \in 1 .. SIZE |-> IF buffer[k] = Ours THEN Other ELSE buffer[k]]
          /\ UNCHANGED <<fate, last>>
      BY <2>2 DEF Task4Sends, callbackVars
    <3>2. /\ buffer' \in [1 .. SIZE -> Parts \cup {Other, Ours}]
          /\ \A k \in 1 .. SIZE : buffer'[k] \in {buffer[k], Ours, Other}
      BY <1>1, <3>1 DEF LoopTypes
    <3> QED BY <1>1, <1>2, <3>1, <3>2, SpoiltCallback
  <2>3. CASE Task4Takes \/ Task4Publishes \/ Task4Gives
    <3>1. UNCHANGED <<buffer, callbackVars, fate>>
      BY <2>3 DEF Task4Takes, Task4Publishes, Publishes, Task4Gives
    <3> QED BY <1>1, <3>1, SameCallback
  <2> QED BY <2>1, <2>2, <2>3 DEF Task4
<1>5. BatonInv' /\ RoundInv'
  BY <1>1, <1>2 DEF Task4, Task4Takes, Task4Publishes, Publishes, Task4Fills, Task4Sends, Task4Gives, BatonInv,
                    RoundInv, roundVars
<1>6. OnlyARoundLosesChanges'
  <2>1. unpublished' \subseteq unpublished
    BY DEF Task4, Task4Takes, Task4Publishes, Publishes, Task4Fills, Task4Sends, Task4Gives
  <2> QED BY <1>1, <1>2, <2>1 DEF OnlyARoundLosesChanges, Pending, roundVars
<1>7. RoundTypes'
  <2>1. /\ baton' \in {"free", "Task3", "Task4"} /\ pc4' \in {"delay", "publish", "fill"}
        /\ unpublished' \subseteq Registers
    BY <1>1 DEF Task4, Task4Takes, Task4Publishes, Publishes, Task4Fills, Task4Sends, Task4Gives, RoundTypes
  <2>2. filled' \in 0 .. SIZE
    <3>1. CASE Task4Fills
      <4>1. filled < bound.parts /\ filled' = filled + 1 /\ bound.parts <= SIZE
        BY <1>1, <3>1 DEF Task4Fills, RoundInv
      <4>2. filled \in 0 .. SIZE /\ bound.parts \in Nat
        BY <1>1, InputsAssumption DEF RoundTypes, LoopTypes
      <4> QED BY <4>1, <4>2, SizeAssumption
    <3>2. CASE ~Task4Fills
      <4>1. filled' \in {filled, 0}
        BY <3>2 DEF Task4, Task4Takes, Task4Publishes, Publishes, Task4Sends, Task4Gives
      <4> QED BY <1>1, <4>1, SizeAssumption DEF RoundTypes
    <3> QED BY <3>1, <3>2
  <2>3. packet' = Unwritten \/ IsDocument(packet', Registers, Words)
    <3>1. CASE Task4Publishes
      <4>1. packet' = plc_out /\ pc4 = "publish"
        BY <3>1 DEF Task4Publishes, Publishes
      <4>2. plc_out # Half
        BY <1>1, <4>1 DEF BatonInv
      <4> QED BY <1>1, <4>1, <4>2 DEF RoundTypes
    <3>2. CASE ~Task4Publishes
      <4>1. packet' \in {packet, Nothing}
        BY <3>2 DEF Task4, Task4Takes, Task4Fills, Task4Sends, Task4Gives
      <4> QED BY <1>1, <4>1, NothingIs DEF RoundTypes
    <3> QED BY <3>1, <3>2
  <2> QED BY <1>1, <1>2, <2>1, <2>2, <2>3 DEF RoundTypes, roundVars
<1> QED BY <1>3, <1>4, <1>5, <1>6, <1>7 DEF IInv, Rounds34

---------------------------------------------------------------------------
(* The theorems *)

LEMMA NextInv == ASSUME IInv, [Next]_vars PROVE IInv'
<1>1. CASE Next
  BY <1>1, LoopInv, Task1Inv, Task2Inv, Task3Inv, Task4Inv DEF Next
<1>2. CASE UNCHANGED vars
  <2>1. /\ UNCHANGED <<buffer, callbackVars, fate>> /\ UNCHANGED <<messageTemp, task1Vars>> /\ UNCHANGED hregVars
        /\ UNCHANGED <<baton, roundVars, task4Vars, bound>>
    BY <1>2 DEF vars, callbackVars
  <2> QED BY <2>1, SameCallback, SameRounds, Task34Leave DEF IInv
<1> QED BY <1>1, <1>2

LEMMA Invariant == Spec => []IInv
BY InitInv, NextInv, PTL DEF Spec

\* The variables of the sketch have their types, whatever messages arrive and
\* whatever the master writes.
THEOREM TypeCorrect == Spec => []TypeOK
BY Invariant, TypesAre, PTL

\* publish() is called for a round as Task3 wrote it, and until it has sent its
\* packet plc_out is not written.
THEOREM RoundsGoOut == Spec => []SentIsARound
<1>1. IInv => SentIsARound
  BY DEF IInv, Rounds34, BatonInv, RoundInv, SentIsARound
<1> QED BY <1>1, Invariant, PTL

\* The tag in register 0 came with the value in registers 1 and 2, or with the
\* beginning of one, however the callback, Task1 and publish() alternate: unless the
\* master has written there, or what Task1 read was replaced meanwhile or held a part
\* of another packet.
THEOREM TagsStayWhole == Spec => []RegistersAreATag
<1>1. IInv => RegistersAreATag
  BY DEF IInv, Setting
<1> QED BY <1>1, Invariant, PTL

\* Until the next round no change that Task3 has found gets lost: a publication that
\* fails, or into which loop() has written, leaves it in plc_out.
THEOREM ChangesStay == Spec => []OnlyARoundLosesChanges
<1>1. IInv => OnlyARoundLosesChanges
  BY DEF IInv, Rounds34
<1> QED BY <1>1, Invariant, PTL

---------------------------------------------------------------------------
(* The message: what is in messageTemp, and what Task1 has read of it *)

\* the document of the first n pieces of a message
ReadSoFar(m, n) ==
  [t \in Tags \cap {m[k].tag : k \in 1 .. n} |-> m[Max({k \in 1 .. n : m[k].tag = t})].value]

\* Task1 has read n pieces of a message and, it may be, the tag of the next one.
HasRead(o, a, k, m, n) ==
  /\ o = ReadSoFar(m, n)
  /\ \/ a = 2 * n + 1 /\ k = 0
     \/ a = 2 * n + 2 /\ n < Len(m) /\ k = m[n + 1].tag

\* Of a message that arrives, messageTemp holds the beginning and the client's buffer
\* the rest; Task1's document is that of the pieces it has read, as long as it reads
\* that message alone, and of all of them when it sets registers.
MessageInv ==
  /\ replaced => ~whole
  /\ fate = "waiting" => last \in Messages /\ messageTemp = Text(last) /\ ~InCallback
  /\ fate = "arriving" => /\ last \in Messages /\ InCallback /\ length = Len(Text(last)) /\ Len(messageTemp) = i - 1
                          /\ \A k \in 1 .. length :
                               Text(last)[k] = IF k < i THEN messageTemp[k] ELSE buffer[k]
  /\ pc1 = "parse" /\ whole /\ fate # "none" => \E n \in 0 .. Len(last) : HasRead(obj, at, key, last, n)
  /\ pc1 \in {"tag", "high", "low", "erase"} /\ whole
       => fate # "arriving" /\ (fate = "waiting" => obj = AsObject(last))
  /\ pc1 = "pause" /\ whole => fate = "none"

LEMMA ReadNothing == ASSUME NEW m PROVE ReadSoFar(m, 0) = Nothing
BY DEF ReadSoFar, Nothing

LEMMA ReadAll == ASSUME NEW m \in Seq(Pieces) PROVE AsObject(m) = ReadSoFar(m, Len(m))
<1>1. DOMAIN m = 1 .. Len(m)
  OBVIOUS
<1> QED BY <1>1, Zenon DEF AsObject, ReadSoFar

LEMMA MaxIs ==
  ASSUME NEW S \in SUBSET Nat, NEW n \in S, \A k \in S : k <= n PROVE Max(S) = n
<1>1. n \in S /\ \A k \in S : n >= k
  OBVIOUS
<1>2. Max(S) \in S /\ \A k \in S : Max(S) >= k
  BY <1>1, Zenon DEF Max
<1>3. Max(S) >= n /\ n >= Max(S) /\ Max(S) \in Nat
  BY <1>1, <1>2
<1> QED BY <1>3

\* A piece read is a member added, or given its new value.
LEMMA ReadMore ==
  ASSUME NEW m \in Seq(Pieces), NEW n \in Nat, n + 1 <= Len(m)
  PROVE  ReadSoFar(m, n + 1) = With(ReadSoFar(m, n), m[n + 1].tag, m[n + 1].value)
<1> DEFINE tag == m[n + 1].tag
           At(j, t) == {k \in 1 .. j : m[k].tag = t}
           Of(j) == Tags \cap {m[k].tag : k \in 1 .. j}
<1>1. 1 .. n + 1 = (1 .. n) \cup {n + 1}
  OBVIOUS
<1>2. Of(n + 1) = IF tag \in Tags THEN Of(n) \cup {tag} ELSE Of(n)
  BY <1>1
<1>3. \A t \in Of(n + 1) \ {tag} : At(n + 1, t) = At(n, t)
  BY <1>1
<1>4. Max(At(n + 1, tag)) = n + 1
  <2>1. n + 1 \in At(n + 1, tag) /\ \A k \in At(n + 1, tag) : k <= n + 1
    OBVIOUS
  <2>2. At(n + 1, tag) \in SUBSET Nat
    OBVIOUS
  <2> HIDE DEF At
  <2> QED BY <2>1, <2>2, MaxIs
<1>5. ReadSoFar(m, n) = [t \in Of(n) |-> m[Max(At(n, t))].value]
  BY Zenon DEF ReadSoFar
<1>6. ReadSoFar(m, n + 1) = [t \in Of(n + 1) |-> m[Max(At(n + 1, t))].value]
  BY Zenon DEF ReadSoFar
<1> HIDE DEF Of, At
<1>7. DOMAIN ReadSoFar(m, n) = Of(n) /\ \A t \in Of(n) : ReadSoFar(m, n)[t] = m[Max(At(n, t))].value
  BY <1>5
<1>8. CASE tag \in Tags
  <2>1. With(ReadSoFar(m, n), tag, m[n + 1].value)
          = [t \in Of(n) \cup {tag} |-> IF t = tag THEN m[n + 1].value ELSE ReadSoFar(m, n)[t]]
    BY <1>7, <1>8 DEF With
  <2>2. Of(n + 1) = Of(n) \cup {tag}
    BY <1>2, <1>8
  <2>3. ASSUME NEW t \in Of(n) \cup {tag}
        PROVE  m[Max(At(n + 1, t))].value = IF t = tag THEN m[n + 1].value ELSE ReadSoFar(m, n)[t]
    <3>1. CASE t = tag
      BY <1>4, <3>1
    <3>2. CASE t # tag
      BY <1>3, <1>7, <2>2, <2>3, <3>2
    <3> QED BY <3>1, <3>2
  <2> QED BY <1>6, <2>1, <2>2, <2>3
<1>9. CASE tag \notin Tags
  <2>1. With(ReadSoFar(m, n), tag, m[n + 1].value) = ReadSoFar(m, n)
    BY <1>9 DEF With
  <2>2. Of(n + 1) = Of(n)
    BY <1>2, <1>9
  <2>3. \A t \in Of(n) : t # tag
    BY <1>9 DEF Of
  <2>4. \A t \in Of(n) : m[Max(At(n + 1, t))].value = m[Max(At(n, t))].value
    BY <1>3, <2>2, <2>3
  <2> QED BY <1>5, <1>6, <2>1, <2>2, <2>4
<1> QED BY <1>8, <1>9

\* loop() hands a message over, one part after another.
LEMMA LoopMessage == ASSUME LoopTypes, MessageInv, loop PROVE MessageInv'
<1>1. CASE LoopSends
  <2>1. ~InCallback /\ UNCHANGED <<messageTemp, i, length, last, fate, pc1, at, key, replaced, obj, whole>>
    BY <1>1 DEF LoopSends, callbackVars, task1Vars
  <2>2. fate # "arriving"
    BY <2>1 DEF MessageInv
  <2> QED BY <2>1, <2>2 DEF MessageInv, InCallback, HasRead
<1>2. CASE CallbackBegins
  <2>1. /\ i' = 1 /\ length' = Len(Text(last')) /\ fate' = "arriving" /\ whole' = FALSE /\ messageTemp' = <<>>
        /\ buffer' = [k \in 1 .. SIZE |-> IF k <= length' THEN Text(last')[k] ELSE buffer[k]]
    BY <1>2 DEF CallbackBegins, Receives
  <2>2. last' \in Messages
    <3>1. bound \in Bounds /\ arrived \in 0 .. Len(bound.messages) /\ arrived < Len(bound.messages)
      BY <1>2 DEF CallbackBegins, Receives, LoopTypes
    <3>2. bound.messages[arrived + 1] \in Messages
      BY <3>1, InputsAssumption
    <3> QED BY <1>2, <3>2 DEF CallbackBegins, Receives
  <2>3. length' \in Nat /\ length' >= 1 /\ length' <= SIZE
    BY <2>1, <2>2, TextIs, InputsAssumption
  <2>4. \A k \in 1 .. length' : ~(k < i') /\ buffer'[k] = Text(last')[k]
    BY <2>1, <2>3, SizeAssumption
  <2> QED BY <2>1, <2>2, <2>3, <2>4 DEF MessageInv, InCallback
<1>3. CASE CallbackAppends
  <2> DEFINE part == IF buffer[i] = Ours THEN Other ELSE buffer[i]
  <2>1. /\ InCallback /\ messageTemp' = Append(messageTemp, part)
        /\ IF i < length THEN i' = i + 1 /\ length' = length ELSE i' = 1 /\ length' = 0
        /\ buffer' = [buffer EXCEPT ![i] = IF buffer[i] = Ours THEN buffer[i] ELSE Other]
        /\ fate' = IF i = length /\ fate = "arriving" THEN "waiting" ELSE fate
        /\ UNCHANGED <<last, pc1, at, key, replaced, obj, whole>>
    BY <1>3 DEF CallbackAppends, task1Vars
  <2>2. /\ buffer \in [1 .. SIZE -> Parts \cup {Other, Ours}] /\ messageTemp \in Seq(Parts \cup {Other})
        /\ i \in 1 .. SIZE /\ length \in 0 .. SIZE /\ i <= length /\ SIZE \in Nat
    BY <2>1, SizeAssumption DEF LoopTypes, InCallback
  <2>3. part \in Parts \cup {Other}
    BY <2>2
  <2>4. fate # "waiting"
    BY <2>1 DEF MessageInv
  <2>5. CASE fate = "arriving"
    <3>1. /\ last \in Messages /\ length = Len(Text(last)) /\ Len(messageTemp) = i - 1
          /\ \A k \in 1 .. length : Text(last)[k] = IF k < i THEN messageTemp[k] ELSE buffer[k]
      BY <2>5 DEF MessageInv
    <3>2. Text(last) \in Seq(Parts)
      BY <3>1, TextIs
    <3>3. i \in 1 .. length /\ Text(last)[i] = buffer[i] /\ Text(last)[i] \in Parts
      BY <2>2, <3>1, <3>2
    <3>4. part = Text(last)[i]
      BY <3>3, TextsAssumption
    <3> HIDE DEF part
    <3>5. /\ messageTemp' \in Seq(Parts \cup {Other}) /\ Len(messageTemp') = i /\ messageTemp'[i] = Text(last)[i]
          /\ \A k \in 1 .. i - 1 : messageTemp'[k] = messageTemp[k]
      BY <2>1, <2>2, <2>3, <3>1, <3>4
    <3>6. \A k \in 1 .. i : messageTemp'[k] = Text(last)[k]
      <4> TAKE k \in 1 .. i
      <4>1. CASE k = i
        BY <3>5, <4>1
      <4>2. CASE k # i
        BY <2>2, <3>1, <3>5, <4>2
      <4> QED BY <4>1, <4>2
    <3>7. /\ fate' = "waiting" => last' \in Messages /\ messageTemp' = Text(last') /\ ~InCallback'
          /\ fate' = "arriving" => /\ last' \in Messages /\ InCallback' /\ length' = Len(Text(last')) /\ Len(messageTemp') = i' - 1
                                   /\ \A k \in 1 .. length' :
                                        Text(last')[k] = IF k < i' THEN messageTemp'[k] ELSE buffer'[k]
      <4>1. CASE i = length
        <5>1. fate' = "waiting" /\ i' = 1 /\ length' = 0 /\ last' = last
          BY <2>1, <2>2, <2>5, <4>1
        <5>2. messageTemp' = Text(last)
          BY <3>1, <3>2, <3>5, <3>6, <4>1, SeqEqual
        <5> QED BY <3>1, <5>1, <5>2 DEF InCallback
      <4>2. CASE i # length
        <5>1. fate' = "arriving" /\ i' = i + 1 /\ length' = length /\ last' = last /\ i + 1 <= length
          BY <2>1, <2>2, <2>5, <4>2
        <5>2. \A k \in 1 .. length : k # i => buffer'[k] = buffer[k]
          BY <2>1, <2>2
        <5>3. \A k \in 1 .. length : Text(last)[k] = IF k < i + 1 THEN messageTemp'[k] ELSE buffer'[k]
          <6> TAKE k \in 1 .. length
          <6>1. CASE k < i + 1
            BY <2>2, <3>6, <6>1
          <6>2. CASE ~(k < i + 1)
            BY <2>2, <3>1, <5>2, <6>2
          <6> QED BY <6>1, <6>2
        <5>4. Len(messageTemp') = i' - 1
          BY <2>2, <3>5, <5>1
        <5> QED BY <3>1, <5>1, <5>3, <5>4 DEF InCallback
      <4> QED BY <4>1, <4>2
    <3>8. pc1 \in {"tag", "high", "low", "erase", "pause"} => ~whole
      BY <2>5 DEF MessageInv
    <3>9. /\ replaced' => ~whole'
          /\ pc1' = "parse" /\ whole' /\ fate' # "none" => \E n \in 0 .. Len(last') : HasRead(obj', at', key', last', n)
      BY <2>1, <2>5 DEF MessageInv, HasRead
    <3> QED BY <2>1, <3>7, <3>8, <3>9 DEF MessageInv, HasRead
  <2>6. CASE fate # "arriving"
    <3>1. fate' = "none"
      BY <2>1, <2>4, <2>6 DEF LoopTypes
    <3> QED BY <2>1, <3>1 DEF MessageInv
  <2> QED BY <2>5, <2>6
<1> QED BY <1>1, <1>2, <1>3 DEF loop

\* The part of messageTemp that Task1 reads is the one of the message.
LEMMA PartIs ==
  ASSUME LoopTypes, MessageInv, whole, fate # "none", NEW part, Finds(part), at \in Nat \ {0}
  PROVE  /\ last \in Messages /\ at \in 1 .. Len(Text(last)) /\ part = Text(last)[at] /\ part \in Parts
         /\ fate = "arriving" => at < Len(Text(last))
<1>1. last \in Messages
  BY DEF MessageInv, LoopTypes
<1>2. Text(last) \in Seq(Parts) /\ Len(Text(last)) \in Nat
  BY <1>1, TextIs
<1>3. at \in DOMAIN messageTemp /\ messageTemp[at] = part /\ messageTemp \in Seq(Parts \cup {Other})
  BY DEF Finds, LoopTypes
<1>4. CASE fate = "waiting"
  <2>1. messageTemp = Text(last)
    BY <1>4 DEF MessageInv
  <2> QED BY <1>1, <1>2, <1>3, <1>4, <2>1
<1>5. CASE fate = "arriving"
  <2>1. /\ length = Len(Text(last)) /\ Len(messageTemp) = i - 1 /\ i <= length
        /\ \A k \in 1 .. length : Text(last)[k] = IF k < i THEN messageTemp[k] ELSE buffer[k]
        /\ i \in Nat /\ length \in Nat
    BY <1>5, SizeAssumption DEF MessageInv, InCallback, LoopTypes
  <2>2. at \in 1 .. i - 1 /\ at \in 1 .. length /\ at < i /\ at < length
    BY <1>3, <2>1
  <2>3. Text(last)[at] = part
    BY <1>3, <2>1, <2>2
  <2> QED BY <1>1, <1>2, <2>1, <2>2, <2>3
<1> QED BY <1>4, <1>5 DEF LoopTypes

\* No part of it can be taken for anything else.
LEMMA NotGarbled ==
  ASSUME LoopTypes, MessageInv, whole, fate # "none", at \in Nat \ {0} PROVE ~Garbled
<1>1. ~replaced
  BY DEF MessageInv
<1>2. ~Finds(Other)
  BY PartIs, TextsAssumption
<1> QED BY <1>1, <1>2 DEF Garbled

LEMMA Task1ReadsTagMessage == ASSUME LoopTypes, ReaderTypes, MessageInv, Task1ReadsTag PROVE MessageInv'
<1>1. /\ pc1 = "parse" /\ at % 2 = 1 /\ at' = at + 1 /\ at \in Nat \ {0}
      /\ UNCHANGED <<pc1, obj, replaced, whole, fate, last, messageTemp, i, length, buffer>>
  BY DEF Task1ReadsTag, ReadsOn, callbackVars, ReaderTypes
<1>2. PICK tag \in Names : (Finds(Key(tag)) \/ Garbled) /\ key' = tag
  BY DEF Task1ReadsTag
<1>3. ASSUME whole, fate # "none"
      PROVE  \E n \in 0 .. Len(last) : obj = ReadSoFar(last, n) /\ at' = 2 * n + 2 /\ n < Len(last) /\ key' = last[n + 1].tag
  <2>1. PICK n \in 0 .. Len(last) : HasRead(obj, at, key, last, n)
    BY <1>1, <1>3 DEF MessageInv
  <2>2. Finds(Key(tag))
    BY <1>1, <1>2, <1>3, NotGarbled
  <2>3. last \in Messages /\ at \in 1 .. Len(Text(last)) /\ Key(tag) = Text(last)[at] /\ Key(tag) \in Parts
    BY <1>1, <1>3, <2>2, PartIs
  <2>4. /\ Len(last) \in Nat /\ Len(Text(last)) = 2 * Len(last) + 1 /\ Text(last)[2 * Len(last) + 1] = Close
        /\ \A j \in 1 .. Len(last) : /\ last[j] \in Pieces
                                     /\ Text(last)[2 * j - 1] = Key(last[j].tag) /\ Text(last)[2 * j] = Val(last[j].value)
    BY <2>3, TextIs
  <2>5. n \in Nat /\ at = 2 * n + 1 /\ obj = ReadSoFar(last, n)
    <3>1. obj = ReadSoFar(last, n) /\ (at = 2 * n + 1 \/ at = 2 * n + 2)
      BY <2>1, Zenon DEF HasRead
    <3>2. n \in Nat
      BY <2>1, <2>4
    <3>3. at # 2 * n + 2
      BY <1>1, <3>2
    <3> QED BY <3>1, <3>2, <3>3
  <2>6. n # Len(last)
    <3>1. Key(tag) # Close
      BY <1>2, TextsAssumption
    <3> QED BY <2>3, <2>4, <2>5, <3>1
  <2>7. n + 1 \in 1 .. Len(last) /\ 2 * (n + 1) - 1 = at
    BY <2>1, <2>4, <2>5, <2>6
  <2>8. Key(tag) = Key(last[n + 1].tag)
    BY <2>3, <2>4, <2>7
  <2>9. tag = last[n + 1].tag
    BY <2>8, KeyIs
  <2> QED BY <1>1, <1>2, <2>4, <2>5, <2>7, <2>9
<1>4. pc1' = "parse" /\ whole' /\ fate' # "none" => \E n \in 0 .. Len(last') : HasRead(obj', at', key', last', n)
  BY <1>1, <1>3 DEF HasRead
<1> QED BY <1>1, <1>4 DEF MessageInv, InCallback

LEMMA Task1ReadsValueMessage == ASSUME LoopTypes, ReaderTypes, MessageInv, Task1ReadsValue PROVE MessageInv'
<1>1. /\ pc1 = "parse" /\ at % 2 = 0 /\ at' = at + 1 /\ at \in Nat \ {0} /\ key' = 0
      /\ UNCHANGED <<pc1, replaced, whole, fate, last, messageTemp, i, length, buffer>>
  BY DEF Task1ReadsValue, ReadsOn, callbackVars, ReaderTypes
<1>2. PICK value \in Values : (Finds(Val(value)) \/ Garbled) /\ obj' = With(obj, key, value)
  BY DEF Task1ReadsValue
<1>3. ASSUME whole, fate # "none"
      PROVE  \E n \in 0 .. Len(last) : obj' = ReadSoFar(last, n) /\ at' = 2 * n + 1
  <2>1. PICK n \in 0 .. Len(last) : HasRead(obj, at, key, last, n)
    BY <1>1, <1>3 DEF MessageInv
  <2>2. Finds(Val(value))
    BY <1>1, <1>2, <1>3, NotGarbled
  <2>3. last \in Messages /\ at \in 1 .. Len(Text(last)) /\ Val(value) = Text(last)[at]
    BY <1>1, <1>3, <2>2, PartIs
  <2>4. /\ Len(last) \in Nat /\ last \in Seq(Pieces)
        /\ \A j \in 1 .. Len(last) : /\ last[j] \in Pieces
                                     /\ Text(last)[2 * j - 1] = Key(last[j].tag) /\ Text(last)[2 * j] = Val(last[j].value)
    BY <2>3, TextIs
  <2>5. n \in Nat /\ at = 2 * n + 2 /\ obj = ReadSoFar(last, n) /\ n < Len(last) /\ key = last[n + 1].tag
    BY <1>1, <2>1, <2>4 DEF HasRead
  <2>6. n + 1 \in 1 .. Len(last) /\ 2 * (n + 1) = at /\ at' = 2 * (n + 1) + 1 /\ n + 1 <= Len(last)
    BY <1>1, <2>1, <2>4, <2>5
  <2>7. Val(value) = Val(last[n + 1].value)
    BY <2>3, <2>4, <2>6
  <2>8. value = last[n + 1].value
    BY <2>7, KeyIs
  <2>9. ReadSoFar(last, n + 1) = With(ReadSoFar(last, n), last[n + 1].tag, last[n + 1].value)
    BY <2>4, <2>5, <2>6, ReadMore
  <2>10. obj' = ReadSoFar(last, n + 1)
    BY <1>2, <2>5, <2>8, <2>9
  <2>11. n + 1 \in 0 .. Len(last)
    BY <2>6
  <2> QED BY <2>6, <2>10, <2>11
<1>4. pc1' = "parse" /\ whole' /\ fate' # "none" => \E n \in 0 .. Len(last') : HasRead(obj', at', key', last', n)
  BY <1>1, <1>3 DEF HasRead
<1> QED BY <1>1, <1>4 DEF MessageInv, InCallback

\* What Task1 takes for the whole of the message, behind its brace, is the whole of it.
LEMMA Task1StopsMessage == ASSUME LoopTypes, ReaderTypes, MessageInv, Task1Stops PROVE MessageInv'
<1>1. /\ pc1 = "parse" /\ replaced' = FALSE /\ at \in Nat \ {0}
      /\ UNCHANGED <<fate, last, messageTemp, i, length, buffer>>
  BY DEF Task1Stops, callbackVars, ReaderTypes
<1>2. PICK o \in {obj} \cup IF key = 0 THEN {} ELSE {With(obj, key, value) : value \in CutValues} :
        GoOnWith(o, whole /\ Finds(Close))
  BY DEF Task1Stops
<1>3. ASSUME whole, Finds(Close), fate # "none"
      PROVE  fate = "waiting" /\ o = AsObject(last)
  <2>1. PICK n \in 0 .. Len(last) : HasRead(obj, at, key, last, n)
    BY <1>1, <1>3 DEF MessageInv
  <2>2. /\ last \in Messages /\ at \in 1 .. Len(Text(last)) /\ Close = Text(last)[at]
        /\ fate = "arriving" => at < Len(Text(last))
    BY <1>1, <1>3, PartIs
  <2>3. /\ Len(last) \in Nat /\ Len(Text(last)) = 2 * Len(last) + 1 /\ last \in Seq(Pieces)
        /\ \A j \in 1 .. Len(last) : /\ last[j] \in Pieces
                                     /\ Text(last)[2 * j - 1] = Key(last[j].tag) /\ Text(last)[2 * j] = Val(last[j].value)
    BY <2>2, TextIs
  <2>4. \A j \in 1 .. Len(last) : Text(last)[2 * j - 1] # Close /\ Text(last)[2 * j] # Close
    BY <2>3, SomeWords, TextsAssumption
  <2>5. at = 2 * Len(last) + 1
    <3>1. \A j \in 1 .. Len(last) : at # 2 * j - 1 /\ at # 2 * j
      BY <2>2, <2>4
    <3> QED BY <2>2, <2>3, <3>1, PlaceIs
  <2>6. n = Len(last) /\ key = 0 /\ obj = ReadSoFar(last, Len(last))
    BY <2>1, <2>3, <2>5 DEF HasRead
  <2>7. o = obj
    BY <1>2, <2>6
  <2>8. fate = "waiting"
    BY <1>3, <2>2, <2>3, <2>5 DEF LoopTypes
  <2> QED BY <2>3, <2>6, <2>7, <2>8, ReadAll
<1>4. CASE o = Nothing
  <2>1. pc1' = "delay" /\ whole' = FALSE
    BY <1>2, <1>4 DEF GoOnWith, Task1Delays
  <2> QED BY <1>1, <2>1 DEF MessageInv, InCallback
<1>5. CASE o # Nothing
  <2>1. pc1' = "tag" /\ obj' = o /\ whole' = (whole /\ Finds(Close))
    BY <1>2, <1>5 DEF GoOnWith
  <2>2. whole' => whole /\ Finds(Close)
    BY <2>1
  <2>3. whole' => fate' # "arriving" /\ (fate' = "waiting" => obj' = AsObject(last'))
    BY <1>1, <1>3, <2>1, <2>2
  <2> QED BY <1>1, <2>1, <2>3 DEF MessageInv, InCallback
<1> QED BY <1>4, <1>5

LEMMA Task1Message == ASSUME LoopTypes, ReaderTypes, ReadInv, MessageInv, Task1 PROVE MessageInv'
<1>1. CASE Task1Wakes
  <2>1. /\ pc1 = "delay" /\ pc1' = "parse" /\ UNCHANGED <<at, key, replaced, obj, fate, last, messageTemp, i, length, buffer>>
    BY <1>1 DEF Task1Wakes, callbackVars
  <2>2. at = 1 /\ key = 0 /\ obj = Nothing /\ ~replaced
    BY <2>1 DEF ReadInv
  <2>3. ASSUME fate # "none" PROVE \E n \in 0 .. Len(last) : HasRead(obj', at', key', last, n)
    <3>1. last \in Messages
      BY <2>3 DEF MessageInv, LoopTypes
    <3>2. 0 \in 0 .. Len(last)
      BY <3>1, TextIs
    <3>3. HasRead(obj', at', key', last, 0)
      BY <2>1, <2>2, ReadNothing DEF HasRead
    <3> QED BY <3>2, <3>3
  <2> QED BY <2>1, <2>2, <2>3 DEF MessageInv, InCallback
<1>2. CASE Task1Sets
  <2>1. /\ pc1 \in {"tag", "high", "low"} /\ pc1' \in {"high", "low", "erase"}
        /\ UNCHANGED <<messageTemp, i, length, buffer, last, fate, replaced, obj, whole>>
    BY <1>2 DEF Task1Sets, Task1SetsRegister, callbackVars
  <2> QED BY <2>1 DEF MessageInv, InCallback
<1>3. CASE Task1Resumes
  <2>1. pc1 = "pause" /\ pc1' = "tag" /\ UNCHANGED <<messageTemp, i, length, buffer, last, fate, replaced, obj, whole>>
    BY <1>3 DEF Task1Resumes, callbackVars
  <2> QED BY <2>1 DEF MessageInv, InCallback
<1>4. CASE Task1Erases
  <2>1. /\ pc1 = "erase" /\ messageTemp' = <<>> /\ UNCHANGED <<i, length, buffer, replaced>>
        /\ IF messageTemp = <<>> THEN UNCHANGED <<last, fate>> ELSE last' = <<>> /\ fate' = "none"
        /\ \/ pc1' = "delay" /\ whole' = FALSE
           \/ pc1' = "pause" /\ whole' = whole
    BY <1>4 DEF Task1Erases, Task1HasSet, Task1Delays
  <2>2. fate' # "waiting"
    <3> SUFFICES ASSUME fate' = "waiting" PROVE FALSE
      OBVIOUS
    <3>1. messageTemp = <<>> /\ fate = "waiting"
      BY <2>1
    <3>2. last \in Messages /\ messageTemp = Text(last)
      BY <3>1 DEF MessageInv
    <3> QED BY <3>1, <3>2, TextIs
  <2>3. fate' = "arriving" => fate = "arriving" /\ messageTemp' = messageTemp /\ last' = last
    BY <2>1
  <2>4. ~replaced
    BY <2>1 DEF ReadInv
  <2>5. fate' = "arriving" /\ whole => FALSE
    BY <2>1, <2>3 DEF MessageInv
  <2>6. fate' \in {"none", "arriving"}
    BY <2>1, <2>2 DEF LoopTypes
  <2>7. CASE fate' = "none"
    BY <2>1, <2>4, <2>7 DEF MessageInv
  <2>8. CASE fate' = "arriving"
    <3>1. ~whole /\ fate = "arriving" /\ messageTemp' = messageTemp /\ last' = last
      BY <2>3, <2>5, <2>8
    <3>2. ~whole' /\ pc1' # "parse"
      BY <2>1, <3>1
    <3> QED BY <2>1, <2>8, <3>1, <3>2 DEF MessageInv, InCallback
  <2> QED BY <2>6, <2>7, <2>8
<1> QED BY <1>1, <1>2, <1>3, <1>4, Task1ReadsTagMessage, Task1ReadsValueMessage, Task1StopsMessage DEF Task1

\* publish() spoils a message, and then it is lost, or leaves what is left of it alone.
LEMMA Task4Message == ASSUME LoopTypes, RoundTypes, MessageInv, Task4 PROVE MessageInv'
<1>1. UNCHANGED <<messageTemp, i, length, pc1, at, key, replaced, obj, whole>>
  BY DEF Task4, Task4Takes, Task4Publishes, Publishes, Task4Fills, Task4Sends, Task4Gives, callbackVars, task1Vars
<1>2. \/ fate' = "none"
      \/ /\ UNCHANGED <<fate, last>>
         /\ fate = "arriving" => \A k \in i .. length : buffer'[k] = buffer[k]
  <2>1. CASE Task4Fills
    <3>1. /\ filled' = filled + 1 /\ buffer' = [buffer EXCEPT ![filled'] = Ours]
          /\ fate' = IF fate = "arriving" /\ filled' \in i .. length THEN "none" ELSE fate
          /\ last' = IF fate' = fate THEN last ELSE <<>>
      BY <2>1 DEF Task4Fills
    <3>2. CASE fate = "arriving" /\ filled' \in i .. length
      BY <3>1, <3>2
    <3>3. CASE ~(fate = "arriving" /\ filled' \in i .. length)
      <4>1. UNCHANGED <<fate, last>>
        BY <3>1, <3>3
      <4>2. ASSUME fate = "arriving", NEW k \in i .. length PROVE buffer'[k] = buffer[k]
        <5>1. k \in 1 .. SIZE /\ k # filled'
          BY <3>3, <4>2, SizeAssumption DEF LoopTypes
        <5> QED BY <3>1, <5>1 DEF LoopTypes
      <4> QED BY <4>1, <4>2
    <3> QED BY <3>2, <3>3
  <2>2. CASE Task4Sends
    <3>1. UNCHANGED <<fate, last>> /\ buffer' = [k \in 1 .. SIZE |-> IF buffer[k] = Ours THEN Other ELSE buffer[k]]
      BY <2>2 DEF Task4Sends, callbackVars
    <3>2. ASSUME fate = "arriving", NEW k \in i .. length PROVE buffer'[k] = buffer[k]
      <4>1. /\ last \in Messages /\ length = Len(Text(last)) /\ i \in 1 .. SIZE /\ length \in 0 .. SIZE
            /\ \A j \in 1 .. length : Text(last)[j] = IF j < i THEN messageTemp[j] ELSE buffer[j]
        BY <3>2 DEF MessageInv, LoopTypes
      <4>2. k \in 1 .. length /\ ~(k < i) /\ k \in 1 .. SIZE
        BY <4>1, SizeAssumption
      <4>3. buffer[k] = Text(last)[k] /\ Text(last)[k] \in Parts
        BY <4>1, <4>2, TextIs
      <4>4. buffer[k] # Ours
        BY <4>3, TextsAssumption
      <4> QED BY <3>1, <4>2, <4>4
    <3> QED BY <3>1, <3>2
  <2>3. CASE Task4Takes \/ Task4Publishes \/ Task4Gives
    BY <2>3 DEF Task4Takes, Task4Publishes, Publishes, Task4Gives, callbackVars
  <2> QED BY <2>1, <2>2, <2>3 DEF Task4
<1>3. CASE fate' = "none"
  BY <1>1, <1>3 DEF MessageInv
<1>4. CASE fate' # "none" /\ UNCHANGED <<fate, last>> /\ (fate = "arriving" => \A k \in i .. length : buffer'[k] = buffer[k])
  <2>1. fate = "arriving" => \A k \in 1 .. length : ~(k < i) => buffer'[k] = buffer[k]
    BY <1>4, SizeAssumption DEF LoopTypes
  <2> QED BY <1>1, <1>4, <2>1 DEF MessageInv, InCallback, HasRead
<1> QED BY <1>2, <1>3, <1>4

LEMMA MessageStep == ASSUME IInv, MessageInv, [Next]_vars PROVE MessageInv'
<1>1. LoopTypes /\ ReaderTypes /\ ReadInv /\ RoundTypes
  BY DEF IInv, Callback, Reader, Rounds34
<1>2. CASE Task2 \/ Task3 \/ UNCHANGED vars
  <2>1. UNCHANGED <<buffer, messageTemp, i, length, last, fate, pc1, at, key, replaced, obj, whole>>
    BY <1>2 DEF Task2, Task3, Task3Wakes, Task3Takes, Task3Reads, Task3Compares, Task3Gives, vars, callbackVars, task1Vars
  <2> QED BY <2>1 DEF MessageInv, InCallback, HasRead
<1> QED BY <1>1, <1>2, LoopMessage, Task1Message, Task4Message DEF Next

\* Until the next one arrives a message gets lost only when messageTemp is emptied, or
\* when publish() writes over what the callback has not read of it; and the tags Task1
\* sets for a message it has read to its end are the tags of that message, however the
\* callback, Task1 and publish() alternate.
THEOREM MessagesStayWhole == Spec => []MessageIsWhole
<1>1. Init => MessageInv
  BY DEF Init, MessageInv
<1>2. IInv /\ MessageInv /\ [Next]_vars => MessageInv'
  BY MessageStep
<1>3. MessageInv => MessageIsWhole
  BY Zenon DEF MessageInv, MessageIsWhole
<1> QED BY <1>1, <1>2, <1>3, Invariant, PTL DEF Spec
=============================================================================
