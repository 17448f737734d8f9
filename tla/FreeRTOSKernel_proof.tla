------------------------ MODULE FreeRTOSKernel_proof ------------------------
(***************************************************************************)
(* Proofs about FreeRTOSKernel: the arithmetic of ticks, for a tick count  *)
(* of any width; what the lists of list.c hold after each of their         *)
(* operations; and that each function of tasks.c takes a good state of the *)
(* kernel to a good one, and which of its variables it leaves alone.       *)
(*                                                                         *)
(* A state is good when every task is in one list of states at most, each  *)
(* list holds a task once, and the idle task is ready.  A good one is      *)
(* timely when its delayed lists are in the order of their times, each     *)
(* within one round of the tick count.                                     *)
(***************************************************************************)
EXTENDS FreeRTOSKernel, SequenceTheorems, WellFoundedInduction, TLAPS

---------------------------------------------------------------------------
(* Ticks *)

\* sums and differences of tick counts wrap at most once
LEMMA SumWraps ==
  ASSUME NEW L \in Nat \ {0}, NEW a \in 0 .. L - 1, NEW b \in 0 .. L - 1
  PROVE  (a + b) % L = IF a + b < L THEN a + b ELSE a + b - L
<1>1. CASE a + b < L
  BY <1>1, SMT
<1>2. CASE a + b >= L
  BY <1>2, SMT
<1> QED BY <1>1, <1>2

LEMMA DifferenceWraps ==
  ASSUME NEW L \in Nat \ {0}, NEW a \in 0 .. L - 1, NEW b \in 0 .. L - 1
  PROVE  (a - b) % L = IF a < b THEN a - b + L ELSE a - b
<1>1. CASE a < b
  BY <1>1, SMT
<1>2. CASE a >= b
  BY <1>2, SMT
<1> QED BY <1>1, <1>2

\* A task that wants to wake at previous + increment must sleep as long as
\* fewer ticks than that have passed since previous, whichever of the two times
\* and the tick count have wrapped.
THEOREM ShouldDelayIsExact ==
  ASSUME NEW previous \in Ticks, NEW increment \in Ticks, NEW tick \in Ticks
  PROVE  ShouldDelay(previous, increment, tick) <=> (tick - previous) % TickRange < increment
<1> DEFINE wake == (previous + increment) % TickRange
           passed == (tick - previous) % TickRange
<1>1. TickRange \in Nat \ {0}
  BY RangeAssumption
<1>2. /\ previous \in Nat /\ increment \in Nat /\ tick \in Nat
      /\ previous < TickRange /\ increment < TickRange /\ tick < TickRange
  BY <1>1 DEF Ticks
<1>3. wake = IF previous + increment < TickRange THEN previous + increment
             ELSE previous + increment - TickRange
  BY <1>1, SumWraps DEF Ticks
<1>4. passed = IF tick < previous THEN tick - previous + TickRange ELSE tick - previous
  BY <1>1, DifferenceWraps DEF Ticks
<1>5. ShouldDelay(previous, increment, tick)
        <=> IF tick < previous THEN wake < previous /\ wake > tick ELSE wake < previous \/ wake > tick
  BY DEF ShouldDelay
<1> HIDE DEF wake, passed
<1>6. ShouldDelay(previous, increment, tick) <=> passed < increment
  BY <1>1, <1>2, <1>3, <1>4, <1>5
<1> QED BY <1>6 DEF passed

\* A wait that began at (since, overflows) is over when so many ticks have
\* passed and not before, as long as they are fewer than the tick count has
\* values; a wait looked at later than that is not covered.
THEOREM TimeOutIsExact ==
  ASSUME NEW since \in Ticks, NEW passed \in Ticks, NEW wait \in Ticks,
         NEW overflows \in 0 .. OverflowRange - 1
  PROVE  LET tick == (since + passed) % TickRange
             now  == IF since + passed < TickRange THEN overflows
                                                   ELSE (overflows + 1) % OverflowRange
         IN  TimeOutExpired(since, overflows, wait, tick, now) <=> passed >= wait
<1> DEFINE tick == (since + passed) % TickRange
           now  == IF since + passed < TickRange THEN overflows
                                                 ELSE (overflows + 1) % OverflowRange
           elapsed == (tick - since) % TickRange
<1>1. TickRange \in Nat \ {0}
  BY RangeAssumption
<1>2. /\ since \in Nat /\ passed \in Nat /\ wait \in Nat
      /\ since < TickRange /\ passed < TickRange
  BY <1>1 DEF Ticks
<1>3. tick = IF since + passed < TickRange THEN since + passed ELSE since + passed - TickRange
  BY <1>1, SumWraps DEF Ticks
<1>4. elapsed = passed
  <2> HIDE DEF tick
  <2>1. tick \in 0 .. TickRange - 1 /\ since \in 0 .. TickRange - 1
    BY <1>1, <1>2, <1>3
  <2>2. elapsed = IF tick < since THEN tick - since + TickRange ELSE tick - since
    BY <1>1, <2>1, DifferenceWraps
  <2> HIDE DEF elapsed
  <2> QED BY <1>1, <1>2, <1>3, <2>2
<1>5. TimeOutExpired(since, overflows, wait, tick, now)
        <=> ((now # overflows /\ tick >= since) \/ elapsed >= wait)
  BY DEF TimeOutExpired
<1>6. ~(now # overflows /\ tick >= since)
  <2>1. CASE since + passed < TickRange
    BY <2>1
  <2>2. CASE ~(since + passed < TickRange)
    <3> HIDE DEF tick, now
    <3> QED BY <1>1, <1>2, <1>3, <2>2
  <2> QED BY <2>1, <2>2
<1> HIDE DEF tick, now, elapsed
<1>7. TimeOutExpired(since, overflows, wait, tick, now) <=> passed >= wait
  BY <1>4, <1>5, <1>6
<1> QED BY <1>7 DEF tick, now

---------------------------------------------------------------------------
(* Lists *)

\* A list has no task twice.
IsList(l, S) == l \in Seq(S) /\ \A i, j \in 1 .. Len(l) : l[i] = l[j] => i = j

LEMMA MinIs ==
  ASSUME NEW I \in SUBSET Nat, I # {} PROVE Min(I) \in I /\ \A i \in I : Min(I) <= i
<1>1. PICK x \in I : \A y \in I : ~(<<y, x>> \in OpToRel(<, Nat))
  BY WFMin, NatLessThanWellFounded
<1>2. \A y \in I : x \in Nat /\ y \in Nat /\ ~(y < x)
  BY <1>1 DEF OpToRel
<1>3. x \in I /\ \A y \in I : x =< y
  BY <1>2
<1> QED BY <1>3 DEF Min

LEMMA RemoveAtIs ==
  ASSUME NEW S, NEW l \in Seq(S), NEW i \in 1 .. Len(l)
  PROVE  /\ RemoveAt(l, i) \in Seq(S) /\ Len(RemoveAt(l, i)) = Len(l) - 1
         /\ \A j \in 1 .. Len(l) - 1 : RemoveAt(l, i)[j] = IF j < i THEN l[j] ELSE l[j + 1]
<1> DEFINE a == SubSeq(l, 1, i - 1)  b == SubSeq(l, i + 1, Len(l))
<1>0. Len(l) \in Nat /\ \A j \in 1 .. Len(l) : l[j] \in S
  OBVIOUS
<1>1. a \in Seq(S) /\ Len(a) = i - 1 /\ \A j \in 1 .. i - 1 : a[j] = l[j]
  <2>1. \A j \in 1 .. i - 1 : l[j] \in S
    BY <1>0
  <2>2. /\ a \in Seq(S)
        /\ Len(a) = IF 1 <= i - 1 THEN (i - 1) - 1 + 1 ELSE 0
        /\ \A j \in 1 .. (i - 1) - 1 + 1 : a[j] = l[1 + j - 1]
    BY <2>1, <1>0, SubSeqProperties
  <2> QED BY <2>2, <1>0
<1>2. b \in Seq(S) /\ Len(b) = Len(l) - i /\ \A j \in 1 .. Len(l) - i : b[j] = l[i + j]
  <2>1. \A j \in i + 1 .. Len(l) : l[j] \in S
    BY <1>0
  <2>2. /\ b \in Seq(S)
        /\ Len(b) = IF i + 1 <= Len(l) THEN Len(l) - (i + 1) + 1 ELSE 0
        /\ \A j \in 1 .. Len(l) - (i + 1) + 1 : b[j] = l[i + 1 + j - 1]
    BY <2>1, <1>0, SubSeqProperties
  <2> QED BY <2>2, <1>0
<1> HIDE DEF a, b
<1>4. /\ a \o b \in Seq(S) /\ Len(a \o b) = Len(a) + Len(b)
      /\ \A j \in 1 .. Len(a) + Len(b) : (a \o b)[j] = IF j <= Len(a) THEN a[j] ELSE b[j - Len(a)]
  BY <1>1, <1>2, ConcatProperties
<1>3. /\ a \o b \in Seq(S) /\ Len(a \o b) = Len(l) - 1
      /\ \A j \in 1 .. Len(l) - 1 : (a \o b)[j] = IF j < i THEN l[j] ELSE l[j + 1]
  <2>1. ASSUME NEW j \in 1 .. Len(l) - 1 PROVE (a \o b)[j] = IF j < i THEN l[j] ELSE l[j + 1]
    <3>1. CASE j < i
      BY <1>0, <1>1, <1>2, <1>4, <3>1
    <3>2. CASE ~(j < i)
      <4>1. j - (i - 1) \in 1 .. Len(l) - i /\ i + (j - (i - 1)) = j + 1 /\ j \in 1 .. Len(a) + Len(b)
        BY <1>0, <1>1, <1>2, <3>2
      <4> QED BY <1>0, <1>1, <1>2, <1>4, <3>2, <4>1
    <3> QED BY <3>1, <3>2
  <2> QED BY <1>0, <1>1, <1>2, <1>4, <2>1
<1> QED BY <1>3 DEF RemoveAt, a, b

LEMMA RemoveIs ==
  ASSUME NEW S, NEW l \in Seq(S), NEW x
  PROVE  \/ ~Contains(l, x) /\ uxListRemove(l, x) = l
         \/ \E i \in 1 .. Len(l) : l[i] = x /\ uxListRemove(l, x) = RemoveAt(l, i)
<1> DEFINE I == {i \in 1 .. Len(l) : l[i] = x}
<1>1. CASE I # {}
  <2>1. Min(I) \in I
    <3>1. I \in SUBSET Nat
      OBVIOUS
    <3> HIDE DEF I
    <3> QED BY <1>1, <3>1, MinIs
  <2>2. uxListRemove(l, x) = RemoveAt(l, Min(I))
    BY <1>1 DEF uxListRemove, RemoveFirst, SelectInSeq
  <2> QED BY <2>1, <2>2
<1>2. CASE I = {}
  BY <1>2 DEF uxListRemove, RemoveFirst, Contains
<1> QED BY <1>1, <1>2

\* before(l, x, y): x is before y in the list
Precedes(l, x, y) == \E i, j \in 1 .. Len(l) : i < j /\ l[i] = x /\ l[j] = y

LEMMA Removed ==
  ASSUME NEW S, NEW l, IsList(l, S), NEW x
  PROVE  /\ IsList(uxListRemove(l, x), S)
         /\ \A y : Contains(uxListRemove(l, x), y) <=> Contains(l, y) /\ y # x
         /\ \A i, j \in 1 .. Len(uxListRemove(l, x)) : i < j =>
              Precedes(l, uxListRemove(l, x)[i], uxListRemove(l, x)[j])
<1>1. CASE ~Contains(l, x) /\ uxListRemove(l, x) = l
  BY <1>1 DEF IsList, Precedes, Contains
<1>2. ASSUME NEW i \in 1 .. Len(l), l[i] = x, uxListRemove(l, x) = RemoveAt(l, i)
      PROVE  /\ IsList(uxListRemove(l, x), S)
             /\ \A y : Contains(uxListRemove(l, x), y) <=> Contains(l, y) /\ y # x
             /\ \A a, b \in 1 .. Len(uxListRemove(l, x)) : a < b =>
                  Precedes(l, uxListRemove(l, x)[a], uxListRemove(l, x)[b])
  <2> DEFINE r == RemoveAt(l, i)
  <2>0. l \in Seq(S) /\ Len(l) \in Nat /\ \A a, b \in 1 .. Len(l) : l[a] = l[b] => a = b
    BY DEF IsList
  <2>1. /\ r \in Seq(S) /\ Len(r) = Len(l) - 1
        /\ \A j \in 1 .. Len(l) - 1 : r[j] = IF j < i THEN l[j] ELSE l[j + 1]
    BY <2>0, RemoveAtIs
  <2> HIDE DEF r
  <2> DEFINE old(j) == IF j < i THEN j ELSE j + 1
  <2>2. /\ \A j \in 1 .. Len(r) : old(j) \in 1 .. Len(l) /\ r[j] = l[old(j)] /\ old(j) # i
        /\ \A a, b \in 1 .. Len(r) : a < b => old(a) < old(b)
    BY <2>0, <2>1
  <2>3. \A j \in 1 .. Len(l) : j # i => \E a \in 1 .. Len(r) : old(a) = j
    <3>1. ASSUME NEW j \in 1 .. Len(l), j # i PROVE \E a \in 1 .. Len(r) : old(a) = j
      <4>1. CASE j < i
        BY <2>0, <2>1, <3>1, <4>1
      <4>2. CASE j > i
        <5>1. j - 1 \in 1 .. Len(r) /\ old(j - 1) = j
          BY <2>0, <2>1, <4>2
        <5> QED BY <5>1
      <4> QED BY <2>0, <3>1, <4>1, <4>2
    <3> QED BY <3>1
  <2> HIDE DEF old
  <2>4. IsList(r, S)
    <3>1. ASSUME NEW a \in 1 .. Len(r), NEW b \in 1 .. Len(r), r[a] = r[b] PROVE a = b
      <4>1. old(a) = old(b)
        BY <2>0, <2>2, <3>1
      <4> QED BY <2>0, <2>1, <2>2, <4>1
    <3> QED BY <2>1, <3>1 DEF IsList
  <2>5. \A y : Contains(r, y) <=> Contains(l, y) /\ y # x
    <3>1. ASSUME NEW y, Contains(r, y) PROVE Contains(l, y) /\ y # x
      BY <1>2, <2>0, <2>2, <3>1 DEF Contains
    <3>2. ASSUME NEW y, Contains(l, y), y # x PROVE Contains(r, y)
      BY <1>2, <2>0, <2>2, <2>3, <3>2 DEF Contains
    <3> QED BY <3>1, <3>2
  <2>6. \A a, b \in 1 .. Len(r) : a < b => Precedes(l, r[a], r[b])
    BY <2>0, <2>2 DEF Precedes
  <2> QED BY <1>2, <2>4, <2>5, <2>6 DEF r
<1> QED BY <1>1, <1>2, RemoveIs DEF IsList

LEMMA SubSeqIs ==
  ASSUME NEW S, NEW l \in Seq(S), NEW m \in 1 .. Len(l) + 1, NEW n \in 0 .. Len(l), m <= n + 1
  PROVE  /\ SubSeq(l, m, n) \in Seq(S) /\ Len(SubSeq(l, m, n)) = n - m + 1
         /\ \A j \in 1 .. n - m + 1 : SubSeq(l, m, n)[j] = l[m + j - 1]
<1>0. Len(l) \in Nat /\ \A j \in 1 .. Len(l) : l[j] \in S
  OBVIOUS
<1>1. \A j \in m .. n : l[j] \in S
  BY <1>0
<1>2. /\ SubSeq(l, m, n) \in Seq(S)
      /\ Len(SubSeq(l, m, n)) = IF m <= n THEN n - m + 1 ELSE 0
      /\ \A j \in 1 .. n - m + 1 : SubSeq(l, m, n)[j] = l[m + j - 1]
  BY <1>0, <1>1, SubSeqProperties
<1> QED BY <1>0, <1>2

\* r is l with x put in as its i-th element
PutAt(r, l, i, x) ==
  /\ Len(r) = Len(l) + 1
  /\ \A j \in 1 .. Len(l) + 1 : r[j] = IF j < i THEN l[j] ELSE IF j = i THEN x ELSE l[j - 1]

LEMMA InsertAtIs ==
  ASSUME NEW S, NEW l \in Seq(S), NEW i \in 1 .. Len(l) + 1, NEW x \in S
  PROVE  InsertAt(l, i, x) \in Seq(S) /\ PutAt(InsertAt(l, i, x), l, i, x)
<1> DEFINE a == SubSeq(l, 1, i - 1)  b == SubSeq(l, i, Len(l))
<1>0. Len(l) \in Nat
  OBVIOUS
<1>1. a \in Seq(S) /\ Len(a) = i - 1 /\ \A j \in 1 .. i - 1 : a[j] = l[j]
  <2>1. /\ a \in Seq(S) /\ Len(a) = (i - 1) - 1 + 1 /\ \A j \in 1 .. (i - 1) - 1 + 1 : a[j] = l[1 + j - 1]
    BY <1>0, SubSeqIs
  <2> QED BY <2>1
<1>2. b \in Seq(S) /\ Len(b) = Len(l) - i + 1 /\ \A j \in 1 .. Len(l) - i + 1 : b[j] = l[i + j - 1]
  BY <1>0, SubSeqIs
<1> HIDE DEF a, b
<1> DEFINE c == a \o <<x>>
<1>3. /\ c \in Seq(S) /\ Len(c) = i
      /\ \A j \in 1 .. i : c[j] = IF j < i THEN l[j] ELSE x
  <2>1. <<x>> \in Seq(S) /\ Len(<<x>>) = 1 /\ <<x>>[1] = x
    OBVIOUS
  <2>2. /\ c \in Seq(S) /\ Len(c) = Len(a) + Len(<<x>>)
        /\ \A j \in 1 .. Len(a) + Len(<<x>>) : c[j] = IF j <= Len(a) THEN a[j] ELSE <<x>>[j - Len(a)]
    BY <1>1, <2>1, ConcatProperties
  <2> QED BY SMTT(30), <1>0, <1>1, <2>1, <2>2
<1> HIDE DEF c
<1> DEFINE d == c \o b
<1>4. /\ d \in Seq(S) /\ Len(d) = Len(c) + Len(b)
      /\ \A j \in 1 .. Len(c) + Len(b) : d[j] = IF j <= Len(c) THEN c[j] ELSE b[j - Len(c)]
  BY <1>2, <1>3, ConcatProperties
<1> HIDE DEF d
<1>5. ASSUME NEW j \in 1 .. Len(l) + 1
      PROVE  d[j] = IF j < i THEN l[j] ELSE IF j = i THEN x ELSE l[j - 1]
  <2>1. CASE j <= i
    BY <1>0, <1>2, <1>3, <1>4, <2>1
  <2>2. CASE j > i
    <3>1. j - i \in 1 .. Len(l) - i + 1 /\ i + (j - i) - 1 = j - 1 /\ j \in 1 .. Len(c) + Len(b)
      BY <1>0, <1>2, <1>3, <2>2
    <3>0. Len(c) = i /\ ~(j <= i)
      BY <1>0, <1>3, <2>2
    <3>2. d[j] = b[j - i]
      BY <1>4, <3>0, <3>1
    <3>3. b[j - i] = l[i + (j - i) - 1]
      BY <1>2, <3>1
    <3> QED BY <1>0, <2>2, <3>1, <3>2, <3>3
  <2> QED BY <1>0, <2>1, <2>2
<1>6. Len(d) = Len(l) + 1
  BY <1>0, <1>2, <1>3, <1>4
<1>7. InsertAt(l, i, x) = d
  BY DEF InsertAt, a, b, c, d
<1> QED BY <1>4, <1>5, <1>6, <1>7 DEF PutAt

LEMMA Inserted ==
  ASSUME NEW S, NEW l, IsList(l, S), NEW x \in S, ~Contains(l, x),
         NEW i \in 1 .. Len(l) + 1, NEW r \in Seq(S), PutAt(r, l, i, x)
  PROVE  IsList(r, S) /\ \A y : Contains(r, y) <=> Contains(l, y) \/ y = x
<1>0. l \in Seq(S) /\ Len(l) \in Nat /\ \A a, b \in 1 .. Len(l) : l[a] = l[b] => a = b
  BY DEF IsList
<1>1. \A a \in 1 .. Len(l) : l[a] # x
  BY DEF Contains
<1>8. /\ Len(r) = Len(l) + 1
      /\ \A j \in 1 .. Len(l) + 1 : r[j] = IF j < i THEN l[j] ELSE IF j = i THEN x ELSE l[j - 1]
  BY DEF PutAt
<1> DEFINE old(j) == IF j < i THEN j ELSE j - 1
           new(j) == IF j < i THEN j ELSE j + 1
<1>2. \A j \in 1 .. Len(r) : j # i => old(j) \in 1 .. Len(l) /\ r[j] = l[old(j)]
  BY <1>0, <1>8
<1>3. r[i] = x
  BY <1>0, <1>8
<1>4. \A j \in 1 .. Len(l) : new(j) \in 1 .. Len(r) /\ r[new(j)] = l[j]
  BY <1>0, <1>8
<1>5. \A a, b \in 1 .. Len(r) : a # i /\ b # i /\ old(a) = old(b) => a = b
  BY <1>0, <1>8
<1> HIDE DEF old, new
<1>6. ASSUME NEW a \in 1 .. Len(r), NEW b \in 1 .. Len(r), r[a] = r[b] PROVE a = b
  <2>1. CASE a # i /\ b # i
    <3>1. old(a) = old(b)
      BY <1>0, <1>2, <1>6, <2>1
    <3> QED BY <1>5, <2>1, <3>1
  <2>2. CASE a = i \/ b = i
    BY <1>1, <1>2, <1>3, <1>6, <2>2
  <2> QED BY <2>1, <2>2
<1>7. \A y : Contains(r, y) <=> Contains(l, y) \/ y = x
  <2>1. ASSUME NEW y, Contains(r, y) PROVE Contains(l, y) \/ y = x
    BY <1>0, <1>8, <1>2, <1>3, <2>1 DEF Contains
  <2>2. ASSUME NEW y, Contains(l, y) PROVE Contains(r, y)
    BY <1>0, <1>8, <1>4, <2>2 DEF Contains
  <2>3. Contains(r, x)
    BY <1>0, <1>8, <1>3 DEF Contains
  <2> QED BY <2>1, <2>2, <2>3
<1> QED BY <1>6, <1>7 DEF IsList

\* Tasks in the order of their values
Ordered(l, value) == \A i, j \in 1 .. Len(l) : i < j => value[l[i]] <= value[l[j]]

LEMMA ListInserted ==
  ASSUME NEW S, NEW l, IsList(l, S), NEW x \in S, ~Contains(l, x), NEW value, \A y \in S : value[y] \in Int
  PROVE  /\ IsList(vListInsert(l, x, value), S)
         /\ \A y : Contains(vListInsert(l, x, value), y) <=> Contains(l, y) \/ y = x
         /\ Ordered(l, value) => Ordered(vListInsert(l, x, value), value)
<1> DEFINE I == {i \in 1 .. Len(l) : value[l[i]] > value[x]}
           larger == IF I # {} THEN Min(I) ELSE 0
           r == vListInsert(l, x, value)
<1>0. l \in Seq(S) /\ Len(l) \in Nat /\ \A j \in 1 .. Len(l) : l[j] \in S
  BY DEF IsList
<1>1. r = IF larger = 0 THEN Append(l, x) ELSE InsertAt(l, larger, x)
  BY DEF vListInsert, SelectInSeq
<1>2. PICK i \in 1 .. Len(l) + 1 :
        /\ r \in Seq(S) /\ PutAt(r, l, i, x)
        /\ \A j \in 1 .. Len(l) : j < i => value[l[j]] <= value[x]
        /\ i <= Len(l) => value[l[i]] > value[x]
  <2>1. CASE I # {}
    <3>1. I \in SUBSET Nat
      OBVIOUS
    <3>2. Min(I) \in I /\ \A j \in I : Min(I) <= j
      <4> HIDE DEF I
      <4> QED BY <2>1, <3>1, MinIs
    <3>3. larger \in 1 .. Len(l) /\ value[l[larger]] > value[x]
      BY <2>1, <3>2
    <3>4. \A j \in 1 .. Len(l) : j < larger => value[l[j]] <= value[x]
      <4>1. ASSUME NEW j \in 1 .. Len(l), j < larger PROVE value[l[j]] <= value[x]
        <5>1. j \notin I
          <6>1. SUFFICES ASSUME j \in I PROVE FALSE
            OBVIOUS
          <6>2. larger <= j
            BY <2>1, <3>2, <6>1
          <6> HIDE DEF larger
          <6> QED BY <3>3, <4>1, <6>2
        <5> QED BY <1>0, <5>1
      <4> QED BY <4>1
    <3>5. larger # 0 /\ r = InsertAt(l, larger, x)
      BY <1>1, <3>3
    <3> HIDE DEF larger, r
    <3>6. larger \in 1 .. Len(l) + 1
      BY <1>0, <3>3
    <3>7. r \in Seq(S) /\ PutAt(r, l, larger, x)
      BY <1>0, <3>5, <3>6, InsertAtIs
    <3> QED BY <3>3, <3>4, <3>6, <3>7
  <2>2. CASE I = {}
    <3>1. r = Append(l, x)
      BY <1>1, <2>2
    <3>2. \A j \in 1 .. Len(l) : value[l[j]] <= value[x]
      BY <1>0, <2>2
    <3> HIDE DEF r, I
    <3>3. Len(l) + 1 \in 1 .. Len(l) + 1
      BY <1>0
    <3>4. r \in Seq(S) /\ PutAt(r, l, Len(l) + 1, x)
      BY <1>0, <3>1 DEF PutAt
    <3> QED BY <1>0, <3>2, <3>3, <3>4
  <2> QED BY <2>1, <2>2
<1> HIDE DEF r
<1>3. IsList(r, S) /\ \A y : Contains(r, y) <=> Contains(l, y) \/ y = x
  BY <1>2, Inserted
<1>5. /\ Len(r) = Len(l) + 1
      /\ \A j \in 1 .. Len(l) + 1 : r[j] = IF j < i THEN l[j] ELSE IF j = i THEN x ELSE l[j - 1]
      /\ \A j \in 1 .. Len(l) : j < i => value[l[j]] <= value[x]
  BY <1>2 DEF PutAt
<1>4. ASSUME Ordered(l, value) PROVE Ordered(r, value)
  <2>1. \A a, b \in 1 .. Len(l) : a < b => value[l[a]] <= value[l[b]]
    BY <1>4 DEF Ordered
  <2>2. \A a \in 1 .. Len(l) : value[l[a]] \in Int
    BY <1>0
  <2>3. value[x] \in Int
    OBVIOUS
  <2>4. \A j \in 1 .. Len(l) : j >= i => value[x] <= value[l[j]]
    <3>1. ASSUME NEW j \in 1 .. Len(l), j >= i PROVE value[x] <= value[l[j]]
      <4>1. i \in 1 .. Len(l) /\ value[l[i]] > value[x]
        BY <1>0, <1>2, <3>1
      <4>2. value[l[i]] <= value[l[j]]
        BY <1>0, <2>1, <2>2, <3>1, <4>1
      <4> QED BY <2>2, <2>3, <4>1, <4>2
    <3> QED BY <3>1
  <2>5. ASSUME NEW a \in 1 .. Len(r), NEW b \in 1 .. Len(r), a < b
        PROVE  value[r[a]] <= value[r[b]]
    <3>1. CASE a < i /\ b < i
      <4>1. a \in 1 .. Len(l) /\ b \in 1 .. Len(l) /\ r[a] = l[a] /\ r[b] = l[b]
        BY <1>0, <1>5, <2>5, <3>1
      <4> QED BY <2>1, <2>5, <4>1
    <3>2. CASE a < i /\ b = i
      <4>1. a \in 1 .. Len(l) /\ r[a] = l[a] /\ r[b] = x
        BY <1>0, <1>5, <2>5, <3>2
      <4> QED BY <1>5, <3>2, <4>1
    <3>3. CASE a < i /\ b > i
      <4>1. /\ a \in 1 .. Len(l) /\ b - 1 \in 1 .. Len(l) /\ a < b - 1
            /\ r[a] = l[a] /\ r[b] = l[b - 1]
        BY <1>0, <1>5, <2>5, <3>3
      <4> QED BY <2>1, <4>1
    <3>4. CASE a = i
      <4>1. b - 1 \in 1 .. Len(l) /\ b - 1 >= i /\ r[b] = l[b - 1] /\ r[a] = x
        BY <1>0, <1>5, <2>5, <3>4
      <4> QED BY <2>4, <4>1
    <3>5. CASE a > i
      <4>1. /\ a - 1 \in 1 .. Len(l) /\ b - 1 \in 1 .. Len(l) /\ a - 1 < b - 1
            /\ r[a] = l[a - 1] /\ r[b] = l[b - 1]
        BY <1>0, <1>5, <2>5, <3>5
      <4> QED BY <2>1, <4>1
    <3> QED BY <1>0, <1>5, <2>5, <3>1, <3>2, <3>3, <3>4, <3>5
  <2> QED BY <2>5 DEF Ordered
<1> QED BY <1>3, <1>4 DEF r

LEMMA RemovedOrdered ==
  ASSUME NEW S, NEW l, IsList(l, S), NEW x, NEW value, Ordered(l, value)
  PROVE  Ordered(uxListRemove(l, x), value)
  BY Removed DEF Precedes, Ordered

---------------------------------------------------------------------------
(* The rings of ready tasks *)

Entries == AllTasks \cup {xListEnd}
IsRing(r) == IsList(r, Entries) /\ Contains(r, xListEnd)

LEMMA RingLen == ASSUME NEW r, IsRing(r) PROVE Len(r) \in Nat \ {0} /\ r \in Seq(Entries) /\ r # <<>>
  BY DEF IsRing, IsList, Contains

LEMMA RingInserted ==
  ASSUME NEW r, IsRing(r), NEW x \in AllTasks, ~Contains(r, x)
  PROVE  /\ IsRing(vListInsertEnd(r, x))
         /\ \A y : Contains(vListInsertEnd(r, x), y) <=> Contains(r, y) \/ y = x
<1> DEFINE a == Front(r)  b == Append(a, x)  c == b \o <<Last(r)>>  n == Len(r)
<1>0. n \in Nat \ {0} /\ r \in Seq(Entries) /\ r[n] \in Entries /\ x \in Entries
  BY RingLen DEF Entries
<1>1. a \in Seq(Entries) /\ Len(a) = n - 1 /\ \A j \in 1 .. n - 1 : a[j] = r[j]
  <2>0. a = SubSeq(r, 1, n - 1)
    BY DEF Front
  <2> HIDE DEF a
  <2>1. n - 1 \in 0 .. Len(r) /\ 1 \in 1 .. Len(r) + 1 /\ 1 <= (n - 1) + 1
    BY <1>0
  <2>2. /\ SubSeq(r, 1, n - 1) \in Seq(Entries) /\ Len(SubSeq(r, 1, n - 1)) = (n - 1) - 1 + 1
        /\ \A j \in 1 .. (n - 1) - 1 + 1 : SubSeq(r, 1, n - 1)[j] = r[1 + j - 1]
    <3> HIDE DEF n
    <3> QED BY <1>0, <2>1, SubSeqIs
  <2> QED BY <1>0, <2>0, <2>2
<1> HIDE DEF a
<1>2. b \in Seq(Entries) /\ Len(b) = n /\ \A j \in 1 .. n : b[j] = IF j < n THEN r[j] ELSE x
  BY <1>0, <1>1
<1> HIDE DEF b
<1>3. <<Last(r)>> \in Seq(Entries) /\ Len(<<Last(r)>>) = 1 /\ <<Last(r)>>[1] = r[n]
  BY <1>0 DEF Last
<1>4. /\ c \in Seq(Entries) /\ Len(c) = Len(b) + 1
      /\ \A j \in 1 .. Len(b) + 1 : c[j] = IF j <= Len(b) THEN b[j] ELSE <<Last(r)>>[j - Len(b)]
  BY <1>2, <1>3, ConcatProperties
<1> HIDE DEF c
<1>5. c \in Seq(Entries) /\ PutAt(c, r, n, x)
  <2>1. ASSUME NEW j \in 1 .. n + 1
        PROVE  c[j] = IF j < n THEN r[j] ELSE IF j = n THEN x ELSE r[j - 1]
    BY <1>0, <1>2, <1>3, <1>4
  <2> QED BY <1>0, <1>2, <1>4, <2>1 DEF PutAt
<1>6. n \in 1 .. Len(r) + 1
  BY <1>0
<1>7. IsList(c, Entries) /\ \A y : Contains(c, y) <=> Contains(r, y) \/ y = x
  BY <1>0, <1>5, <1>6, Inserted DEF IsRing
<1>8. vListInsertEnd(r, x) = c
  BY DEF vListInsertEnd, a, b, c
<1> QED BY <1>7, <1>8 DEF IsRing

LEMMA RingRemoved ==
  ASSUME NEW r, IsRing(r), NEW x \in AllTasks
  PROVE  /\ IsRing(uxListRemove(r, x))
         /\ \A y : Contains(uxListRemove(r, x), y) <=> Contains(r, y) /\ y # x
<1>1. x # xListEnd
  BY TasksAssumption DEF AllTasks, xListEnd
<1> QED BY <1>1, Removed DEF IsRing

LEMMA Turned ==
  ASSUME NEW r, IsRing(r), NEW c, c = Append(Tail(r), Head(r))
  PROVE  /\ IsRing(c) /\ Len(c) = Len(r) /\ c[Len(c)] = r[1]
         /\ \A j \in 1 .. Len(r) - 1 : c[j] = r[j + 1]
         /\ \A y : Contains(c, y) <=> Contains(r, y)
<1> DEFINE n == Len(r)
<1>0. /\ n \in Nat \ {0} /\ r \in Seq(Entries) /\ r # <<>> /\ Contains(r, xListEnd)
      /\ \A i, j \in 1 .. n : r[i] = r[j] => i = j
  BY RingLen DEF IsRing, IsList
<1>1. /\ Tail(r) \in Seq(Entries) /\ Len(Tail(r)) = n - 1 /\ Head(r) = r[1] /\ Head(r) \in Entries
      /\ \A j \in 1 .. n - 1 : Tail(r)[j] = r[j + 1]
  BY <1>0, HeadTailProperties
<1>2. /\ c \in Seq(Entries) /\ Len(c) = n /\ c[n] = r[1]
      /\ \A j \in 1 .. n - 1 : c[j] = r[j + 1]
  BY <1>0, <1>1
<1> DEFINE old(j) == IF j = n THEN 1 ELSE j + 1
           new(j) == IF j = 1 THEN n ELSE j - 1
<1>3. \A j \in 1 .. n : old(j) \in 1 .. n /\ c[j] = r[old(j)]
  <2>1. ASSUME NEW j \in 1 .. n PROVE old(j) \in 1 .. n /\ c[j] = r[old(j)]
    <3>1. CASE j = n
      BY <1>0, <1>2, <3>1
    <3>2. CASE j # n
      <4>1. j \in 1 .. n - 1 /\ j + 1 \in 1 .. n
        BY <1>0, <3>2
      <4> QED BY <1>2, <3>2, <4>1
    <3> QED BY <3>1, <3>2
  <2> QED BY <2>1
<1>4. \A j \in 1 .. n : new(j) \in 1 .. n /\ old(new(j)) = j
  BY <1>0
<1>5. \A a, b \in 1 .. n : old(a) = old(b) => a = b
  BY <1>0
<1> HIDE DEF old, new
<1>6. ASSUME NEW i \in 1 .. n, NEW j \in 1 .. n, c[i] = c[j] PROVE i = j
  <2> HIDE DEF n
  <2>0. old(i) \in 1 .. n /\ old(j) \in 1 .. n /\ r[old(i)] = r[old(j)]
    BY <1>3, <1>6
  <2>1. old(i) = old(j)
    BY <1>0, <2>0
  <2> QED BY <1>5, <2>1
<1>7. \A y : Contains(c, y) <=> Contains(r, y)
  <2>1. ASSUME NEW y, Contains(c, y) PROVE Contains(r, y)
    BY ZenonT(40), <1>2, <1>3, <2>1 DEF Contains
  <2>2. ASSUME NEW y, Contains(r, y) PROVE Contains(c, y)
    <3>1. PICK j \in 1 .. n : r[j] = y
      BY <2>2 DEF Contains
    <3>2. new(j) \in 1 .. n /\ c[new(j)] = y
      BY <1>3, <1>4, <3>1
    <3> QED BY <1>2, <3>2 DEF Contains
  <2> QED BY <2>1, <2>2
<1> HIDE DEF n
<1>8. IsList(c, Entries)
  BY <1>2, <1>6 DEF IsList
<1> QED BY <1>0, <1>2, <1>7, <1>8 DEF IsRing, n

\* The ring turns to its next task.
LEMMA RingTurned ==
  ASSUME NEW r, IsRing(r)
  PROVE  /\ IsRing(listGET_OWNER_OF_NEXT_ENTRY(r))
         /\ \A y : Contains(listGET_OWNER_OF_NEXT_ENTRY(r), y) <=> Contains(r, y)
         /\ r # EmptyRing => /\ Last(listGET_OWNER_OF_NEXT_ENTRY(r)) \in AllTasks
                             /\ Contains(r, Last(listGET_OWNER_OF_NEXT_ENTRY(r)))
<1> DEFINE turned(s) == Append(Tail(s), Head(s))
           a == turned(r)  b == turned(a)  n == Len(r)
<1>0. /\ n \in Nat \ {0} /\ r \in Seq(Entries) /\ r # <<>> /\ Contains(r, xListEnd)
      /\ \A i, j \in 1 .. n : r[i] = r[j] => i = j
  BY RingLen DEF IsRing, IsList
<1>1. /\ IsRing(a) /\ Len(a) = n /\ a[Len(a)] = r[1]
      /\ \A j \in 1 .. n - 1 : a[j] = r[j + 1]
      /\ \A y : Contains(a, y) <=> Contains(r, y)
  BY Turned
<1>2. IsRing(b) /\ Len(b) = Len(a) /\ b[Len(b)] = a[1] /\ \A y : Contains(b, y) <=> Contains(a, y)
  <2> HIDE DEF a
  <2> QED BY <1>1, Turned
<1>3. Head(r) = r[1] /\ \A j \in 1 .. n : r[j] \in Entries
  BY <1>0
<1>4. listGET_OWNER_OF_NEXT_ENTRY(r) = IF Head(r) = xListEnd THEN b ELSE a
  BY DEF listGET_OWNER_OF_NEXT_ENTRY
<1> HIDE DEF a, b
<1>5. CASE Head(r) = xListEnd
  <2>1. ASSUME r # EmptyRing PROVE n > 1
    <3>1. n # 1
      <4>1. SUFFICES ASSUME n = 1 PROVE FALSE
        OBVIOUS
      <4>2. r = <<r[1]>>
        <5> HIDE DEF n
        <5>1. DOMAIN r = 1 .. 1 /\ r = [i \in 1 .. 1 |-> r[i]]
          BY <1>0, <4>1 DEF n
        <5> QED BY <5>1
      <4> QED BY <1>3, <1>5, <2>1, <4>2 DEF EmptyRing
    <3> HIDE DEF n
    <3> QED BY <1>0, <3>1
  <2>2. ASSUME r # EmptyRing PROVE b[Len(b)] = r[2] /\ r[2] # xListEnd /\ Contains(r, r[2])
    <3>1. 1 \in 1 .. n - 1 /\ 2 \in 1 .. n /\ 1 \in 1 .. n /\ 1 + 1 = 2
      BY <1>0, <2>1, <2>2
    <3>2. a[1] = r[2]
      BY <1>1, <3>1
    <3>3. r[2] # r[1]
      BY <1>0, <3>1
    <3> QED BY <1>1, <1>2, <1>3, <1>5, <3>1, <3>2, <3>3 DEF Contains
  <2>3. ASSUME r # EmptyRing PROVE r[2] \in AllTasks
    BY <1>0, <1>3, <2>1, <2>2, <2>3 DEF Entries
  <2> QED BY <1>1, <1>2, <1>4, <1>5, <2>2, <2>3 DEF Last
<1>6. CASE Head(r) # xListEnd
  <2>1. r[1] \in AllTasks /\ Contains(r, r[1])
    BY <1>0, <1>3, <1>6 DEF Entries, Contains
  <2> QED BY <1>1, <1>4, <1>6, <2>1 DEF Last
<1> QED BY <1>5, <1>6

---------------------------------------------------------------------------
(* Good states of the kernel *)

Fields ==
  {"pxCurrentTCB", "pxReadyTasksLists", "uxTopReadyPriority", "pxDelayedTaskList",
   "pxOverflowDelayedTaskList", "xSuspendedTaskList", "xPendingReadyList",
   "xTasksWaitingTermination", "xEventLists", "xWakeTime", "xEventValue", "uxPriority",
   "uxBasePriority", "uxMutexesHeld", "xTickCount", "xNumOfOverflows", "xNextTaskUnblockTime",
   "uxSchedulerSuspended", "xPendedTicks", "xYieldPending", "ucNotifyState", "ulNotifiedValue"}

IsState(k) == k = [f \in Fields |-> k[f]]

\* k1 is k but for the fields fs
Same(k, k1, fs) == IsState(k1) /\ \A f \in Fields \ fs : k1[f] = k[f]

\* a task is in one list of states at most
Once(k, t) ==
  /\ \A p, q \in Priorities :
       Contains(k.pxReadyTasksLists[p], t) /\ Contains(k.pxReadyTasksLists[q], t) => p = q
  /\ LET r == IsReady(k, t)
         d == Contains(k.pxDelayedTaskList, t)
         o == Contains(k.pxOverflowDelayedTaskList, t)
         s == t \in k.xSuspendedTaskList
         x == IsTerminated(k, t)
     IN  ~(r /\ (d \/ o \/ s \/ x)) /\ ~(d /\ (o \/ s \/ x)) /\ ~(o /\ (s \/ x)) /\ ~(s /\ x)

Rings(f) == f = [p \in Priorities |-> f[p]] /\ \A p \in Priorities : IsRing(f[p])

Sound(k) ==
  /\ IsState(k)
  /\ k.pxCurrentTCB \in AllTasks
  /\ Rings(k.pxReadyTasksLists)
  /\ k.uxTopReadyPriority \in Priorities
  /\ IsList(k.pxDelayedTaskList, Tasks) /\ IsList(k.pxOverflowDelayedTaskList, Tasks)
  /\ IsList(k.xTasksWaitingTermination, Tasks)
  /\ k.xSuspendedTaskList \in SUBSET Tasks
  /\ k.xPendingReadyList \in Seq(Tasks)
  /\ k.xEventLists \in [EventLists -> Seq(Tasks)]
  /\ k.xWakeTime \in [AllTasks -> Ticks]
  /\ k.xEventValue \in [AllTasks -> 1 .. configMAX_PRIORITIES]
  /\ k.uxPriority \in [AllTasks -> Priorities] /\ k.uxBasePriority \in [AllTasks -> Priorities]
  /\ k.uxMutexesHeld \in [AllTasks -> Int]
  /\ k.xTickCount \in Ticks /\ k.xNextTaskUnblockTime \in Ticks
  /\ k.uxSchedulerSuspended \in Int /\ k.xPendedTicks \in Nat
  /\ \A t \in AllTasks : Once(k, t)

\* what no change of the tasks' places touches
Kept == {"xEventValue", "uxPriority", "uxBasePriority", "uxMutexesHeld", "xTickCount",
         "uxSchedulerSuspended", "xPendedTicks"}

\* The idle task is always ready.
Good(k) ==
  Sound(k) /\ Contains(k.pxReadyTasksLists[0], Idle) /\ k.uxPriority[Idle] = 0

\* tasks change their places, at most
Moves(k, k1) == Good(k1) /\ \A f \in Kept : k1[f] = k[f]

\* the other tasks stay where they are
OthersStay(k, k1, t) ==
  \A x \in AllTasks \ {t} :
    /\ IsFree(k1, x) <=> IsFree(k, x)
    /\ \A p \in Priorities :
         Contains(k1.pxReadyTasksLists[p], x) <=> Contains(k.pxReadyTasksLists[p], x)

LEMMA Bounds ==
  /\ 0 \in Priorities /\ Priorities \subseteq Nat /\ 0 \in Ticks /\ portMAX_DELAY \in Ticks
  /\ Ticks \subseteq Nat
  /\ Idle \in AllTasks /\ Idle \notin Tasks /\ Tasks \subseteq AllTasks
  /\ xListEnd \notin AllTasks /\ NoTask \notin AllTasks
  BY TasksAssumption, RangeAssumption DEF Priorities, Ticks, portMAX_DELAY, AllTasks, xListEnd

LEMMA TickCount == ASSUME NEW n \in Int PROVE n % TickRange \in Ticks
  BY RangeAssumption DEF Ticks

\* event lists
LEMMA SeqRemoved ==
  ASSUME NEW S, NEW l \in Seq(S), NEW x PROVE uxListRemove(l, x) \in Seq(S)
  BY RemoveIs, RemoveAtIs

LEMMA SeqInserted ==
  ASSUME NEW S, NEW l \in Seq(S), NEW x \in S, NEW value PROVE vListInsert(l, x, value) \in Seq(S)
<1> DEFINE I == {i \in 1 .. Len(l) : value[l[i]] > value[x]}
           larger == IF I # {} THEN Min(I) ELSE 0
<1>1. vListInsert(l, x, value) = IF larger = 0 THEN Append(l, x) ELSE InsertAt(l, larger, x)
  BY DEF vListInsert, SelectInSeq
<1>2. larger = 0 \/ larger \in 1 .. Len(l)
  <2>1. I \in SUBSET Nat /\ I \subseteq 1 .. Len(l)
    OBVIOUS
  <2> HIDE DEF I
  <2> QED BY <2>1, MinIs
<1> HIDE DEF larger
<1>3. CASE larger = 0
  BY <1>1, <1>3
<1>4. CASE larger \in 1 .. Len(l)
  <2>1. larger \in 1 .. Len(l) + 1 /\ larger # 0
    BY <1>4
  <2> QED BY <1>1, <2>1, InsertAtIs
<1> QED BY <1>2, <1>3, <1>4

LEMMA RingsAre ==
  ASSUME NEW k, Sound(k), NEW p \in Priorities
  PROVE  IsRing(k.pxReadyTasksLists[p])
  BY DEF Sound, Rings

---------------------------------------------------------------------------

LEMMA UnlinkStateSound ==
  ASSUME NEW k, Sound(k), NEW t \in Tasks
  PROVE  /\ Sound(UnlinkState(k, t))
         /\ Same(k, UnlinkState(k, t),
                 {"pxReadyTasksLists", "pxDelayedTaskList", "pxOverflowDelayedTaskList",
                  "xSuspendedTaskList", "xTasksWaitingTermination", "xWakeTime"})
         /\ IsFree(UnlinkState(k, t), t) /\ OthersStay(k, UnlinkState(k, t), t)
<1> DEFINE k1 == UnlinkState(k, t)
<1>0. IsState(k)
  BY DEF Sound
<1>1. /\ Same(k, k1, {"pxReadyTasksLists", "pxDelayedTaskList", "pxOverflowDelayedTaskList",
                      "xSuspendedTaskList", "xTasksWaitingTermination", "xWakeTime"})
      /\ k1.pxReadyTasksLists = [p \in Priorities |-> uxListRemove(k.pxReadyTasksLists[p], t)]
      /\ k1.pxDelayedTaskList = uxListRemove(k.pxDelayedTaskList, t)
      /\ k1.pxOverflowDelayedTaskList = uxListRemove(k.pxOverflowDelayedTaskList, t)
      /\ k1.xSuspendedTaskList = k.xSuspendedTaskList \ {t}
      /\ k1.xTasksWaitingTermination = uxListRemove(k.xTasksWaitingTermination, t)
      /\ k1.xWakeTime = [k.xWakeTime EXCEPT ![t] = 0]
  BY ZenonT(40), <1>0 DEF IsState, UnlinkState, Same, Fields
<1> HIDE DEF k1
<1>2. /\ \A p \in Priorities : IsRing(k1.pxReadyTasksLists[p])
      /\ \A p \in Priorities : \A x : Contains(k1.pxReadyTasksLists[p], x)
                                 <=> Contains(k.pxReadyTasksLists[p], x) /\ x # t
  BY <1>1, RingsAre, RingRemoved, Bounds
<1>3. /\ IsList(k1.pxDelayedTaskList, Tasks)
      /\ \A x : Contains(k1.pxDelayedTaskList, x) <=> Contains(k.pxDelayedTaskList, x) /\ x # t
  BY <1>1, Removed DEF Sound
<1>4. /\ IsList(k1.pxOverflowDelayedTaskList, Tasks)
      /\ \A x : Contains(k1.pxOverflowDelayedTaskList, x)
                  <=> Contains(k.pxOverflowDelayedTaskList, x) /\ x # t
  BY <1>1, Removed DEF Sound
<1>5. /\ IsList(k1.xTasksWaitingTermination, Tasks)
      /\ \A x : Contains(k1.xTasksWaitingTermination, x)
                  <=> Contains(k.xTasksWaitingTermination, x) /\ x # t
  BY <1>1, Removed DEF Sound
<1>6. \A x \in AllTasks : Once(k1, x)
  <2>1. \A x \in AllTasks : Once(k, x)
    BY DEF Sound
  <2> QED BY <1>1, <1>2, <1>3, <1>4, <1>5, <2>1 DEF Once, IsReady, IsTerminated
<1>7. IsFree(k1, t)
  BY <1>1, <1>2, <1>3, <1>4, <1>5 DEF IsFree, IsReady, IsTerminated, IsSleeping
<1>9. \A x \in AllTasks : x # t => (IsFree(k1, x) <=> IsFree(k, x))
  BY <1>1, <1>2, <1>3, <1>4, <1>5 DEF IsFree, IsReady, IsTerminated, IsSleeping
<1>8. Sound(k1)
  <2>1. Rings(k1.pxReadyTasksLists)
    BY <1>1, <1>2 DEF Rings
  <2>2. k1.xWakeTime \in [AllTasks -> Ticks] /\ k1.xSuspendedTaskList \in SUBSET Tasks
    BY <1>1, Bounds DEF Sound
  <2> QED BY <1>1, <1>3, <1>4, <1>5, <1>6, <2>1, <2>2 DEF Sound, Same, Fields
<1> QED BY <1>1, <1>2, <1>7, <1>8, <1>9 DEF OthersStay, k1

LEMMA UnlinkEventSound ==
  ASSUME NEW k, Sound(k), NEW t
  PROVE  /\ Sound(UnlinkEvent(k, t))
         /\ Same(k, UnlinkEvent(k, t), {"xEventLists", "xPendingReadyList"})
<1> DEFINE k1 == UnlinkEvent(k, t)
<1>0. IsState(k)
  BY DEF Sound
<1>1. /\ Same(k, k1, {"xEventLists", "xPendingReadyList"})
      /\ k1.xEventLists = [e \in EventLists |-> uxListRemove(k.xEventLists[e], t)]
      /\ k1.xPendingReadyList = uxListRemove(k.xPendingReadyList, t)
  BY <1>0 DEF IsState, UnlinkEvent, Same, Fields
<1> HIDE DEF k1
<1>2. k1.xEventLists \in [EventLists -> Seq(Tasks)] /\ k1.xPendingReadyList \in Seq(Tasks)
  BY <1>1, SeqRemoved DEF Sound
<1>3. \A x \in AllTasks : Once(k1, x)
  <2>1. \A x \in AllTasks : Once(k, x)
    BY DEF Sound
  <2> QED BY <1>1, <2>1 DEF Once, IsReady, IsTerminated, Same, Fields
<1>4. Sound(k1)
  BY <1>1, <1>2, <1>3 DEF Sound, Same, Fields
<1> QED BY <1>1, <1>4 DEF k1

LEMMA AddReadySound ==
  ASSUME NEW k, Sound(k), NEW t \in AllTasks, IsFree(k, t)
  PROVE  /\ Sound(prvAddTaskToReadyList(k, t))
         /\ Same(k, prvAddTaskToReadyList(k, t), {"uxTopReadyPriority", "pxReadyTasksLists"})
         /\ Contains(prvAddTaskToReadyList(k, t).pxReadyTasksLists[k.uxPriority[t]], t)
         /\ OthersStay(k, prvAddTaskToReadyList(k, t), t)
<1> DEFINE k1 == prvAddTaskToReadyList(k, t)  p0 == k.uxPriority[t]
<1>0. IsState(k) /\ p0 \in Priorities
  BY DEF Sound
<1>1. /\ Same(k, k1, {"uxTopReadyPriority", "pxReadyTasksLists"})
      /\ k1.pxReadyTasksLists =
           [k.pxReadyTasksLists EXCEPT ![p0] = vListInsertEnd(k.pxReadyTasksLists[p0], t)]
      /\ k1.uxTopReadyPriority \in {p0, k.uxTopReadyPriority}
  BY <1>0 DEF IsState, prvAddTaskToReadyList, Same, Fields
<1> HIDE DEF k1
<1>2. \A p \in Priorities : ~Contains(k.pxReadyTasksLists[p], t)
  BY DEF IsFree, IsReady
<1> HIDE DEF p0
<1>3. /\ IsRing(k1.pxReadyTasksLists[p0])
      /\ \A x : Contains(k1.pxReadyTasksLists[p0], x) <=> Contains(k.pxReadyTasksLists[p0], x) \/ x = t
  <2>1. k1.pxReadyTasksLists[p0] = vListInsertEnd(k.pxReadyTasksLists[p0], t)
    BY <1>0, <1>1 DEF Sound, Rings
  <2> QED BY <1>0, <1>2, <2>1, RingsAre, RingInserted
<1>4. \A p \in Priorities : p # p0 => k1.pxReadyTasksLists[p] = k.pxReadyTasksLists[p]
  BY <1>0, <1>1 DEF Sound, Rings
<1>5. \A x \in AllTasks : Once(k1, x)
  <2>1. \A x \in AllTasks : Once(k, x)
    BY DEF Sound
  <2>2. /\ k1.pxDelayedTaskList = k.pxDelayedTaskList
        /\ k1.pxOverflowDelayedTaskList = k.pxOverflowDelayedTaskList
        /\ k1.xSuspendedTaskList = k.xSuspendedTaskList
        /\ k1.xTasksWaitingTermination = k.xTasksWaitingTermination
    BY <1>1 DEF Same, Fields
  <2>3. ASSUME NEW x \in AllTasks, x # t PROVE Once(k1, x)
    <3>1. \A p \in Priorities : Contains(k1.pxReadyTasksLists[p], x) <=> Contains(k.pxReadyTasksLists[p], x)
      BY <1>3, <1>4, <2>3
    <3>2. Once(k, x) /\ (IsReady(k1, x) <=> IsReady(k, x))
      BY <2>1, <3>1 DEF IsReady
    <3> QED BY <2>2, <3>1, <3>2 DEF Once, IsTerminated
  <2>4. Once(k1, t)
    BY <1>2, <1>3, <1>4, <2>2 DEF Once, IsReady, IsTerminated, IsFree, IsSleeping
  <2> QED BY <2>3, <2>4
<1>6. Sound(k1)
  <2>1. k1.pxReadyTasksLists = [p \in Priorities |-> k1.pxReadyTasksLists[p]]
    BY <1>0, <1>1 DEF Sound, Rings
  <2>2. \A p \in Priorities : IsRing(k1.pxReadyTasksLists[p])
    BY <1>3, <1>4, RingsAre
  <2>3. Rings(k1.pxReadyTasksLists)
    BY <2>1, <2>2 DEF Rings
  <2>4. k1.uxTopReadyPriority \in Priorities
    BY <1>0, <1>1 DEF Sound
  <2> QED BY <1>1, <1>5, <2>3, <2>4 DEF Sound, Same, Fields
<1>7. \A p \in Priorities : \A x \in AllTasks : x # t =>
              (Contains(k1.pxReadyTasksLists[p], x) <=> Contains(k.pxReadyTasksLists[p], x))
  BY <1>3, <1>4
<1>8. ASSUME NEW x \in AllTasks, x # t PROVE IsFree(k1, x) <=> IsFree(k, x)
  BY <1>1, <1>7, <1>8 DEF IsFree, IsReady, IsTerminated, IsSleeping, Same, Fields
<1> QED BY <1>1, <1>3, <1>6, <1>7, <1>8 DEF OthersStay, k1, p0

LEMMA MovesTwice ==
  ASSUME NEW k, NEW k1, NEW k2, Moves(k, k1), Moves(k1, k2) PROVE Moves(k, k2)
  BY DEF Moves

LEMMA MovesNot == ASSUME NEW k, Good(k) PROVE Moves(k, k)
  BY DEF Moves

LEMMA GoodTypes ==
  ASSUME NEW k, Good(k)
  PROVE  /\ Sound(k) /\ IsState(k) /\ k.pxCurrentTCB \in AllTasks
         /\ k.uxPriority \in [AllTasks -> Priorities] /\ k.xWakeTime \in [AllTasks -> Ticks]
         /\ k.xTickCount \in Ticks /\ k.xNextTaskUnblockTime \in Ticks /\ k.xTickCount \in Nat
  BY Bounds DEF Good, Sound

LEMMA UnlinkEventMoves ==
  ASSUME NEW k, Good(k), NEW t PROVE Moves(k, UnlinkEvent(k, t))
  BY UnlinkEventSound DEF Good, Moves, Same, Fields, Kept

LEMMA MakeReadyMoves ==
  ASSUME NEW k, Good(k), NEW t \in Tasks PROVE Moves(k, MakeReady(k, t))
<1> DEFINE k1 == UnlinkState(k, t)  k2 == prvAddTaskToReadyList(k1, t)
<1>1. Idle \in AllTasks \ {t} /\ 0 \in Priorities /\ t \in AllTasks
  BY Bounds
<1>2. /\ Sound(k1) /\ IsFree(k1, t) /\ OthersStay(k, k1, t)
      /\ Same(k, k1, {"pxReadyTasksLists", "pxDelayedTaskList", "pxOverflowDelayedTaskList",
                      "xSuspendedTaskList", "xTasksWaitingTermination", "xWakeTime"})
  BY UnlinkStateSound DEF Good
<1> HIDE DEF k1
<1>3. Sound(k2) /\ OthersStay(k1, k2, t) /\ Same(k1, k2, {"uxTopReadyPriority", "pxReadyTasksLists"})
  BY <1>1, <1>2, AddReadySound
<1> HIDE DEF k2
<1>4. Contains(k2.pxReadyTasksLists[0], Idle)
  BY <1>1, <1>2, <1>3 DEF Good, OthersStay
<1>5. Moves(k, k2)
  BY <1>2, <1>3, <1>4 DEF Good, Moves, Same, Fields, Kept
<1> QED BY <1>5 DEF MakeReady, k1, k2

LEMMA ResetMoves ==
  ASSUME NEW k, Good(k) PROVE Moves(k, prvResetNextTaskUnblockTime(k))
<1> DEFINE k1 == prvResetNextTaskUnblockTime(k)
           time == IF k.pxDelayedTaskList = <<>> THEN portMAX_DELAY
                                   ELSE k.xWakeTime[Head(k.pxDelayedTaskList)]
<1>1. Same(k, k1, {"xNextTaskUnblockTime"}) /\ k1.xNextTaskUnblockTime = time
  BY GoodTypes DEF IsState, prvResetNextTaskUnblockTime, Same, Fields
<1>2. time \in Ticks
  <2>1. k.pxDelayedTaskList # <<>> => Head(k.pxDelayedTaskList) \in Tasks
    <3>1. k.pxDelayedTaskList \in Seq(Tasks)
      BY GoodTypes DEF Sound, IsList
    <3> QED BY <3>1
  <2> QED BY <2>1, GoodTypes, Bounds
<1> HIDE DEF k1, time
<1>3. \A x \in AllTasks : Once(k1, x)
  <2>1. \A x \in AllTasks : Once(k, x)
    BY GoodTypes DEF Sound
  <2> QED BY <1>1, <2>1 DEF Once, IsReady, IsTerminated, Same, Fields
<1>4. Sound(k1)
  BY <1>1, <1>2, <1>3, GoodTypes DEF Sound, Same, Fields
<1> QED BY <1>1, <1>4 DEF Good, Moves, Same, Fields, Kept, k1

\* the largest of some numbers
LEMMA MaxIs ==
  ASSUME NEW n \in Nat, NEW I \in SUBSET (0 .. n), I # {}
  PROVE  Max(I) \in I /\ \A i \in I : i <= Max(I)
<1> DEFINE J == {n - i : i \in I}
<1>1. J \in SUBSET Nat /\ J # {}
  <2>1. \A i \in I : n - i \in Nat
    OBVIOUS
  <2> QED BY <2>1
<1>2. Min(J) \in J /\ \A j \in J : Min(J) <= j
  <2> HIDE DEF J
  <2> QED BY <1>1, MinIs
<1>3. PICK x \in I : Min(J) = n - x
  BY <1>2
<1>4. \A i \in I : x >= i
  <2>1. ASSUME NEW i \in I PROVE x >= i
    <3>1. n - i \in J
      OBVIOUS
    <3>2. n - x <= n - i
      BY <1>2, <1>3, <3>1
    <3> HIDE DEF J
    <3>3. x \in 0 .. n /\ i \in 0 .. n
      OBVIOUS
    <3> QED BY <3>2, <3>3
  <2> QED BY <2>1
<1>5. Max(I) \in I /\ \A i \in I : Max(I) >= i
  BY <1>3, <1>4 DEF Max
<1>6. I \subseteq Nat
  OBVIOUS
<1> QED BY <1>5, <1>6

\* The list that the scheduler takes the next task from: Idle is in one.
LEMMA TopIs ==
  ASSUME NEW k, Good(k)
  PROVE  LET top == Max({p \in 0 .. k.uxTopReadyPriority : k.pxReadyTasksLists[p] # EmptyRing})
         IN  top \in Priorities /\ k.pxReadyTasksLists[top] # EmptyRing
<1> DEFINE n == k.uxTopReadyPriority
           I == {p \in 0 .. n : k.pxReadyTasksLists[p] # EmptyRing}
<1>1. n \in Priorities /\ n \in Nat
  BY GoodTypes, Bounds DEF Sound
<1>2. k.pxReadyTasksLists[0] # EmptyRing
  <2>1. Contains(k.pxReadyTasksLists[0], Idle) /\ Idle # xListEnd
    BY Bounds DEF Good
  <2>2. ~Contains(EmptyRing, Idle)
    BY <2>1 DEF Contains, EmptyRing
  <2> QED BY <2>1, <2>2
<1>3. 0 \in I /\ I \in SUBSET (0 .. n)
  BY <1>1, <1>2
<1>4. Max(I) \in I
  <2> HIDE DEF I
  <2> QED BY <1>1, <1>3, MaxIs
<1> DEFINE m == Max(I)
<1>5. m \in I
  BY <1>4
<1> HIDE DEF m
<1>6. m \in Priorities /\ k.pxReadyTasksLists[m] # EmptyRing
  BY <1>1, <1>5, TasksAssumption DEF Priorities
<1> QED BY <1>6 DEF m

LEMMA SwitchMoves ==
  ASSUME NEW k, Good(k) PROVE Moves(k, vTaskSwitchContext(k))
<1> DEFINE top  == Max({p \in 0 .. k.uxTopReadyPriority : k.pxReadyTasksLists[p] # EmptyRing})
           ring == listGET_OWNER_OF_NEXT_ENTRY(k.pxReadyTasksLists[top])
           k1   == vTaskSwitchContext(k)
<1>0. \A x \in AllTasks : Once(k, x)
  BY GoodTypes DEF Sound
<1>1. CASE k.uxSchedulerSuspended > 0
  <2>1. Same(k, k1, {"xYieldPending"})
    BY <1>1, GoodTypes DEF IsState, vTaskSwitchContext, Same, Fields
  <2> HIDE DEF k1
  <2>2. \A x \in AllTasks : Once(k1, x)
    BY <1>0, <2>1 DEF Once, IsReady, IsTerminated, Same, Fields
  <2>3. Sound(k1)
    BY <2>1, <2>2, GoodTypes DEF Sound, Same, Fields
  <2> QED BY <2>1, <2>3 DEF Good, Moves, Same, Fields, Kept, k1
<1>2. CASE ~(k.uxSchedulerSuspended > 0)
  <2>1. /\ Same(k, k1, {"xYieldPending", "uxTopReadyPriority", "pxReadyTasksLists", "pxCurrentTCB"})
        /\ k1.uxTopReadyPriority = top
        /\ k1.pxReadyTasksLists = [k.pxReadyTasksLists EXCEPT ![top] = ring]
        /\ k1.pxCurrentTCB = Last(ring)
    <3>1. k1 = [k EXCEPT !.xYieldPending = FALSE, !.uxTopReadyPriority = top,
                         !.pxReadyTasksLists[top] = ring, !.pxCurrentTCB = Last(ring)]
      BY <1>2 DEF vTaskSwitchContext
    <3>2. IsState(k)
      BY GoodTypes
    <3> HIDE DEF k1, top, ring
    <3> QED BY <3>1, <3>2 DEF IsState, Same, Fields
  <2>2. top \in Priorities /\ k.pxReadyTasksLists[top] # EmptyRing
    BY TopIs
  <2> HIDE DEF k1, top
  <2>3. IsRing(k.pxReadyTasksLists[top])
    BY <2>2, RingsAre, GoodTypes
  <2>4. /\ IsRing(ring) /\ \A y : Contains(ring, y) <=> Contains(k.pxReadyTasksLists[top], y)
        /\ Last(ring) \in AllTasks
    BY <2>2, <2>3, RingTurned
  <2> HIDE DEF ring
  <2>5. /\ k1.pxReadyTasksLists = [p \in Priorities |-> k1.pxReadyTasksLists[p]]
        /\ k1.pxReadyTasksLists[top] = ring
        /\ \A p \in Priorities : p # top => k1.pxReadyTasksLists[p] = k.pxReadyTasksLists[p]
    <3>1. k.pxReadyTasksLists = [p \in Priorities |-> k.pxReadyTasksLists[p]]
      BY GoodTypes DEF Sound, Rings
    <3> QED BY <2>1, <2>2, <3>1
  <2>6. \A p \in Priorities : \A y : Contains(k1.pxReadyTasksLists[p], y)
                                       <=> Contains(k.pxReadyTasksLists[p], y)
    BY <2>4, <2>5
  <2>7. Rings(k1.pxReadyTasksLists)
    BY <2>4, <2>5, RingsAre, GoodTypes DEF Rings
  <2>8. \A x \in AllTasks : Once(k1, x)
    BY <1>0, <2>1, <2>6 DEF Once, IsReady, IsTerminated, Same, Fields
  <2>9. Sound(k1)
    BY <2>1, <2>2, <2>4, <2>7, <2>8, GoodTypes DEF Sound, Same, Fields
  <2>10. Contains(k1.pxReadyTasksLists[0], Idle)
    BY <2>6, Bounds DEF Good
  <2> QED BY <2>1, <2>9, <2>10 DEF Good, Moves, Same, Fields, Kept, k1
<1> QED BY <1>1, <1>2

LEMMA YieldIfMoves ==
  ASSUME NEW k, Good(k), NEW condition PROVE Moves(k, YieldIf(condition, k))
  BY SwitchMoves, MovesNot DEF YieldIf

LEMMA SwitchListsMoves ==
  ASSUME NEW k, Good(k) PROVE Moves(k, taskSWITCH_DELAYED_LISTS(k))
<1> DEFINE k1 == [k EXCEPT !.pxDelayedTaskList = k.pxOverflowDelayedTaskList,
                           !.pxOverflowDelayedTaskList = k.pxDelayedTaskList,
                           !.xNumOfOverflows = (@ + 1) % OverflowRange]
<1>1. /\ Same(k, k1, {"pxDelayedTaskList", "pxOverflowDelayedTaskList", "xNumOfOverflows"})
      /\ k1.pxDelayedTaskList = k.pxOverflowDelayedTaskList
      /\ k1.pxOverflowDelayedTaskList = k.pxDelayedTaskList
  <2> DEFINE overflows == (k.xNumOfOverflows + 1) % OverflowRange
             k2 == [k EXCEPT !.pxDelayedTaskList = k.pxOverflowDelayedTaskList,
                             !.pxOverflowDelayedTaskList = k.pxDelayedTaskList,
                             !.xNumOfOverflows = overflows]
  <2>1. k1 = k2
    OBVIOUS
  <2>2. IsState(k)
    BY GoodTypes
  <2> HIDE DEF k1, overflows
  <2> QED BY <2>1, <2>2 DEF IsState, Same, Fields
<1>2. taskSWITCH_DELAYED_LISTS(k) = prvResetNextTaskUnblockTime(k1)
  BY DEF taskSWITCH_DELAYED_LISTS
<1> HIDE DEF k1
<1>3. \A x \in AllTasks : Once(k1, x)
  <2>1. \A x \in AllTasks : Once(k, x)
    BY GoodTypes DEF Sound
  <2> QED BY <1>1, <2>1 DEF Once, IsReady, IsTerminated, Same, Fields
<1>4. Sound(k1)
  BY <1>1, <1>3, GoodTypes DEF Sound, Same, Fields
<1>5. Moves(k, k1)
  BY <1>1, <1>4 DEF Good, Moves, Same, Fields, Kept
<1> QED BY <1>2, <1>5, ResetMoves, MovesTwice DEF Moves

\* The running task, one of the application, goes to sleep.
LEMMA SleepMoves ==
  ASSUME NEW k, Good(k), k.pxCurrentTCB \in Tasks, NEW ticks \in Int, NEW forEver
  PROVE  Moves(k, prvAddCurrentTaskToDelayedList(k, ticks, forEver))
<1> DEFINE t    == k.pxCurrentTCB
           wake == (k.xTickCount + ticks) % TickRange
           k0   == UnlinkState(k, t)
           k1   == [k0 EXCEPT !.xWakeTime[t] = wake]
           ka   == [k0 EXCEPT !.xSuspendedTaskList = @ \cup {t}]
           kb   == [k1 EXCEPT !.pxOverflowDelayedTaskList = vListInsert(@, t, k1.xWakeTime)]
           kc   == [k1 EXCEPT !.pxDelayedTaskList = vListInsert(@, t, k1.xWakeTime),
                              !.xNextTaskUnblockTime = IF wake < @ THEN wake ELSE @]
<1>0. t \in Tasks /\ t # Idle /\ t \in AllTasks /\ wake \in Ticks /\ 0 \in Priorities /\ Idle \in AllTasks
  <2>1. k.xTickCount \in Nat
    BY GoodTypes
  <2>2. wake \in Ticks
    BY <2>1, TickCount
  <2> HIDE DEF wake
  <2> QED BY <2>2, Bounds
<1>1. prvAddCurrentTaskToDelayedList(k, ticks, forEver) \in {ka, kb, kc}
  BY DEF prvAddCurrentTaskToDelayedList
<1>2. /\ Sound(k0) /\ IsFree(k0, t) /\ OthersStay(k, k0, t)
      /\ Same(k, k0, {"pxReadyTasksLists", "pxDelayedTaskList", "pxOverflowDelayedTaskList",
                      "xSuspendedTaskList", "xTasksWaitingTermination", "xWakeTime"})
  BY <1>0, UnlinkStateSound DEF Good
<1>3. /\ IsState(k0) /\ k0.xWakeTime \in [AllTasks -> Ticks] /\ \A x \in AllTasks : Once(k0, x)
      /\ k0.xNextTaskUnblockTime \in Ticks
      /\ IsList(k0.pxDelayedTaskList, Tasks) /\ IsList(k0.pxOverflowDelayedTaskList, Tasks)
      /\ Contains(k0.pxReadyTasksLists[0], Idle) /\ k0.uxPriority[Idle] = 0
  BY <1>0, <1>2 DEF Sound, OthersStay, Good, Same, Fields
<1>4. /\ ~Contains(k0.pxDelayedTaskList, t) /\ ~Contains(k0.pxOverflowDelayedTaskList, t)
      /\ t \notin k0.xSuspendedTaskList /\ ~IsReady(k0, t) /\ ~IsTerminated(k0, t)
  BY <1>2 DEF IsFree, IsSleeping
<1> HIDE DEF k0, wake
<1>5. /\ Same(k0, k1, {"xWakeTime"}) /\ k1.xWakeTime = [k0.xWakeTime EXCEPT ![t] = wake]
      /\ (\A y \in Tasks : k1.xWakeTime[y] \in Int) /\ k1.xWakeTime \in [AllTasks -> Ticks]
  <2>1. Same(k0, k1, {"xWakeTime"}) /\ k1.xWakeTime = [k0.xWakeTime EXCEPT ![t] = wake]
    BY <1>3 DEF IsState, Same, Fields
  <2>2. k1.xWakeTime \in [AllTasks -> Ticks]
    BY <1>0, <1>3, <2>1
  <2>3. \A y \in Tasks : k1.xWakeTime[y] \in Int
    BY <2>2, Bounds
  <2> QED BY <2>1, <2>2, <2>3
<1>6. Moves(k, ka)
  <2>1. Same(k0, ka, {"xSuspendedTaskList"}) /\ ka.xSuspendedTaskList = k0.xSuspendedTaskList \cup {t}
    BY <1>3 DEF IsState, Same, Fields
  <2> HIDE DEF ka
  <2>2. \A x \in AllTasks : Once(ka, x)
    BY <1>3, <1>4, <2>1 DEF Once, IsReady, IsTerminated, Same, Fields
  <2>3. Sound(ka)
    BY <1>0, <1>2, <2>1, <2>2 DEF Sound, Same, Fields
  <2> QED BY <1>2, <1>3, <2>1, <2>3 DEF Good, Moves, Same, Fields, Kept
<1>7. Moves(k, kb)
  <2> DEFINE l == vListInsert(k0.pxOverflowDelayedTaskList, t, k1.xWakeTime)
  <2>1. IsList(l, Tasks) /\ \A y : Contains(l, y) <=> Contains(k0.pxOverflowDelayedTaskList, y) \/ y = t
    <3> HIDE DEF k1
    <3>1. /\ IsList(k0.pxOverflowDelayedTaskList, Tasks) /\ t \in Tasks /\ ~Contains(k0.pxOverflowDelayedTaskList, t)
          /\ \A y \in Tasks : k1.xWakeTime[y] \in Int
      BY <1>0, <1>3, <1>4, <1>5
    <3> HIDE DEF t
    <3> QED BY <3>1, ListInserted
  <2>2. /\ Same(k0, kb, {"xWakeTime", "pxOverflowDelayedTaskList"})
        /\ kb.xWakeTime = k1.xWakeTime /\ kb.pxOverflowDelayedTaskList = l
    <3> HIDE DEF k1
    <3> QED BY <1>5 DEF IsState, Same, Fields
  <2> HIDE DEF kb, l, k1
  <2>3. \A x \in AllTasks : Once(kb, x)
    BY <1>3, <1>4, <2>1, <2>2 DEF Once, IsReady, IsTerminated, Same, Fields
  <2>4. Sound(kb)
    BY <1>2, <1>5, <2>1, <2>2, <2>3 DEF Sound, Same, Fields
  <2> QED BY <1>2, <1>3, <2>2, <2>4 DEF Good, Moves, Same, Fields, Kept
<1>8. Moves(k, kc)
  <2> DEFINE l == vListInsert(k0.pxDelayedTaskList, t, k1.xWakeTime)
  <2>1. IsList(l, Tasks) /\ \A y : Contains(l, y) <=> Contains(k0.pxDelayedTaskList, y) \/ y = t
    <3> HIDE DEF k1
    <3>1. /\ IsList(k0.pxDelayedTaskList, Tasks) /\ t \in Tasks /\ ~Contains(k0.pxDelayedTaskList, t)
          /\ \A y \in Tasks : k1.xWakeTime[y] \in Int
      BY <1>0, <1>3, <1>4, <1>5
    <3> HIDE DEF t
    <3> QED BY <3>1, ListInserted
  <2>2. /\ Same(k0, kc, {"xWakeTime", "pxDelayedTaskList", "xNextTaskUnblockTime"})
        /\ kc.xWakeTime = k1.xWakeTime /\ kc.pxDelayedTaskList = l
        /\ kc.xNextTaskUnblockTime \in {wake, k0.xNextTaskUnblockTime}
    <3> HIDE DEF k1
    <3> QED BY <1>5 DEF IsState, Same, Fields
  <2> HIDE DEF kc, l, k1
  <2>3. \A x \in AllTasks : Once(kc, x)
    BY <1>3, <1>4, <2>1, <2>2 DEF Once, IsReady, IsTerminated, Same, Fields
  <2>4. Sound(kc)
    BY <1>0, <1>2, <1>3, <1>5, <2>1, <2>2, <2>3 DEF Sound, Same, Fields
  <2> QED BY <1>2, <1>3, <2>2, <2>4 DEF Good, Moves, Same, Fields, Kept
<1> QED BY <1>1, <1>6, <1>7, <1>8

---------------------------------------------------------------------------
(* Induction over the steps of a repeated change *)

LEMMA Induct ==
  ASSUME NEW N \in Nat, NEW P, 0 \in P, \A n \in 0 .. N - 1 : n \in P => n + 1 \in P
  PROVE  \A n \in 0 .. N : n \in P
<1> DEFINE S == {n \in 0 .. N : n \notin P}
<1>1. SUFFICES ASSUME S # {} PROVE FALSE
  OBVIOUS
<1>2. S \subseteq Nat
  OBVIOUS
<1> HIDE DEF S
<1>3. PICK x \in S : \A y \in S : ~(<<y, x>> \in OpToRel(<, Nat))
  BY <1>1, <1>2, WFMin, NatLessThanWellFounded
<1>4. \A y \in S : ~(y < x)
  BY <1>2, <1>3 DEF OpToRel
<1>5. x \in 0 .. N /\ x \notin P
  BY DEF S
<1>6. x # 0
  BY <1>5
<1>7. x - 1 \in 0 .. N - 1 /\ x - 1 + 1 = x /\ x - 1 < x
  BY <1>5, <1>6
<1>8. x - 1 \in P
  BY <1>4, <1>7 DEF S
<1> QED BY <1>5, <1>7, <1>8

\* the changes that the kernel repeats
Change(what, k, x) ==
  CASE what = "expired" -> MakeReady(UnlinkEvent(k, x), x)
    [] what = "pended"  -> ReadyPended(k, x)
    [] what = "ticked"  -> PendedTick(k)
    [] what = "created" -> prvAddNewTaskToReadyList(k, x[1], x[2])
    [] what = "woken"   -> IF k.xEventLists[x] = <<>> THEN k ELSE xTaskRemoveFromEventList(k, x)

\* what N changes lead to, one after the other
Changes(what, k, args, N, r) ==
  /\ r = [n \in 0 .. N |-> r[n]] /\ r[0] = k
  /\ \A n \in 1 .. N : r[n] = Change(what, r[n - 1], args[n])

LEMMA ChangesExist ==
  ASSUME NEW what, NEW k, NEW args, NEW N \in Nat
  PROVE  \E r : Changes(what, k, args, N, r)
<1> DEFINE B(g, n) == IF n = 0 THEN k ELSE Change(what, g[n - 1], args[n])
           P == {m \in Nat : \E g : g = [n \in 0 .. m |-> B(g, n)]}
<1>1. 0 \in P
  <2>1. [n \in 0 .. 0 |-> k] = [n \in 0 .. 0 |-> B([i \in 0 .. 0 |-> k], n)]
    OBVIOUS
  <2> QED BY <2>1
<1>2. ASSUME NEW m \in 0 .. N - 1, m \in P PROVE m + 1 \in P
  <2>1. PICK g : g = [n \in 0 .. m |-> B(g, n)]
    BY <1>2
  <2> DEFINE h == [n \in 0 .. m + 1 |-> IF n <= m THEN g[n] ELSE B(g, m + 1)]
  <2>2. (\A n \in 0 .. m : h[n] = g[n]) /\ h[m + 1] = B(g, m + 1)
    OBVIOUS
  <2>3. \A n \in 0 .. m : B(h, n) = B(g, n)
    <3> HIDE DEF h
    <3> QED BY <2>2
  <2>4. B(h, m + 1) = B(g, m + 1)
    <3> HIDE DEF h
    <3>1. m + 1 # 0 /\ (m + 1) - 1 \in 0 .. m
      OBVIOUS
    <3> QED BY <2>2, <3>1
  <2>5. \A n \in 0 .. m : g[n] = B(g, n)
    <3> HIDE DEF B
    <3> QED BY <2>1
  <2>6. \A n \in 0 .. m + 1 : h[n] = B(h, n)
    <3> HIDE DEF B, h
    <3> QED BY <2>2, <2>3, <2>4, <2>5
  <2>7. h = [n \in 0 .. m + 1 |-> h[n]]
    OBVIOUS
  <2>8. h = [n \in 0 .. m + 1 |-> B(h, n)]
    <3> HIDE DEF B, h
    <3> QED BY <2>6, <2>7
  <2>9. m + 1 \in Nat
    OBVIOUS
  <2> HIDE DEF B, h
  <2> QED BY <2>8, <2>9
<1>3. N \in P
  <2> HIDE DEF P
  <2>1. \A n \in 0 .. N : n \in P
    BY <1>1, <1>2, Induct
  <2> QED BY <2>1
<1>4. PICK g : g = [n \in 0 .. N |-> B(g, n)]
  BY <1>3 DEF P
<1>5. Changes(what, k, args, N, g)
  <2>1. g = [n \in 0 .. N |-> g[n]] /\ \A n \in 0 .. N : g[n] = B(g, n)
    <3> HIDE DEF B
    <3> QED BY <1>4
  <2>2. g[0] = k
    <3>1. 0 \in 0 .. N
      OBVIOUS
    <3>2. g[0] = B(g, 0)
      <4> HIDE DEF B
      <4> QED BY <2>1, <3>1
    <3> QED BY <3>2
  <2>3. ASSUME NEW n \in 1 .. N PROVE g[n] = Change(what, g[n - 1], args[n])
    <3>1. n \in 0 .. N /\ n # 0
      OBVIOUS
    <3> QED BY <2>1, <3>1
  <2> HIDE DEF B
  <2> QED BY <2>1, <2>2, <2>3 DEF Changes
<1> QED BY <1>5

LEMMA ExpiredInTurn ==
  ASSUME NEW k, NEW ts \in Seq(Tasks)
  PROVE  \E r : /\ Changes("expired", k, ts, Len(ts), r)
                /\ InTurn(LAMBDA s, t : MakeReady(UnlinkEvent(s, t), t), k, ts) = r[Len(ts)]
<1> DEFINE N == Len(ts)
           B(g, n) == IF n = 0 THEN k ELSE Change("expired", g[n - 1], ts[n])
           C(g, n) == IF n = 0 THEN k ELSE MakeReady(UnlinkEvent(g[n - 1], ts[n]), ts[n])
<1>1. N \in Nat
  OBVIOUS
<1>2. PICK g : Changes("expired", k, ts, N, g)
  BY <1>1, ChangesExist
<1>3. \A f, n : B(f, n) = C(f, n)
  BY DEF Change
<1>4. \A n \in 0 .. N : g[n] = B(g, n)
  BY <1>1, <1>2 DEF Changes
<1>5. g = [n \in 0 .. N |-> C(g, n)]
  <2> HIDE DEF B, C
  <2> QED BY <1>2, <1>3, <1>4 DEF Changes
<1> DEFINE r == CHOOSE f : f = [n \in 0 .. N |-> C(f, n)]
<1>6. r = [n \in 0 .. N |-> C(r, n)]
  BY <1>5
<1>7. InTurn(LAMBDA s, t : MakeReady(UnlinkEvent(s, t), t), k, ts) = r[N]
  BY DEF InTurn
<1> HIDE DEF r
<1>8. r = [n \in 0 .. N |-> r[n]] /\ \A n \in 0 .. N : r[n] = B(r, n)
  <2> HIDE DEF B, C
  <2> QED BY <1>3, <1>6
<1>9. Changes("expired", k, ts, N, r)
  BY <1>1, <1>8 DEF Changes
<1> QED BY <1>7, <1>9

\* the lists of states, and what goes with them
Structure == {"pxCurrentTCB", "pxReadyTasksLists", "uxTopReadyPriority", "pxDelayedTaskList",
              "pxOverflowDelayedTaskList", "xSuspendedTaskList", "xTasksWaitingTermination",
              "xWakeTime"}

Types(k) ==
  /\ k.xPendingReadyList \in Seq(Tasks)
  /\ k.xEventLists \in [EventLists -> Seq(Tasks)]
  /\ k.xEventValue \in [AllTasks -> 1 .. configMAX_PRIORITIES]
  /\ k.uxPriority \in [AllTasks -> Priorities] /\ k.uxBasePriority \in [AllTasks -> Priorities]
  /\ k.uxPriority[Idle] = 0
  /\ k.uxMutexesHeld \in [AllTasks -> Int]
  /\ k.xTickCount \in Ticks /\ k.xNextTaskUnblockTime \in Ticks
  /\ k.uxSchedulerSuspended \in Int /\ k.xPendedTicks \in Nat

LEMMA TypesGood ==
  ASSUME NEW k, Good(k), NEW k1, Same(k, k1, Fields \ Structure), Types(k1)
  PROVE  Good(k1)
<1>1. \A x \in AllTasks : Once(k1, x)
  <2>1. \A x \in AllTasks : Once(k, x)
    BY GoodTypes DEF Sound
  <2> QED BY <2>1 DEF Once, IsReady, IsTerminated, Same, Fields, Structure
<1>2. Sound(k1)
  BY <1>1, GoodTypes DEF Sound, Same, Fields, Structure, Types
<1> QED BY <1>2 DEF Good, Same, Fields, Structure, Types

LEMMA TypesOf == ASSUME NEW k, Good(k) PROVE Types(k)
  BY DEF Good, Sound, Types

LEMMA ExpiredSeq ==
  ASSUME NEW k, Good(k) PROVE Expired(k) \in Seq(Tasks)
<1> DEFINE l == k.pxDelayedTaskList
           I == {i \in 1 .. Len(l) : k.xWakeTime[l[i]] > k.xTickCount}
           later == IF I # {} THEN Min(I) ELSE 0
<1>1. l \in Seq(Tasks) /\ Len(l) \in Nat
  <2>1. l \in Seq(Tasks)
    BY GoodTypes DEF Sound, IsList
  <2> QED BY <2>1
<1>2. Expired(k) = IF later = 0 THEN l ELSE SubSeq(l, 1, later - 1)
  BY DEF Expired, SelectInSeq
<1>3. later = 0 \/ later \in 1 .. Len(l)
  <2>1. I \in SUBSET Nat /\ I \subseteq 1 .. Len(l)
    OBVIOUS
  <2> HIDE DEF I
  <2> QED BY <2>1, MinIs
<1> HIDE DEF later, l
<1>4. CASE later \in 1 .. Len(l)
  <2>1. 1 \in 1 .. Len(l) + 1 /\ later - 1 \in 0 .. Len(l) /\ 1 <= (later - 1) + 1 /\ later # 0
    BY <1>1, <1>4
  <2> QED BY <1>1, <1>2, <2>1, SubSeqIs
<1> QED BY <1>1, <1>2, <1>3, <1>4

LEMMA WakeUpMoves ==
  ASSUME NEW k, Good(k), NEW t \in Tasks PROVE Moves(k, MakeReady(UnlinkEvent(k, t), t))
  BY UnlinkEventMoves, MakeReadyMoves, MovesTwice DEF Moves

LEMMA ReadyPendedMoves ==
  ASSUME NEW k, Good(k), NEW t \in Tasks PROVE Moves(k, ReadyPended(k, t))
<1> DEFINE k1 == MakeReady(UnlinkEvent(k, t), t)
           k2 == ReadyPended(k, t)
<1>1. Moves(k, k1) /\ Good(k1)
  BY WakeUpMoves DEF Moves
<1>2. Same(k1, k2, {"xYieldPending"})
  <2>1. IsState(k1)
    BY <1>1, GoodTypes
  <2>2. k2 = [k1 EXCEPT !.xYieldPending = @ \/ k.uxPriority[t] >= k.uxPriority[k.pxCurrentTCB]]
    BY DEF ReadyPended
  <2> HIDE DEF k1, k2
  <2> QED BY <2>1, <2>2 DEF IsState, Same, Fields
<1> HIDE DEF k1, k2
<1>3. Good(k2)
  BY <1>1, <1>2, TypesGood, TypesOf DEF Same, Types, Fields, Structure
<1> QED BY <1>1, <1>2, <1>3 DEF Moves, Same, Fields, Kept, k2

\* what is repeated a number of times moves tasks, if each time does
LEMMA ExpiredMoves ==
  ASSUME NEW k, Good(k), NEW ts \in Seq(Tasks)
  PROVE  Moves(k, InTurn(LAMBDA s, t : MakeReady(UnlinkEvent(s, t), t), k, ts))
<1> DEFINE N == Len(ts)
           all == InTurn(LAMBDA s, t : MakeReady(UnlinkEvent(s, t), t), k, ts)
<1>1. PICK r : Changes("expired", k, ts, N, r) /\ all = r[N]
  BY ExpiredInTurn
<1> HIDE DEF all
<1>2. N \in Nat /\ \A n \in 1 .. N : ts[n] \in Tasks
  OBVIOUS
<1> DEFINE P == {n \in Nat : Moves(k, r[n])}
<1>3. 0 \in P
  BY <1>1, MovesNot DEF Changes
<1>4. ASSUME NEW n \in 0 .. N - 1, n \in P PROVE n + 1 \in P
  <2>1. n + 1 \in 1 .. N /\ (n + 1) - 1 = n /\ n + 1 \in Nat
    BY <1>2
  <2>2. r[n + 1] = MakeReady(UnlinkEvent(r[n], ts[n + 1]), ts[n + 1])
    BY <1>1, <2>1 DEF Changes, Change
  <2>3. Moves(k, r[n]) /\ Good(r[n])
    BY <1>4 DEF Moves
  <2>4. Moves(r[n], r[n + 1])
    BY <1>2, <2>1, <2>2, <2>3, WakeUpMoves
  <2> QED BY <2>1, <2>3, <2>4, MovesTwice
<1> HIDE DEF P
<1>5. \A n \in 0 .. N : n \in P
  BY <1>2, <1>3, <1>4, Induct
<1>6. Moves(k, all)
  BY <1>1, <1>2, <1>5 DEF P
<1> QED BY <1>6 DEF all

---------------------------------------------------------------------------
(* Ticks that pass *)

\* what the clock does not touch
Still == Kept \ {"xTickCount", "xPendedTicks", "uxSchedulerSuspended"}

\* the tick interrupt: the tick count goes on, or the tick is pending
Ticked(k, k1) ==
  /\ Good(k1) /\ \A f \in Still : k1[f] = k[f]
  /\ k1.uxSchedulerSuspended = k.uxSchedulerSuspended
  /\ IF k.uxSchedulerSuspended > 0
     THEN k1.xTickCount = k.xTickCount /\ k1.xPendedTicks = k.xPendedTicks + 1
     ELSE k1.xTickCount = (k.xTickCount + 1) % TickRange /\ k1.xPendedTicks = k.xPendedTicks

LEMMA IncrementTickIs ==
  ASSUME NEW k, Good(k) PROVE Ticked(k, xTaskIncrementTick(k))
<1> DEFINE kt == xTaskIncrementTick(k)
<1>0. IsState(k) /\ Types(k) /\ k.xTickCount \in Nat
  BY GoodTypes, TypesOf
<1>1. CASE k.uxSchedulerSuspended > 0
  <2>1. Same(k, kt, {"xPendedTicks"}) /\ kt.xPendedTicks = k.xPendedTicks + 1
    BY <1>0, <1>1 DEF xTaskIncrementTick, IsState, Same, Fields
  <2> HIDE DEF kt
  <2>2. Good(kt)
    <3>1. Types(kt)
      BY SMTT(30), <1>0, <2>1 DEF Same, Fields, Types
    <3> QED BY <2>1, <3>1, TypesGood DEF Same, Fields, Structure
  <2> QED BY <1>1, <2>1, <2>2 DEF Ticked, Same, Fields, Still, Kept, kt
<1>2. CASE ~(k.uxSchedulerSuspended > 0)
  <2> DEFINE tick == (k.xTickCount + 1) % TickRange
             k1   == [k EXCEPT !.xTickCount = tick]
             k2   == IF tick = 0 THEN taskSWITCH_DELAYED_LISTS(k1) ELSE k1
             k3   == InTurn(LAMBDA r, t : MakeReady(UnlinkEvent(r, t), t), k2, Expired(k2))
  <2>1. kt \in {k2, prvResetNextTaskUnblockTime(k3)}
    BY <1>2 DEF xTaskIncrementTick
  <2>2. tick \in Ticks
    BY <1>0, TickCount
  <2> HIDE DEF tick, kt
  <2>3. Same(k, k1, {"xTickCount"}) /\ k1.xTickCount = tick
    BY <1>0 DEF IsState, Same, Fields
  <2> HIDE DEF k1
  <2>4. Good(k1)
    <3>1. Types(k1)
      BY <1>0, <2>2, <2>3 DEF Same, Fields, Types
    <3> QED BY <2>3, <3>1, TypesGood DEF Same, Fields, Structure
  <2>5. Moves(k1, k2)
    BY <2>4, SwitchListsMoves, MovesNot
  <2> HIDE DEF k2
  <2>6. Moves(k1, k3)
    <3>1. Good(k2)
      BY <2>5 DEF Moves
    <3>2. Moves(k2, k3)
      BY <3>1, ExpiredSeq, ExpiredMoves
    <3> HIDE DEF k3
    <3> QED BY <2>5, <3>2, MovesTwice
  <2> HIDE DEF k3
  <2>7. Moves(k1, kt)
    <3>1. Moves(k3, prvResetNextTaskUnblockTime(k3))
      BY <2>6, ResetMoves DEF Moves
    <3> QED BY <2>1, <2>5, <2>6, <3>1, MovesTwice
  <2>8. Ticked(k, kt)
    BY <1>2, <2>3, <2>7 DEF Ticked, Moves, Same, Fields, Still, Kept, tick
  <2> QED BY <2>8 DEF kt
<1> QED BY <1>1, <1>2

LEMMA PendedTickIs ==
  ASSUME NEW k, Good(k) PROVE Ticked(k, PendedTick(k))
<1> DEFINE k1 == xTaskIncrementTick(k)
           k2 == PendedTick(k)
           y  == k1.xYieldPending \/ SwitchRequired(k, k1)
<1>1. Ticked(k, k1)
  BY IncrementTickIs
<1>2. Same(k1, k2, {"xYieldPending"})
  <2>1. IsState(k1)
    BY <1>1, GoodTypes DEF Ticked
  <2>2. k2 = [k1 EXCEPT !.xYieldPending = y]
    BY DEF PendedTick
  <2> HIDE DEF k1, k2, y
  <2> QED BY <2>1, <2>2 DEF IsState, Same, Fields
<1> HIDE DEF k1, k2
<1>3. Good(k2)
  BY <1>1, <1>2, TypesGood, TypesOf DEF Ticked, Same, Types, Fields, Structure
<1>4. Ticked(k, k2)
  BY <1>1, <1>2, <1>3 DEF Ticked, Same, Fields, Kept, Still
<1> QED BY <1>4 DEF k2

LEMMA PendedInTurn ==
  ASSUME NEW k, NEW ts \in Seq(Tasks)
  PROVE  \E r : Changes("pended", k, ts, Len(ts), r) /\ InTurn(ReadyPended, k, ts) = r[Len(ts)]
<1> DEFINE N == Len(ts)
           B(g, n) == IF n = 0 THEN k ELSE Change("pended", g[n - 1], ts[n])
           C(g, n) == IF n = 0 THEN k ELSE ReadyPended(g[n - 1], ts[n])
<1>1. N \in Nat
  OBVIOUS
<1>2. PICK g : Changes("pended", k, ts, N, g)
  BY <1>1, ChangesExist
<1>3. \A f, n : B(f, n) = C(f, n)
  BY DEF Change
<1>4. \A n \in 0 .. N : g[n] = B(g, n)
  BY <1>1, <1>2 DEF Changes
<1>5. g = [n \in 0 .. N |-> C(g, n)]
  <2> HIDE DEF B, C
  <2> QED BY <1>2, <1>3, <1>4 DEF Changes
<1> DEFINE r == CHOOSE f : f = [n \in 0 .. N |-> C(f, n)]
<1>6. r = [n \in 0 .. N |-> C(r, n)]
  BY <1>5
<1>7. InTurn(ReadyPended, k, ts) = r[N]
  BY DEF InTurn
<1> HIDE DEF r
<1>8. r = [n \in 0 .. N |-> r[n]] /\ \A n \in 0 .. N : r[n] = B(r, n)
  <2> HIDE DEF B, C
  <2> QED BY <1>3, <1>6
<1>9. Changes("pended", k, ts, N, r)
  BY <1>1, <1>8 DEF Changes
<1> QED BY <1>7, <1>9

LEMMA PendedMoves ==
  ASSUME NEW k, Good(k), NEW ts \in Seq(Tasks)
  PROVE  Moves(k, InTurn(ReadyPended, k, ts))
<1> DEFINE N == Len(ts)
           all == InTurn(ReadyPended, k, ts)
<1>1. PICK r : Changes("pended", k, ts, N, r) /\ all = r[N]
  BY PendedInTurn
<1> HIDE DEF all
<1>2. N \in Nat /\ \A n \in 1 .. N : ts[n] \in Tasks
  OBVIOUS
<1> DEFINE P == {n \in Nat : Moves(k, r[n])}
<1>3. 0 \in P
  BY <1>1, MovesNot DEF Changes
<1>4. ASSUME NEW n \in 0 .. N - 1, n \in P PROVE n + 1 \in P
  <2>1. n + 1 \in 1 .. N /\ (n + 1) - 1 = n /\ n + 1 \in Nat
    BY <1>2
  <2>2. r[n + 1] = ReadyPended(r[n], ts[n + 1])
    BY <1>1, <2>1 DEF Changes, Change
  <2>3. Moves(k, r[n]) /\ Good(r[n])
    BY <1>4 DEF Moves
  <2>4. Moves(r[n], r[n + 1])
    BY <1>2, <2>1, <2>2, <2>3, ReadyPendedMoves
  <2> QED BY <2>1, <2>3, <2>4, MovesTwice
<1> HIDE DEF P
<1>5. \A n \in 0 .. N : n \in P
  BY <1>2, <1>3, <1>4, Induct
<1>6. Moves(k, all)
  BY <1>1, <1>2, <1>5 DEF P
<1> QED BY <1>6 DEF all

\* The ticks made up for.
TicksMadeUp(k, N) ==
  LET ticked[n \in 0 .. N] == IF n = 0 THEN k ELSE PendedTick(ticked[n - 1]) IN ticked[N]

LEMMA TicksInTurn ==
  ASSUME NEW k, NEW N \in Nat
  PROVE  \E r : Changes("ticked", k, <<>>, N, r) /\ TicksMadeUp(k, N) = r[N]
<1> DEFINE B(g, n) == IF n = 0 THEN k ELSE Change("ticked", g[n - 1], <<>>[n])
           C(g, n) == IF n = 0 THEN k ELSE PendedTick(g[n - 1])
<1>2. PICK g : Changes("ticked", k, <<>>, N, g)
  BY ChangesExist
<1>3. \A f, n : B(f, n) = C(f, n)
  BY DEF Change
<1>4. \A n \in 0 .. N : g[n] = B(g, n)
  BY <1>2 DEF Changes
<1>5. g = [n \in 0 .. N |-> C(g, n)]
  <2> HIDE DEF B, C
  <2> QED BY <1>2, <1>3, <1>4 DEF Changes
<1> DEFINE r == CHOOSE f : f = [n \in 0 .. N |-> C(f, n)]
<1>6. r = [n \in 0 .. N |-> C(r, n)]
  BY <1>5
<1>7. TicksMadeUp(k, N) = r[N]
  BY DEF TicksMadeUp
<1> HIDE DEF r
<1>8. r = [n \in 0 .. N |-> r[n]] /\ \A n \in 0 .. N : r[n] = B(r, n)
  <2> HIDE DEF B, C
  <2> QED BY <1>3, <1>6
<1>9. Changes("ticked", k, <<>>, N, r)
  BY <1>8 DEF Changes
<1> QED BY <1>7, <1>9

\* remainders of sums
LEMMA Remainder ==
  ASSUME NEW L \in Nat \ {0}, NEW q \in Int, NEW r \in 0 .. L - 1 PROVE (q * L + r) % L = r
  BY SMT

LEMMA Quotient ==
  ASSUME NEW L \in Nat \ {0}, NEW x \in Int
  PROVE  \E q \in Int, r \in 0 .. L - 1 : x = q * L + r
<1> DEFINE q == x \div L  r == x % L
<1>1. q \in Int /\ r \in 0 .. L - 1 /\ x = L * q + r
  BY SMT
<1> HIDE DEF q, r
<1>2. L * q = q * L
  BY <1>1, SMT
<1> QED BY <1>1, <1>2

LEMMA RemainderOfSum ==
  ASSUME NEW L \in Nat \ {0}, NEW a \in Int, NEW b \in Int
  PROVE  ((a % L) + b) % L = (a + b) % L
<1>1. PICK q \in Int, r \in 0 .. L - 1 : a = q * L + r
  BY Quotient
<1>2. a % L = r
  BY <1>1, Remainder
<1>3. r + b \in Int
  OBVIOUS
<1>4. PICK q2 \in Int, r2 \in 0 .. L - 1 : r + b = q2 * L + r2
  BY <1>3, Quotient
<1>5. (r + b) % L = r2
  BY <1>4, Remainder
<1>6. a + b = (q + q2) * L + r2 /\ q + q2 \in Int
  BY <1>1, <1>4, SMT
<1>7. (a + b) % L = r2
  BY <1>6, Remainder
<1> QED BY <1>2, <1>5, <1>7

\* The ticks that are made up for are counted, all of them.
LEMMA TicksMadeUpIs ==
  ASSUME NEW k, Good(k), ~(k.uxSchedulerSuspended > 0), NEW N \in Nat
  PROVE  LET k1 == TicksMadeUp(k, N)
         IN  /\ Good(k1) /\ \A f \in Still : k1[f] = k[f]
             /\ k1.uxSchedulerSuspended = k.uxSchedulerSuspended
             /\ k1.xTickCount = (k.xTickCount + N) % TickRange
<1> DEFINE To(k1, n) == /\ Good(k1) /\ \A f \in Still : k1[f] = k[f]
                        /\ k1.uxSchedulerSuspended = k.uxSchedulerSuspended
                        /\ k1.xTickCount = (k.xTickCount + n) % TickRange
           all == TicksMadeUp(k, N)
<1>1. PICK r : Changes("ticked", k, <<>>, N, r) /\ all = r[N]
  BY TicksInTurn
<1> HIDE DEF all
<1>2. TickRange \in Nat \ {0} /\ k.xTickCount \in Nat /\ k.xTickCount \in 0 .. TickRange - 1
  BY RangeAssumption, GoodTypes DEF Ticks
<1> DEFINE P == {n \in Nat : To(r[n], n)}
<1>3. 0 \in P
  <2>1. r[0] = k
    BY <1>1 DEF Changes
  <2>2. (k.xTickCount + 0) % TickRange = k.xTickCount
    BY <1>2, SMT
  <2> QED BY <2>1, <2>2
<1>4. ASSUME NEW n \in 0 .. N - 1, n \in P PROVE n + 1 \in P
  <2>1. n + 1 \in 1 .. N /\ (n + 1) - 1 = n /\ n + 1 \in Nat /\ n \in Nat
    OBVIOUS
  <2>2. r[n + 1] = PendedTick(r[n])
    BY <1>1, <2>1 DEF Changes, Change
  <2>3. To(r[n], n)
    BY <1>4
  <2>4. Ticked(r[n], r[n + 1])
    BY <2>2, <2>3, PendedTickIs
  <2>5. /\ Good(r[n + 1]) /\ \A f \in Still : r[n + 1][f] = k[f]
        /\ r[n + 1].uxSchedulerSuspended = k.uxSchedulerSuspended
        /\ r[n + 1].xTickCount = (r[n].xTickCount + 1) % TickRange
        /\ r[n].xTickCount = (k.xTickCount + n) % TickRange
    BY <2>3, <2>4 DEF Ticked
  <2>6. (((k.xTickCount + n) % TickRange) + 1) % TickRange = ((k.xTickCount + n) + 1) % TickRange
    <3>1. k.xTickCount + n \in Int /\ 1 \in Int
      BY <1>2, <2>1
    <3> QED BY <1>2, <3>1, RemainderOfSum
  <2>7. (k.xTickCount + n) + 1 = k.xTickCount + (n + 1)
    BY <1>2, <2>1
  <2>8. r[n + 1].xTickCount = (k.xTickCount + (n + 1)) % TickRange
    BY <2>5, <2>6, <2>7
  <2> QED BY <2>1, <2>5, <2>8
<1> HIDE DEF P
<1>5. \A n \in 0 .. N : n \in P
  BY <1>3, <1>4, Induct
<1>6. To(all, N)
  BY <1>1, <1>5 DEF P
<1> QED BY <1>6 DEF all

\* xTaskResumeAll(): the scheduler goes on when it is no longer suspended.
LEMMA ResumeAllIs ==
  ASSUME NEW k, Good(k)
  PROVE  LET k1 == xTaskResumeAll(k)
         IN  /\ Good(k1) /\ \A f \in Still : k1[f] = k[f]
             /\ k1.uxSchedulerSuspended = k.uxSchedulerSuspended - 1
             /\ IF k1.uxSchedulerSuspended > 0
                THEN k1.xTickCount = k.xTickCount /\ k1.xPendedTicks = k.xPendedTicks
                ELSE /\ k1.xTickCount = (k.xTickCount + k.xPendedTicks) % TickRange
                     /\ k1.xPendedTicks = 0
<1> DEFINE k0 == [k EXCEPT !.uxSchedulerSuspended = @ - 1]
           k1 == InTurn(ReadyPended, k0, k0.xPendingReadyList)
           k2 == IF k0.xPendingReadyList = <<>> THEN k1 ELSE prvResetNextTaskUnblockTime(k1)
           k3 == TicksMadeUp(k2, k.xPendedTicks)
           k4 == [k3 EXCEPT !.xPendedTicks = 0]
<1>1. xTaskResumeAll(k) = IF k0.uxSchedulerSuspended > 0 THEN k0 ELSE k4
  BY DEF xTaskResumeAll, TicksMadeUp
<1>2. IsState(k) /\ Types(k)
  BY GoodTypes, TypesOf
<1>3. Same(k, k0, {"uxSchedulerSuspended"}) /\ k0.uxSchedulerSuspended = k.uxSchedulerSuspended - 1
  BY <1>2 DEF IsState, Same, Fields
<1> HIDE DEF k0
<1>4. Good(k0)
  <2>1. Types(k0)
    BY <1>2, <1>3 DEF Same, Fields, Types
  <2> QED BY <1>3, <2>1, TypesGood DEF Same, Fields, Structure
<1>5. CASE k0.uxSchedulerSuspended > 0
  BY <1>1, <1>3, <1>4, <1>5 DEF Same, Fields, Still, Kept
<1>6. CASE ~(k0.uxSchedulerSuspended > 0)
  <2>1. Moves(k0, k1)
    <3>1. k0.xPendingReadyList \in Seq(Tasks)
      BY <1>4, TypesOf DEF Types
    <3> QED BY <1>4, <3>1, PendedMoves
  <2> HIDE DEF k1
  <2>2. Moves(k0, k2)
    BY <2>1, ResetMoves, MovesTwice DEF Moves
  <2> HIDE DEF k2
  <2>3. /\ Good(k2) /\ ~(k2.uxSchedulerSuspended > 0) /\ k2.xTickCount = k.xTickCount
        /\ k2.uxSchedulerSuspended = k0.uxSchedulerSuspended /\ \A f \in Still : k2[f] = k[f]
        /\ k.xPendedTicks \in Nat
    BY <1>2, <1>3, <1>6, <2>2 DEF Moves, Kept, Still, Same, Fields, Types
  <2>4. /\ Good(k3) /\ \A f \in Still : k3[f] = k[f]
        /\ k3.uxSchedulerSuspended = k0.uxSchedulerSuspended
        /\ k3.xTickCount = (k.xTickCount + k.xPendedTicks) % TickRange
    BY <2>3, TicksMadeUpIs
  <2> HIDE DEF k3
  <2>5. Same(k3, k4, {"xPendedTicks"}) /\ k4.xPendedTicks = 0
    <3>1. IsState(k3)
      BY <2>4, GoodTypes
    <3> QED BY <3>1 DEF IsState, Same, Fields
  <2> HIDE DEF k4
  <2>6. Good(k4)
    <3>1. Types(k4)
      BY <2>4, <2>5, TypesOf DEF Same, Fields, Types
    <3> QED BY <2>4, <2>5, <3>1, TypesGood DEF Same, Fields, Structure
  <2> QED BY <1>1, <1>3, <1>6, <2>4, <2>5, <2>6 DEF Same, Fields, Still, Kept
<1> QED BY <1>5, <1>6

---------------------------------------------------------------------------
(* Events and priorities *)

\* a change of what is not in the structure, nor kept
LEMMA FieldsMove ==
  ASSUME NEW k, Good(k), NEW k1,
         Same(k, k1, {"xYieldPending", "ucNotifyState", "ulNotifiedValue", "xNumOfOverflows"})
  PROVE  Moves(k, k1)
<1>1. Types(k1)
  BY TypesOf DEF Same, Fields, Types
<1>2. Good(k1)
  BY <1>1, TypesGood DEF Same, Fields, Structure
<1> QED BY <1>2 DEF Moves, Same, Fields, Kept

LEMMA PendMoves ==
  ASSUME NEW k, Good(k), NEW t \in Tasks
  PROVE  Moves(k, [k EXCEPT !.xPendingReadyList = Append(@, t)])
<1> DEFINE k1 == [k EXCEPT !.xPendingReadyList = Append(@, t)]
<1>1. Same(k, k1, {"xPendingReadyList"}) /\ k1.xPendingReadyList = Append(k.xPendingReadyList, t)
  BY ZenonT(40), GoodTypes DEF IsState, Same, Fields
<1> HIDE DEF k1
<1>2. Types(k1)
  BY <1>1, TypesOf DEF Same, Fields, Types
<1>3. Good(k1)
  BY <1>1, <1>2, TypesGood DEF Same, Fields, Structure
<1> QED BY <1>1, <1>3 DEF Moves, Same, Fields, Kept, k1

LEMMA PlaceMoves ==
  ASSUME NEW k, Good(k), k.pxCurrentTCB \in Tasks, NEW e \in EventLists, NEW ticks \in Int
  PROVE  Moves(k, vTaskPlaceOnEventList(k, e, ticks))
<1> DEFINE l  == vListInsert(k.xEventLists[e], k.pxCurrentTCB, k.xEventValue)
           k1 == [k EXCEPT !.xEventLists[e] = vListInsert(@, k.pxCurrentTCB, k.xEventValue)]
<1>1. Same(k, k1, {"xEventLists"}) /\ k1.xEventLists = [k.xEventLists EXCEPT ![e] = l]
  BY SMTT(30), GoodTypes DEF IsState, Same, Fields
<1>2. l \in Seq(Tasks)
  BY TypesOf, SeqInserted DEF Types
<1> HIDE DEF k1, l
<1>3. Types(k1)
  BY <1>1, <1>2, TypesOf DEF Same, Fields, Types
<1>4. Good(k1) /\ k1.pxCurrentTCB \in Tasks
  BY <1>1, <1>3, TypesGood DEF Same, Fields, Structure
<1>5. Moves(k, k1)
  BY <1>1, <1>4 DEF Moves, Same, Fields, Kept
<1>6. Moves(k1, prvAddCurrentTaskToDelayedList(k1, ticks, TRUE))
  BY <1>4, SleepMoves
<1>7. vTaskPlaceOnEventList(k, e, ticks) = prvAddCurrentTaskToDelayedList(k1, ticks, TRUE)
  BY DEF vTaskPlaceOnEventList, k1
<1> QED BY <1>5, <1>6, <1>7, MovesTwice

LEMMA UnblockMoves ==
  ASSUME NEW k, Good(k), NEW t \in Tasks PROVE Moves(k, Unblock(k, t))
<1> DEFINE k1 == UnlinkEvent(k, t)
           k2 == IF k.uxSchedulerSuspended = 0 THEN MakeReady(k1, t)
                 ELSE [k1 EXCEPT !.xPendingReadyList = Append(@, t)]
           k3 == Unblock(k, t)
           w  == WakesHigher(k, t)
<1>1. Moves(k, k1) /\ Good(k1)
  BY UnlinkEventMoves DEF Moves
<1>2. k3 = [k2 EXCEPT !.xYieldPending = @ \/ w]
  BY DEF Unblock
<1> HIDE DEF k1, k3, w
<1>3. Moves(k1, k2)
  BY <1>1, MakeReadyMoves, PendMoves
<1> HIDE DEF k2
<1>4. Good(k2) /\ IsState(k2)
  BY <1>3, GoodTypes DEF Moves
<1>5. Same(k2, k3, {"xYieldPending"})
  BY <1>2, <1>4 DEF IsState, Same, Fields
<1>6. Moves(k2, k3)
  <2>1. Same(k2, k3, {"xYieldPending", "ucNotifyState", "ulNotifiedValue", "xNumOfOverflows"})
    BY <1>5 DEF Same
  <2> QED BY <1>4, <2>1, FieldsMove
<1> QED BY <1>1, <1>3, <1>6, MovesTwice DEF k3

LEMMA RemoveFromEventListMoves ==
  ASSUME NEW k, Good(k), NEW e \in EventLists, k.xEventLists[e] # <<>>
  PROVE  Moves(k, xTaskRemoveFromEventList(k, e))
<1>1. k.xEventLists[e] \in Seq(Tasks)
  BY TypesOf DEF Types
<1>2. Head(k.xEventLists[e]) \in Tasks
  BY <1>1
<1> QED BY <1>2, UnblockMoves DEF xTaskRemoveFromEventList

---------------------------------------------------------------------------
(* Priorities *)

\* k1 is k, its tasks at other places and t at another priority
Prioritised(k, k1, t) ==
  /\ Good(k1)
  /\ \A f \in Kept \ {"uxPriority", "xEventValue"} : k1[f] = k[f]
  /\ \A x \in AllTasks \ {t} : k1.uxPriority[x] = k.uxPriority[x]

LEMMA PriorityGood ==
  ASSUME NEW k, Good(k), NEW t \in Tasks, NEW p \in Priorities
  PROVE  LET k1 == [k EXCEPT !.uxPriority[t] = p]
         IN  /\ Good(k1) /\ Same(k, k1, {"uxPriority"})
             /\ k1.uxPriority = [k.uxPriority EXCEPT ![t] = p]
<1> DEFINE k1 == [k EXCEPT !.uxPriority[t] = p]
<1>1. Same(k, k1, {"uxPriority"}) /\ k1.uxPriority = [k.uxPriority EXCEPT ![t] = p]
  BY GoodTypes DEF IsState, Same, Fields
<1> HIDE DEF k1
<1>2. Types(k1)
  <2>1. Types(k) /\ t \in AllTasks /\ t # Idle
    BY TypesOf, Bounds
  <2> QED BY SMTT(30), <1>1, <2>1 DEF Same, Fields, Types
<1>3. Good(k1)
  BY <1>1, <1>2, TypesGood DEF Same, Fields, Structure
<1> QED BY <1>1, <1>3 DEF k1

LEMMA EventValueGood ==
  ASSUME NEW k, Good(k), NEW t \in Tasks, NEW p \in Priorities
  PROVE  LET k1 == [k EXCEPT !.xEventValue[t] = configMAX_PRIORITIES - p]
         IN  Good(k1) /\ Same(k, k1, {"xEventValue"})
<1> DEFINE v  == configMAX_PRIORITIES - p
           k1 == [k EXCEPT !.xEventValue[t] = v]
<1>1. Same(k, k1, {"xEventValue"}) /\ k1.xEventValue = [k.xEventValue EXCEPT ![t] = v]
  BY GoodTypes DEF IsState, Same, Fields
<1>2. v \in 1 .. configMAX_PRIORITIES
  BY TasksAssumption DEF Priorities
<1> HIDE DEF k1, v
<1>3. Types(k1)
  <2>1. Types(k)
    BY TypesOf
  <2> QED BY <1>1, <1>2, <2>1 DEF Same, Fields, Types
<1>4. Good(k1)
  BY <1>1, <1>3, TypesGood DEF Same, Fields, Structure
<1> QED BY <1>1, <1>4 DEF k1, v

LEMMA MoveToPriorityIs ==
  ASSUME NEW k, Good(k), NEW t \in Tasks, NEW p \in Priorities
  PROVE  LET k1 == MoveToPriority(k, t, p)
         IN  /\ Good(k1) /\ k1.uxPriority = [k.uxPriority EXCEPT ![t] = p]
             /\ \A f \in Kept \ {"uxPriority"} : k1[f] = k[f]
<1> DEFINE k1 == [k EXCEPT !.uxPriority[t] = p]
           k2 == MoveToPriority(k, t, p)
<1>1. /\ Good(k1) /\ Same(k, k1, {"uxPriority"})
      /\ k1.uxPriority = [k.uxPriority EXCEPT ![t] = p]
  BY PriorityGood
<1>2. k2 \in {k1, MakeReady(k1, t)}
  BY DEF MoveToPriority
<1> HIDE DEF k1, k2
<1>3. Moves(k1, k2)
  BY <1>1, <1>2, MakeReadyMoves, MovesNot
<1> QED BY <1>1, <1>3 DEF Moves, Same, Fields, Kept, k2

\* a task moves to a priority, and its place among those that wait for an event with it
LEMMA PrioritisedIs ==
  ASSUME NEW k, Good(k), NEW t \in Tasks, NEW p \in Priorities
  PROVE  LET k1 == [MoveToPriority(k, t, p) EXCEPT !.xEventValue[t] = configMAX_PRIORITIES - p]
         IN  Prioritised(k, k1, t) /\ k1.uxPriority[t] = p
<1> DEFINE k1 == MoveToPriority(k, t, p)
           k2 == [k1 EXCEPT !.xEventValue[t] = configMAX_PRIORITIES - p]
<1>1. /\ Good(k1) /\ k1.uxPriority = [k.uxPriority EXCEPT ![t] = p]
      /\ \A f \in Kept \ {"uxPriority"} : k1[f] = k[f]
  BY MoveToPriorityIs
<1> HIDE DEF k1
<1>2. Good(k2) /\ Same(k1, k2, {"xEventValue"})
  BY <1>1, EventValueGood
<1> HIDE DEF k2
<1>3. t \in AllTasks /\ k.uxPriority \in [AllTasks -> Priorities]
  BY GoodTypes, Bounds
<1> QED BY <1>1, <1>2, <1>3 DEF Prioritised, Same, Fields, Kept, k1, k2

LEMMA InheritIs ==
  ASSUME NEW k, Good(k), NEW holder \in Tasks \cup {NoTask}
  PROVE  LET k1 == xTaskPriorityInherit(k, holder)
         IN  Prioritised(k, k1, holder) /\ (holder = NoTask => k1 = k)
<1>1. k.uxPriority[k.pxCurrentTCB] \in Priorities
  BY GoodTypes
<1>2. Prioritised(k, k, holder)
  BY DEF Prioritised
<1> QED BY <1>1, <1>2, PrioritisedIs DEF xTaskPriorityInherit

LEMMA DisinheritAfterTimeoutIs ==
  ASSUME NEW k, Good(k), NEW holder \in Tasks \cup {NoTask}, NEW highestWaiting \in Priorities
  PROVE  LET k1 == vTaskPriorityDisinheritAfterTimeout(k, holder, highestWaiting)
         IN  Prioritised(k, k1, holder) /\ (holder = NoTask => k1 = k)
<1> DEFINE base == k.uxBasePriority[holder]
           p    == IF base < highestWaiting THEN highestWaiting ELSE base
<1>1. holder \in Tasks => p \in Priorities
  BY GoodTypes, Bounds, TypesOf DEF Types
<1>2. Prioritised(k, k, holder)
  BY DEF Prioritised
<1> QED BY <1>1, <1>2, PrioritisedIs DEF vTaskPriorityDisinheritAfterTimeout

\* The holder has one mutex less; when it has none it runs at its own priority.
LEMMA DisinheritIs ==
  ASSUME NEW k, Good(k), NEW holder \in Tasks
  PROVE  LET k1 == xTaskPriorityDisinherit(k, holder)
         IN  /\ Good(k1)
             /\ \A f \in Kept \ {"uxPriority", "xEventValue", "uxMutexesHeld"} : k1[f] = k[f]
             /\ k1.uxMutexesHeld = [k.uxMutexesHeld EXCEPT ![holder] = @ - 1]
             /\ \A x \in AllTasks \ {holder} : k1.uxPriority[x] = k.uxPriority[x]
             /\ k.uxMutexesHeld[holder] = 1 => k1.uxPriority[holder] = k.uxBasePriority[holder]
<1> DEFINE k1 == [k EXCEPT !.uxMutexesHeld[holder] = @ - 1]
           p  == k.uxBasePriority[holder]
           k2 == [k1 EXCEPT !.uxPriority[holder] = p]
           k3 == MakeReady(k2, holder)
           k4 == [k3 EXCEPT !.xEventValue[holder] = configMAX_PRIORITIES - p]
<1>0. holder # NoTask /\ holder \in AllTasks /\ p \in Priorities
  BY GoodTypes, Bounds, TypesOf DEF Types
<1>1. xTaskPriorityDisinherit(k, holder) = IF Disinherits(k, holder) THEN k4 ELSE k1
  BY <1>0 DEF xTaskPriorityDisinherit
<1>2. /\ Same(k, k1, {"uxMutexesHeld"})
      /\ k1.uxMutexesHeld = [k.uxMutexesHeld EXCEPT ![holder] = k.uxMutexesHeld[holder] - 1]
  BY GoodTypes DEF IsState, Same, Fields
<1> HIDE DEF k1, p
<1>3. Good(k1)
  <2>1. Types(k1)
    BY <1>0, <1>2, TypesOf DEF Same, Fields, Types
  <2> QED BY <1>2, <2>1, TypesGood DEF Same, Fields, Structure
<1>4. CASE Disinherits(k, holder)
  <2>1. /\ Good(k2) /\ Same(k1, k2, {"uxPriority"})
        /\ k2.uxPriority = [k1.uxPriority EXCEPT ![holder] = p]
    BY <1>0, <1>3, PriorityGood
  <2> HIDE DEF k2
  <2>2. Moves(k2, k3) /\ Good(k3)
    BY <2>1, MakeReadyMoves DEF Moves
  <2> HIDE DEF k3
  <2>3. Good(k4) /\ Same(k3, k4, {"xEventValue"})
    BY <1>0, <2>2, EventValueGood
  <2> HIDE DEF k4
  <2>4. k.uxPriority \in [AllTasks -> Priorities]
    BY GoodTypes
  <2> QED BY <1>0, <1>1, <1>2, <1>4, <2>1, <2>2, <2>3, <2>4 DEF Moves, Same, Fields, Kept, p
<1>5. CASE ~Disinherits(k, holder)
  <2>1. k.uxMutexesHeld[holder] = 1 => k.uxPriority[holder] = k.uxBasePriority[holder]
    BY <1>0, <1>5 DEF Disinherits
  <2> QED BY <1>0, <1>1, <1>2, <1>3, <1>5, <2>1 DEF Same, Fields, Kept
<1> QED BY <1>4, <1>5

---------------------------------------------------------------------------
(* Tasks that are created *)

\* t has joined the ready tasks of priority p, and nothing else has changed
Joined(k, k1, t, p) ==
  /\ Sound(k1) /\ OthersStay(k, k1, t) /\ Contains(k1.pxReadyTasksLists[p], t)
  /\ Same(k, k1, {"uxPriority", "uxBasePriority", "uxMutexesHeld", "xEventValue",
                  "ucNotifyState", "ulNotifiedValue", "uxTopReadyPriority",
                  "pxReadyTasksLists"})
  /\ k1.uxPriority = [k.uxPriority EXCEPT ![t] = p]
  /\ k1.uxBasePriority = [k.uxBasePriority EXCEPT ![t] = p]
  /\ k1.uxMutexesHeld = [k.uxMutexesHeld EXCEPT ![t] = 0]

LEMMA NewTaskIs ==
  ASSUME NEW k, Sound(k), NEW t \in AllTasks, NEW p \in Priorities, IsFree(k, t)
  PROVE  Joined(k, prvAddNewTaskToReadyList(k, t, p), t, p)
<1> DEFINE k1 == [k EXCEPT !.uxPriority[t] = p, !.uxBasePriority[t] = p, !.uxMutexesHeld[t] = 0,
                           !.xEventValue[t] = configMAX_PRIORITIES - p,
                           !.ucNotifyState[t] = "NotWaiting", !.ulNotifiedValue[t] = 0]
           k2 == prvAddNewTaskToReadyList(k, t, p)
           v  == configMAX_PRIORITIES - p
<1>1. k2 = prvAddTaskToReadyList(k1, t)
  BY DEF prvAddNewTaskToReadyList
<1>2. v \in 1 .. configMAX_PRIORITIES
  BY TasksAssumption DEF Priorities
<1>3. /\ Same(k, k1, {"uxPriority", "uxBasePriority", "uxMutexesHeld", "xEventValue",
                      "ucNotifyState", "ulNotifiedValue"})
      /\ k1.uxPriority = [k.uxPriority EXCEPT ![t] = p]
      /\ k1.uxBasePriority = [k.uxBasePriority EXCEPT ![t] = p]
      /\ k1.uxMutexesHeld = [k.uxMutexesHeld EXCEPT ![t] = 0]
      /\ k1.xEventValue = [k.xEventValue EXCEPT ![t] = v]
  <2>1. IsState(k)
    BY DEF Sound
  <2> QED BY ZenonT(40), <2>1 DEF IsState, Same, Fields
<1> HIDE DEF k1, k2, v
<1>4. \A x \in AllTasks : Once(k1, x)
  <2>1. \A x \in AllTasks : Once(k, x)
    BY DEF Sound
  <2> QED BY <1>3, <2>1 DEF Once, IsReady, IsTerminated, Same, Fields
<1>5. Sound(k1)
  BY SMTT(30), <1>2, <1>3, <1>4 DEF Sound, Same, Fields
<1>6. IsFree(k1, t) /\ k1.uxPriority[t] = p
  BY <1>3 DEF IsFree, IsReady, IsTerminated, IsSleeping, Same, Fields, Sound
<1>7. OthersStay(k, k1, t)
  BY <1>3 DEF OthersStay, IsFree, IsReady, IsTerminated, IsSleeping, Same, Fields
<1>8. /\ Sound(k2) /\ Same(k1, k2, {"uxTopReadyPriority", "pxReadyTasksLists"})
      /\ Contains(k2.pxReadyTasksLists[p], t) /\ OthersStay(k1, k2, t)
  BY <1>1, <1>5, <1>6, AddReadySound
<1>9. OthersStay(k, k2, t)
  BY <1>7, <1>8 DEF OthersStay
<1>10. Same(k, k2, {"uxPriority", "uxBasePriority", "uxMutexesHeld", "xEventValue",
                    "ucNotifyState", "ulNotifiedValue", "uxTopReadyPriority",
                    "pxReadyTasksLists"})
  BY <1>3, <1>8 DEF Same, Fields
<1>11. /\ k2.uxPriority = k1.uxPriority /\ k2.uxBasePriority = k1.uxBasePriority
       /\ k2.uxMutexesHeld = k1.uxMutexesHeld
  BY <1>8 DEF Same, Fields
<1> QED BY <1>3, <1>8, <1>9, <1>10, <1>11 DEF k2, Joined

\* xTaskCreate() of a task of the application
LEMMA CreatedIs ==
  ASSUME NEW k, Good(k), NEW t \in Tasks, NEW p \in Priorities, IsFree(k, t)
  PROVE  LET k1 == prvAddNewTaskToReadyList(k, t, p)
         IN  /\ Good(k1) /\ k1.pxCurrentTCB = k.pxCurrentTCB
             /\ \A f \in {"xTickCount", "xPendedTicks", "uxSchedulerSuspended"} : k1[f] = k[f]
             /\ k1.uxPriority = [k.uxPriority EXCEPT ![t] = p]
             /\ k1.uxBasePriority = [k.uxBasePriority EXCEPT ![t] = p]
             /\ k1.uxMutexesHeld = [k.uxMutexesHeld EXCEPT ![t] = 0]
<1> DEFINE k1 == prvAddNewTaskToReadyList(k, t, p)
<1>1. t \in AllTasks /\ Idle \in AllTasks \ {t} /\ 0 \in Priorities
  BY Bounds
<1>2. /\ Sound(k1) /\ OthersStay(k, k1, t)
      /\ Same(k, k1, {"uxPriority", "uxBasePriority", "uxMutexesHeld", "xEventValue",
                      "ucNotifyState", "ulNotifiedValue", "uxTopReadyPriority",
                      "pxReadyTasksLists"})
      /\ k1.uxPriority = [k.uxPriority EXCEPT ![t] = p]
      /\ k1.uxBasePriority = [k.uxBasePriority EXCEPT ![t] = p]
      /\ k1.uxMutexesHeld = [k.uxMutexesHeld EXCEPT ![t] = 0]
  <2>1. Sound(k)
    BY GoodTypes
  <2>2. Joined(k, k1, t, p)
    BY <1>1, <2>1, NewTaskIs
  <2> HIDE DEF k1
  <2> QED BY <2>2 DEF Joined
<1> HIDE DEF k1
<1>3. Contains(k1.pxReadyTasksLists[0], Idle)
  BY <1>1, <1>2 DEF OthersStay, Good
<1>4. k1.uxPriority[Idle] = 0
  BY <1>1, <1>2 DEF Good, Sound
<1> QED BY <1>2, <1>3, <1>4 DEF Good, Same, Fields, k1

\* the tasks that the scheduler starts with
AllCreated(k, ts, priority) ==
  InTurn(LAMBDA s, t : prvAddNewTaskToReadyList(s, t, priority[t]), k, ts)

LEMMA CreatedInTurn ==
  ASSUME NEW k, NEW ts \in Seq(Tasks), NEW priority
  PROVE  \E r : /\ Changes("created", k, [n \in 1 .. Len(ts) |-> <<ts[n], priority[ts[n]]>>], Len(ts), r)
                /\ AllCreated(k, ts, priority) = r[Len(ts)]
<1> DEFINE N == Len(ts)
           args == [n \in 1 .. N |-> <<ts[n], priority[ts[n]]>>]
           B(g, n) == IF n = 0 THEN k ELSE Change("created", g[n - 1], args[n])
           C(g, n) == IF n = 0 THEN k ELSE prvAddNewTaskToReadyList(g[n - 1], ts[n], priority[ts[n]])
<1>1. N \in Nat
  OBVIOUS
<1>2. PICK g : Changes("created", k, args, N, g)
  <2> HIDE DEF args
  <2> QED BY <1>1, ChangesExist
<1>3. \A f, n : n \in 0 .. N => B(f, n) = C(f, n)
  BY <1>1 DEF Change
<1>4. \A n \in 0 .. N : g[n] = B(g, n)
  <2> HIDE DEF args, N
  <2>1. g[0] = k /\ \A n \in 1 .. N : g[n] = Change("created", g[n - 1], args[n])
    BY <1>2 DEF Changes
  <2> QED BY <1>1, <2>1
<1>5. g = [n \in 0 .. N |-> C(g, n)]
  <2> HIDE DEF B, C, args
  <2> QED BY <1>2, <1>3, <1>4 DEF Changes
<1> DEFINE r == CHOOSE f : f = [n \in 0 .. N |-> C(f, n)]
<1>6. r = [n \in 0 .. N |-> C(r, n)]
  BY <1>5
<1>7. AllCreated(k, ts, priority) = r[N]
  BY DEF InTurn, AllCreated
<1> HIDE DEF r
<1>8. r = [n \in 0 .. N |-> r[n]] /\ \A n \in 0 .. N : r[n] = B(r, n)
  <2> HIDE DEF B, C
  <2> QED BY <1>3, <1>6
<1>9. Changes("created", k, args, N, r)
  <2> HIDE DEF args
  <2> QED BY <1>1, <1>8 DEF Changes
<1> QED BY <1>7, <1>9

\* how the tasks begin: with no mutex, at their own priority, and no tick pending
Begins(k) ==
  /\ k.xTickCount = 0 /\ k.xPendedTicks = 0 /\ k.uxSchedulerSuspended = 0
  /\ k.pxDelayedTaskList = <<>> /\ k.pxOverflowDelayedTaskList = <<>> /\ k.xNumOfOverflows = 0
  /\ \A t \in AllTasks : k.uxMutexesHeld[t] = 0 /\ k.uxPriority[t] = k.uxBasePriority[t]

LEMMA CreatedAtStart ==
  ASSUME NEW k, Sound(k), Begins(k), \A t \in AllTasks : IsFree(k, t),
         NEW ts \in Seq(Tasks), IsInjective(ts), NEW priority, \A t \in Tasks : priority[t] \in Priorities
  PROVE  LET k1 == AllCreated(k, ts, priority)
         IN  Sound(k1) /\ Begins(k1) /\ IsFree(k1, Idle)
<1> DEFINE N == Len(ts)
           args == [n \in 1 .. N |-> <<ts[n], priority[ts[n]]>>]
           all == AllCreated(k, ts, priority)
           To(k1, n) == /\ Sound(k1) /\ Begins(k1)
                        /\ \A t \in AllTasks : (\A i \in 1 .. n : ts[i] # t) => IsFree(k1, t)
<1>1. PICK r : Changes("created", k, args, N, r) /\ all = r[N]
  BY CreatedInTurn
<1> HIDE DEF all
<1>2. /\ N \in Nat /\ \A n \in 1 .. N : ts[n] \in Tasks
      /\ \A i, j \in 1 .. N : ts[i] = ts[j] => i = j
  BY DEF IsInjective
<1> DEFINE P == {n \in Nat : To(r[n], n)}
<1>3. 0 \in P
  <2>1. r[0] = k
    BY <1>1 DEF Changes
  <2> QED BY <2>1
<1>4. ASSUME NEW n \in 0 .. N - 1, n \in P PROVE n + 1 \in P
  <2> DEFINE t == ts[n + 1]  s == r[n]  s1 == r[n + 1]
  <2>1. n + 1 \in 1 .. N /\ (n + 1) - 1 = n /\ n + 1 \in Nat /\ \A i \in 1 .. n : i \in 1 .. N /\ i # n + 1
    BY <1>2
  <2>2. t \in Tasks /\ t \in AllTasks /\ priority[t] \in Priorities /\ \A i \in 1 .. n : ts[i] # t
    BY <1>2, <2>1, Bounds
  <2>3. s1 = prvAddNewTaskToReadyList(s, t, priority[t])
    <3>1. s1 = Change("created", s, args[n + 1]) /\ args[n + 1] = <<t, priority[t]>>
      BY <1>1, <2>1 DEF Changes
    <3>2. \A x : Change("created", s, x) = prvAddNewTaskToReadyList(s, x[1], x[2])
      BY DEF Change
    <3> QED BY <3>1, <3>2
  <2>4. To(s, n) /\ IsFree(s, t)
    BY <1>4, <2>2
  <2> HIDE DEF args, t, s, s1
  <2>j. Joined(s, s1, t, priority[t])
    <3> DEFINE p == priority[t]
    <3>1. Sound(s) /\ IsFree(s, t) /\ t \in AllTasks /\ p \in Priorities
      BY <2>2, <2>4
    <3>2. s1 = prvAddNewTaskToReadyList(s, t, p)
      BY <2>3
    <3>3. Joined(s, s1, t, p)
      <4> HIDE DEF To, p
      <4> QED BY <3>1, <3>2, NewTaskIs
    <3> QED BY <3>3
  <2>5. /\ Sound(s1) /\ OthersStay(s, s1, t)
        /\ Same(s, s1, {"uxPriority", "uxBasePriority", "uxMutexesHeld", "xEventValue",
                        "ucNotifyState", "ulNotifiedValue", "uxTopReadyPriority",
                        "pxReadyTasksLists"})
        /\ s1.uxPriority = [s.uxPriority EXCEPT ![t] = priority[t]]
        /\ s1.uxBasePriority = [s.uxBasePriority EXCEPT ![t] = priority[t]]
        /\ s1.uxMutexesHeld = [s.uxMutexesHeld EXCEPT ![t] = 0]
    BY <2>j DEF Joined
  <2>6. Begins(s1)
    <3>1. /\ s1.xTickCount = 0 /\ s1.xPendedTicks = 0 /\ s1.uxSchedulerSuspended = 0
          /\ s1.pxDelayedTaskList = <<>> /\ s1.pxOverflowDelayedTaskList = <<>>
          /\ s1.xNumOfOverflows = 0
      BY <2>4, <2>5 DEF Begins, Same, Fields
    <3>2. /\ s.uxPriority \in [AllTasks -> Priorities] /\ s.uxBasePriority \in [AllTasks -> Priorities]
          /\ s.uxMutexesHeld \in [AllTasks -> Int]
      BY <2>4 DEF Sound
    <3> QED BY <2>2, <2>4, <2>5, <3>1, <3>2 DEF Begins
  <2>7. ASSUME NEW x \in AllTasks, \A i \in 1 .. n + 1 : ts[i] # x PROVE IsFree(s1, x)
    <3>1. x # t /\ \A i \in 1 .. n : ts[i] # x
      BY <2>1, <2>7 DEF t
    <3>2. IsFree(s, x)
      BY <2>4, <3>1
    <3> QED BY <2>5, <3>1, <3>2 DEF OthersStay
  <2>8. To(s1, n + 1)
    BY <2>5, <2>6, <2>7
  <2> QED BY <2>1, <2>8 DEF s1
<1> HIDE DEF P
<1>5. \A n \in 0 .. N : n \in P
  BY <1>2, <1>3, <1>4, Induct
<1>6. To(all, N)
  BY <1>1, <1>2, <1>5 DEF P
<1>7. \A i \in 1 .. N : ts[i] # Idle
  BY <1>2, Bounds
<1> QED BY <1>6, <1>7, Bounds DEF all

\* The scheduler starts as it should.
LEMMA StartIs ==
  ASSUME NEW created \in Seq(Tasks), IsInjective(created),
         NEW priority, \A t \in Tasks : priority[t] \in Priorities
  PROVE  LET k == vTaskStartScheduler(created, priority) IN Good(k) /\ Begins(k)
<1> DEFINE none == [t \in AllTasks |-> 0]
           k0 == [pxCurrentTCB |-> Idle,
               pxReadyTasksLists |-> [p \in Priorities |-> EmptyRing],
               uxTopReadyPriority |-> 0,
               pxDelayedTaskList |-> <<>>, pxOverflowDelayedTaskList |-> <<>>,
               xSuspendedTaskList |-> {}, xPendingReadyList |-> <<>>,
               xTasksWaitingTermination |-> <<>>,
               xEventLists |-> [e \in EventLists |-> <<>>],
               xWakeTime |-> none,
               xEventValue |-> [t \in AllTasks |-> configMAX_PRIORITIES],
               uxPriority |-> none, uxBasePriority |-> none, uxMutexesHeld |-> none,
               xTickCount |-> 0, xNumOfOverflows |-> 0,
               xNextTaskUnblockTime |-> portMAX_DELAY,
               uxSchedulerSuspended |-> 0, xPendedTicks |-> 0, xYieldPending |-> FALSE,
               ucNotifyState |-> [t \in AllTasks |-> "NotWaiting"],
               ulNotifiedValue |-> none]
           k1  == AllCreated(k0, created, priority)
           k2  == prvAddNewTaskToReadyList(k1, Idle, 0)
           all == Append(created, Idle)
           top == Max({k2.uxPriority[all[i]] : i \in DOMAIN all})
           cur == all[Max({i \in DOMAIN all : k2.uxPriority[all[i]] = top})]
           k3  == [k2 EXCEPT !.pxCurrentTCB = cur]
<1>1. vTaskStartScheduler(created, priority) = k3
  BY DEF vTaskStartScheduler, AllCreated
<1>2. IsState(k0)
  BY DEF IsState, Fields
<1>3. IsRing(EmptyRing) /\ \A x \in AllTasks : ~Contains(EmptyRing, x)
  <2>1. EmptyRing \in Seq(Entries) /\ Len(EmptyRing) = 1 /\ EmptyRing[1] = xListEnd
    BY DEF EmptyRing, Entries
  <2> QED BY <2>1, Bounds DEF IsRing, IsList, Contains
<1>4. /\ IsList(<<>>, Tasks) /\ <<>> \in Seq(Tasks) /\ \A x : ~Contains(<<>>, x)
  BY DEF IsList, Contains
<1>5. none \in [AllTasks -> Priorities] /\ none \in [AllTasks -> Ticks] /\ none \in [AllTasks -> Int]
  BY Bounds
<1>6. [t \in AllTasks |-> configMAX_PRIORITIES] \in [AllTasks -> 1 .. configMAX_PRIORITIES]
  BY TasksAssumption
<1>7. \A x \in AllTasks : Once(k0, x) /\ IsFree(k0, x)
  BY <1>3, <1>4 DEF Once, IsFree, IsReady, IsSleeping, IsTerminated
<1>8. Rings(k0.pxReadyTasksLists) /\ k0.xEventLists \in [EventLists -> Seq(Tasks)]
  BY <1>3, <1>4 DEF Rings
<1>9. Sound(k0)
  BY <1>2, <1>4, <1>5, <1>6, <1>7, <1>8, Bounds DEF Sound
<1>10. Begins(k0)
  BY DEF Begins
<1> HIDE DEF k0
<1>11. Sound(k1) /\ Begins(k1) /\ IsFree(k1, Idle)
  BY <1>7, <1>9, <1>10, CreatedAtStart
<1> HIDE DEF k1
<1>a. Sound(k1) /\ IsFree(k1, Idle) /\ Idle \in AllTasks /\ 0 \in Priorities
  BY <1>11, Bounds
<1>12. /\ Sound(k2) /\ Contains(k2.pxReadyTasksLists[0], Idle)
       /\ Same(k1, k2, {"uxPriority", "uxBasePriority", "uxMutexesHeld", "xEventValue",
                        "ucNotifyState", "ulNotifiedValue", "uxTopReadyPriority",
                        "pxReadyTasksLists"})
       /\ k2.uxPriority = [k1.uxPriority EXCEPT ![Idle] = 0]
       /\ k2.uxBasePriority = [k1.uxBasePriority EXCEPT ![Idle] = 0]
       /\ k2.uxMutexesHeld = [k1.uxMutexesHeld EXCEPT ![Idle] = 0]
  <2>1. Joined(k1, k2, Idle, 0)
    BY <1>a, NewTaskIs
  <2> HIDE DEF k2
  <2> QED BY <2>1 DEF Joined
<1> HIDE DEF k2
<1>13. Begins(k2) /\ k2.uxPriority[Idle] = 0 /\ k2.uxPriority \in [AllTasks -> Priorities]
  <2>1. /\ k1.uxPriority \in [AllTasks -> Priorities] /\ k1.uxBasePriority \in [AllTasks -> Priorities]
        /\ k1.uxMutexesHeld \in [AllTasks -> Int] /\ k2.uxPriority \in [AllTasks -> Priorities]
    BY <1>11, <1>12 DEF Sound
  <2>2. /\ k2.xTickCount = 0 /\ k2.xPendedTicks = 0 /\ k2.uxSchedulerSuspended = 0
        /\ k2.pxDelayedTaskList = <<>> /\ k2.pxOverflowDelayedTaskList = <<>>
        /\ k2.xNumOfOverflows = 0
    BY <1>11, <1>12 DEF Begins, Same, Fields
  <2> QED BY <1>11, <1>12, <2>1, <2>2, Bounds DEF Begins
<1>14. cur \in AllTasks
  <2> DEFINE N == Len(created) + 1
             ps == {k2.uxPriority[all[i]] : i \in DOMAIN all}
             is == {i \in DOMAIN all : k2.uxPriority[all[i]] = top}
  <2>1. DOMAIN all = 1 .. N /\ N \in Nat \ {0} /\ \A i \in 1 .. N : all[i] \in AllTasks
    <3>1. created \in Seq(AllTasks)
      BY Bounds
    <3>2. all \in Seq(AllTasks) /\ Len(all) = N
      BY <3>1, Bounds
    <3> QED BY <3>2
  <2> HIDE DEF all, N
  <2>2. \A i \in 1 .. N : k2.uxPriority[all[i]] \in Priorities
    BY <1>13, <2>1
  <2>3. ps \in SUBSET (0 .. configMAX_PRIORITIES - 1) /\ ps # {}
    <3>1. 1 \in 1 .. N
      BY <2>1
    <3> QED BY <2>1, <2>2, <3>1 DEF Priorities
  <2>4. configMAX_PRIORITIES - 1 \in Nat
    BY TasksAssumption
  <2>5. top \in ps
    <3> HIDE DEF ps
    <3>1. Max(ps) \in ps
      BY <2>3, <2>4, MaxIs
    <3> QED BY <3>1 DEF ps
  <2> HIDE DEF top
  <2>6. is \in SUBSET (0 .. N) /\ is # {}
    BY <2>1, <2>5
  <2>7. Max(is) \in is
    <3> HIDE DEF is
    <3> QED BY <2>1, <2>6, MaxIs
  <2> HIDE DEF top
  <2> QED BY <2>1, <2>7
<1> HIDE DEF cur
<1>15. Same(k2, k3, {"pxCurrentTCB"}) /\ k3.pxCurrentTCB = cur
  <2>1. IsState(k2)
    BY <1>12 DEF Sound
  <2> QED BY <2>1 DEF IsState, Same, Fields
<1> HIDE DEF k3
<1>16. \A x \in AllTasks : Once(k3, x)
  <2>1. \A x \in AllTasks : Once(k2, x)
    BY <1>12 DEF Sound
  <2> QED BY <1>15, <2>1 DEF Once, IsReady, IsTerminated, Same, Fields
<1>17. Sound(k3)
  BY <1>12, <1>14, <1>15, <1>16 DEF Sound, Same, Fields
<1>18. Good(k3) /\ Begins(k3)
  BY <1>12, <1>13, <1>15, <1>17 DEF Good, Begins, Same, Fields
<1> QED BY <1>1, <1>18

---------------------------------------------------------------------------
(* Tasks that are suspended, deleted or given another priority *)

LEMMA Appended ==
  ASSUME NEW S, NEW l, IsList(l, S), NEW x \in S, ~Contains(l, x)
  PROVE  IsList(Append(l, x), S) /\ \A y : Contains(Append(l, x), y) <=> Contains(l, y) \/ y = x
<1>1. l \in Seq(S) /\ Len(l) \in Nat /\ Len(l) + 1 \in 1 .. Len(l) + 1
  BY DEF IsList
<1>2. Append(l, x) \in Seq(S) /\ PutAt(Append(l, x), l, Len(l) + 1, x)
  BY <1>1 DEF PutAt
<1> QED BY ZenonT(40), <1>1, <1>2, Inserted

\* a task of the application leaves every list
LEMMA UnlinkedMoves ==
  ASSUME NEW k, Good(k), NEW t \in Tasks
  PROVE  LET k1 == UnlinkEvent(UnlinkState(k, t), t) IN Moves(k, k1) /\ IsFree(k1, t)
<1> DEFINE k0 == UnlinkState(k, t)  k1 == UnlinkEvent(k0, t)
<1>1. Idle \in AllTasks \ {t} /\ 0 \in Priorities
  BY Bounds
<1>2. /\ Sound(k0) /\ IsFree(k0, t) /\ OthersStay(k, k0, t)
      /\ Same(k, k0, {"pxReadyTasksLists", "pxDelayedTaskList", "pxOverflowDelayedTaskList",
                      "xSuspendedTaskList", "xTasksWaitingTermination", "xWakeTime"})
  BY UnlinkStateSound DEF Good
<1> HIDE DEF k0
<1>3. Moves(k, k0)
  BY <1>1, <1>2 DEF Good, Moves, OthersStay, Same, Fields, Kept
<1>4. Sound(k1) /\ Same(k0, k1, {"xEventLists", "xPendingReadyList"})
  BY <1>2, UnlinkEventSound
<1>5. Moves(k0, k1)
  BY <1>3, UnlinkEventMoves DEF Moves
<1> HIDE DEF k1
<1>6. IsFree(k1, t)
  BY <1>2, <1>4 DEF IsFree, IsReady, IsSleeping, IsTerminated, Same, Fields
<1>7. Moves(k, k1)
  BY <1>3, <1>5, MovesTwice
<1> QED BY <1>6, <1>7 DEF k0, k1

LEMMA UnlinkStateMoves ==
  ASSUME NEW k, Good(k), NEW t \in Tasks PROVE Moves(k, UnlinkState(k, t))
<1>1. Idle \in AllTasks \ {t} /\ 0 \in Priorities
  BY Bounds
<1> QED BY <1>1, UnlinkStateSound DEF Good, Moves, OthersStay, Same, Fields, Kept

\* the first critical section of vTaskSuspend()
LEMMA SuspendedMoves ==
  ASSUME NEW k, Good(k), NEW t \in Tasks, NEW status
  PROVE  LET k1 == UnlinkEvent(UnlinkState(k, t), t)
         IN  Moves(k, [k1 EXCEPT !.xSuspendedTaskList = @ \cup {t}, !.ucNotifyState[t] = status])
<1> DEFINE k1 == UnlinkEvent(UnlinkState(k, t), t)
           k2 == [k1 EXCEPT !.xSuspendedTaskList = @ \cup {t}, !.ucNotifyState[t] = status]
<1>1. Moves(k, k1) /\ Good(k1) /\ IsFree(k1, t)
  BY UnlinkedMoves DEF Moves
<1> HIDE DEF k1
<1>2. /\ Same(k1, k2, {"xSuspendedTaskList", "ucNotifyState"})
      /\ k2.xSuspendedTaskList = k1.xSuspendedTaskList \cup {t}
  <2>1. IsState(k1)
    BY <1>1, GoodTypes
  <2> QED BY <2>1 DEF IsState, Same, Fields
<1> HIDE DEF k2
<1>3. \A x \in AllTasks : Once(k2, x)
  <2>1. \A x \in AllTasks : Once(k1, x)
    BY <1>1 DEF Good, Sound
  <2> QED BY <1>1, <1>2, <2>1 DEF Once, IsFree, IsSleeping, IsReady, IsTerminated, Same, Fields
<1>4. Sound(k2)
  BY <1>1, <1>2, <1>3 DEF Good, Sound, Same, Fields
<1>5. Moves(k1, k2)
  BY <1>1, <1>2, <1>4 DEF Good, Moves, Same, Fields, Kept
<1>6. Moves(k, k2)
  BY <1>1, <1>5, MovesTwice
<1> QED BY <1>6 DEF k1, k2

\* a task deletes itself
LEMMA TerminatedMoves ==
  ASSUME NEW k, Good(k), NEW t \in Tasks
  PROVE  LET k1 == UnlinkEvent(UnlinkState(k, t), t)
         IN  Moves(k, [k1 EXCEPT !.xTasksWaitingTermination = Append(@, t)])
<1> DEFINE k1 == UnlinkEvent(UnlinkState(k, t), t)
           k2 == [k1 EXCEPT !.xTasksWaitingTermination = Append(@, t)]
           l  == Append(k1.xTasksWaitingTermination, t)
<1>1. Moves(k, k1) /\ Good(k1) /\ IsFree(k1, t)
  BY UnlinkedMoves DEF Moves
<1> HIDE DEF k1
<1>2. Same(k1, k2, {"xTasksWaitingTermination"}) /\ k2.xTasksWaitingTermination = l
  BY ZenonT(40), <1>1, GoodTypes DEF IsState, Same, Fields
<1>3. IsList(k1.xTasksWaitingTermination, Tasks) /\ ~Contains(k1.xTasksWaitingTermination, t)
  BY <1>1 DEF Good, Sound, IsFree, IsTerminated
<1>4. /\ IsList(l, Tasks)
      /\ \A y : Contains(l, y) <=> Contains(k1.xTasksWaitingTermination, y) \/ y = t
  BY <1>3, Appended
<1> HIDE DEF k2, l
<1>5. \A x \in AllTasks : Once(k2, x)
  <2>1. \A x \in AllTasks : Once(k1, x)
    BY <1>1 DEF Good, Sound
  <2> QED BY <1>1, <1>2, <1>4, <2>1 DEF Once, IsFree, IsSleeping, IsReady, IsTerminated, Same, Fields
<1>6. Sound(k2)
  BY <1>1, <1>2, <1>4, <1>5 DEF Good, Sound, Same, Fields
<1>7. Moves(k1, k2)
  BY <1>1, <1>2, <1>6 DEF Good, Moves, Same, Fields, Kept
<1>8. Moves(k, k2)
  BY <1>1, <1>7, MovesTwice
<1> QED BY <1>8 DEF k1, k2

\* what vTaskPrioritySet() does, up to its yield, when it changes t's priority
PrioritySet(k, t, p) ==
  LET base == k.uxBasePriority[t]
      k1   == [k EXCEPT !.uxPriority[t] = IF base = @ THEN p ELSE @,
                        !.uxBasePriority[t] = p,
                        !.xEventValue[t] = configMAX_PRIORITIES - p]
  IN  IF Contains(k.pxReadyTasksLists[k.uxPriority[t]], t) THEN MakeReady(k1, t) ELSE k1

\* who runs at its own priority follows it
LEMMA PrioritySetIs ==
  ASSUME NEW k, Good(k), NEW t \in Tasks, NEW p \in Priorities
  PROVE  LET base == k.uxBasePriority[t]
             k2   == PrioritySet(k, t, p)
         IN  /\ Good(k2)
             /\ \A f \in Kept \ {"uxPriority", "uxBasePriority", "xEventValue"} : k2[f] = k[f]
             /\ k2.uxPriority = [k.uxPriority EXCEPT ![t] = IF base = @ THEN p ELSE @]
             /\ k2.uxBasePriority = [k.uxBasePriority EXCEPT ![t] = p]
<1> DEFINE base == k.uxBasePriority[t]
           now  == IF base = k.uxPriority[t] THEN p ELSE k.uxPriority[t]
           v    == configMAX_PRIORITIES - p
           k1   == [k EXCEPT !.uxPriority[t] = IF base = @ THEN p ELSE @,
                             !.uxBasePriority[t] = p,
                             !.xEventValue[t] = configMAX_PRIORITIES - p]
           k2   == IF Contains(k.pxReadyTasksLists[k.uxPriority[t]], t) THEN MakeReady(k1, t) ELSE k1
<1>1. /\ Same(k, k1, {"uxPriority", "uxBasePriority", "xEventValue"})
      /\ k1.uxPriority = [k.uxPriority EXCEPT ![t] = IF base = @ THEN p ELSE @]
      /\ k1.uxBasePriority = [k.uxBasePriority EXCEPT ![t] = p]
      /\ k1.xEventValue = [k.xEventValue EXCEPT ![t] = v]
  <2>1. IsState(k)
    BY GoodTypes
  <2> HIDE DEF k2, base
  <2> QED BY <2>1 DEF IsState, Same, Fields
<1>2. v \in 1 .. configMAX_PRIORITIES
  BY TasksAssumption DEF Priorities
<1> HIDE DEF k1, v
<1>3. Types(k1)
  <2>1. Types(k) /\ t \in AllTasks /\ t # Idle
    BY TypesOf, Bounds
  <2> QED BY SMTT(30), <1>1, <1>2, <2>1 DEF Same, Fields, Types
<1>4. Good(k1)
  BY <1>1, <1>3, TypesGood DEF Same, Fields, Structure
<1>5. Moves(k1, k2)
  BY <1>4, MakeReadyMoves, MovesNot
<1> HIDE DEF k2
<1>6. Good(k2) /\ \A f \in Kept \ {"uxPriority", "uxBasePriority", "xEventValue"} : k2[f] = k[f]
  BY <1>1, <1>5 DEF Moves, Same, Fields, Kept
<1>7. k2.uxPriority = k1.uxPriority /\ k2.uxBasePriority = k1.uxBasePriority
  BY <1>5 DEF Moves, Kept
<1> QED BY <1>1, <1>6, <1>7 DEF k1, k2, PrioritySet

\* vTaskSuspendAll()
LEMMA SuspendAllGood ==
  ASSUME NEW k, Good(k)
  PROVE  LET k1 == [k EXCEPT !.uxSchedulerSuspended = @ + 1]
         IN  Good(k1) /\ Same(k, k1, {"uxSchedulerSuspended"})
<1> DEFINE k1 == [k EXCEPT !.uxSchedulerSuspended = @ + 1]
<1>1. Same(k, k1, {"uxSchedulerSuspended"}) /\ k1.uxSchedulerSuspended = k.uxSchedulerSuspended + 1
  BY GoodTypes DEF IsState, Same, Fields
<1> HIDE DEF k1
<1>2. Types(k1)
  BY <1>1, TypesOf DEF Same, Fields, Types
<1> QED BY <1>1, <1>2, TypesGood DEF Same, Fields, Structure, k1

---------------------------------------------------------------------------
(* When tasks wake *)

\* the delayed lists are in the order of their times, and the tick interrupt looks
\* at the first by the earliest of its times
InOrder(k) ==
  /\ Ordered(k.pxDelayedTaskList, k.xWakeTime) /\ Ordered(k.pxOverflowDelayedTaskList, k.xWakeTime)
  /\ \A t : Contains(k.pxDelayedTaskList, t) => k.xNextTaskUnblockTime <= k.xWakeTime[t]

\* k1 is k, but that tasks may have left the delayed lists; a task that was
\* switched to does not sleep
Calm(k, k1) ==
  /\ \A f \in {"xTickCount", "xNumOfOverflows", "uxSchedulerSuspended"} : k1[f] = k[f]
  /\ \A t : Contains(k1.pxDelayedTaskList, t) =>
              Contains(k.pxDelayedTaskList, t) /\ k1.xWakeTime[t] = k.xWakeTime[t]
  /\ \A t : Contains(k1.pxOverflowDelayedTaskList, t) =>
              Contains(k.pxOverflowDelayedTaskList, t) /\ k1.xWakeTime[t] = k.xWakeTime[t]
  /\ InOrder(k) => InOrder(k1)
  /\ \/ k1.pxCurrentTCB = k.pxCurrentTCB
     \/ ~(k.uxSchedulerSuspended > 0) /\ ~IsSleeping(k1, k1.pxCurrentTCB)

\* what the times of waking depend on
Timing == {"pxCurrentTCB", "pxDelayedTaskList", "pxOverflowDelayedTaskList", "xWakeTime",
           "xTickCount", "xNumOfOverflows", "xNextTaskUnblockTime", "uxSchedulerSuspended"}

LEMMA OthersCalm ==
  ASSUME NEW k, NEW k1, \A f \in Timing : k1[f] = k[f] PROVE Calm(k, k1)
  BY DEF Timing, Calm, InOrder

LEMMA SameCalm ==
  ASSUME NEW k, NEW k1, NEW fs, Same(k, k1, fs), fs \cap Timing = {} PROVE Calm(k, k1)
<1>1. Timing \subseteq Fields
  BY DEF Timing, Fields
<1>2. \A f \in Timing : k1[f] = k[f]
  BY <1>1 DEF Same
<1> QED BY <1>2, OthersCalm

LEMMA CalmTwice ==
  ASSUME NEW k, NEW k1, NEW k2, Calm(k, k1), Calm(k1, k2) PROVE Calm(k, k2)
  BY DEF Calm, IsSleeping

LEMMA CalmNot == ASSUME NEW k PROVE Calm(k, k)
  BY DEF Calm

LEMMA UnlinkEventCalm ==
  ASSUME NEW k, Good(k), NEW t PROVE Calm(k, UnlinkEvent(k, t))
<1>1. Same(k, UnlinkEvent(k, t), {"xEventLists", "xPendingReadyList"})
  BY UnlinkEventSound DEF Good
<1>2. {"xEventLists", "xPendingReadyList"} \cap Timing = {}
  BY DEF Timing
<1> QED BY <1>1, <1>2, SameCalm

\* a task that leaves its list of states does not sleep
LEMMA UnlinkStateCalm ==
  ASSUME NEW k, Good(k), NEW t \in Tasks
  PROVE  Calm(k, UnlinkState(k, t)) /\ ~IsSleeping(UnlinkState(k, t), t)
<1> DEFINE k1 == UnlinkState(k, t)
           d  == k.pxDelayedTaskList
           o  == k.pxOverflowDelayedTaskList
<1>0. IsState(k) /\ IsList(d, Tasks) /\ IsList(o, Tasks) /\ k.xWakeTime \in [AllTasks -> Ticks]
  BY GoodTypes DEF Sound
<1>1. /\ Same(k, k1, {"pxReadyTasksLists", "pxDelayedTaskList", "pxOverflowDelayedTaskList",
                      "xSuspendedTaskList", "xTasksWaitingTermination", "xWakeTime"})
      /\ k1.pxDelayedTaskList = uxListRemove(d, t)
      /\ k1.pxOverflowDelayedTaskList = uxListRemove(o, t)
      /\ k1.xWakeTime = [k.xWakeTime EXCEPT ![t] = 0]
  BY ZenonT(40), <1>0 DEF IsState, UnlinkState, Same, Fields
<1> HIDE DEF k1
<1>2. \A x : x # t => k1.xWakeTime[x] = k.xWakeTime[x]
  BY <1>0, <1>1
<1>3. \A y : Contains(k1.pxDelayedTaskList, y) <=> Contains(d, y) /\ y # t
  BY <1>0, <1>1, Removed
<1>4. \A y : Contains(k1.pxOverflowDelayedTaskList, y) <=> Contains(o, y) /\ y # t
  BY <1>0, <1>1, Removed
<1>5. ASSUME NEW l, IsList(l, Tasks), Ordered(l, k.xWakeTime)
      PROVE  Ordered(uxListRemove(l, t), k1.xWakeTime)
  <2> DEFINE r == uxListRemove(l, t)
  <2>1. Ordered(r, k.xWakeTime)
    BY <1>5, RemovedOrdered
  <2>2. \A y : Contains(r, y) => y # t
    BY <1>5, Removed
  <2> HIDE DEF r
  <2>3. \A i \in 1 .. Len(r) : r[i] # t
    BY <2>2 DEF Contains
  <2>4. Ordered(r, k1.xWakeTime)
    BY <1>2, <2>1, <2>3 DEF Ordered
  <2> QED BY <2>4 DEF r
<1>6. InOrder(k) => InOrder(k1)
  <2>1. k1.xNextTaskUnblockTime = k.xNextTaskUnblockTime
    BY <1>1 DEF Same, Fields
  <2> QED BY <1>0, <1>1, <1>2, <1>3, <1>5, <2>1 DEF InOrder
<1>7. Calm(k, k1)
  <2>1. /\ \A f \in {"xTickCount", "xNumOfOverflows", "uxSchedulerSuspended"} : k1[f] = k[f]
        /\ k1.pxCurrentTCB = k.pxCurrentTCB
    BY <1>1 DEF Same, Fields
  <2> QED BY <1>2, <1>3, <1>4, <1>6, <2>1 DEF Calm
<1> QED BY <1>3, <1>4, <1>7 DEF IsSleeping, k1

LEMMA AddReadyCalm ==
  ASSUME NEW k, Sound(k), NEW t \in AllTasks, IsFree(k, t) PROVE Calm(k, prvAddTaskToReadyList(k, t))
<1>1. Same(k, prvAddTaskToReadyList(k, t), {"uxTopReadyPriority", "pxReadyTasksLists"})
  BY AddReadySound
<1>2. {"uxTopReadyPriority", "pxReadyTasksLists"} \cap Timing = {}
  BY DEF Timing
<1> QED BY <1>1, <1>2, SameCalm

LEMMA MakeReadyCalm ==
  ASSUME NEW k, Good(k), NEW t \in Tasks
  PROVE  Calm(k, MakeReady(k, t)) /\ ~IsSleeping(MakeReady(k, t), t)
<1> DEFINE k1 == UnlinkState(k, t)  k2 == prvAddTaskToReadyList(k1, t)
<1>1. Sound(k1) /\ IsFree(k1, t) /\ t \in AllTasks
  BY UnlinkStateSound, Bounds DEF Good
<1>2. Calm(k, k1) /\ ~IsSleeping(k1, t)
  BY UnlinkStateCalm
<1> HIDE DEF k1
<1>3. Calm(k1, k2)
  BY <1>1, AddReadyCalm
<1> HIDE DEF k2
<1>4. ~IsSleeping(k2, t)
  BY <1>2, <1>3 DEF Calm, IsSleeping
<1>5. Calm(k, k2)
  BY <1>2, <1>3, CalmTwice
<1> QED BY <1>4, <1>5 DEF MakeReady, k1, k2

\* the earliest time of waking is that of the first task of the list
LEMMA ResetOrders ==
  ASSUME NEW k, Good(k)
  PROVE  LET k1 == prvResetNextTaskUnblockTime(k)
         IN  /\ Same(k, k1, {"xNextTaskUnblockTime"})
             /\ Ordered(k.pxDelayedTaskList, k.xWakeTime)
                /\ Ordered(k.pxOverflowDelayedTaskList, k.xWakeTime) => InOrder(k1)
<1> DEFINE k1 == prvResetNextTaskUnblockTime(k)
           d  == k.pxDelayedTaskList
           time == IF d = <<>> THEN portMAX_DELAY ELSE k.xWakeTime[Head(d)]
<1>1. Same(k, k1, {"xNextTaskUnblockTime"}) /\ k1.xNextTaskUnblockTime = time
  BY GoodTypes DEF IsState, prvResetNextTaskUnblockTime, Same, Fields
<1> HIDE DEF k1
<1>2. \A f \in Timing \ {"xNextTaskUnblockTime"} : k1[f] = k[f]
  BY <1>1 DEF Same, Fields, Timing
<1>3. ASSUME Ordered(d, k.xWakeTime), NEW t, Contains(d, t)
      PROVE  k1.xNextTaskUnblockTime <= k.xWakeTime[t]
  <2>1. d \in Seq(Tasks) /\ k.xWakeTime \in [AllTasks -> Ticks]
    BY GoodTypes DEF Sound, IsList
  <2>2. PICK i \in 1 .. Len(d) : d[i] = t
    BY <1>3 DEF Contains
  <2>3. d # <<>> /\ Head(d) = d[1] /\ 1 \in 1 .. Len(d) /\ Len(d) \in Nat
    BY <2>1, <2>2
  <2>4. k.xWakeTime[d[1]] <= k.xWakeTime[d[i]]
    <3>1. CASE i = 1
      <4>1. d[1] \in AllTasks
        BY <2>1, <2>3, Bounds
      <4>2. k.xWakeTime[d[1]] \in Nat
        BY <2>1, <4>1, Bounds
      <4> QED BY <3>1, <4>2
    <3>2. CASE i # 1
      <4>1. 1 < i
        BY <2>2, <2>3, <3>2
      <4> QED BY <1>3, <2>2, <2>3, <4>1 DEF Ordered
    <3> QED BY <3>1, <3>2
  <2> QED BY <1>1, <2>2, <2>3, <2>4
<1> HIDE DEF d, time
<1>4. Ordered(d, k.xWakeTime) /\ Ordered(k.pxOverflowDelayedTaskList, k.xWakeTime) => InOrder(k1)
  BY <1>2, <1>3 DEF InOrder, Timing, d
<1> QED BY <1>1, <1>4 DEF k1, d

LEMMA ResetCalm ==
  ASSUME NEW k, Good(k) PROVE Calm(k, prvResetNextTaskUnblockTime(k))
<1> DEFINE k1 == prvResetNextTaskUnblockTime(k)
<1>1. /\ Same(k, k1, {"xNextTaskUnblockTime"})
      /\ Ordered(k.pxDelayedTaskList, k.xWakeTime)
         /\ Ordered(k.pxOverflowDelayedTaskList, k.xWakeTime) => InOrder(k1)
  BY ResetOrders
<1> HIDE DEF k1
<1>2. \A f \in Timing \ {"xNextTaskUnblockTime"} : k1[f] = k[f]
  BY <1>1 DEF Same, Fields, Timing
<1>3. InOrder(k) => InOrder(k1)
  BY <1>1 DEF InOrder
<1>4. Calm(k, k1)
  BY <1>2, <1>3 DEF Calm, Timing
<1> QED BY <1>4 DEF k1

\* the task that is switched to does not sleep
LEMMA SwitchCalm ==
  ASSUME NEW k, Good(k)
  PROVE  LET k1 == vTaskSwitchContext(k)
         IN  Calm(k, k1) /\ (~(k.uxSchedulerSuspended > 0) => ~IsSleeping(k1, k1.pxCurrentTCB))
<1> DEFINE top  == Max({p \in 0 .. k.uxTopReadyPriority : k.pxReadyTasksLists[p] # EmptyRing})
           ring == listGET_OWNER_OF_NEXT_ENTRY(k.pxReadyTasksLists[top])
           k1   == vTaskSwitchContext(k)
<1>1. CASE k.uxSchedulerSuspended > 0
  <2>1. Same(k, k1, {"xYieldPending"})
    BY <1>1, GoodTypes DEF IsState, vTaskSwitchContext, Same, Fields
  <2> QED BY <1>1, <2>1, SameCalm DEF Timing
<1>2. CASE ~(k.uxSchedulerSuspended > 0)
  <2>1. /\ Same(k, k1, {"xYieldPending", "uxTopReadyPriority", "pxReadyTasksLists", "pxCurrentTCB"})
        /\ k1.pxCurrentTCB = Last(ring)
    <3>1. k1 = [k EXCEPT !.xYieldPending = FALSE, !.uxTopReadyPriority = top,
                         !.pxReadyTasksLists[top] = ring, !.pxCurrentTCB = Last(ring)]
      BY <1>2 DEF vTaskSwitchContext
    <3>2. IsState(k)
      BY GoodTypes
    <3> HIDE DEF k1, top, ring
    <3> QED BY <3>1, <3>2 DEF IsState, Same, Fields
  <2>2. top \in Priorities /\ k.pxReadyTasksLists[top] # EmptyRing
    BY TopIs
  <2> HIDE DEF k1, top
  <2>3. IsRing(k.pxReadyTasksLists[top])
    BY <2>2, RingsAre, GoodTypes
  <2>4. Last(ring) \in AllTasks /\ Contains(k.pxReadyTasksLists[top], Last(ring))
    BY <2>2, <2>3, RingTurned
  <2> HIDE DEF ring
  <2>5. Once(k, k1.pxCurrentTCB) /\ IsReady(k, k1.pxCurrentTCB)
    BY <2>1, <2>2, <2>4, GoodTypes DEF Sound, IsReady
  <2>6. ~IsSleeping(k, k1.pxCurrentTCB)
    BY <2>5 DEF Once, IsSleeping
  <2>7. \A f \in Timing \ {"pxCurrentTCB"} : k1[f] = k[f]
    BY <2>1 DEF Same, Fields, Timing
  <2>8. ~IsSleeping(k1, k1.pxCurrentTCB)
    BY <2>6, <2>7 DEF IsSleeping, Timing
  <2>9. InOrder(k) => InOrder(k1)
    BY <2>7 DEF InOrder, Timing
  <2> QED BY <1>2, <2>7, <2>8, <2>9 DEF Calm, Timing, k1
<1> QED BY <1>1, <1>2

LEMMA YieldIfCalm ==
  ASSUME NEW k, Good(k), NEW condition PROVE Calm(k, YieldIf(condition, k))
  BY SwitchCalm, CalmNot DEF YieldIf

LEMMA WakeUpCalm ==
  ASSUME NEW k, Good(k), NEW t \in Tasks
  PROVE  /\ Calm(k, MakeReady(UnlinkEvent(k, t), t))
         /\ ~IsSleeping(MakeReady(UnlinkEvent(k, t), t), t)
<1>1. Good(UnlinkEvent(k, t)) /\ Calm(k, UnlinkEvent(k, t))
  BY UnlinkEventMoves, UnlinkEventCalm DEF Moves
<1> QED BY <1>1, MakeReadyCalm, CalmTwice

LEMMA SetYieldCalm ==
  ASSUME NEW k, Good(k), NEW v PROVE Calm(k, [k EXCEPT !.xYieldPending = v])
<1> DEFINE k1 == [k EXCEPT !.xYieldPending = v]
<1>1. Same(k, k1, {"xYieldPending"})
  BY GoodTypes DEF IsState, Same, Fields
<1> HIDE DEF k1
<1>2. Calm(k, k1)
  BY <1>1, SameCalm DEF Timing
<1> QED BY <1>2 DEF k1

LEMMA ReadyPendedCalm ==
  ASSUME NEW k, Good(k), NEW t \in Tasks PROVE Calm(k, ReadyPended(k, t))
<1> DEFINE k1 == MakeReady(UnlinkEvent(k, t), t)
           v  == k1.xYieldPending \/ k.uxPriority[t] >= k.uxPriority[k.pxCurrentTCB]
<1>1. Good(k1) /\ Calm(k, k1)
  BY WakeUpMoves, WakeUpCalm DEF Moves
<1>2. ReadyPended(k, t) = [k1 EXCEPT !.xYieldPending = v]
  BY DEF ReadyPended
<1> HIDE DEF k1, v
<1>3. Calm(k1, [k1 EXCEPT !.xYieldPending = v])
  BY <1>1, SetYieldCalm
<1> QED BY <1>1, <1>2, <1>3, CalmTwice

LEMMA PendedCalm ==
  ASSUME NEW k, Good(k), NEW ts \in Seq(Tasks)
  PROVE  Calm(k, InTurn(ReadyPended, k, ts))
<1> DEFINE N == Len(ts)
           all == InTurn(ReadyPended, k, ts)
<1>1. PICK r : Changes("pended", k, ts, N, r) /\ all = r[N]
  BY PendedInTurn
<1> HIDE DEF all
<1>2. N \in Nat /\ \A n \in 1 .. N : ts[n] \in Tasks
  OBVIOUS
<1> DEFINE P == {n \in Nat : Good(r[n]) /\ Calm(k, r[n])}
<1>3. 0 \in P
  BY <1>1, CalmNot DEF Changes
<1>4. ASSUME NEW n \in 0 .. N - 1, n \in P PROVE n + 1 \in P
  <2>1. n + 1 \in 1 .. N /\ (n + 1) - 1 = n /\ n + 1 \in Nat
    BY <1>2
  <2>2. r[n + 1] = ReadyPended(r[n], ts[n + 1])
    BY <1>1, <2>1 DEF Changes, Change
  <2>3. Good(r[n]) /\ Calm(k, r[n])
    BY <1>4
  <2>4. Good(r[n + 1]) /\ Calm(r[n], r[n + 1])
    BY <1>2, <2>1, <2>2, <2>3, ReadyPendedMoves, ReadyPendedCalm DEF Moves
  <2> QED BY <2>1, <2>3, <2>4, CalmTwice
<1> HIDE DEF P
<1>5. \A n \in 0 .. N : n \in P
  BY <1>2, <1>3, <1>4, Induct
<1>6. Calm(k, all)
  BY <1>1, <1>2, <1>5 DEF P
<1> QED BY <1>6 DEF all

\* none of the tasks that were made ready in turn sleeps
LEMMA ExpiredCalm ==
  ASSUME NEW k, Good(k), NEW ts \in Seq(Tasks)
  PROVE  LET k1 == InTurn(LAMBDA s, t : MakeReady(UnlinkEvent(s, t), t), k, ts)
         IN  Calm(k, k1) /\ \A i \in 1 .. Len(ts) : ~IsSleeping(k1, ts[i])
<1> DEFINE N == Len(ts)
           all == InTurn(LAMBDA s, t : MakeReady(UnlinkEvent(s, t), t), k, ts)
<1>1. PICK r : Changes("expired", k, ts, N, r) /\ all = r[N]
  BY ExpiredInTurn
<1> HIDE DEF all
<1>2. N \in Nat /\ \A n \in 1 .. N : ts[n] \in Tasks
  OBVIOUS
<1> DEFINE P == {n \in Nat : /\ Good(r[n]) /\ Calm(k, r[n])
                             /\ \A i \in 1 .. n : ~IsSleeping(r[n], ts[i])}
<1>3. 0 \in P
  BY <1>1, CalmNot DEF Changes
<1>4. ASSUME NEW n \in 0 .. N - 1, n \in P PROVE n + 1 \in P
  <2>1. n + 1 \in 1 .. N /\ (n + 1) - 1 = n /\ n + 1 \in Nat
    BY <1>2
  <2>2. r[n + 1] = MakeReady(UnlinkEvent(r[n], ts[n + 1]), ts[n + 1])
    BY <1>1, <2>1 DEF Changes, Change
  <2>3. Good(r[n]) /\ Calm(k, r[n]) /\ \A i \in 1 .. n : ~IsSleeping(r[n], ts[i])
    BY <1>4
  <2>4. /\ Good(r[n + 1]) /\ Calm(r[n], r[n + 1])
        /\ ~IsSleeping(r[n + 1], ts[n + 1])
    BY <1>2, <2>1, <2>2, <2>3, WakeUpMoves, WakeUpCalm DEF Moves
  <2>5. \A x : IsSleeping(r[n + 1], x) => IsSleeping(r[n], x)
    BY <2>4 DEF Calm, IsSleeping
  <2>6. \A i \in 1 .. n + 1 : i \in 1 .. n \/ i = n + 1
    BY <2>1
  <2>7. \A i \in 1 .. n + 1 : ~IsSleeping(r[n + 1], ts[i])
    BY <2>3, <2>4, <2>5, <2>6
  <2> QED BY <2>1, <2>3, <2>4, <2>7, CalmTwice
<1> HIDE DEF P
<1>5. \A n \in 0 .. N : n \in P
  BY <1>2, <1>3, <1>4, Induct
<1>6. Calm(k, all) /\ \A i \in 1 .. N : ~IsSleeping(all, ts[i])
  BY <1>1, <1>2, <1>5 DEF P
<1> QED BY <1>6 DEF all

LEMMA PendCalm ==
  ASSUME NEW k, Good(k), NEW t \in Tasks
  PROVE  Calm(k, [k EXCEPT !.xPendingReadyList = Append(@, t)])
<1> DEFINE k1 == [k EXCEPT !.xPendingReadyList = Append(@, t)]
<1>1. Same(k, k1, {"xPendingReadyList"})
  BY ZenonT(40), GoodTypes DEF IsState, Same, Fields
<1> HIDE DEF k1
<1>2. Calm(k, k1)
  BY <1>1, SameCalm DEF Timing
<1> QED BY <1>2 DEF k1

LEMMA UnblockCalm ==
  ASSUME NEW k, Good(k), NEW t \in Tasks PROVE Calm(k, Unblock(k, t))
<1> DEFINE k1 == UnlinkEvent(k, t)
           k2 == IF k.uxSchedulerSuspended = 0 THEN MakeReady(k1, t)
                 ELSE [k1 EXCEPT !.xPendingReadyList = Append(@, t)]
           v  == k2.xYieldPending \/ WakesHigher(k, t)
<1>1. Good(k1) /\ Calm(k, k1)
  BY UnlinkEventMoves, UnlinkEventCalm DEF Moves
<1>2. Unblock(k, t) = [k2 EXCEPT !.xYieldPending = v]
  BY DEF Unblock
<1> HIDE DEF k1
<1>3. Good(k2) /\ Calm(k1, k2)
  BY <1>1, MakeReadyMoves, PendMoves, MakeReadyCalm, PendCalm DEF Moves
<1> HIDE DEF k2, v
<1>4. Calm(k2, [k2 EXCEPT !.xYieldPending = v])
  BY <1>3, SetYieldCalm
<1> QED BY <1>1, <1>2, <1>3, <1>4, CalmTwice

LEMMA RemoveFromEventListCalm ==
  ASSUME NEW k, Good(k), NEW e \in EventLists, k.xEventLists[e] # <<>>
  PROVE  Calm(k, xTaskRemoveFromEventList(k, e))
<1>1. k.xEventLists[e] \in Seq(Tasks)
  BY TypesOf DEF Types
<1>2. Head(k.xEventLists[e]) \in Tasks
  BY <1>1
<1> QED BY <1>2, UnblockCalm DEF xTaskRemoveFromEventList

LEMMA MoveToPriorityCalm ==
  ASSUME NEW k, Good(k), NEW t \in Tasks, NEW p \in Priorities
  PROVE  Calm(k, MoveToPriority(k, t, p))
<1> DEFINE k1 == [k EXCEPT !.uxPriority[t] = p]
<1>1. Good(k1) /\ Same(k, k1, {"uxPriority"})
  BY PriorityGood
<1>2. MoveToPriority(k, t, p) \in {k1, MakeReady(k1, t)}
  BY DEF MoveToPriority
<1> HIDE DEF k1
<1>3. Calm(k, k1)
  BY <1>1, SameCalm DEF Timing
<1>4. Calm(k1, MakeReady(k1, t)) /\ Calm(k1, k1)
  BY <1>1, MakeReadyCalm, CalmNot
<1> QED BY <1>2, <1>3, <1>4, CalmTwice

LEMMA PrioritisedCalm ==
  ASSUME NEW k, Good(k), NEW t \in Tasks, NEW p \in Priorities
  PROVE  Calm(k, [MoveToPriority(k, t, p) EXCEPT !.xEventValue[t] = configMAX_PRIORITIES - p])
<1> DEFINE k1 == MoveToPriority(k, t, p)
           k2 == [k1 EXCEPT !.xEventValue[t] = configMAX_PRIORITIES - p]
<1>1. Good(k1) /\ Calm(k, k1)
  BY MoveToPriorityIs, MoveToPriorityCalm
<1> HIDE DEF k1
<1>2. Same(k1, k2, {"xEventValue"})
  BY <1>1, EventValueGood
<1> HIDE DEF k2
<1>3. Calm(k1, k2)
  BY <1>2, SameCalm DEF Timing
<1>4. Calm(k, k2)
  BY <1>1, <1>3, CalmTwice
<1> QED BY <1>4 DEF k1, k2

LEMMA InheritCalm ==
  ASSUME NEW k, Good(k), NEW holder \in Tasks \cup {NoTask}
  PROVE  Calm(k, xTaskPriorityInherit(k, holder))
<1>1. k.uxPriority[k.pxCurrentTCB] \in Priorities
  BY GoodTypes
<1> QED BY <1>1, CalmNot, PrioritisedCalm DEF xTaskPriorityInherit

LEMMA DisinheritAfterTimeoutCalm ==
  ASSUME NEW k, Good(k), NEW holder \in Tasks \cup {NoTask}, NEW highestWaiting \in Priorities
  PROVE  Calm(k, vTaskPriorityDisinheritAfterTimeout(k, holder, highestWaiting))
<1> DEFINE base == k.uxBasePriority[holder]
           p    == IF base < highestWaiting THEN highestWaiting ELSE base
<1>1. holder \in Tasks => p \in Priorities
  BY GoodTypes, Bounds, TypesOf DEF Types
<1> QED BY <1>1, CalmNot, PrioritisedCalm DEF vTaskPriorityDisinheritAfterTimeout

LEMMA DisinheritCalm ==
  ASSUME NEW k, Good(k), NEW holder \in Tasks
  PROVE  Calm(k, xTaskPriorityDisinherit(k, holder))
<1> DEFINE k1 == [k EXCEPT !.uxMutexesHeld[holder] = @ - 1]
           p  == k.uxBasePriority[holder]
           k2 == [k1 EXCEPT !.uxPriority[holder] = p]
           k3 == MakeReady(k2, holder)
           k4 == [k3 EXCEPT !.xEventValue[holder] = configMAX_PRIORITIES - p]
<1>0. holder # NoTask /\ holder \in AllTasks /\ p \in Priorities
  BY GoodTypes, Bounds, TypesOf DEF Types
<1>1. xTaskPriorityDisinherit(k, holder) \in {k1, k4}
  BY <1>0 DEF xTaskPriorityDisinherit
<1>2. /\ Same(k, k1, {"uxMutexesHeld"})
      /\ k1.uxMutexesHeld = [k.uxMutexesHeld EXCEPT ![holder] = k.uxMutexesHeld[holder] - 1]
  BY GoodTypes DEF IsState, Same, Fields
<1> HIDE DEF k1, p
<1>3. Good(k1)
  <2>1. Types(k1)
    BY <1>0, <1>2, TypesOf DEF Same, Fields, Types
  <2> QED BY <1>2, <2>1, TypesGood DEF Same, Fields, Structure
<1>4. Calm(k, k1)
  BY <1>2, SameCalm DEF Timing
<1>5. Good(k2) /\ Same(k1, k2, {"uxPriority"})
  BY <1>0, <1>3, PriorityGood
<1> HIDE DEF k2
<1>6. Calm(k1, k2)
  BY <1>5, SameCalm DEF Timing
<1>7. Good(k3) /\ Calm(k2, k3)
  BY <1>5, MakeReadyMoves, MakeReadyCalm DEF Moves
<1> HIDE DEF k3
<1>8. Same(k3, k4, {"xEventValue"})
  BY <1>0, <1>7, EventValueGood
<1> HIDE DEF k4
<1>9. Calm(k3, k4)
  BY <1>8, SameCalm DEF Timing
<1>10. Calm(k, k2)
  BY <1>4, <1>6, CalmTwice
<1>11. Calm(k, k4)
  BY <1>7, <1>9, <1>10, CalmTwice
<1> QED BY <1>1, <1>4, <1>11

LEMMA CreatedCalm ==
  ASSUME NEW k, Good(k), NEW t \in Tasks, NEW p \in Priorities, IsFree(k, t)
  PROVE  Calm(k, prvAddNewTaskToReadyList(k, t, p))
<1>1. Sound(k) /\ t \in AllTasks
  BY GoodTypes, Bounds
<1>2. Joined(k, prvAddNewTaskToReadyList(k, t, p), t, p)
  BY <1>1, NewTaskIs
<1>3. Same(k, prvAddNewTaskToReadyList(k, t, p),
           {"uxPriority", "uxBasePriority", "uxMutexesHeld", "xEventValue",
            "ucNotifyState", "ulNotifiedValue", "uxTopReadyPriority", "pxReadyTasksLists"})
  BY <1>2 DEF Joined
<1> QED BY <1>3, SameCalm DEF Timing

LEMMA UnlinkedCalm ==
  ASSUME NEW k, Good(k), NEW t \in Tasks
  PROVE  LET k1 == UnlinkEvent(UnlinkState(k, t), t) IN Calm(k, k1) /\ ~IsSleeping(k1, t)
<1> DEFINE k0 == UnlinkState(k, t)  k1 == UnlinkEvent(k0, t)
<1>1. Good(k0) /\ Calm(k, k0) /\ ~IsSleeping(k0, t)
  BY UnlinkStateMoves, UnlinkStateCalm DEF Moves
<1> HIDE DEF k0
<1>2. Calm(k0, k1)
  BY <1>1, UnlinkEventCalm
<1> HIDE DEF k1
<1>3. Calm(k, k1)
  BY <1>1, <1>2, CalmTwice
<1>4. ~IsSleeping(k1, t)
  BY <1>1, <1>2 DEF Calm, IsSleeping
<1> QED BY <1>3, <1>4 DEF k0, k1

LEMMA SuspendedCalm ==
  ASSUME NEW k, Good(k), NEW t \in Tasks, NEW status
  PROVE  LET k1 == UnlinkEvent(UnlinkState(k, t), t)
         IN  Calm(k, [k1 EXCEPT !.xSuspendedTaskList = @ \cup {t}, !.ucNotifyState[t] = status])
<1> DEFINE k1 == UnlinkEvent(UnlinkState(k, t), t)
           k2 == [k1 EXCEPT !.xSuspendedTaskList = @ \cup {t}, !.ucNotifyState[t] = status]
<1>1. Good(k1) /\ Calm(k, k1)
  BY UnlinkedMoves, UnlinkedCalm DEF Moves
<1> HIDE DEF k1
<1>2. Same(k1, k2, {"xSuspendedTaskList", "ucNotifyState"})
  <2>1. IsState(k1)
    BY <1>1, GoodTypes
  <2> QED BY <2>1 DEF IsState, Same, Fields
<1> HIDE DEF k2
<1>3. Calm(k1, k2)
  BY <1>2, SameCalm DEF Timing
<1>4. Calm(k, k2)
  BY <1>1, <1>3, CalmTwice
<1> QED BY <1>4 DEF k1, k2

LEMMA TerminatedCalm ==
  ASSUME NEW k, Good(k), NEW t \in Tasks
  PROVE  LET k1 == UnlinkEvent(UnlinkState(k, t), t)
         IN  Calm(k, [k1 EXCEPT !.xTasksWaitingTermination = Append(@, t)])
<1> DEFINE k1 == UnlinkEvent(UnlinkState(k, t), t)
           k2 == [k1 EXCEPT !.xTasksWaitingTermination = Append(@, t)]
<1>1. Good(k1) /\ Calm(k, k1)
  BY UnlinkedMoves, UnlinkedCalm DEF Moves
<1> HIDE DEF k1
<1>2. Same(k1, k2, {"xTasksWaitingTermination"})
  BY ZenonT(40), <1>1, GoodTypes DEF IsState, Same, Fields
<1> HIDE DEF k2
<1>3. Calm(k1, k2)
  BY <1>2, SameCalm DEF Timing
<1>4. Calm(k, k2)
  BY <1>1, <1>3, CalmTwice
<1> QED BY <1>4 DEF k1, k2

LEMMA PrioritySetCalm ==
  ASSUME NEW k, Good(k), NEW t \in Tasks, NEW p \in Priorities
  PROVE  Calm(k, PrioritySet(k, t, p))
<1> DEFINE base == k.uxBasePriority[t]
           now  == IF base = k.uxPriority[t] THEN p ELSE k.uxPriority[t]
           v    == configMAX_PRIORITIES - p
           k1   == [k EXCEPT !.uxPriority[t] = IF base = @ THEN p ELSE @,
                             !.uxBasePriority[t] = p,
                             !.xEventValue[t] = configMAX_PRIORITIES - p]
<1>1. /\ Same(k, k1, {"uxPriority", "uxBasePriority", "xEventValue"})
      /\ k1.uxPriority = [k.uxPriority EXCEPT ![t] = IF base = @ THEN p ELSE @]
      /\ k1.uxBasePriority = [k.uxBasePriority EXCEPT ![t] = p]
      /\ k1.xEventValue = [k.xEventValue EXCEPT ![t] = v]
  <2>1. IsState(k)
    BY GoodTypes
  <2> HIDE DEF base
  <2> QED BY <2>1 DEF IsState, Same, Fields
<1>2. v \in 1 .. configMAX_PRIORITIES
  BY TasksAssumption DEF Priorities
<1>3. PrioritySet(k, t, p) \in {k1, MakeReady(k1, t)}
  BY DEF PrioritySet
<1> HIDE DEF k1, v
<1>4. Types(k1)
  <2>1. Types(k) /\ t \in AllTasks /\ t # Idle
    BY TypesOf, Bounds
  <2> QED BY SMTT(30), <1>1, <1>2, <2>1 DEF Same, Fields, Types
<1>5. Good(k1)
  BY <1>1, <1>4, TypesGood DEF Same, Fields, Structure
<1>6. Calm(k, k1)
  BY <1>1, SameCalm DEF Timing
<1>7. Calm(k1, MakeReady(k1, t))
  BY <1>5, MakeReadyCalm
<1> QED BY <1>3, <1>6, <1>7, CalmTwice

---------------------------------------------------------------------------
(* The ticks until a task wakes *)

\* the delayed tasks wake after this tick: those of the second list when the tick
\* count has wrapped
Timely(k) ==
  /\ InOrder(k)
  /\ \A t : Contains(k.pxDelayedTaskList, t) => k.xWakeTime[t] > k.xTickCount
  /\ \A t : Contains(k.pxOverflowDelayedTaskList, t) => k.xWakeTime[t] < k.xTickCount
  /\ k.xNumOfOverflows \in 0 .. OverflowRange - 1

\* the ticks that a sleeping task has still to wait
Left(k, t) ==
  IF Contains(k.pxDelayedTaskList, t) THEN k.xWakeTime[t] - k.xTickCount
                                      ELSE k.xWakeTime[t] + TickRange - k.xTickCount

\* n ticks took k to k1: who sleeps has slept before, and has n ticks less to wait
Passes(k, k1, n) ==
  /\ Timely(k1)
  /\ k1.xTickCount = (k.xTickCount + n) % TickRange
  /\ k1.xNumOfOverflows = IF k.xTickCount + n < TickRange THEN k.xNumOfOverflows
                          ELSE (k.xNumOfOverflows + 1) % OverflowRange
  /\ \A t : IsSleeping(k1, t) => IsSleeping(k, t) /\ Left(k1, t) = Left(k, t) - n
  /\ k1.pxCurrentTCB = k.pxCurrentTCB \/ ~IsSleeping(k1, k1.pxCurrentTCB)

\* in a delayed list there are tasks of the application only, each in one
LEMMA Sleepers ==
  ASSUME NEW k, Good(k), NEW t
  PROVE  /\ IsSleeping(k, t) => /\ t \in Tasks /\ t \in AllTasks /\ k.xWakeTime[t] \in Ticks
                                /\ k.xWakeTime[t] \in Int
         /\ ~(Contains(k.pxDelayedTaskList, t) /\ Contains(k.pxOverflowDelayedTaskList, t))
<1>1. /\ k.pxDelayedTaskList \in Seq(Tasks) /\ k.pxOverflowDelayedTaskList \in Seq(Tasks)
      /\ k.xWakeTime \in [AllTasks -> Ticks] /\ \A x \in AllTasks : Once(k, x)
  BY GoodTypes DEF Sound, IsList
<1>2. IsSleeping(k, t) => t \in Tasks
  BY <1>1 DEF IsSleeping, Contains
<1>3. IsSleeping(k, t) => t \in AllTasks /\ k.xWakeTime[t] \in Ticks
  BY <1>1, <1>2, Bounds
<1>4. ~(Contains(k.pxDelayedTaskList, t) /\ Contains(k.pxOverflowDelayedTaskList, t))
  <2>1. CASE t \in AllTasks
    BY <1>1, <2>1, Zenon DEF Once
  <2>2. CASE ~(t \in AllTasks)
    BY <1>3, <2>2 DEF IsSleeping
  <2> QED BY <2>1, <2>2
<1>5. \A n \in Ticks : n \in Int
  BY Bounds
<1> QED BY <1>2, <1>3, <1>4, <1>5

LEMMA CountTypes ==
  ASSUME NEW k, Good(k)
  PROVE  k.xTickCount \in 0 .. TickRange - 1 /\ k.xTickCount \in Int /\ TickRange \in Nat \ {0, 1}
  BY GoodTypes, RangeAssumption DEF Ticks

LEMMA CalmPasses ==
  ASSUME NEW k, Good(k), Timely(k), NEW k1, Calm(k, k1) PROVE Passes(k, k1, 0)
<1>1. k.xTickCount \in 0 .. TickRange - 1 /\ TickRange \in Nat \ {0, 1}
  BY CountTypes
<1>2. k1.xTickCount = k.xTickCount /\ k1.xNumOfOverflows = k.xNumOfOverflows
  BY DEF Calm
<1>3. k1.xTickCount = (k.xTickCount + 0) % TickRange /\ k.xTickCount + 0 < TickRange
  <2>1. k.xTickCount % TickRange = k.xTickCount
    BY <1>1, SMT
  <2> QED BY <1>1, <1>2, <2>1
<1>4. Timely(k1)
  BY <1>2 DEF Calm, Timely
<1>5. ASSUME NEW t, IsSleeping(k1, t)
      PROVE  IsSleeping(k, t) /\ Left(k1, t) = Left(k, t) - 0
  <2>1. /\ IsSleeping(k, t) /\ k1.xWakeTime[t] = k.xWakeTime[t]
        /\ Contains(k1.pxDelayedTaskList, t) => Contains(k.pxDelayedTaskList, t)
        /\ Contains(k1.pxOverflowDelayedTaskList, t) => Contains(k.pxOverflowDelayedTaskList, t)
    BY <1>5 DEF Calm, IsSleeping
  <2>2. Contains(k1.pxDelayedTaskList, t) <=> Contains(k.pxDelayedTaskList, t)
    BY <1>5, <2>1, Sleepers DEF IsSleeping
  <2>3. k.xWakeTime[t] \in Int
    BY <2>1, Sleepers
  <2> QED BY <1>1, <1>2, <2>1, <2>2, <2>3 DEF Left
<1>6. k1.pxCurrentTCB = k.pxCurrentTCB \/ ~IsSleeping(k1, k1.pxCurrentTCB)
  BY DEF Calm
<1> QED BY <1>2, <1>3, <1>4, <1>5, <1>6 DEF Passes

LEMMA PassesTwice ==
  ASSUME NEW k, Good(k), Timely(k), NEW k1, Good(k1), NEW k2, NEW m \in Nat, NEW n \in Nat,
         m + n < TickRange, Passes(k, k1, m), Passes(k1, k2, n)
  PROVE  Passes(k, k2, m + n)
<1> DEFINE L == TickRange  a == k.xTickCount  b == k1.xTickCount  o == k.xNumOfOverflows
<1>1. /\ L \in Nat \ {0} /\ a \in 0 .. L - 1 /\ m \in 0 .. L - 1 /\ n \in 0 .. L - 1
      /\ m + n \in 0 .. L - 1 /\ b \in 0 .. L - 1
  BY CountTypes
<1>2. /\ b = (a + m) % L /\ k2.xTickCount = (b + n) % L
      /\ k1.xNumOfOverflows = IF a + m < L THEN o ELSE (o + 1) % OverflowRange
      /\ k2.xNumOfOverflows = IF b + n < L THEN k1.xNumOfOverflows
                              ELSE (k1.xNumOfOverflows + 1) % OverflowRange
  BY DEF Passes
<1>3. /\ \A t : IsSleeping(k1, t) => IsSleeping(k, t) /\ Left(k1, t) = Left(k, t) - m
      /\ \A t : IsSleeping(k2, t) => IsSleeping(k1, t) /\ Left(k2, t) = Left(k1, t) - n
      /\ k1.pxCurrentTCB = k.pxCurrentTCB \/ ~IsSleeping(k1, k1.pxCurrentTCB)
      /\ k2.pxCurrentTCB = k1.pxCurrentTCB \/ ~IsSleeping(k2, k2.pxCurrentTCB)
      /\ Timely(k2)
  BY DEF Passes
<1>4. ASSUME NEW t, IsSleeping(k2, t)
      PROVE  IsSleeping(k, t) /\ Left(k2, t) = Left(k, t) - (m + n)
  <2>1. IsSleeping(k, t) /\ Left(k2, t) = Left(k, t) - m - n
    BY <1>3, <1>4
  <2>2. k.xWakeTime[t] \in Int
    BY <2>1, Sleepers
  <2>3. Left(k, t) \in Int
    BY <1>1, <2>2 DEF Left
  <2> HIDE DEF L
  <2> QED BY <1>1, <2>1, <2>3
<1> HIDE DEF L, a, b, o
<1>5. /\ (a + m) % L = IF a + m < L THEN a + m ELSE a + m - L
      /\ (b + n) % L = IF b + n < L THEN b + n ELSE b + n - L
      /\ (a + (m + n)) % L = IF a + (m + n) < L THEN a + (m + n) ELSE a + (m + n) - L
  BY <1>1, SumWraps
<1>6. /\ (b + n) % L = (a + (m + n)) % L
      /\ IF a + m < L THEN b + n < L <=> a + (m + n) < L ELSE b + n < L /\ ~(a + (m + n) < L)
  BY <1>1, <1>2, <1>5
<1>7. k2.xTickCount = (a + (m + n)) % L
  BY <1>2, <1>6
<1>8. k2.xNumOfOverflows = IF a + (m + n) < L THEN o ELSE (o + 1) % OverflowRange
  BY <1>2, <1>6
<1> QED BY <1>3, <1>4, <1>7, <1>8 DEF Passes, L, a, o

\* a task sleeps, for some ticks, at most
Sleeps(k, k1, t, ticks) ==
  /\ Timely(k1)
  /\ \A f \in {"xTickCount", "xNumOfOverflows", "uxSchedulerSuspended", "pxCurrentTCB"} : k1[f] = k[f]
  /\ \A x : x # t /\ IsSleeping(k1, x) => IsSleeping(k, x) /\ Left(k1, x) = Left(k, x)
  /\ IsSleeping(k1, t) => Left(k1, t) = ticks

LEMMA SleepIs ==
  ASSUME NEW k, Good(k), Timely(k), k.pxCurrentTCB \in Tasks,
         NEW ticks \in 1 .. TickRange - 1, NEW forEver
  PROVE  Sleeps(k, prvAddCurrentTaskToDelayedList(k, ticks, forEver), k.pxCurrentTCB, ticks)
<1> DEFINE t    == k.pxCurrentTCB
           wake == (k.xTickCount + ticks) % TickRange
           k0   == UnlinkState(k, t)
           k1   == [k0 EXCEPT !.xWakeTime[t] = wake]
           ka   == [k0 EXCEPT !.xSuspendedTaskList = @ \cup {t}]
           kb   == [k1 EXCEPT !.pxOverflowDelayedTaskList = vListInsert(@, t, k1.xWakeTime)]
           kc   == [k1 EXCEPT !.pxDelayedTaskList = vListInsert(@, t, k1.xWakeTime),
                              !.xNextTaskUnblockTime = IF wake < @ THEN wake ELSE @]
           r    == prvAddCurrentTaskToDelayedList(k, ticks, forEver)
<1>0. /\ t \in Tasks /\ t \in AllTasks /\ TickRange \in Nat \ {0, 1}
      /\ k.xTickCount \in 0 .. TickRange - 1
  BY Bounds, CountTypes
<1>1. \/ r = ka
      \/ wake < k.xTickCount /\ r = kb
      \/ ~(wake < k.xTickCount) /\ r = kc
  BY DEF prvAddCurrentTaskToDelayedList
<1>2. /\ wake \in Ticks /\ wake \in Int
      /\ wake = IF k.xTickCount + ticks < TickRange THEN k.xTickCount + ticks
                ELSE k.xTickCount + ticks - TickRange
  <2>1. TickRange \in Nat \ {0} /\ ticks \in 0 .. TickRange - 1
    BY <1>0
  <2>2. wake = IF k.xTickCount + ticks < TickRange THEN k.xTickCount + ticks
                ELSE k.xTickCount + ticks - TickRange
    BY <1>0, <2>1, SumWraps
  <2> HIDE DEF wake
  <2> QED BY <1>0, <2>2 DEF Ticks
<1> HIDE DEF wake, r
<1>3. Good(k0) /\ Calm(k, k0) /\ ~IsSleeping(k0, t)
  BY <1>0, UnlinkStateMoves, UnlinkStateCalm DEF Moves
<1>4. Same(k, k0, {"pxReadyTasksLists", "pxDelayedTaskList", "pxOverflowDelayedTaskList",
                   "xSuspendedTaskList", "xTasksWaitingTermination", "xWakeTime"})
  BY <1>0, UnlinkStateSound DEF Good
<1> HIDE DEF k0
<1>5. /\ IsState(k0) /\ k0.xWakeTime \in [AllTasks -> Ticks]
      /\ IsList(k0.pxDelayedTaskList, Tasks) /\ IsList(k0.pxOverflowDelayedTaskList, Tasks)
      /\ k0.xNextTaskUnblockTime \in Ticks /\ k0.xNextTaskUnblockTime \in Int
  <2> HIDE DEF k1, kb, kc, ka
  <2>1. Sound(k0) /\ k0.xWakeTime \in [AllTasks -> Ticks] /\ k0.xNextTaskUnblockTime \in Ticks
    BY <1>3, GoodTypes
  <2>2. /\ IsState(k0) /\ IsList(k0.pxDelayedTaskList, Tasks)
        /\ IsList(k0.pxOverflowDelayedTaskList, Tasks)
    BY <2>1 DEF Sound
  <2>3. \A n \in Ticks : n \in Int
    BY Bounds
  <2> QED BY <2>1, <2>2, <2>3
<1>6. /\ k0.xTickCount = k.xTickCount /\ k0.xNumOfOverflows = k.xNumOfOverflows
      /\ k0.uxSchedulerSuspended = k.uxSchedulerSuspended /\ k0.pxCurrentTCB = t
  BY <1>4 DEF Same, Fields
<1>7. Timely(k0) /\ \A x : IsSleeping(k0, x) => IsSleeping(k, x) /\ Left(k0, x) = Left(k, x)
  <2>1. Passes(k, k0, 0)
    BY <1>3, CalmPasses
  <2>2. ASSUME NEW x, IsSleeping(k0, x) PROVE IsSleeping(k, x) /\ Left(k0, x) = Left(k, x)
    <3>1. IsSleeping(k, x) /\ Left(k0, x) = Left(k, x) - 0
      BY <2>1, <2>2 DEF Passes
    <3>2. Left(k, x) \in Int
      BY <1>0, <3>1, Sleepers DEF Left
    <3> QED BY <3>1, <3>2
  <2> QED BY <2>1, <2>2 DEF Passes
<1>8. /\ Same(k0, k1, {"xWakeTime"}) /\ k1.xWakeTime = [k0.xWakeTime EXCEPT ![t] = wake]
      /\ \A y \in Tasks : k1.xWakeTime[y] \in Int
      /\ k1.xWakeTime[t] = wake /\ \A x : x # t => k1.xWakeTime[x] = k0.xWakeTime[x]
  <2>1. Same(k0, k1, {"xWakeTime"}) /\ k1.xWakeTime = [k0.xWakeTime EXCEPT ![t] = wake]
    BY <1>5 DEF IsState, Same, Fields
  <2>2. k1.xWakeTime \in [AllTasks -> Ticks]
    BY <1>0, <1>2, <1>5, <2>1
  <2>3. \A y \in Tasks : k1.xWakeTime[y] \in Int
    BY <2>2, Bounds
  <2> QED BY <1>0, <1>5, <2>1, <2>3
<1>9. ASSUME NEW l, IsList(l, Tasks), ~Contains(l, t), Ordered(l, k0.xWakeTime)
      PROVE  /\ Ordered(l, k1.xWakeTime) /\ Ordered(vListInsert(l, t, k1.xWakeTime), k1.xWakeTime)
             /\ \A y : Contains(vListInsert(l, t, k1.xWakeTime), y) <=> Contains(l, y) \/ y = t
  <2> HIDE DEF k1
  <2>1. Ordered(l, k1.xWakeTime)
    BY <1>8, <1>9 DEF Ordered, Contains
  <2> HIDE DEF t, k1, ka, kb, kc
  <2>2. /\ IsList(l, Tasks) /\ t \in Tasks /\ ~Contains(l, t)
        /\ \A y \in Tasks : k1.xWakeTime[y] \in Int
    BY <1>0, <1>8, <1>9
  <2>3. /\ \A y : Contains(vListInsert(l, t, k1.xWakeTime), y) <=> Contains(l, y) \/ y = t
        /\ Ordered(l, k1.xWakeTime) => Ordered(vListInsert(l, t, k1.xWakeTime), k1.xWakeTime)
    BY <2>2, ListInserted
  <2> QED BY <2>1, <2>3
<1>10. /\ ~Contains(k0.pxDelayedTaskList, t) /\ ~Contains(k0.pxOverflowDelayedTaskList, t)
       /\ Ordered(k0.pxDelayedTaskList, k0.xWakeTime)
       /\ Ordered(k0.pxOverflowDelayedTaskList, k0.xWakeTime)
       /\ \A x : Contains(k0.pxDelayedTaskList, x) => k0.xNextTaskUnblockTime <= k0.xWakeTime[x]
       /\ \A x : Contains(k0.pxDelayedTaskList, x) => k0.xWakeTime[x] > k0.xTickCount
       /\ \A x : Contains(k0.pxOverflowDelayedTaskList, x) => k0.xWakeTime[x] < k0.xTickCount
       /\ k0.xNumOfOverflows \in 0 .. OverflowRange - 1
  BY <1>3, <1>7 DEF Timely, InOrder, IsSleeping
<1>11. ASSUME r = ka PROVE Sleeps(k, r, t, ticks)
  <2>1. Same(k0, ka, {"xSuspendedTaskList"})
    BY <1>5 DEF IsState, Same, Fields
  <2> HIDE DEF ka
  <2>2. \A f \in Timing : r[f] = k0[f]
    BY <1>11, <2>1 DEF Same, Fields, Timing
  <2>3. Timely(r) /\ \A x : (IsSleeping(r, x) <=> IsSleeping(k0, x)) /\ Left(r, x) = Left(k0, x)
    BY <1>7, <2>2 DEF Timing, Timely, InOrder, IsSleeping, Left
  <2>4. \A f \in {"xTickCount", "xNumOfOverflows", "uxSchedulerSuspended", "pxCurrentTCB"} : r[f] = k[f]
    BY <1>6, <2>2 DEF Timing
  <2> QED BY <1>3, <1>7, <2>3, <2>4 DEF Sleeps
<1>12. ASSUME wake < k.xTickCount, r = kb PROVE Sleeps(k, r, t, ticks)
  <2> DEFINE l == vListInsert(k0.pxOverflowDelayedTaskList, t, k1.xWakeTime)
  <2>1. /\ Same(k0, kb, {"xWakeTime", "pxOverflowDelayedTaskList"})
        /\ kb.xWakeTime = k1.xWakeTime /\ kb.pxOverflowDelayedTaskList = l
    <3> HIDE DEF k1
    <3> QED BY <1>8 DEF IsState, Same, Fields
  <2>2. /\ Ordered(k0.pxDelayedTaskList, k1.xWakeTime) /\ Ordered(l, k1.xWakeTime)
        /\ \A y : Contains(l, y) <=> Contains(k0.pxOverflowDelayedTaskList, y) \/ y = t
    BY <1>5, <1>9, <1>10
  <2> HIDE DEF kb, l, k1
  <2>3. /\ r.pxDelayedTaskList = k0.pxDelayedTaskList /\ r.pxOverflowDelayedTaskList = l
        /\ r.xTickCount = k0.xTickCount /\ r.xNumOfOverflows = k0.xNumOfOverflows
        /\ r.xNextTaskUnblockTime = k0.xNextTaskUnblockTime
        /\ r.uxSchedulerSuspended = k0.uxSchedulerSuspended /\ r.pxCurrentTCB = k0.pxCurrentTCB
        /\ r.xWakeTime = k1.xWakeTime
    BY <1>12, <2>1 DEF Same, Fields
  <2>4. r.xWakeTime[t] = wake /\ \A x : x # t => r.xWakeTime[x] = k0.xWakeTime[x]
    BY <1>8, <2>3
  <2>5. Timely(r)
    BY <1>6, <1>10, <1>12, <2>2, <2>3, <2>4 DEF Timely, InOrder
  <2>6. ASSUME NEW x, x # t, IsSleeping(r, x) PROVE IsSleeping(k, x) /\ Left(r, x) = Left(k, x)
    <3>1. IsSleeping(k0, x) /\ Left(r, x) = Left(k0, x)
      BY <2>2, <2>3, <2>4, <2>6 DEF IsSleeping, Left
    <3> QED BY <1>7, <3>1
  <2>7. Left(r, t) = ticks
    <3>1. Left(r, t) = wake + TickRange - k.xTickCount
      BY <1>6, <1>10, <2>3, <2>4 DEF Left
    <3> HIDE DEF t
    <3> QED BY <1>0, <1>2, <1>12, <3>1
  <2> QED BY <1>6, <2>3, <2>5, <2>6, <2>7 DEF Sleeps
<1>13. ASSUME ~(wake < k.xTickCount), r = kc PROVE Sleeps(k, r, t, ticks)
  <2> DEFINE l == vListInsert(k0.pxDelayedTaskList, t, k1.xWakeTime)
             next == IF wake < k0.xNextTaskUnblockTime THEN wake ELSE k0.xNextTaskUnblockTime
  <2>1. /\ Same(k0, kc, {"xWakeTime", "pxDelayedTaskList", "xNextTaskUnblockTime"})
        /\ kc.xWakeTime = k1.xWakeTime /\ kc.pxDelayedTaskList = l
        /\ kc.xNextTaskUnblockTime = next
    <3> HIDE DEF k1
    <3> QED BY <1>8 DEF IsState, Same, Fields
  <2>2. /\ Ordered(k0.pxOverflowDelayedTaskList, k1.xWakeTime) /\ Ordered(l, k1.xWakeTime)
        /\ \A y : Contains(l, y) <=> Contains(k0.pxDelayedTaskList, y) \/ y = t
    BY <1>5, <1>9, <1>10
  <2> HIDE DEF kc, l, k1
  <2>3. /\ r.pxOverflowDelayedTaskList = k0.pxOverflowDelayedTaskList /\ r.pxDelayedTaskList = l
        /\ r.xTickCount = k0.xTickCount /\ r.xNumOfOverflows = k0.xNumOfOverflows
        /\ r.xNextTaskUnblockTime = next
        /\ r.uxSchedulerSuspended = k0.uxSchedulerSuspended /\ r.pxCurrentTCB = k0.pxCurrentTCB
        /\ r.xWakeTime = k1.xWakeTime
    BY <1>13, <2>1 DEF Same, Fields
  <2>4. r.xWakeTime[t] = wake /\ \A x : x # t => r.xWakeTime[x] = k0.xWakeTime[x]
    BY <1>8, <2>3
  <2>5. wake > k.xTickCount /\ next <= wake /\ next <= k0.xNextTaskUnblockTime /\ next \in Int
    <3> HIDE DEF t
    <3> QED BY <1>0, <1>2, <1>5, <1>13
  <2>6. \A x : Contains(k0.pxDelayedTaskList, x) => next <= k0.xWakeTime[x]
    <3> SUFFICES ASSUME NEW x, Contains(k0.pxDelayedTaskList, x) PROVE next <= k0.xWakeTime[x]
      OBVIOUS
    <3>1. k0.xWakeTime[x] \in Int /\ k0.xNextTaskUnblockTime <= k0.xWakeTime[x]
      BY <1>3, <1>10, Sleepers DEF IsSleeping
    <3> HIDE DEF next
    <3> QED BY <1>5, <2>5, <3>1
  <2> HIDE DEF next
  <2>7. Timely(r)
    <3>1. \A x : Contains(l, x) => r.xNextTaskUnblockTime <= r.xWakeTime[x]
      BY <1>10, <2>2, <2>3, <2>4, <2>5, <2>6
    <3>2. \A x : Contains(l, x) => r.xWakeTime[x] > r.xTickCount
      BY <1>6, <1>10, <2>2, <2>3, <2>4, <2>5
    <3>3. \A x : Contains(k0.pxOverflowDelayedTaskList, x) => r.xWakeTime[x] < r.xTickCount
      BY <1>10, <2>3, <2>4
    <3> QED BY <1>10, <2>2, <2>3, <3>1, <3>2, <3>3 DEF Timely, InOrder
  <2>8. ASSUME NEW x, x # t, IsSleeping(r, x) PROVE IsSleeping(k, x) /\ Left(r, x) = Left(k, x)
    <3>1. IsSleeping(k0, x) /\ Left(r, x) = Left(k0, x)
      BY <2>2, <2>3, <2>4, <2>8 DEF IsSleeping, Left
    <3> QED BY <1>7, <3>1
  <2>9. Left(r, t) = ticks
    <3>1. Left(r, t) = wake - k.xTickCount
      BY <1>6, <2>2, <2>3, <2>4 DEF Left
    <3> HIDE DEF t
    <3> QED BY <1>0, <1>2, <1>13, <3>1
  <2> QED BY <1>6, <2>3, <2>7, <2>8, <2>9 DEF Sleeps
<1> QED BY <1>1, <1>11, <1>12, <1>13 DEF r

\* a sleeping task whose time has come is among those that wake
LEMMA ExpiredAre ==
  ASSUME NEW k, Good(k), Ordered(k.pxDelayedTaskList, k.xWakeTime),
         NEW x, Contains(k.pxDelayedTaskList, x), ~(k.xWakeTime[x] > k.xTickCount)
  PROVE  \E i \in 1 .. Len(Expired(k)) : Expired(k)[i] = x
<1> DEFINE l == k.pxDelayedTaskList
           w == k.xWakeTime
           I == {i \in 1 .. Len(l) : w[l[i]] > k.xTickCount}
           later == IF I # {} THEN Min(I) ELSE 0
<1>1. l \in Seq(Tasks) /\ Len(l) \in Nat /\ w \in [AllTasks -> Ticks] /\ k.xTickCount \in Nat
  <2>1. l \in Seq(Tasks)
    BY GoodTypes DEF Sound, IsList
  <2> QED BY <2>1, GoodTypes
<1>2. Expired(k) = IF later = 0 THEN l ELSE SubSeq(l, 1, later - 1)
  BY DEF Expired, SelectInSeq
<1>3. I \in SUBSET Nat /\ I \subseteq 1 .. Len(l)
  OBVIOUS
<1>4. PICK j \in 1 .. Len(l) : l[j] = x
  BY DEF Contains
<1>5. CASE I = {}
  BY <1>2, <1>4, <1>5
<1>6. CASE I # {}
  <2>1. later \in I /\ later = Min(I)
    <3> HIDE DEF I
    <3> QED BY <1>3, <1>6, MinIs
  <2>2. later \in 1 .. Len(l) /\ w[l[later]] > k.xTickCount
    BY <2>1
  <2> HIDE DEF later, I, l, w
  <2>3. \A i \in 1 .. Len(l) : w[l[i]] \in Int
    <3>1. \A i \in 1 .. Len(l) : l[i] \in AllTasks
      BY <1>1, Bounds
    <3>2. \A n \in Ticks : n \in Int
      BY Bounds
    <3> QED BY <1>1, <3>1, <3>2
  <2>4. ~(w[l[j]] > k.xTickCount)
    BY <1>4 DEF w
  <2>5. later < j => w[l[later]] <= w[l[j]]
    BY <1>4, <2>2 DEF Ordered, l, w
  <2>6. j < later
    <3>1. later # j
      BY <2>2, <2>4
    <3>2. ~(later < j)
      BY <1>1, <1>4, <2>2, <2>3, <2>4, <2>5
    <3> QED BY <1>1, <1>4, <2>2, <3>1, <3>2
  <2>7. /\ 1 \in 1 .. Len(l) + 1 /\ later - 1 \in 0 .. Len(l) /\ 1 <= (later - 1) + 1 /\ later # 0
        /\ j \in 1 .. later - 1 /\ (later - 1) - 1 + 1 = later - 1 /\ 1 + j - 1 = j
    BY <1>1, <1>4, <2>2, <2>6
  <2>8. /\ Len(SubSeq(l, 1, later - 1)) = later - 1
        /\ \A n \in 1 .. later - 1 : SubSeq(l, 1, later - 1)[n] = l[1 + n - 1]
    BY <1>1, <2>7, SubSeqIs
  <2> QED BY <1>2, <1>4, <2>7, <2>8
<1> QED BY <1>5, <1>6

\* The tick is counted, the tasks whose time has come still sleep.
Due(k, k1) ==
  /\ InOrder(k1)
  /\ k1.xTickCount = (k.xTickCount + 1) % TickRange
  /\ k1.xNumOfOverflows = IF k.xTickCount + 1 < TickRange THEN k.xNumOfOverflows
                          ELSE (k.xNumOfOverflows + 1) % OverflowRange
  /\ \A t : Contains(k1.pxDelayedTaskList, t) => k1.xWakeTime[t] >= k1.xTickCount
  /\ \A t : Contains(k1.pxOverflowDelayedTaskList, t) => k1.xWakeTime[t] < k1.xTickCount
  /\ \A t : IsSleeping(k1, t) => IsSleeping(k, t) /\ Left(k1, t) = Left(k, t) - 1
  /\ k1.pxCurrentTCB = k.pxCurrentTCB
  /\ k1.xNumOfOverflows \in 0 .. OverflowRange - 1

LEMMA DuePasses ==
  ASSUME NEW k, NEW k1, Good(k1), Due(k, k1), NEW k2, Calm(k1, k2),
         \A t : Contains(k2.pxDelayedTaskList, t) => k2.xWakeTime[t] > k2.xTickCount
  PROVE  Passes(k, k2, 1)
<1>1. Timely(k2)
  BY DEF Due, Calm, Timely
<1>2. ASSUME NEW t, IsSleeping(k2, t) PROVE IsSleeping(k, t) /\ Left(k2, t) = Left(k, t) - 1
  <2>1. /\ IsSleeping(k1, t) /\ k2.xWakeTime[t] = k1.xWakeTime[t] /\ k2.xTickCount = k1.xTickCount
        /\ Contains(k2.pxDelayedTaskList, t) => Contains(k1.pxDelayedTaskList, t)
        /\ Contains(k2.pxOverflowDelayedTaskList, t) => Contains(k1.pxOverflowDelayedTaskList, t)
    BY <1>2 DEF Calm, IsSleeping
  <2>2. Contains(k2.pxDelayedTaskList, t) <=> Contains(k1.pxDelayedTaskList, t)
    BY <1>2, <2>1, Sleepers DEF IsSleeping
  <2>3. Left(k2, t) = Left(k1, t)
    BY <2>1, <2>2 DEF Left
  <2> QED BY <2>1, <2>3 DEF Due
<1>3. k2.pxCurrentTCB = k.pxCurrentTCB \/ ~IsSleeping(k2, k2.pxCurrentTCB)
  BY DEF Due, Calm
<1> QED BY <1>1, <1>2, <1>3 DEF Passes, Due, Calm

LEMMA ListsSwapped ==
  ASSUME NEW k, Good(k)
  PROVE  LET k1 == taskSWITCH_DELAYED_LISTS(k)
         IN  /\ Good(k1)
             /\ \A f \in Timing \ {"pxDelayedTaskList", "pxOverflowDelayedTaskList",
                                   "xNumOfOverflows", "xNextTaskUnblockTime"} : k1[f] = k[f]
             /\ k1.pxDelayedTaskList = k.pxOverflowDelayedTaskList
             /\ k1.pxOverflowDelayedTaskList = k.pxDelayedTaskList
             /\ k1.xNumOfOverflows = (k.xNumOfOverflows + 1) % OverflowRange
             /\ InOrder(k) => InOrder(k1)
<1> DEFINE k1 == [k EXCEPT !.pxDelayedTaskList = k.pxOverflowDelayedTaskList,
                           !.pxOverflowDelayedTaskList = k.pxDelayedTaskList,
                           !.xNumOfOverflows = (@ + 1) % OverflowRange]
           k2 == taskSWITCH_DELAYED_LISTS(k)
<1>1. /\ Same(k, k1, {"pxDelayedTaskList", "pxOverflowDelayedTaskList", "xNumOfOverflows"})
      /\ k1.pxDelayedTaskList = k.pxOverflowDelayedTaskList
      /\ k1.pxOverflowDelayedTaskList = k.pxDelayedTaskList
      /\ k1.xNumOfOverflows = (k.xNumOfOverflows + 1) % OverflowRange
  <2> DEFINE overflows == (k.xNumOfOverflows + 1) % OverflowRange
             k3 == [k EXCEPT !.pxDelayedTaskList = k.pxOverflowDelayedTaskList,
                             !.pxOverflowDelayedTaskList = k.pxDelayedTaskList,
                             !.xNumOfOverflows = overflows]
  <2>1. k1 = k3
    OBVIOUS
  <2>2. IsState(k)
    BY GoodTypes
  <2> HIDE DEF k1, overflows
  <2>3. /\ Same(k, k1, {"pxDelayedTaskList", "pxOverflowDelayedTaskList", "xNumOfOverflows"})
        /\ k1.pxDelayedTaskList = k.pxOverflowDelayedTaskList
        /\ k1.pxOverflowDelayedTaskList = k.pxDelayedTaskList
        /\ k1.xNumOfOverflows = overflows
    BY <2>1, <2>2 DEF IsState, Same, Fields
  <2> QED BY <2>3 DEF overflows
<1>2. k2 = prvResetNextTaskUnblockTime(k1)
  BY DEF taskSWITCH_DELAYED_LISTS
<1> HIDE DEF k1, k2
<1>3. \A x \in AllTasks : Once(k1, x)
  <2>1. \A x \in AllTasks : Once(k, x)
    BY GoodTypes DEF Sound
  <2> QED BY <1>1, <2>1 DEF Once, IsReady, IsTerminated, Same, Fields
<1>4. Sound(k1)
  BY <1>1, <1>3, GoodTypes DEF Sound, Same, Fields
<1>5. Good(k1)
  BY <1>1, <1>4 DEF Good, Same, Fields
<1>6. Good(k2)
  BY <1>2, <1>5, ResetMoves DEF Moves
<1>7. /\ Same(k1, k2, {"xNextTaskUnblockTime"})
      /\ Ordered(k1.pxDelayedTaskList, k1.xWakeTime)
         /\ Ordered(k1.pxOverflowDelayedTaskList, k1.xWakeTime) => InOrder(k2)
  BY <1>2, <1>5, ResetOrders
<1>8. InOrder(k) => InOrder(k2)
  BY <1>1, <1>7 DEF InOrder, Same, Fields
<1>9. /\ \A f \in Timing \ {"pxDelayedTaskList", "pxOverflowDelayedTaskList",
                            "xNumOfOverflows", "xNextTaskUnblockTime"} : k2[f] = k[f]
      /\ k2.pxDelayedTaskList = k.pxOverflowDelayedTaskList
      /\ k2.pxOverflowDelayedTaskList = k.pxDelayedTaskList
      /\ k2.xNumOfOverflows = (k.xNumOfOverflows + 1) % OverflowRange
  BY <1>1, <1>7 DEF Same, Fields, Timing
<1> QED BY <1>6, <1>8, <1>9 DEF k2

LEMMA TickPasses ==
  ASSUME NEW k, Good(k), Timely(k), ~(k.uxSchedulerSuspended > 0)
  PROVE  Passes(k, xTaskIncrementTick(k), 1)
<1> DEFINE tick == (k.xTickCount + 1) % TickRange
           k1   == [k EXCEPT !.xTickCount = tick]
           k2   == IF tick = 0 THEN taskSWITCH_DELAYED_LISTS(k1) ELSE k1
           k3   == InTurn(LAMBDA r, t : MakeReady(UnlinkEvent(r, t), t), k2, Expired(k2))
           k4   == prvResetNextTaskUnblockTime(k3)
           kt   == xTaskIncrementTick(k)
<1>1. kt = IF tick < k2.xNextTaskUnblockTime THEN k2 ELSE k4
  BY DEF xTaskIncrementTick
<1>2. /\ TickRange \in Nat \ {0, 1} /\ k.xTickCount \in 0 .. TickRange - 1
      /\ tick = IF k.xTickCount + 1 < TickRange THEN k.xTickCount + 1 ELSE 0
      /\ tick \in Ticks /\ tick \in Int
  <2>1. TickRange \in Nat \ {0, 1} /\ k.xTickCount \in 0 .. TickRange - 1 /\ k.xTickCount \in Int
    BY CountTypes
  <2>2. TickRange \in Nat \ {0} /\ 1 \in 0 .. TickRange - 1
    BY <2>1
  <2>3. tick = IF k.xTickCount + 1 < TickRange THEN k.xTickCount + 1 ELSE k.xTickCount + 1 - TickRange
    BY <2>1, <2>2, SumWraps
  <2>4. k.xTickCount + 1 < TickRange \/ k.xTickCount + 1 = TickRange
    BY <2>1
  <2> HIDE DEF tick
  <2> QED BY <2>1, <2>3, <2>4 DEF Ticks
<1> HIDE DEF tick, kt
<1>3. Same(k, k1, {"xTickCount"}) /\ k1.xTickCount = tick
  BY GoodTypes DEF IsState, Same, Fields
<1> HIDE DEF k1
<1>4. Good(k1)
  <2>1. Types(k1)
    BY <1>2, <1>3, TypesOf DEF Same, Fields, Types
  <2> QED BY <1>3, <2>1, TypesGood DEF Same, Fields, Structure
<1>5. \A f \in Timing \ {"xTickCount"} : k1[f] = k[f]
  BY <1>3 DEF Same, Fields, Timing
<1>6. Good(k2) /\ Due(k, k2)
  <2>1. CASE tick # 0
    <3>1. k2 = k1 /\ k.xTickCount + 1 < TickRange /\ tick = k.xTickCount + 1
      BY <1>2, <2>1
    <3> HIDE DEF k2
    <3>2. /\ k2.xTickCount = k.xTickCount + 1 /\ k2.xNumOfOverflows = k.xNumOfOverflows
          /\ k2.pxDelayedTaskList = k.pxDelayedTaskList
          /\ k2.pxOverflowDelayedTaskList = k.pxOverflowDelayedTaskList
          /\ k2.xWakeTime = k.xWakeTime /\ k2.pxCurrentTCB = k.pxCurrentTCB
          /\ k2.xNextTaskUnblockTime = k.xNextTaskUnblockTime
      BY <1>3, <1>5, <3>1 DEF Timing
    <3>3. /\ InOrder(k2) /\ k2.xNumOfOverflows \in 0 .. OverflowRange - 1
      BY <3>2 DEF Timely, InOrder
    <3>4. ASSUME NEW t, IsSleeping(k2, t)
          PROVE  /\ IsSleeping(k, t) /\ Left(k2, t) = Left(k, t) - 1
                 /\ Contains(k2.pxDelayedTaskList, t) => k2.xWakeTime[t] >= k2.xTickCount
                 /\ Contains(k2.pxOverflowDelayedTaskList, t) => k2.xWakeTime[t] < k2.xTickCount
      <4>1. IsSleeping(k, t)
        BY <3>2, <3>4 DEF IsSleeping
      <4>2. k.xWakeTime[t] \in Int
        BY <4>1, Sleepers
      <4>3. /\ Contains(k.pxDelayedTaskList, t) => k.xWakeTime[t] > k.xTickCount
            /\ Contains(k.pxOverflowDelayedTaskList, t) => k.xWakeTime[t] < k.xTickCount
        BY DEF Timely
      <4>4. Left(k2, t) = Left(k, t) - 1
        BY <1>2, <3>2, <4>2 DEF Left
      <4> QED BY <1>2, <3>2, <4>1, <4>2, <4>3, <4>4
    <3> QED BY <1>3, <1>4, <3>1, <3>2, <3>3, <3>4 DEF Due, IsSleeping, tick
  <2>2. CASE tick = 0
    <3>1. k2 = taskSWITCH_DELAYED_LISTS(k1) /\ ~(k.xTickCount + 1 < TickRange)
          /\ k.xTickCount = TickRange - 1
      BY <1>2, <2>2
    <3> HIDE DEF k2
    <3>2. /\ k2.xTickCount = 0 /\ k2.xNumOfOverflows = (k.xNumOfOverflows + 1) % OverflowRange
          /\ k2.pxDelayedTaskList = k.pxOverflowDelayedTaskList
          /\ k2.pxOverflowDelayedTaskList = k.pxDelayedTaskList
          /\ k2.xWakeTime = k.xWakeTime /\ k2.pxCurrentTCB = k.pxCurrentTCB
          /\ InOrder(k1) => InOrder(k2)
          /\ Good(k2)
      BY <1>3, <1>4, <1>5, <2>2, <3>1, ListsSwapped DEF Timing
    <3>3. InOrder(k2)
      BY <1>5, <3>2 DEF Timely, InOrder, Timing
    <3>4. k2.xNumOfOverflows \in 0 .. OverflowRange - 1
      <4>1. k.xNumOfOverflows \in 0 .. OverflowRange - 1 /\ OverflowRange \in Nat \ {0, 1}
        BY RangeAssumption DEF Timely
      <4>2. (k.xNumOfOverflows + 1) % OverflowRange \in 0 .. OverflowRange - 1
        BY <4>1
      <4> QED BY <3>2, <4>2
    <3>5. \A t : ~Contains(k.pxDelayedTaskList, t)
      <4> SUFFICES ASSUME NEW t, Contains(k.pxDelayedTaskList, t) PROVE FALSE
        OBVIOUS
      <4>1. k.xWakeTime[t] \in Ticks /\ k.xWakeTime[t] > k.xTickCount
        BY Sleepers DEF Timely, IsSleeping
      <4> QED BY <1>2, <3>1, <4>1 DEF Ticks
    <3>6. ASSUME NEW t, IsSleeping(k2, t)
          PROVE  /\ IsSleeping(k, t) /\ Left(k2, t) = Left(k, t) - 1
                 /\ k2.xWakeTime[t] >= k2.xTickCount
      <4>1. IsSleeping(k, t) /\ Contains(k2.pxDelayedTaskList, t)
        BY <3>2, <3>5, <3>6 DEF IsSleeping
      <4>2. k.xWakeTime[t] \in Ticks /\ k.xWakeTime[t] \in Int
        BY <4>1, Sleepers
      <4>3. Left(k2, t) = k.xWakeTime[t] - 0 /\ Left(k, t) = k.xWakeTime[t] + TickRange - k.xTickCount
        BY <3>2, <3>5, <4>1 DEF Left
      <4>4. k.xWakeTime[t] >= 0
        BY <1>2, <4>2 DEF Ticks
      <4> QED BY <1>2, <3>1, <3>2, <4>1, <4>2, <4>3, <4>4
    <3>7. \A t : Contains(k2.pxDelayedTaskList, t) => k2.xWakeTime[t] >= k2.xTickCount
      BY <3>6 DEF IsSleeping
    <3> QED BY <2>2, <3>1, <3>2, <3>3, <3>4, <3>5, <3>6, <3>7 DEF Due, tick
  <2> QED BY <2>1, <2>2
<1> HIDE DEF k2
<1>7. k2.xTickCount = tick /\ InOrder(k2)
  BY <1>6 DEF Due, tick
<1>8. CASE tick < k2.xNextTaskUnblockTime
  <2>1. ASSUME NEW t, Contains(k2.pxDelayedTaskList, t) PROVE k2.xWakeTime[t] > k2.xTickCount
    <3>1. k2.xWakeTime[t] \in Int
      BY <1>6, <2>1, Sleepers DEF IsSleeping
    <3>2. k2.xNextTaskUnblockTime <= k2.xWakeTime[t]
      BY <1>7, <2>1 DEF InOrder
    <3>3. k2.xNextTaskUnblockTime \in Int
      <4> HIDE DEF k3, k4
      <4>1. k2.xNextTaskUnblockTime \in Ticks
        BY <1>6, GoodTypes
      <4>2. Ticks \subseteq Int
        BY <1>2 DEF Ticks
      <4> QED BY <4>1, <4>2
    <3> QED BY <1>2, <1>7, <1>8, <3>1, <3>2, <3>3
  <2>2. Passes(k, k2, 1)
    BY <1>6, <2>1, CalmNot, DuePasses
  <2> QED BY <1>1, <1>8, <2>2 DEF kt
<1>9. CASE ~(tick < k2.xNextTaskUnblockTime)
  <2>1. Expired(k2) \in Seq(Tasks)
    BY <1>6, ExpiredSeq
  <2>2. /\ Calm(k2, k3) /\ \A i \in 1 .. Len(Expired(k2)) : ~IsSleeping(k3, Expired(k2)[i])
        /\ Good(k3)
    BY <1>6, <2>1, ExpiredCalm, ExpiredMoves DEF Moves
  <2> HIDE DEF k3
  <2>3. Calm(k3, k4)
    BY <2>2, ResetCalm
  <2> HIDE DEF k4
  <2>4. Calm(k2, k4)
    BY <2>2, <2>3, CalmTwice
  <2>5. ASSUME NEW t, Contains(k4.pxDelayedTaskList, t) PROVE k4.xWakeTime[t] > k4.xTickCount
    <3>1. /\ IsSleeping(k3, t) /\ Contains(k2.pxDelayedTaskList, t)
          /\ k4.xWakeTime[t] = k2.xWakeTime[t] /\ k4.xTickCount = k2.xTickCount
      BY <2>3, <2>4, <2>5 DEF Calm, IsSleeping
    <3>2. ~(k2.xWakeTime[t] > k2.xTickCount) => \E i \in 1 .. Len(Expired(k2)) : Expired(k2)[i] = t
      BY <1>6, <1>7, <3>1, ExpiredAre DEF InOrder
    <3> QED BY <2>2, <3>1, <3>2
  <2>6. Passes(k, k4, 1)
    BY <1>6, <2>4, <2>5, DuePasses
  <2> QED BY <1>1, <1>9, <2>6 DEF kt
<1> QED BY <1>8, <1>9

LEMMA TickCalm ==
  ASSUME NEW k, Good(k), k.uxSchedulerSuspended > 0 PROVE Calm(k, xTaskIncrementTick(k))
<1> DEFINE k1 == xTaskIncrementTick(k)
<1>1. Same(k, k1, {"xPendedTicks"})
  BY GoodTypes DEF xTaskIncrementTick, IsState, Same, Fields
<1> HIDE DEF k1
<1>2. Calm(k, k1)
  BY <1>1, SameCalm DEF Timing
<1> QED BY <1>2 DEF k1

\* Passes, and then nothing that concerns time
LEMMA PassesCalm ==
  ASSUME NEW k, Good(k), Timely(k), NEW k1, Good(k1), NEW k2, NEW n \in Nat, n < TickRange,
         Passes(k, k1, n), Calm(k1, k2)
  PROVE  Passes(k, k2, n)
<1>1. Timely(k1)
  BY DEF Passes
<1>2. Passes(k1, k2, 0)
  BY <1>1, CalmPasses
<1>3. Passes(k, k2, n + 0)
  <2>1. 0 \in Nat /\ n + 0 < TickRange
    BY CountTypes
  <2> QED BY <1>2, <2>1, PassesTwice
<1> QED BY <1>3

LEMMA PendedTickPasses ==
  ASSUME NEW k, Good(k), Timely(k), ~(k.uxSchedulerSuspended > 0)
  PROVE  Passes(k, PendedTick(k), 1)
<1> DEFINE k1 == xTaskIncrementTick(k)
           y  == k1.xYieldPending \/ SwitchRequired(k, k1)
           k2 == PendedTick(k)
<1>1. Passes(k, k1, 1) /\ Good(k1)
  BY TickPasses, IncrementTickIs DEF Ticked
<1>2. k2 = [k1 EXCEPT !.xYieldPending = y]
  BY DEF PendedTick
<1> HIDE DEF k1, k2, y
<1>3. Calm(k1, k2)
  BY <1>1, <1>2, SetYieldCalm
<1>4. 1 \in Nat /\ 1 < TickRange
  BY CountTypes
<1>5. Passes(k, k2, 1)
  BY <1>1, <1>3, <1>4, PassesCalm
<1> QED BY <1>5 DEF k2

LEMMA TicksMadeUpPasses ==
  ASSUME NEW k, Good(k), Timely(k), ~(k.uxSchedulerSuspended > 0), NEW N \in Nat, N < TickRange
  PROVE  Passes(k, TicksMadeUp(k, N), N)
<1> DEFINE To(k1, n) == /\ Good(k1) /\ Timely(k1) /\ Passes(k, k1, n)
                        /\ k1.uxSchedulerSuspended = k.uxSchedulerSuspended
           all == TicksMadeUp(k, N)
<1>1. PICK r : Changes("ticked", k, <<>>, N, r) /\ all = r[N]
  BY TicksInTurn
<1> HIDE DEF all
<1>2. TickRange \in Nat \ {0}
  BY CountTypes
<1> DEFINE P == {n \in Nat : To(r[n], n)}
<1>3. 0 \in P
  <2>1. r[0] = k
    BY <1>1 DEF Changes
  <2>2. Passes(k, k, 0)
    BY CalmNot, CalmPasses
  <2> QED BY <2>1, <2>2
<1>4. ASSUME NEW n \in 0 .. N - 1, n \in P PROVE n + 1 \in P
  <2>1. n + 1 \in 1 .. N /\ (n + 1) - 1 = n /\ n + 1 \in Nat /\ n \in Nat /\ n + 1 < TickRange /\ 1 \in Nat
    BY <1>2
  <2>2. r[n + 1] = PendedTick(r[n])
    BY <1>1, <2>1 DEF Changes, Change
  <2>3. To(r[n], n)
    BY <1>4
  <2>4. Ticked(r[n], r[n + 1])
    BY <2>2, <2>3, PendedTickIs
  <2>5. Good(r[n + 1]) /\ r[n + 1].uxSchedulerSuspended = k.uxSchedulerSuspended
    BY <2>3, <2>4 DEF Ticked
  <2>6. Passes(r[n], r[n + 1], 1)
    BY <2>2, <2>3, PendedTickPasses
  <2>7. Passes(k, r[n + 1], n + 1)
    BY <2>1, <2>3, <2>6, PassesTwice
  <2>8. Timely(r[n + 1])
    BY <2>7 DEF Passes
  <2> QED BY <2>1, <2>5, <2>7, <2>8
<1> HIDE DEF P
<1>5. \A n \in 0 .. N : n \in P
  BY <1>3, <1>4, Induct
<1>6. To(all, N)
  BY <1>1, <1>5 DEF P
<1> QED BY <1>6 DEF all

\* the scheduler's suspension has no part in it
LEMMA SuspensionPasses ==
  ASSUME NEW k, Good(k), Timely(k), NEW k1, \A f \in Timing \ {"uxSchedulerSuspended"} : k1[f] = k[f]
  PROVE  Passes(k, k1, 0)
<1>1. k.xTickCount \in 0 .. TickRange - 1 /\ TickRange \in Nat \ {0, 1}
  BY CountTypes
<1>2. k1.xTickCount = (k.xTickCount + 0) % TickRange /\ k.xTickCount + 0 < TickRange
  <2>1. k.xTickCount % TickRange = k.xTickCount
    BY <1>1, SMT
  <2> QED BY <1>1, <2>1 DEF Timing
<1>3. Timely(k1)
  BY DEF Timing, Timely, InOrder
<1>4. ASSUME NEW t, IsSleeping(k1, t) PROVE IsSleeping(k, t) /\ Left(k1, t) = Left(k, t) - 0
  <2>1. IsSleeping(k, t) /\ Left(k1, t) = Left(k, t)
    BY <1>4 DEF Timing, IsSleeping, Left
  <2>2. Left(k, t) \in Int
    BY <1>1, <2>1, Sleepers DEF Left
  <2> QED BY <2>1, <2>2
<1> QED BY <1>2, <1>3, <1>4 DEF Passes, Timing

LEMMA ResumeAllPasses ==
  ASSUME NEW k, Good(k), Timely(k), k.xPendedTicks < TickRange
  PROVE  LET k1 == xTaskResumeAll(k)
         IN  IF k1.uxSchedulerSuspended > 0
             THEN Passes(k, k1, 0) /\ k1.pxCurrentTCB = k.pxCurrentTCB
             ELSE Passes(k, k1, k.xPendedTicks)
<1> DEFINE k0 == [k EXCEPT !.uxSchedulerSuspended = @ - 1]
           k1 == InTurn(ReadyPended, k0, k0.xPendingReadyList)
           k2 == IF k0.xPendingReadyList = <<>> THEN k1 ELSE prvResetNextTaskUnblockTime(k1)
           k3 == TicksMadeUp(k2, k.xPendedTicks)
           k4 == [k3 EXCEPT !.xPendedTicks = 0]
           r  == xTaskResumeAll(k)
<1>1. r = IF k0.uxSchedulerSuspended > 0 THEN k0 ELSE k4
  BY DEF xTaskResumeAll, TicksMadeUp
<1>2. r.uxSchedulerSuspended = k.uxSchedulerSuspended - 1
  BY ResumeAllIs
<1> HIDE DEF r
<1>3. IsState(k) /\ Types(k) /\ k.xPendedTicks \in Nat
  BY GoodTypes, TypesOf DEF Types
<1>4. Same(k, k0, {"uxSchedulerSuspended"}) /\ k0.uxSchedulerSuspended = k.uxSchedulerSuspended - 1
  BY <1>3 DEF IsState, Same, Fields
<1> HIDE DEF k0
<1>5. Good(k0)
  <2>1. Types(k0)
    BY <1>3, <1>4 DEF Same, Fields, Types
  <2> QED BY <1>4, <2>1, TypesGood DEF Same, Fields, Structure
<1>6. Passes(k, k0, 0) /\ k0.pxCurrentTCB = k.pxCurrentTCB
  BY <1>4, SuspensionPasses DEF Same, Fields, Timing
<1>7. CASE k0.uxSchedulerSuspended > 0
  BY <1>1, <1>2, <1>4, <1>6, <1>7 DEF r
<1>8. CASE ~(k0.uxSchedulerSuspended > 0)
  <2>0. 0 \in Nat /\ 0 < TickRange
    BY CountTypes
  <2>1. Moves(k0, k1) /\ Calm(k0, k1)
    <3>1. k0.xPendingReadyList \in Seq(Tasks)
      BY <1>5, TypesOf DEF Types
    <3> QED BY <1>5, <3>1, PendedMoves, PendedCalm
  <2> HIDE DEF k1
  <2>2. Moves(k0, k2) /\ Calm(k0, k2)
    <3>1. Good(k1)
      BY <2>1 DEF Moves
    <3>2. Moves(k1, prvResetNextTaskUnblockTime(k1)) /\ Calm(k1, prvResetNextTaskUnblockTime(k1))
      BY <3>1, ResetMoves, ResetCalm
    <3> QED BY <2>1, <3>2, MovesTwice, CalmTwice
  <2> HIDE DEF k2
  <2>3. Good(k2) /\ ~(k2.uxSchedulerSuspended > 0)
    BY <1>8, <2>2 DEF Moves, Calm
  <2>4. Passes(k, k2, 0)
    BY <1>5, <1>6, <2>0, <2>2, PassesCalm
  <2>5. Timely(k2)
    BY <2>4 DEF Passes
  <2>6. Good(k3) /\ Passes(k2, k3, k.xPendedTicks)
    BY <1>3, <2>3, <2>5, TicksMadeUpIs, TicksMadeUpPasses
  <2> HIDE DEF k3
  <2>7. Passes(k, k3, k.xPendedTicks)
    <3> DEFINE n == k.xPendedTicks
    <3>1. 0 + n < TickRange /\ n \in Nat /\ 0 + n = n
      BY <1>3
    <3> HIDE DEF n
    <3>2. Passes(k2, k3, n)
      BY <2>6 DEF n
    <3>3. Passes(k, k3, 0 + n)
      BY <2>0, <2>3, <2>4, <3>1, <3>2, PassesTwice
    <3>4. Passes(k, k3, n)
      BY <3>1, <3>3
    <3> QED BY <3>4 DEF n
  <2>8. Calm(k3, k4)
    <3>1. Same(k3, k4, {"xPendedTicks"})
      BY <2>6, GoodTypes DEF IsState, Same, Fields
    <3> HIDE DEF k4
    <3> QED BY <3>1, SameCalm DEF Timing
  <2> HIDE DEF k4
  <2>9. Passes(k, k4, k.xPendedTicks)
    BY <1>3, <2>6, <2>7, <2>8, PassesCalm
  <2>10. ~(r.uxSchedulerSuspended > 0) /\ r = k4
    BY <1>1, <1>2, <1>4, <1>8
  <2>11. Passes(k, r, k.xPendedTicks)
    BY <2>9, <2>10
  <2> QED BY <2>10, <2>11 DEF r
<1> QED BY <1>7, <1>8
=============================================================================
