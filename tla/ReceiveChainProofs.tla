------------------------- MODULE ReceiveChainProofs -------------------------
(***************************************************************************)
(* Proofs about ChannelAligner, and about ReceiveChain, which puts a       *)
(* random dropper in front of it: for any number of streams of any length  *)
(* that lose elements anywhere, if a tick is a whole number of nanoseconds *)
(* and labels are at the start of buffers (Exact). Both conditions are     *)
(* needed: without them the blocks mistake elements for others.            *)
(***************************************************************************)
EXTENDS ReceiveChain, SequenceTheorems, WellFoundedInduction, TLAPS

Exact == PeriodDen = 1 /\ ~Joined

Element == [tick : Ticks, rxTime : SUBSET Nat]

-----------------------------------------------------------------------------
(* Numbers.                                                                *)

\* A set of numbers has a smallest.
Less == {p \in Nat \X Nat : p[1] < p[2]}

LEMMA Smallest ==
  ASSUME NEW S \in SUBSET Nat, S # {}
  PROVE  \E n \in S : \A m \in S : n <= m
<1>1. IsWellFoundedOn(Less, Nat)
  BY NatLessThanWellFounded DEF OpToRel, Less
<1>2. PICK n \in S : \A m \in S : <<m, n>> \notin Less
  BY <1>1, WFMin
<1>3. ASSUME NEW m \in S, m < n PROVE FALSE
  <2>1. <<m, n>> \in Nat \X Nat /\ <<m, n>>[1] < <<m, n>>[2]
    BY <1>3
  <2> QED
    BY <2>1, <1>2 DEF Less
<1>4. \A m \in S : n <= m
  <2> TAKE m \in S
  <2>1. ~(m < n)
    BY <1>3
  <2> QED
    BY <2>1
<1> QED
  BY <1>4

LEMMA Period == PeriodNum \in Nat /\ PeriodNum >= 1
BY PeriodAssumption

\* The conversions are exact.
LEMMA ExactNs ==
  ASSUME Exact, NEW n \in Nat
  PROVE  SampsToTimeNs(n) = PeriodNum * n /\ SampsToTimeNs(n) \in Nat
<1> DEFINE t == PeriodNum * n
<1>1. t \in Nat /\ 2 * n * PeriodNum = 2 * t
  BY Period
<1> HIDE DEF t
<1>2. (2 * t + 1) \div 2 = t
  BY <1>1
<1>3. SampsToTimeNs(n) = (2 * n * PeriodNum + 1) \div 2
  BY DEF SampsToTimeNs, Exact
<1>4. SampsToTimeNs(n) = t
  BY <1>1, <1>2, <1>3
<1> QED
  BY <1>1, <1>4 DEF t

LEMMA ExactSamps ==
  ASSUME Exact, NEW d \in Nat
  PROVE  TimeNsToSamps(PeriodNum * d) = d
<1> DEFINE p == 2 * PeriodNum
<1>1. p \in Nat /\ p > PeriodNum /\ PeriodNum \in Nat
  BY Period
<1>2. TimeNsToSamps(PeriodNum * d) = (2 * (PeriodNum * d) * 1 + PeriodNum) \div p
  BY DEF TimeNsToSamps, Exact
<1>3. 2 * (PeriodNum * d) * 1 = p * d
  BY <1>1
<1> HIDE DEF p
<1>4. ASSUME NEW q \in Nat, NEW r \in Nat, q > r
      PROVE  (q * d + r) \div q = d
  <2> DEFINE x == (q * d + r) \div q
  <2>1. q * d \in Nat
    OBVIOUS
  <2>2. ASSUME NEW a \in Nat PROVE a \div q \in Int /\ (a \div q) * q <= a /\ a < (a \div q) * q + q
    BY <1>4
  <2>3. x \in Int /\ x * q <= q * d + r /\ q * d + r < x * q + q
    BY <2>1, <2>2
  <2> HIDE DEF x
  <2>4. ASSUME x < d PROVE FALSE
    <3>1. q * d = x * q + (d - x) * q /\ d - x >= 1
      BY <2>3, <2>4
    <3>2. (d - x) * q >= q
      BY <2>3, <3>1
    <3> QED
      BY <2>1, <2>3, <3>1, <3>2
  <2>5. ASSUME d < x PROVE FALSE
    <3>1. x * q = q * d + (x - d) * q /\ x - d >= 1
      BY <2>3, <2>5
    <3>2. (x - d) * q >= q
      BY <2>3, <3>1
    <3> QED
      BY <1>4, <2>1, <2>3, <3>1, <3>2
  <2>6. x = d
    BY <2>3, <2>4, <2>5
  <2> QED
    BY <2>6 DEF x
<1> QED
  BY <1>1, <1>2, <1>3, <1>4

\* Times tell elements apart.
LEMMA TimesOrder ==
  ASSUME NEW m \in Nat, NEW n \in Nat
  PROVE  /\ PeriodNum * m \in Nat
         /\ PeriodNum * m = PeriodNum * n <=> m = n
         /\ PeriodNum * m < PeriodNum * n <=> m < n
         /\ PeriodNum * n - PeriodNum * m = PeriodNum * (n - m)
<1>1. PeriodNum \in Nat /\ PeriodNum >= 1
  BY Period
<1>2. ASSUME NEW a \in Nat, NEW b \in Nat, a < b
      PROVE  PeriodNum * a < PeriodNum * b
  <2>1. PeriodNum * b = PeriodNum * a + PeriodNum * (b - a) /\ b - a >= 1
    BY <1>1, <1>2
  <2>2. PeriodNum * (b - a) >= 1
    BY <1>1, <2>1
  <2> QED
    BY <1>1, <2>1, <2>2
<1>3. PeriodNum * m \in Nat /\ PeriodNum * n \in Nat
  BY <1>1
<1> QED
  BY <1>1, <1>2, <1>3

-----------------------------------------------------------------------------
(* The buffer at the front.                                                *)

\* Front(q) is q up to the next label.
LEMMA FrontOf ==
  ASSUME Exact, NEW q \in Seq(Element), q # <<>>
  PROVE  \E f \in 1..Len(q) :
           /\ Front(q) \in Seq(Element) /\ Len(Front(q)) = f
           /\ \A n \in 1..f : Front(q)[n] = q[n]
           /\ \A n \in 2..f : q[n].rxTime = {}
           /\ f = Len(q) \/ q[f + 1].rxTime # {}
<1> DEFINE cuts == {n \in 2 .. Len(q) : ~Joined /\ q[n].rxTime # {}}
<1>1. Len(q) \in Nat /\ Len(q) >= 1
  BY EmptySeq, LenProperties
<1>2. cuts = {n \in 2 .. Len(q) : q[n].rxTime # {}}
  BY DEF Exact
<1>3. CASE cuts = {}
  <2>1. Front(q) = q
    BY <1>3 DEF Front
  <2> WITNESS Len(q) \in 1..Len(q)
  <2> QED
    BY <1>1, <1>2, <1>3, <2>1
<1>4. CASE cuts # {}
  <2> DEFINE c == CHOOSE n \in cuts : \A m \in cuts : n <= m
  <2>1. cuts \in SUBSET Nat
    BY <1>1
  <2>2. \E n \in cuts : \A m \in cuts : n <= m
    BY <1>4, <2>1, Smallest
  <2>3. c \in cuts /\ \A m \in cuts : c <= m
    BY <2>2
  <2>4. Front(q) = SubSeq(q, 1, c - 1)
    BY <1>4 DEF Front
  <2> HIDE DEF c
  <2>5. c \in 2..Len(q) /\ q[c].rxTime # {}
    BY <1>2, <2>3
  <2>6. \A n \in 2 .. c - 1 : q[n].rxTime = {}
    <3> SUFFICES ASSUME NEW n \in 2 .. c - 1, q[n].rxTime # {} PROVE FALSE
      OBVIOUS
    <3>1. n \in 2 .. Len(q)
      BY <1>1, <2>5
    <3>2. n \in cuts
      BY <1>2, <3>1
    <3> QED
      BY <2>3, <2>5, <3>2
  <2>7. /\ Front(q) \in Seq(Element) /\ Len(Front(q)) = c - 1
        /\ \A n \in 1 .. c - 1 : Front(q)[n] = q[n]
    <3>1. \A n \in 1 .. c - 1 : q[n] \in Element
      BY <1>1, <2>5, ElementOfSeq
    <3>2. 1 \in Int /\ c - 1 \in Int /\ 1 <= c - 1
      BY <1>1, <2>5
    <3> QED
      BY <2>4, <3>1, <3>2, SubSeqProperties
  <2>8. c - 1 \in 1..Len(q) /\ (c - 1) + 1 = c
    BY <1>1, <2>5
  <2> QED
    BY <2>5, <2>6, <2>7, <2>8
<1> HIDE DEF cuts
<1> QED
  BY <1>3, <1>4

-----------------------------------------------------------------------------
(* The elements q at an input, where a is the last tick that arrived or    *)
(* was lost, fr says that the next has a label, and next is the time that  *)
(* the block expects.                                                      *)

Good(q, a, fr, next) ==
  /\ \A n \in 1..Len(q) : q[n].rxTime # {} => q[n].rxTime = {PeriodNum * q[n].tick}
  /\ \A m, n \in 1..Len(q) : m < n => q[m].tick < q[n].tick
  /\ \A m, n \in 1..Len(q) :
       m <= n /\ (\A o \in m + 1 .. n : q[o].rxTime = {}) => q[n].tick = q[m].tick + (n - m)
  /\ \A n \in 1..Len(q) : q[n].tick <= a
  /\ q # <<>> /\ ~fr => q[Len(q)].tick = a
  /\ q # <<>> => q[1].rxTime # {} \/ next = PeriodNum * q[1].tick
  /\ q = <<>> /\ ~fr => next = PeriodNum * (a + 1)

LEMMA ElementType ==
  ASSUME NEW q \in Seq(Element)
  PROVE  /\ Len(q) \in Nat /\ DOMAIN q = 1..Len(q)
         /\ q # <<>> <=> Len(q) >= 1
         /\ \A n \in 1..Len(q) : q[n].tick \in Nat /\ q[n].tick \in Ticks /\ q[n].rxTime \in SUBSET Nat
<1>1. Len(q) \in Nat /\ DOMAIN q = 1..Len(q) /\ (q # <<>> <=> Len(q) >= 1)
  BY EmptySeq, LenProperties
<1>2. ASSUME NEW n \in 1..Len(q)
      PROVE  q[n].tick \in Ticks /\ q[n].tick \in Nat /\ q[n].rxTime \in SUBSET Nat
  <2>1. q[n] \in Element
    BY <1>1, ElementOfSeq
  <2> QED
    BY <2>1, TicksAssumption DEF Element, Ticks
<1> QED
  BY <1>1, <1>2

\* The block knows the time of the first element.
LEMMA TimeOfFront ==
  ASSUME Exact, NEW q \in Seq(Element), q # <<>>, NEW a, NEW fr, NEW next, Good(q, a, fr, next)
  PROVE  FrontTime(q, next) = PeriodNum * q[1].tick
<1> DEFINE at == {n \in DOMAIN Front(q) : q[n].rxTime # {}}
           last == CHOOSE n \in at : \A m \in at : m <= n
<1> PICK f \in 1..Len(q) :
      /\ Front(q) \in Seq(Element) /\ Len(Front(q)) = f
      /\ \A n \in 2..f : q[n].rxTime = {}
  BY FrontOf
<1>1. Len(q) \in Nat /\ Len(q) >= 1 /\ f \in Nat /\ f >= 1 /\ DOMAIN Front(q) = 1..f
  BY ElementType
<1>2. q[1].tick \in Nat /\ (q[1].rxTime # {} => q[1].rxTime = {PeriodNum * q[1].tick})
  <2>1. 1 \in 1..Len(q)
    BY <1>1
  <2>2. q[1].tick \in Nat
    BY <2>1, ElementType
  <2> QED
    BY <2>1, <2>2 DEF Good
<1>3. CASE q[1].rxTime = {}
  <2>1. at = {}
    <3> SUFFICES ASSUME NEW n \in 1..f, q[n].rxTime # {} PROVE FALSE
      BY <1>1
    <3>1. n = 1 \/ n \in 2..f
      BY <1>1
    <3> QED
      BY <1>3, <3>1
  <2>2. next = PeriodNum * q[1].tick
    BY <1>1, <1>3 DEF Good
  <2> QED
    BY <2>1, <2>2 DEF FrontTime
<1>4. CASE q[1].rxTime # {}
  <2>1. at = {1}
    <3>1. 1 \in at
      BY <1>1, <1>4
    <3>2. ASSUME NEW n \in 1..f, q[n].rxTime # {} PROVE n = 1
      <4>1. n = 1 \/ n \in 2..f
        BY <1>1
      <4> QED
        BY <3>2, <4>1
    <3> QED
      BY <1>1, <3>1, <3>2
  <2>2. last = 1
    <3>1. \E n \in at : \A m \in at : m <= n
      BY <2>1
    <3> HIDE DEF at
    <3>2. last \in at
      BY <3>1
    <3> QED
      BY <2>1, <3>2
  <2>3. (CHOOSE t \in q[last].rxTime : TRUE) = PeriodNum * q[1].tick
    BY <1>2, <1>4, <2>2
  <2>4. SampsToTimeNs(last - 1) = 0
    <3>1. last - 1 = 0 /\ PeriodNum * 0 = 0
      BY <2>2, Period
    <3> QED
      BY <3>1, ExactNs
  <2>5. FrontTime(q, next) = (CHOOSE t \in q[last].rxTime : TRUE) - SampsToTimeNs(last - 1)
    BY <2>1 DEF FrontTime
  <2>6. PeriodNum * q[1].tick \in Nat
    BY <1>2, Period
  <2> DEFINE p == PeriodNum * q[1].tick
  <2>7. FrontTime(q, next) = p - 0
    BY <2>3, <2>4, <2>5
  <2>8. p \in Nat
    BY <2>6
  <2> HIDE DEF p
  <2>9. FrontTime(q, next) = p
    BY <2>7, <2>8
  <2> QED
    BY <2>9 DEF p
<1> QED
  BY <1>3, <1>4

\* The elements at the front are those of subsequent ticks.
LEMMA TicksOfFront ==
  ASSUME Exact, NEW q \in Seq(Element), q # <<>>, NEW a, NEW fr, NEW next, Good(q, a, fr, next),
         NEW n \in 0 .. Len(Front(q))
  PROVE  /\ n <= Len(q) /\ Len(Front(q)) \in 1..Len(q)
         /\ \A k \in 1..n : q[k].tick = q[1].tick + (k - 1)
         /\ TicksOf(SubSeq(q, 1, n)) = q[1].tick .. q[1].tick + n - 1
<1> PICK f \in 1..Len(q) :
      /\ Front(q) \in Seq(Element) /\ Len(Front(q)) = f
      /\ \A k \in 2..f : q[k].rxTime = {}
  BY FrontOf
<1>1. Len(q) \in Nat /\ f \in Nat /\ n \in Nat /\ n <= f /\ 1 \in 1..Len(q) /\ q[1].tick \in Nat
  BY ElementType
<1>2. ASSUME NEW k \in 1..n PROVE q[k].tick = q[1].tick + (k - 1)
  <2>1. k \in 1..Len(q) /\ 1 <= k /\ \A o \in 1 + 1 .. k : q[o].rxTime = {}
    BY <1>1
  <2> QED
    BY <1>1, <2>1 DEF Good
<1>3. /\ Len(SubSeq(q, 1, n)) = n /\ DOMAIN SubSeq(q, 1, n) = 1..n
      /\ \A k \in 1..n : SubSeq(q, 1, n)[k] = q[k]
  <2>1. \A k \in 1..n : q[k] \in Element
    BY <1>1, ElementOfSeq
  <2>2. /\ SubSeq(q, 1, n) \in Seq(Element)
        /\ Len(SubSeq(q, 1, n)) = IF 1 <= n THEN n - 1 + 1 ELSE 0
        /\ \A k \in 1 .. n - 1 + 1 : SubSeq(q, 1, n)[k] = q[1 + k - 1]
    BY <1>1, <2>1, SubSeqProperties
  <2> QED
    BY <1>1, <2>2, LenProperties
<1>4. TicksOf(SubSeq(q, 1, n)) = {q[k].tick : k \in 1..n}
  BY <1>3 DEF TicksOf
<1>5. {q[k].tick : k \in 1..n} = q[1].tick .. q[1].tick + n - 1
  <2>1. ASSUME NEW t \in q[1].tick .. q[1].tick + n - 1
        PROVE  \E k \in 1..n : t = q[k].tick
    <3>1. t - q[1].tick + 1 \in 1..n
      BY <1>1
    <3>2. PICK k \in 1..n : k = t - q[1].tick + 1
      BY <3>1
    <3>3. q[k].tick = q[1].tick + (k - 1)
      BY <1>2
    <3>4. q[1].tick + (k - 1) = t
      BY <1>1, <3>2
    <3> QED
      BY <3>3, <3>4
  <2>2. ASSUME NEW k \in 1..n
        PROVE  q[k].tick \in q[1].tick .. q[1].tick + n - 1
    BY <1>1, <1>2
  <2> QED
    BY <2>1, <2>2
<1>6. n <= Len(q) /\ Len(Front(q)) \in 1..Len(q)
  BY <1>1
<1>7. TicksOf(SubSeq(q, 1, n)) = q[1].tick .. q[1].tick + n - 1
  BY <1>4, <1>5
<1> QED
  BY <1>2, <1>6, <1>7

\* What remains when elements of the front are consumed.
LEMMA Remaining ==
  ASSUME NEW q \in Seq(Element), NEW n \in 0 .. Len(q)
  PROVE  /\ Without(q, n) \in Seq(Element)
         /\ Len(Without(q, n)) = Len(q) - n
         /\ \A m \in 1 .. Len(q) - n : m + n \in 1..Len(q) /\ Without(q, n)[m] = q[m + n]
<1>1. Len(q) \in Nat /\ n \in Nat /\ n <= Len(q)
  BY ElementType
<1>2. \A m \in n + 1 .. Len(q) : q[m] \in Element
  <2> TAKE m \in n + 1 .. Len(q)
  <2>1. m \in 1..Len(q)
    BY <1>1
  <2> QED
    BY <2>1, ElementOfSeq
<1>3. /\ SubSeq(q, n + 1, Len(q)) \in Seq(Element)
      /\ Len(SubSeq(q, n + 1, Len(q))) = IF n + 1 <= Len(q) THEN Len(q) - (n + 1) + 1 ELSE 0
      /\ \A m \in 1 .. Len(q) - (n + 1) + 1 : SubSeq(q, n + 1, Len(q))[m] = q[(n + 1) + m - 1]
  BY <1>1, <1>2, SubSeqProperties
<1>4. ASSUME NEW m \in 1 .. Len(q) - n
      PROVE  m + n \in 1..Len(q) /\ Without(q, n)[m] = q[m + n]
  <2>1. m \in 1 .. Len(q) - (n + 1) + 1 /\ (n + 1) + m - 1 = m + n /\ m + n \in 1..Len(q)
    BY <1>1
  <2> QED
    BY <1>3, <2>1 DEF Without
<1> QED
  BY <1>1, <1>3, <1>4 DEF Without

\* What is consumed are the first ticks, and the block knows the time of what
\* is behind them.
LEMMA Consumed ==
  ASSUME Exact, NEW q \in Seq(Element), q # <<>>, NEW a \in Nat, NEW fr \in BOOLEAN, NEW next,
         Good(q, a, fr, next), NEW n \in 0 .. Len(Front(q))
  PROVE  /\ Without(q, n) \in Seq(Element)
         /\ Good(Without(q, n), a, fr, PeriodNum * q[1].tick + PeriodNum * n)
         /\ TicksOf(Without(q, n)) = TicksOf(q) \ (q[1].tick .. q[1].tick + n - 1)
<1> DEFINE w == Without(q, n)
           then == PeriodNum * q[1].tick + PeriodNum * n
<1> PICK f \in 1..Len(q) :
      /\ Len(Front(q)) = f
      /\ \A k \in 2..f : q[k].rxTime = {}
      /\ f = Len(q) \/ q[f + 1].rxTime # {}
  BY FrontOf
<1>0. DOMAIN q = 1..Len(q) /\ \A k \in 1..Len(q) : q[k].tick \in Nat
  BY ElementType
<1>1. /\ Len(q) \in Nat /\ f \in Nat /\ n \in Nat /\ n <= f /\ f <= Len(q) /\ 1 \in 1..Len(q)
      /\ q[1].tick \in Nat
  BY ElementType
<1>2. /\ w \in Seq(Element) /\ Len(w) = Len(q) - n
      /\ \A m \in 1 .. Len(q) - n : m + n \in 1..Len(q) /\ w[m] = q[m + n]
  <2>1. n \in 0 .. Len(q)
    BY <1>1
  <2> QED
    BY <2>1, Remaining
<1>3. \A k \in 1..n : q[k].tick = q[1].tick + (k - 1)
  BY TicksOfFront
<1>4. then = PeriodNum * (q[1].tick + n)
  BY <1>1, Period
<1>5. Good(w, a, fr, then)
  <2> HIDE DEF w, then
  <2>1. \A m \in 1..Len(w) : w[m].rxTime # {} => w[m].rxTime = {PeriodNum * w[m].tick}
    BY <1>2 DEF Good
  <2>2. \A m, k \in 1..Len(w) : m < k => w[m].tick < w[k].tick
    <3> SUFFICES ASSUME NEW m \in 1..Len(w), NEW k \in 1..Len(w), m < k
                 PROVE  w[m].tick < w[k].tick
      OBVIOUS
    <3>1. m + n < k + n /\ m + n \in 1..Len(q) /\ k + n \in 1..Len(q)
      BY <1>1, <1>2
    <3>2. q[m + n].tick < q[k + n].tick
      BY <3>1 DEF Good
    <3>3. w[m] = q[m + n] /\ w[k] = q[k + n]
      BY <1>2
    <3> QED
      BY <3>2, <3>3
  <2>3. \A m, k \in 1..Len(w) :
          m <= k /\ (\A o \in m + 1 .. k : w[o].rxTime = {}) => w[k].tick = w[m].tick + (k - m)
    <3> SUFFICES ASSUME NEW m \in 1..Len(w), NEW k \in 1..Len(w), m <= k,
                        \A o \in m + 1 .. k : w[o].rxTime = {}
                 PROVE  w[k].tick = w[m].tick + (k - m)
      OBVIOUS
    <3>1. m + n <= k + n /\ (k + n) - (m + n) = k - m /\ m + n \in 1..Len(q) /\ k + n \in 1..Len(q)
      BY <1>1, <1>2
    <3>2. ASSUME NEW o \in (m + n) + 1 .. k + n PROVE q[o].rxTime = {}
      <4>1. o - n \in m + 1 .. k /\ o - n \in 1 .. Len(q) - n /\ (o - n) + n = o
        BY <1>1, <1>2
      <4> QED
        BY <1>2, <4>1
    <3>3. q[k + n].tick = q[m + n].tick + ((k + n) - (m + n))
      BY <3>1, <3>2 DEF Good
    <3>4. w[m] = q[m + n] /\ w[k] = q[k + n]
      BY <1>2
    <3> QED
      BY <3>1, <3>3, <3>4
  <2>4. \A m \in 1..Len(w) : w[m].tick <= a
    BY <1>2 DEF Good
  <2>5. w # <<>> /\ ~fr => w[Len(w)].tick = a
    <3> SUFFICES ASSUME w # <<>>, ~fr PROVE w[Len(w)].tick = a
      OBVIOUS
    <3>1. Len(w) >= 1
      BY <1>2, ElementType
    <3>2. Len(w) \in 1 .. Len(q) - n /\ Len(w) + n = Len(q)
      BY <1>1, <1>2, <3>1
    <3> QED
      BY <1>2, <3>2 DEF Good
  <2>6. w # <<>> => w[1].rxTime # {} \/ then = PeriodNum * w[1].tick
    <3> SUFFICES ASSUME w # <<>>, w[1].rxTime = {} PROVE then = PeriodNum * w[1].tick
      OBVIOUS
    <3>1. Len(w) >= 1
      BY <1>2, ElementType
    <3>2. 1 \in 1 .. Len(q) - n /\ w[1] = q[1 + n] /\ n + 1 \in 1..Len(q) /\ 1 + n = n + 1
      BY <1>1, <1>2, <3>1
    <3>3. n + 1 <= f
      BY <1>1, <3>2
    <3>4. \A o \in 1 + 1 .. n + 1 : q[o].rxTime = {}
      BY <1>1, <3>3
    <3>5. q[n + 1].tick = q[1].tick + ((n + 1) - 1)
      <4>1. 1 <= n + 1
        BY <1>1
      <4> QED
        BY <1>1, <3>2, <3>4, <4>1 DEF Good
    <3>6. (n + 1) - 1 = n /\ w[1].tick = q[1].tick + n
      BY <1>1, <3>2, <3>5
    <3> QED
      BY <1>4, <3>6
  <2>7. w = <<>> /\ ~fr => then = PeriodNum * (a + 1)
    <3> SUFFICES ASSUME w = <<>>, ~fr PROVE then = PeriodNum * (a + 1)
      OBVIOUS
    <3>1. n = Len(q)
      <4>1. ~(Len(w) >= 1)
        BY <1>2, ElementType
      <4> QED
        BY <1>1, <1>2, <4>1
    <3>2. q[n].tick = a
      BY <3>1 DEF Good
    <3>3. n \in 1..n
      BY <1>1, <3>1
    <3>4. q[1].tick + n = a + 1
      BY <1>1, <1>3, <3>2, <3>3
    <3> QED
      BY <1>4, <3>4
  <2> QED
    BY <2>1, <2>2, <2>3, <2>4, <2>5, <2>6, <2>7 DEF Good
<1>6. TicksOf(w) = TicksOf(q) \ (q[1].tick .. q[1].tick + n - 1)
  <2> HIDE DEF w, then
  <2>1. DOMAIN w = 1 .. Len(q) - n
    BY <1>2, ElementType
  <2>2. ASSUME NEW m \in 1 .. Len(q) - n
        PROVE  w[m].tick \in TicksOf(q) \ (q[1].tick .. q[1].tick + n - 1)
    <3>1. m + n \in 1..Len(q) /\ w[m] = q[m + n]
      BY <1>2
    <3>2. q[m + n].tick \in TicksOf(q)
      BY <1>1, <3>1 DEF TicksOf
    <3>3. q[m + n].tick > q[1].tick + n - 1
      <4>1. CASE n = 0
        <5>1. m + n = 1 \/ 1 < m + n
          BY <1>1
        <5>2. q[m + n].tick \in Nat
          BY <1>0, <3>1
        <5>3. 1 < m + n => q[1].tick < q[m + n].tick
          BY <1>1, <3>1 DEF Good
        <5>4. q[m + n].tick >= q[1].tick
          BY <1>1, <5>1, <5>2, <5>3
        <5> QED
          BY <1>1, <4>1, <5>2, <5>4
      <4>2. CASE n # 0
        <5>1. n \in 1..n /\ n \in 1..Len(q) /\ n < m + n
          BY <1>1, <4>2
        <5>2. q[n].tick < q[m + n].tick
          BY <3>1, <5>1 DEF Good
        <5>3. q[n].tick = q[1].tick + (n - 1)
          BY <1>3, <5>1
        <5>4. q[m + n].tick \in Nat
          BY <1>0, <3>1
        <5> QED
          BY <1>1, <5>2, <5>3, <5>4
      <4> QED
        BY <4>1, <4>2
    <3> QED
      BY <1>1, <3>1, <3>2, <3>3
  <2>3. ASSUME NEW k \in 1..Len(q), q[k].tick \notin q[1].tick .. q[1].tick + n - 1
        PROVE  q[k].tick \in {w[m].tick : m \in 1 .. Len(q) - n}
    <3>1. ~(k <= n)
      <4> SUFFICES ASSUME k <= n PROVE FALSE
        OBVIOUS
      <4>1. k \in 1..n
        BY <1>1
      <4>2. q[k].tick = q[1].tick + (k - 1)
        BY <1>3, <4>1
      <4> QED
        BY <1>1, <2>3, <4>1, <4>2
    <3>2. k - n \in 1 .. Len(q) - n /\ (k - n) + n = k
      BY <1>1, <3>1
    <3>3. w[k - n] = q[k]
      BY <1>2, <3>2
    <3> QED
      BY <3>2, <3>3
  <2> QED
    BY <1>0, <2>1, <2>2, <2>3 DEF TicksOf
<1> QED
  BY <1>2, <1>5, <1>6

\* An element arrives.
LEMMA Appended ==
  ASSUME Exact, NEW q \in Seq(Element), NEW a \in Nat, a + 1 \in Ticks, NEW fr \in BOOLEAN,
         NEW next, Good(q, a, fr, next)
  PROVE  /\ Append(q, Received(a + 1, fr)) \in Seq(Element)
         /\ Good(Append(q, Received(a + 1, fr)), a + 1, FALSE, next)
         /\ TicksOf(Append(q, Received(a + 1, fr))) = TicksOf(q) \cup {a + 1}
<1> DEFINE e == Received(a + 1, fr)
           w == Append(q, e)
<1>1. /\ Len(q) \in Nat /\ DOMAIN q = 1..Len(q)
      /\ \A n \in 1..Len(q) : q[n].tick \in Nat
  BY ElementType
<1>2. /\ e \in Element /\ e.tick = a + 1
      /\ e.rxTime = IF fr THEN {PeriodNum * (a + 1)} ELSE {}
  <2>1. SampsToTimeNs(a + 1) = PeriodNum * (a + 1) /\ SampsToTimeNs(a + 1) \in Nat
    BY ExactNs
  <2>2. CASE fr
    <3>1. e = [tick |-> a + 1, rxTime |-> {SampsToTimeNs(a + 1)}]
      BY <2>2 DEF Received
    <3> HIDE DEF e
    <3> QED
      BY <2>1, <2>2, <3>1 DEF Element
  <2>3. CASE ~fr
    <3>1. e = [tick |-> a + 1, rxTime |-> {}]
      BY <2>3 DEF Received
    <3> HIDE DEF e
    <3> QED
      BY <2>3, <3>1 DEF Element
  <2> QED
    BY <2>2, <2>3
<1> HIDE DEF e
<1>3. /\ w \in Seq(Element) /\ Len(w) = Len(q) + 1 /\ w[Len(q) + 1] = e
      /\ \A n \in 1..Len(q) : w[n] = q[n]
  BY <1>2, AppendProperties
<1>4. Good(w, a + 1, FALSE, next)
  <2> HIDE DEF w
  <2>1. \A n \in 1..Len(w) : w[n].rxTime # {} => w[n].rxTime = {PeriodNum * w[n].tick}
    <3> TAKE n \in 1..Len(w)
    <3>1. n \in 1..Len(q) \/ n = Len(q) + 1
      BY <1>1, <1>3
    <3> QED
      BY <1>2, <1>3, <3>1 DEF Good
  <2>2. \A m, n \in 1..Len(w) : m < n => w[m].tick < w[n].tick
    <3> SUFFICES ASSUME NEW m \in 1..Len(w), NEW n \in 1..Len(w), m < n
                 PROVE  w[m].tick < w[n].tick
      OBVIOUS
    <3>1. m \in 1..Len(q) /\ (n \in 1..Len(q) \/ n = Len(q) + 1)
      BY <1>1, <1>3
    <3>2. w[m].tick = q[m].tick /\ q[m].tick <= a /\ q[m].tick \in Nat
      BY <1>1, <1>3, <3>1 DEF Good
    <3> QED
      BY <1>2, <1>3, <3>1, <3>2 DEF Good
  <2>3. \A m, n \in 1..Len(w) :
          m <= n /\ (\A o \in m + 1 .. n : w[o].rxTime = {}) => w[n].tick = w[m].tick + (n - m)
    <3> SUFFICES ASSUME NEW m \in 1..Len(w), NEW n \in 1..Len(w), m <= n,
                        \A o \in m + 1 .. n : w[o].rxTime = {}
                 PROVE  w[n].tick = w[m].tick + (n - m)
      OBVIOUS
    <3>1. CASE n \in 1..Len(q)
      <4>1. m \in 1..Len(q) /\ \A o \in m + 1 .. n : o \in 1..Len(q)
        BY <1>1, <3>1
      <4>2. \A o \in m + 1 .. n : q[o].rxTime = {}
        BY <1>3, <4>1
      <4> QED
        BY <1>3, <3>1, <4>1, <4>2 DEF Good
    <3>2. CASE n = Len(q) + 1 /\ m = n
      BY <1>1, <1>2, <1>3, <3>2
    <3>3. CASE n = Len(q) + 1 /\ m # n
      <4>1. m \in 1..Len(q) /\ m <= Len(q) /\ Len(q) \in 1..Len(q) /\ n \in m + 1 .. n
        BY <1>1, <3>3
      <4>2. e.rxTime = {} /\ \A o \in m + 1 .. Len(q) : o \in m + 1 .. n /\ o \in 1..Len(q)
        BY <1>1, <1>3, <3>3, <4>1
      <4>3. ~fr
        BY <1>2, <4>2
      <4>4. q[Len(q)].tick = a
        BY <4>1, <4>3, ElementType DEF Good
      <4>5. \A o \in m + 1 .. Len(q) : q[o].rxTime = {}
        BY <1>3, <4>2
      <4>6. q[Len(q)].tick = q[m].tick + (Len(q) - m)
        BY <4>1, <4>5 DEF Good
      <4>7. w[m].tick = q[m].tick /\ w[n].tick = a + 1 /\ q[m].tick \in Nat
        BY <1>1, <1>2, <1>3, <3>3, <4>1
      <4>8. ASSUME NEW x \in Nat, NEW l \in Nat, NEW k \in 1..l, a = x + (l - k)
            PROVE  a + 1 = x + ((l + 1) - k)
        BY <4>8
      <4>9. a + 1 = q[m].tick + ((Len(q) + 1) - m)
        BY <1>1, <4>1, <4>4, <4>6, <4>7, <4>8
      <4> QED
        BY <3>3, <4>7, <4>9
    <3> QED
      BY <1>1, <1>3, <3>1, <3>2, <3>3
  <2>4. \A n \in 1..Len(w) : w[n].tick <= a + 1
    <3> TAKE n \in 1..Len(w)
    <3>1. CASE n \in 1..Len(q)
      <4>1. w[n].tick \in Nat /\ w[n].tick <= a
        BY <1>1, <1>3, <3>1 DEF Good
      <4> QED
        BY <4>1
    <3>2. CASE n = Len(q) + 1
      BY <1>2, <1>3, <3>2
    <3> QED
      BY <1>1, <1>3, <3>1, <3>2
  <2>5. w[Len(w)].tick = a + 1
    BY <1>2, <1>3
  <2>6. w[1].rxTime # {} \/ next = PeriodNum * w[1].tick
    <3>1. CASE Len(q) >= 1
      <4>1. w[1] = q[1] /\ q # <<>>
        BY <1>1, <1>3, <3>1, ElementType
      <4> QED
        BY <4>1 DEF Good
    <3>2. CASE Len(q) = 0
      <4>1. w[1] = e /\ q = <<>>
        BY <1>1, <1>3, <3>2, ElementType
      <4> QED
        BY <1>2, <4>1 DEF Good
    <3> QED
      BY <1>1, <3>1, <3>2
  <2>7. w # <<>>
    BY <1>1, <1>3, ElementType
  <2> QED
    BY <2>1, <2>2, <2>3, <2>4, <2>5, <2>6, <2>7 DEF Good
<1>5. TicksOf(w) = TicksOf(q) \cup {a + 1}
  <2> HIDE DEF w
  <2>1. DOMAIN w = 1 .. Len(q) + 1
    BY <1>3, ElementType
  <2>2. ASSUME NEW n \in 1 .. Len(q) + 1 PROVE w[n].tick \in TicksOf(q) \cup {a + 1}
    <3>1. n \in 1..Len(q) \/ n = Len(q) + 1
      BY <1>1
    <3> QED
      BY <1>1, <1>2, <1>3, <3>1 DEF TicksOf
  <2>3. ASSUME NEW n \in 1..Len(q) PROVE q[n].tick \in TicksOf(w)
    <3>1. n \in 1 .. Len(q) + 1
      BY <1>1
    <3> QED
      BY <1>3, <2>1, <3>1 DEF TicksOf
  <2>4. a + 1 \in TicksOf(w)
    <3>1. Len(q) + 1 \in 1 .. Len(q) + 1
      BY <1>1
    <3> QED
      BY <1>2, <1>3, <2>1, <3>1 DEF TicksOf
  <2> QED
    BY <1>1, <2>1, <2>2, <2>3, <2>4 DEF TicksOf
<1> QED
  BY <1>3, <1>4, <1>5 DEF e

\* Elements of subsequent ticks that come together, the first with or without
\* a label.
Following(s, a, fr, b, gr) ==
  /\ \A n \in 1..Len(s) : s[n].tick = a + n
  /\ \A n \in 2..Len(s) : s[n].rxTime = {}
  /\ s[1].rxTime # {} => s[1].rxTime = {PeriodNum * (a + 1)}
  /\ fr => s[1].rxTime # {}
  /\ a + Len(s) <= b /\ (~gr => b = a + Len(s))

LEMMA Concatenated ==
  ASSUME NEW q \in Seq(Element), NEW s \in Seq(Element), s # <<>>,
         NEW a \in Nat, NEW fr \in BOOLEAN, NEW next, Good(q, a, fr, next),
         NEW b \in Nat, NEW gr \in BOOLEAN, Following(s, a, fr, b, gr)
  PROVE  /\ q \o s \in Seq(Element)
         /\ Good(q \o s, b, gr, next)
         /\ TicksOf(q \o s) = TicksOf(q) \cup (a + 1 .. a + Len(s))
<1> /\ \A n \in 1..Len(s) : s[n].tick = a + n
    /\ \A n \in 2..Len(s) : s[n].rxTime = {}
    /\ s[1].rxTime # {} => s[1].rxTime = {PeriodNum * (a + 1)}
    /\ fr => s[1].rxTime # {}
    /\ a + Len(s) <= b /\ (~gr => b = a + Len(s))
  BY DEF Following
<1> DEFINE w == q \o s
           L == Len(q)
<1>1. /\ L \in Nat /\ DOMAIN q = 1..L /\ \A n \in 1..L : q[n].tick \in Nat
      /\ Len(s) \in Nat /\ Len(s) >= 1 /\ DOMAIN s = 1..Len(s)
      /\ L >= 1 <=> q # <<>>
  BY ElementType
<1>2. w \in Seq(Element) /\ Len(w) = L + Len(s)
  BY ConcatProperties
<1>3. \A n \in 1..L : w[n] = q[n]
  BY <1>1, ConcatProperties
<1>4. \A n \in 1..Len(s) : w[L + n] = s[n] /\ s[n].tick = a + n
  <2> TAKE n \in 1..Len(s)
  <2>1. L + n \in 1 .. L + Len(s) /\ ~(L + n <= L) /\ (L + n) - L = n
    BY <1>1
  <2>2. w[L + n] = s[n]
    BY <2>1, ConcatProperties
  <2> QED
    BY <2>2
<1> HIDE DEF w
<1>5. \A n \in 1..Len(w) : n \in 1..L \/ \E m \in 1..Len(s) : n = L + m
  <2> TAKE n \in 1..Len(w)
  <2>1. n \in 1..L \/ (n - L \in 1..Len(s) /\ n = L + (n - L))
    BY <1>1, <1>2
  <2> QED
    BY <2>1
<1>6. \A n \in 1..L : w[n].tick \in Nat /\ w[n].tick <= a
  BY <1>1, <1>3 DEF Good
<1> HIDE DEF L
<1>7. Good(w, b, gr, next)
  <2>1. \A n \in 1..Len(w) : w[n].rxTime # {} => w[n].rxTime = {PeriodNum * w[n].tick}
    <3> SUFFICES ASSUME NEW n \in 1..Len(w), w[n].rxTime # {}
                 PROVE  w[n].rxTime = {PeriodNum * w[n].tick}
      OBVIOUS
    <3>1. CASE n \in 1..L
      BY <1>3, <3>1 DEF Good, L
    <3>2. CASE n \notin 1..L
      <4> PICK m \in 1..Len(s) : n = L + m
        BY <1>5, <3>2
      <4>1. w[n] = s[m] /\ s[m].tick = a + m
        BY <1>4
      <4>2. m = 1
        <5>1. m = 1 \/ m \in 2..Len(s)
          BY <1>1
        <5> QED
          BY <4>1, <5>1
      <4> QED
        BY <4>1, <4>2
    <3> QED
      BY <3>1, <3>2
  <2>2. \A m, n \in 1..Len(w) : m < n => w[m].tick < w[n].tick
    <3> SUFFICES ASSUME NEW m \in 1..Len(w), NEW n \in 1..Len(w), m < n
                 PROVE  w[m].tick < w[n].tick
      OBVIOUS
    <3>1. CASE n \in 1..L
      <4>1. m \in 1..L
        BY <1>1, <3>1
      <4> QED
        BY <1>3, <3>1, <4>1 DEF Good, L
    <3>2. CASE n \notin 1..L
      <4> PICK k \in 1..Len(s) : n = L + k
        BY <1>5, <3>2
      <4>1. w[n].tick = a + k
        BY <1>4
      <4>2. CASE m \in 1..L
        BY <1>1, <1>6, <4>1, <4>2
      <4>3. CASE m \notin 1..L
        <5> PICK l \in 1..Len(s) : m = L + l
          BY <1>5, <4>3
        <5>1. w[m].tick = a + l
          BY <1>4
        <5> QED
          BY <1>1, <4>1, <5>1
      <4> QED
        BY <4>2, <4>3
    <3> QED
      BY <3>1, <3>2
  <2>3. \A m, n \in 1..Len(w) :
          m <= n /\ (\A o \in m + 1 .. n : w[o].rxTime = {}) => w[n].tick = w[m].tick + (n - m)
    <3> SUFFICES ASSUME NEW m \in 1..Len(w), NEW n \in 1..Len(w), m <= n,
                        \A o \in m + 1 .. n : w[o].rxTime = {}
                 PROVE  w[n].tick = w[m].tick + (n - m)
      OBVIOUS
    <3>1. CASE n \in 1..L
      <4>1. m \in 1..L /\ \A o \in m + 1 .. n : o \in 1..L
        BY <1>1, <3>1
      <4>2. \A o \in m + 1 .. n : q[o].rxTime = {}
        BY <1>3, <4>1
      <4>3. q[n].tick = q[m].tick + (n - m)
        BY <3>1, <4>1, <4>2 DEF Good, L
      <4> QED
        BY <1>3, <3>1, <4>1, <4>3
    <3>2. CASE n \notin 1..L
      <4> PICK k \in 1..Len(s) : n = L + k
        BY <1>5, <3>2
      <4>1. w[n].tick = a + k
        BY <1>4
      <4>2. CASE m \notin 1..L
        <5> PICK l \in 1..Len(s) : m = L + l
          BY <1>5, <4>2
        <5>1. w[m].tick = a + l
          BY <1>4
        <5> QED
          BY <1>1, <4>1, <5>1
      <4>3. CASE m \in 1..L
        <5>1. L + 1 \in m + 1 .. n /\ L \in 1..L /\ m <= L /\ 1 \in 1..Len(s)
          BY <1>1, <4>3
        <5>2. w[L + 1] = s[1] /\ s[1].rxTime = {}
          BY <1>4, <5>1
        <5>3. ~fr
          BY <5>2
        <5>4. q[L].tick = a
          BY <1>1, <5>1, <5>3 DEF Good, L
        <5>5. \A o \in m + 1 .. L : q[o].rxTime = {}
          <6> TAKE o \in m + 1 .. L
          <6>1. o \in m + 1 .. n /\ o \in 1..L
            BY <1>1, <4>3
          <6> QED
            BY <1>3, <6>1
        <5>6. q[L].tick = q[m].tick + (L - m)
          BY <4>3, <5>1, <5>5 DEF Good, L
        <5>7. w[m].tick = q[m].tick /\ q[m].tick \in Nat
          BY <1>1, <1>3, <4>3
        <5>8. L \in Nat /\ m \in Nat /\ k \in Nat /\ n = L + k
          BY <1>1
        <5>9. \A x \in Nat : a = x + (L - m) => a + k = x + (n - m)
          <6> HIDE DEF L
          <6> QED
            BY <5>8
        <5> QED
          BY <4>1, <5>4, <5>6, <5>7, <5>9
      <4> QED
        BY <4>2, <4>3
    <3> QED
      BY <3>1, <3>2
  <2>4. \A n \in 1..Len(w) : w[n].tick <= b
    <3> TAKE n \in 1..Len(w)
    <3>1. CASE n \in 1..L
      BY <1>1, <1>6, <3>1
    <3>2. CASE n \notin 1..L
      <4> PICK m \in 1..Len(s) : n = L + m
        BY <1>5, <3>2
      <4>1. w[n].tick = a + m
        BY <1>4
      <4> QED
        BY <1>1, <4>1
    <3> QED
      BY <3>1, <3>2
  <2>5. w # <<>> /\ ~gr => w[Len(w)].tick = b
    <3>1. Len(s) \in 1..Len(s) /\ w[L + Len(s)].tick = a + Len(s)
      BY <1>1, <1>4
    <3> QED
      BY <1>2, <3>1 DEF L
  <2>6. w[1].rxTime # {} \/ next = PeriodNum * w[1].tick
    <3>1. CASE L >= 1
      <4>1. 1 \in 1..L /\ w[1] = q[1] /\ q # <<>>
        BY <1>1, <1>3, <3>1
      <4> QED
        BY <4>1 DEF Good
    <3>2. CASE L = 0
      <4>1. 1 \in 1..Len(s) /\ L + 1 = 1
        BY <1>1, <3>2
      <4>2. w[1] = s[1] /\ s[1].tick = a + 1
        BY <1>4, <4>1
      <4>3. q = <<>>
        BY <1>1, <3>2
      <4> QED
        BY <4>2, <4>3 DEF Good
    <3> QED
      BY <1>1, <3>1, <3>2
  <2>7. w # <<>>
    <3>1. Len(w) >= 1
      BY <1>1, <1>2 DEF L
    <3> QED
      BY <1>2, <3>1, ElementType
  <2> QED
    BY <2>1, <2>2, <2>3, <2>4, <2>5, <2>6, <2>7 DEF Good
<1>8. TicksOf(w) = TicksOf(q) \cup (a + 1 .. a + Len(s))
  <2>1. DOMAIN w = 1..Len(w) /\ Len(w) = L + Len(s)
    BY <1>2, ElementType DEF L
  <2>2. ASSUME NEW n \in 1..Len(w) PROVE w[n].tick \in TicksOf(q) \cup (a + 1 .. a + Len(s))
    <3>1. CASE n \in 1..L
      <4>1. w[n].tick = q[n].tick /\ n \in DOMAIN q
        BY <1>1, <1>3, <3>1
      <4> QED
        BY <4>1 DEF TicksOf
    <3>2. CASE n \notin 1..L
      <4> PICK m \in 1..Len(s) : n = L + m
        BY <1>5, <3>2
      <4>1. w[n].tick = a + m
        BY <1>4
      <4> QED
        BY <1>1, <4>1
    <3> QED
      BY <3>1, <3>2
  <2>3. ASSUME NEW n \in 1..L PROVE q[n].tick \in TicksOf(w)
    <3>1. n \in 1..Len(w)
      BY <1>1, <2>1
    <3> QED
      BY <1>3, <2>1, <3>1 DEF TicksOf
  <2>4. ASSUME NEW k \in a + 1 .. a + Len(s) PROVE k \in TicksOf(w)
    <3>1. k - a \in 1..Len(s) /\ L + (k - a) \in 1..Len(w) /\ a + (k - a) = k
      BY <1>1, <2>1
    <3>2. w[L + (k - a)].tick = k
      BY <1>4, <3>1
    <3> QED
      BY <2>1, <3>1, <3>2 DEF TicksOf
  <2>5. \A t \in TicksOf(q) : t \in TicksOf(w)
    BY <1>1, <2>3 DEF TicksOf
  <2>6. \A t \in TicksOf(w) : t \in TicksOf(q) \cup (a + 1 .. a + Len(s))
    BY <2>1, <2>2 DEF TicksOf
  <2> QED
    BY <2>4, <2>5, <2>6
<1> QED
  BY <1>2, <1>7, <1>8 DEF w

\* The ticks at an input begin with that of the first element and end with a
\* tick that has arrived.
LEMMA Within ==
  ASSUME Exact, NEW q \in Seq(Element), q # <<>>, NEW a \in Nat, NEW fr, NEW next, Good(q, a, fr, next),
         NEW n \in 0 .. Len(Front(q))
  PROVE  /\ q[1].tick \in Ticks /\ q[1].tick \in TicksOf(q)
         /\ \A k \in TicksOf(q) : k \in Ticks /\ q[1].tick <= k /\ k <= a
         /\ q[1].tick .. q[1].tick + n - 1 \subseteq TicksOf(q)
<1>1. /\ Len(q) \in Nat /\ 1 \in 1..Len(q) /\ DOMAIN q = 1..Len(q)
      /\ \A m \in 1..Len(q) : q[m].tick \in Nat /\ q[m].tick \in Ticks
  BY ElementType
<1>2. ASSUME NEW m \in 1..Len(q) PROVE q[1].tick <= q[m].tick /\ q[m].tick <= a
  <2>1. q[m].tick \in Nat /\ q[1].tick \in Nat
    BY <1>1
  <2>2. 1 < m => q[1].tick < q[m].tick
    BY <1>1 DEF Good
  <2>3. q[m].tick <= a
    BY DEF Good
  <2>4. m = 1 \/ 1 < m
    BY <1>1
  <2> QED
    BY <2>1, <2>2, <2>3, <2>4
<1>3. q[1].tick .. q[1].tick + n - 1 \subseteq TicksOf(q)
  <2>1. n <= Len(q) /\ \A m \in 1..n : q[m].tick = q[1].tick + (m - 1)
    BY TicksOfFront
  <2>2. n \in Nat /\ Len(q) \in Nat /\ q[1].tick \in Nat
    <3>1. Len(Front(q)) \in Nat
      BY TicksOfFront, <1>1
    <3> QED
      BY <1>1, <3>1
  <2> SUFFICES ASSUME NEW k \in q[1].tick .. q[1].tick + n - 1 PROVE k \in TicksOf(q)
    OBVIOUS
  <2> DEFINE m == k - q[1].tick + 1
  <2>3. m \in 1..n /\ q[1].tick + (m - 1) = k
    BY <2>2
  <2>4. m \in 1..Len(q)
    BY <2>1, <2>2, <2>3
  <2> HIDE DEF m
  <2> QED
    BY <1>1, <2>1, <2>3, <2>4 DEF TicksOf
<1> QED
  BY <1>1, <1>2, <1>3 DEF TicksOf

-----------------------------------------------------------------------------
(* The inductive invariant of the aligner. What comes before it, a source  *)
(* or a dropper, appears in it by two functions only: the ticks of stream  *)
(* i up to a[i] have come as far as the input, or are lost, and fr[i] says *)
(* that the next element to come has a label.                              *)

Progress(a, fr) == a \in [Inputs -> Nat] /\ fr \in [Inputs -> BOOLEAN]

Types ==
  /\ lost \in [Inputs -> SUBSET Ticks]
  /\ queue \in [Inputs -> Seq(Element)]
  /\ nextTimeNs \in [Inputs -> Nat]
  /\ sent \in [Inputs -> SUBSET Ticks]
  /\ dropped \in [Inputs -> SUBSET Ticks]

\* The block knows the times of the elements at its inputs.
Known(a, fr) == \A i \in Inputs : Good(queue[i], a[i], fr[i], nextTimeNs[i])

\* What is lost or dropped is not at the input, and what is dropped has come.
Gone(i) == lost[i] \cup dropped[i]
Past(a) ==
  \A i \in Inputs : /\ \A k \in Gone(i) : k \notin TicksOf(queue[i])
                    /\ \A k \in dropped[i] : k <= a[i]

\* As long as an element is at one input or still to come there, the one of
\* its time is at each other input or gone, if it has come.
Ahead(a, i, k) == k \in TicksOf(queue[i]) \/ k > a[i]
Accounted(a) ==
  \A i, j \in Inputs : \A k \in Ticks :
    Ahead(a, i, k) /\ k <= a[j] => k \in TicksOf(queue[j]) \cup Gone(j)

\* What was forwarded last comes before what is at the inputs or still to come.
SentBefore(a) ==
  \A i, j \in Inputs : \A m \in sent[j] :
    m <= a[i] /\ \A k \in TicksOf(queue[i]) : m < k

\* Up to there, every element was forwarded or is gone.
NoneMissing(a) ==
  \A k \in Ticks : k <= a[1] =>
    k \in TicksOf(queue[1]) \cup Gone(1) \/ \E m \in sent[1] : k <= m

Inv(a, fr) ==
  /\ Progress(a, fr) /\ Types /\ Known(a, fr) /\ Past(a) /\ Accounted(a)
  /\ SentBefore(a) /\ NoneMissing(a) /\ NothingDroppedInVain

LEMMA InitInv == Init => Inv(arrived, fresh)
<1> SUFFICES ASSUME Init PROVE Inv(arrived, fresh)
  OBVIOUS
<1> USE DEF Init
<1>1. Types /\ Progress(arrived, fresh)
  BY EmptySeq DEF Types, Progress
<1>2. Len(<<>>) = 0
  BY EmptySeq
<1>3. Known(arrived, fresh)
  BY <1>2 DEF Known, Good
<1>4. Past(arrived) /\ Accounted(arrived)
  <2>1. \A i \in Inputs, k \in Ticks : ~(k <= arrived[i])
    BY TicksAssumption DEF Ticks
  <2> QED
    BY <2>1 DEF Past, Accounted, Gone
<1>5. SentBefore(arrived) /\ NothingDroppedInVain
  BY DEF SentBefore, NothingDroppedInVain
<1>6. NoneMissing(arrived)
  BY InputsAssumption, TicksAssumption DEF NoneMissing, Inputs, Ticks
<1> QED
  BY <1>1, <1>3, <1>4, <1>5, <1>6 DEF Inv

-----------------------------------------------------------------------------
(* Upstream.                                                               *)

\* The ticks of stream i behind from, up to to, come: each is at the input now
\* or was lost, as what was at the input may be.
Came(i, from, to) ==
  /\ from <= to
  /\ lost[i] \subseteq lost'[i]
  /\ \A k \in Ticks :
       LET here == k \in TicksOf(queue[i]) \/ (from < k /\ k <= to) IN
       /\ k \in TicksOf(queue'[i]) => here /\ k \notin lost'[i]
       /\ here => k \in TicksOf(queue'[i]) \cup lost'[i]
       /\ k \in lost'[i] \ lost[i] => k \in TicksOf(queue[i]) \/ k > from

LEMMA UpstreamInv ==
  ASSUME Exact, NEW a, NEW fr, NEW b, NEW gr, Inv(a, fr),
         Progress(b, gr), Types', Known(b, gr)', \A i \in Inputs : Came(i, a[i], b[i]),
         UNCHANGED <<sent, dropped>>
  PROVE  Inv(b, gr)' /\ Output!LoseSome
<1> USE DEF Inv
<1>1. \A i \in Inputs : a[i] \in Nat /\ b[i] \in Nat /\ a[i] <= b[i]
  BY DEF Progress, Came
<1>2. \A k \in Ticks : k \in Nat
  BY TicksAssumption DEF Ticks
<1>3. \A i \in Inputs : /\ Gone(i)' = lost'[i] \cup dropped[i] /\ Gone(i) \subseteq Gone(i)'
                        /\ Gone(i)' \subseteq Ticks /\ dropped[i] \subseteq Ticks
                        /\ TicksOf(queue[i]) \subseteq Ticks /\ TicksOf(queue'[i]) \subseteq Ticks
  <2> TAKE i \in Inputs
  <2>1. queue[i] \in Seq(Element) /\ queue'[i] \in Seq(Element)
    BY DEF Types
  <2>2. TicksOf(queue[i]) \subseteq Ticks /\ TicksOf(queue'[i]) \subseteq Ticks
    BY <2>1, ElementType DEF TicksOf
  <2> QED
    BY <2>2 DEF Gone, Types, Came
<1>4. Past(b)'
  <2> SUFFICES ASSUME NEW i \in Inputs
               PROVE  /\ \A k \in Gone(i)' : k \notin TicksOf(queue'[i])
                      /\ \A k \in dropped[i] : k <= b[i]
    BY DEF Past
  <2>1. ASSUME NEW k \in dropped[i] PROVE k <= b[i] /\ k \notin TicksOf(queue'[i])
    <3>1. k \in Ticks /\ k \in Nat /\ k <= a[i] /\ k \notin TicksOf(queue[i])
      BY <1>2, <1>3 DEF Past, Gone
    <3> QED
      BY <1>1, <3>1 DEF Came
  <2>2. ASSUME NEW k \in lost'[i] PROVE k \notin TicksOf(queue'[i])
    BY <1>3 DEF Came
  <2> QED
    BY <1>3, <2>1, <2>2
<1>5. Accounted(b)'
  <2> SUFFICES ASSUME NEW i \in Inputs, NEW j \in Inputs, NEW k \in Ticks,
                      k \in TicksOf(queue'[i]) \/ k > b[i], k <= b[j]
               PROVE  k \in TicksOf(queue'[j]) \cup Gone(j)'
    BY DEF Accounted, Ahead
  <2>1. k \in TicksOf(queue[i]) \/ k > a[i]
    BY <1>1, <1>2 DEF Came
  <2>2. CASE k <= a[j]
    <3>1. k \in TicksOf(queue[j]) \cup Gone(j)
      BY <2>1, <2>2 DEF Accounted, Ahead
    <3> QED
      BY <1>3, <3>1 DEF Came
  <2>3. CASE a[j] < k
    BY <1>3, <2>3 DEF Came
  <2> QED
    BY <1>1, <1>2, <2>2, <2>3
<1>6. SentBefore(b)'
  <2> SUFFICES ASSUME NEW i \in Inputs, NEW j \in Inputs, NEW m \in sent[j]
               PROVE  m <= b[i] /\ \A k \in TicksOf(queue'[i]) : m < k
    BY DEF SentBefore
  <2>1. m \in Nat /\ m <= a[i] /\ \A k \in TicksOf(queue[i]) : m < k
    BY <1>2 DEF SentBefore, Types
  <2>2. ASSUME NEW k \in TicksOf(queue'[i]) PROVE m < k
    <3>1. k \in Ticks /\ k \in Nat
      BY <1>2, <1>3
    <3>2. k \in TicksOf(queue[i]) \/ a[i] < k
      BY <3>1 DEF Came
    <3> QED
      BY <1>1, <2>1, <3>1, <3>2
  <2> QED
    BY <1>1, <2>1, <2>2
<1>7. NoneMissing(b)'
  <2> SUFFICES ASSUME NEW k \in Ticks, k <= b[1]
               PROVE  k \in TicksOf(queue'[1]) \cup Gone(1)' \/ \E m \in sent[1] : k <= m
    BY DEF NoneMissing
  <2>1. 1 \in Inputs
    BY InputsAssumption DEF Inputs
  <2>2. CASE k <= a[1]
    <3>1. k \in TicksOf(queue[1]) \cup Gone(1) \/ \E m \in sent[1] : k <= m
      BY <2>2 DEF NoneMissing
    <3> QED
      BY <1>3, <2>1, <3>1 DEF Came
  <2>3. CASE a[1] < k
    BY <1>3, <2>1, <2>3 DEF Came
  <2> QED
    BY <1>1, <1>2, <2>1, <2>2, <2>3
<1>8. NothingDroppedInVain'
  BY DEF NothingDroppedInVain, Came
<1>9. Output!LoseSome
  <2>1. ASSUME NEW i \in Inputs, NEW k \in lost'[i] \ lost[i], NEW m \in sent[i]
        PROVE  m < k
    <3>1. k \in Ticks /\ k \in Nat /\ m \in Nat
      BY <1>2 DEF Types
    <3>2. k \in TicksOf(queue[i]) \/ k > a[i]
      BY <3>1 DEF Came
    <3> QED
      BY <1>1, <3>1, <3>2 DEF SentBefore
  <2>2. \A i \in Inputs : lost[i] \subseteq lost'[i]
    BY DEF Came
  <2>3. lost' \in [Inputs -> SUBSET Ticks] /\ sent' = sent
    BY DEF Types
  <2> QED
    BY <2>1, <2>2, <2>3 DEF Output!LoseSome, Output!Inputs, Output!Ticks, Inputs, Ticks
<1> QED
  BY <1>4, <1>5, <1>6, <1>7, <1>8, <1>9

\* What a source has sent, whatever it is connected to.
SourceOK ==
  /\ arrived \in [Inputs -> 0..MaxTick]
  /\ fresh \in [Inputs -> BOOLEAN]
  /\ lost \in [Inputs -> SUBSET Ticks]
  /\ \A i \in Inputs : \A k \in lost[i] : k <= arrived[i]

LEMMA SourceTypes ==
  ASSUME SourceOK, NEW i \in Inputs
  PROVE  /\ arrived[i] \in Nat /\ arrived[i] \in 0..MaxTick /\ fresh[i] \in BOOLEAN
         /\ lost[i] \in SUBSET Ticks /\ \A k \in Ticks : k \in Nat
         /\ arrived[i] + 1 \notin lost[i]
BY TicksAssumption DEF SourceOK, Ticks

LEMMA ArriveCame ==
  ASSUME Exact, SourceOK, Types, NEW p \in Inputs, Arrive(p),
         Good(queue[p], arrived[p], fresh[p], nextTimeNs[p]),
         \A k \in lost[p] : k \notin TicksOf(queue[p])
  PROVE  /\ Types' /\ SourceOK'
         /\ Good(queue'[p], arrived'[p], fresh'[p], nextTimeNs'[p])
         /\ Came(p, arrived[p], arrived'[p])
         /\ \A i \in Inputs \ {p} : UNCHANGED <<queue[i], arrived[i], fresh[i]>>
         /\ UNCHANGED <<lost, nextTimeNs, sent, dropped>>
<1> DEFINE k0 == arrived[p] + 1
           e == Received(k0, fresh[p])
<1>1. /\ arrived[p] \in Nat /\ k0 \in Ticks /\ fresh[p] \in BOOLEAN /\ queue[p] \in Seq(Element)
      /\ k0 \notin lost[p] /\ \A k \in Ticks : k \in Nat
  BY SourceTypes DEF Arrive, Types
<1>2. /\ Append(queue[p], e) \in Seq(Element)
      /\ Good(Append(queue[p], e), k0, FALSE, nextTimeNs[p])
      /\ TicksOf(Append(queue[p], e)) = TicksOf(queue[p]) \cup {k0}
  BY <1>1, Appended, ZenonT(30)
<1>3. /\ arrived' = [arrived EXCEPT ![p] = k0] /\ fresh' = [fresh EXCEPT ![p] = FALSE]
      /\ queue' = [queue EXCEPT ![p] = Append(queue[p], e)]
      /\ UNCHANGED <<lost, nextTimeNs, sent, dropped>>
  BY DEF Arrive
<1>4. k0 \in 0..MaxTick /\ k0 \in Nat /\ k0 = arrived[p] + 1
  BY <1>1, TicksAssumption DEF Ticks
<1> HIDE DEF k0, e
<1>5. Types'
  BY <1>2, <1>3 DEF Types
<1>6. /\ arrived'[p] = k0 /\ fresh'[p] = FALSE /\ queue'[p] = Append(queue[p], e)
      /\ \A i \in Inputs \ {p} : /\ arrived'[i] = arrived[i] /\ fresh'[i] = fresh[i]
                                 /\ queue'[i] = queue[i]
  BY <1>3 DEF Types, SourceOK
<1>7. SourceOK'
  <2>1. arrived' \in [Inputs -> 0..MaxTick] /\ fresh' \in [Inputs -> BOOLEAN]
    BY <1>3, <1>4 DEF SourceOK
  <2>2. ASSUME NEW i \in Inputs, NEW k \in lost[i] PROVE k <= arrived'[i]
    <3>1. k \in Nat /\ arrived[i] \in Nat /\ k <= arrived[i]
      BY SourceTypes DEF SourceOK
    <3> QED
      BY <1>4, <1>6, <3>1
  <2> QED
    BY <1>3, <2>1, <2>2 DEF SourceOK
<1>8. Came(p, arrived[p], arrived'[p])
  <2>1. \A k \in Ticks : (arrived[p] < k /\ k <= k0) <=> k = k0
    <3> TAKE k \in Ticks
    <3>1. k \in Nat /\ arrived[p] \in Nat
      BY <1>1
    <3> QED
      BY <1>4, <3>1
  <2> QED
    BY <1>1, <1>2, <1>3, <1>4, <1>6, <2>1 DEF Came
<1> QED
  BY <1>2, <1>3, <1>5, <1>6, <1>7, <1>8

LEMMA LoseCame ==
  ASSUME Exact, SourceOK, Types, NEW p \in Inputs, Lose(p)
  PROVE  /\ Types' /\ SourceOK'
         /\ arrived'[p] = arrived[p] + 1 /\ arrived'[p] \in Ticks /\ fresh'[p] = TRUE
         /\ lost'[p] = lost[p] \cup {arrived'[p]}
         /\ \A i \in Inputs \ {p} : UNCHANGED <<arrived[i], fresh[i], lost[i]>>
         /\ UNCHANGED <<queue, nextTimeNs, sent, dropped>>
<1> DEFINE k0 == arrived[p] + 1
<1>1. arrived[p] \in Nat /\ k0 \in Ticks /\ k0 \in Nat
  BY SourceTypes DEF Lose
<1>2. /\ arrived' = [arrived EXCEPT ![p] = k0] /\ fresh' = [fresh EXCEPT ![p] = TRUE]
      /\ lost' = [lost EXCEPT ![p] = @ \cup {k0}]
      /\ UNCHANGED <<queue, nextTimeNs, sent, dropped>>
  BY DEF Lose
<1>3. k0 \in 0..MaxTick /\ k0 = arrived[p] + 1
  BY <1>1, TicksAssumption DEF Ticks
<1> HIDE DEF k0
<1>4. Types'
  BY <1>1, <1>2 DEF Types
<1>5. /\ arrived'[p] = k0 /\ fresh'[p] = TRUE /\ lost'[p] = lost[p] \cup {k0}
      /\ \A i \in Inputs \ {p} : UNCHANGED <<arrived[i], fresh[i], lost[i]>>
  BY <1>2 DEF SourceOK
<1>6. SourceOK'
  <2>1. arrived' \in [Inputs -> 0..MaxTick] /\ fresh' \in [Inputs -> BOOLEAN]
    BY <1>2, <1>3 DEF SourceOK
  <2>2. lost' \in [Inputs -> SUBSET Ticks]
    BY <1>4 DEF Types
  <2>3. ASSUME NEW i \in Inputs, NEW k \in lost'[i] PROVE k <= arrived'[i]
    <3>1. ASSUME k \in lost[i] PROVE k \in Nat /\ arrived[i] \in Nat /\ k <= arrived[i]
      BY <3>1, SourceTypes DEF SourceOK
    <3> QED
      BY <1>1, <1>3, <1>5, <2>3, <3>1
  <2> QED
    BY <2>1, <2>2, <2>3 DEF SourceOK
<1> QED
  BY <1>1, <1>2, <1>3, <1>4, <1>5, <1>6

\* Ticks are lost before they come to input i.
LEMMA LostOnTheWay ==
  ASSUME NEW i \in Inputs, queue[i] \in Seq(Element), queue'[i] = queue[i],
         NEW a \in Nat, NEW fr, Good(queue[i], a, fr, nextTimeNs[i]), NEW b \in Nat, a <= b,
         \A k \in lost[i] : k \notin TicksOf(queue[i]),
         lost[i] \subseteq lost'[i], \A k \in lost'[i] \ lost[i] : k > a,
         \A k \in Ticks : a < k /\ k <= b => k \in lost'[i]
  PROVE  Came(i, a, b) /\ Good(queue[i], b, TRUE, nextTimeNs[i])
<1>1. \A n \in 1..Len(queue[i]) : queue[i][n].tick <= a /\ queue[i][n].tick \in Nat
  BY ElementType DEF Good
<1>2. Good(queue[i], b, TRUE, nextTimeNs[i])
  <2>1. \A n \in 1..Len(queue[i]) : queue[i][n].tick <= b
    BY <1>1
  <2> QED
    BY <2>1 DEF Good
<1>3. \A k \in TicksOf(queue[i]) : k \notin lost'[i]
  <2>1. \A k \in TicksOf(queue[i]) : k \in Nat /\ k <= a
    BY <1>1, ElementType DEF TicksOf
  <2> QED
    BY <2>1
<1>4. Came(i, a, b)
  BY <1>3 DEF Came
<1> QED
  BY <1>2, <1>4

\* A stream that is connected to its input loses an element.
LEMMA LoseAtInput ==
  ASSUME Exact, SourceOK, Types, NEW p \in Inputs, Lose(p),
         Good(queue[p], arrived[p], fresh[p], nextTimeNs[p]),
         \A k \in lost[p] : k \notin TicksOf(queue[p])
  PROVE  /\ Good(queue[p], arrived'[p], fresh'[p], nextTimeNs[p])
         /\ Came(p, arrived[p], arrived'[p])
<1> PICK b : b = arrived'[p]
  OBVIOUS
<1>1. arrived[p] \in Nat /\ queue[p] \in Seq(Element) /\ \A k \in Ticks : k \in Nat
  BY SourceTypes DEF Types
<1>2. /\ b = arrived[p] + 1 /\ b \in Ticks /\ fresh'[p] = TRUE /\ queue' = queue
      /\ lost'[p] = lost[p] \cup {b}
  BY LoseCame
<1>3. b \in Nat /\ b > arrived[p] /\ arrived[p] <= b /\ \A k \in Nat : arrived[p] < k /\ k <= b => k = b
  BY <1>1, <1>2
<1>4. Came(p, arrived[p], b) /\ Good(queue[p], b, TRUE, nextTimeNs[p])
  BY <1>1, <1>2, <1>3, LostOnTheWay
<1> QED
  BY <1>2, <1>4

\* A restart, whatever is lost on the way to the inputs.
LEMMA RestartInv ==
  ASSUME Exact, SourceOK, NEW a, NEW fr, Inv(a, fr), NEW onTheWay, Restart(onTheWay),
         \A i \in Inputs : a[i] <= arrived[i],
         \A i \in Inputs : \A k \in onTheWay[i] : k \in Ticks /\ a[i] < k /\ k <= arrived[i],
         \A i \in Inputs : \A k \in Ticks :
           a[i] < k /\ k <= arrived[i] => k \in onTheWay[i] \cup lost[i]
  PROVE  Inv(arrived, fresh)' /\ SourceOK' /\ Output!LoseSome
<1>1. /\ \A i \in Inputs : fresh'[i] = TRUE /\ queue'[i] = <<>>
      /\ \A i \in Inputs : lost'[i] = lost[i] \cup TicksOf(queue[i]) \cup onTheWay[i]
      /\ UNCHANGED <<arrived, nextTimeNs, sent, dropped>>
  BY DEF Restart
<1>2. \A i \in Inputs : \A k \in TicksOf(queue[i]) : k \in Ticks /\ k <= a[i] /\ k <= arrived[i]
  <2> SUFFICES ASSUME NEW i \in Inputs, NEW n \in 1..Len(queue[i])
               PROVE  LET k == queue[i][n].tick IN k \in Ticks /\ k <= a[i] /\ k <= arrived[i]
    BY ElementType DEF TicksOf, Types, Inv
  <2>1. queue[i] \in Seq(Element) /\ Good(queue[i], a[i], fr[i], nextTimeNs[i])
    BY DEF Inv, Types, Known
  <2>2. queue[i][n].tick \in Ticks /\ queue[i][n].tick \in Nat /\ queue[i][n].tick <= a[i]
    BY <2>1, ElementType DEF Good
  <2>3. a[i] \in Nat /\ arrived[i] \in Nat
    BY SourceTypes DEF Inv, Progress
  <2> QED
    BY <2>2, <2>3
<1>3. lost' \in [Inputs -> SUBSET Ticks]
  <2>1. \A i \in Inputs : lost'[i] \in SUBSET Ticks
    BY <1>1, <1>2, SourceTypes
  <2> QED
    BY <1>1, <2>1 DEF Restart
<1>4. Types'
  BY <1>1, <1>3, EmptySeq DEF Inv, Types, Restart
<1>5. SourceOK'
  <2>1. \A i \in Inputs : \A k \in lost'[i] : k <= arrived[i]
    BY <1>1, <1>2 DEF SourceOK
  <2> QED
    BY <1>1, <1>3, <2>1 DEF SourceOK, Restart
<1> PICK b, gr : b = arrived' /\ gr = fresh'
  OBVIOUS
<1>6. Progress(b, gr)
  <2>1. \A i \in Inputs : arrived[i] \in Nat
    BY SourceTypes
  <2> QED
    BY <1>1, <1>5, <2>1 DEF Progress, SourceOK
<1>7. Known(b, gr)'
  <2>1. Len(<<>>) = 0
    BY EmptySeq
  <2> QED
    BY <1>1, <2>1 DEF Known, Good
<1>8. TicksOf(<<>>) = {}
  BY EmptySeq, LenProperties DEF TicksOf
<1>9. \A i \in Inputs : Came(i, a[i], b[i])
  BY <1>1, <1>2, <1>8 DEF Came
<1>10. Inv(b, gr)' /\ Output!LoseSome
  BY <1>1, <1>4, <1>6, <1>7, <1>9, UpstreamInv
<1>11. Inv(arrived, fresh)'
  BY <1>10 DEF Inv, Progress, Known, Past, Accounted, Ahead, SentBefore, NoneMissing
<1> QED
  BY <1>5, <1>10, <1>11
-----------------------------------------------------------------------------
(* work().                                                                 *)

First(i) == queue[i][1].tick

LEMMA TimesAtFront ==
  ASSUME Exact, NEW a, NEW fr, Progress(a, fr), Types, Known(a, fr), Available, NEW i \in Inputs
  PROVE  /\ queue[i] \in Seq(Element) /\ queue[i] # <<>>
         /\ a[i] \in Nat /\ fr[i] \in BOOLEAN
         /\ Good(queue[i], a[i], fr[i], nextTimeNs[i])
         /\ First(i) \in Nat /\ First(i) \in Ticks
         /\ TimeAt(i) = PeriodNum * First(i) /\ TimeAt(i) \in Nat
         /\ AtFront(i) = Len(Front(queue[i])) /\ AtFront(i) \in Nat
<1>1. /\ queue[i] \in Seq(Element) /\ queue[i] # <<>>
      /\ a[i] \in Nat /\ fr[i] \in BOOLEAN
      /\ Good(queue[i], a[i], fr[i], nextTimeNs[i])
  BY TicksAssumption DEF Progress, Types, Known, Available
<1>2. Len(Front(queue[i])) \in Nat /\ 0 \in 0 .. Len(Front(queue[i]))
  <2>1. Front(queue[i]) \in Seq(Element)
    BY <1>1, FrontOf
  <2> QED
    BY <2>1, LenProperties
<1>3. First(i) \in Ticks /\ First(i) \in Nat
  BY <1>1, <1>2, Within, TicksAssumption DEF First, Ticks
<1>4. TimeAt(i) = PeriodNum * First(i)
  BY <1>1, TimeOfFront DEF TimeAt, First
<1>5. PeriodNum * First(i) \in Nat
  BY <1>3, TimesOrder
<1> QED
  BY <1>1, <1>2, <1>3, <1>4, <1>5 DEF AtFront

LEMMA CatchUpInv ==
  ASSUME Exact, NEW a, NEW fr, Inv(a, fr), CatchUp
  PROVE  Inv(a, fr)'
<1> USE DEF Inv
<1>1. Available
  BY DEF CatchUp
<1> PICK p \in Inputs, later \in {TimeAt(j) : j \in Inputs} :
      /\ Behind(p, later)
      /\ LET n == SmallerOf(AtFront(p), TimeNsToSamps(later - TimeAt(p)))
         IN /\ queue' = [queue EXCEPT ![p] = Without(@, n)]
            /\ nextTimeNs' = [j \in Inputs |->
                 TimeAt(j) + (IF j = p THEN SampsToTimeNs(n) ELSE 0)]
            /\ dropped' = [dropped EXCEPT ![p] = @ \cup TicksOf(SubSeq(queue[p], 1, n))]
  BY DEF CatchUp
<1> DEFINE n == SmallerOf(AtFront(p), TimeNsToSamps(later - TimeAt(p)))
           range == First(p) .. First(p) + n - 1
<1>2. /\ queue' = [queue EXCEPT ![p] = Without(queue[p], n)]
      /\ nextTimeNs' = [j \in Inputs |-> TimeAt(j) + (IF j = p THEN SampsToTimeNs(n) ELSE 0)]
      /\ dropped' = [dropped EXCEPT ![p] = dropped[p] \cup TicksOf(SubSeq(queue[p], 1, n))]
      /\ UNCHANGED <<lost, sent>>
  BY DEF CatchUp, upstream
<1>3. \E l \in Inputs : later = TimeAt(l) /\ TimeAt(p) < later
  <2>1. 1 \in Inputs
    BY InputsAssumption DEF Inputs
  <2>2. PICK j \in Inputs : /\ TimeAt(j) # TimeAt(1)
                            /\ IF TimeAt(j) < TimeAt(1) THEN p = j /\ later = TimeAt(1)
                                                        ELSE p = 1 /\ later = TimeAt(j)
    BY DEF Behind
  <2>3. TimeAt(j) \in Nat /\ TimeAt(1) \in Nat
    BY <1>1, <2>1, TimesAtFront
  <2> QED
    BY <2>1, <2>2, <2>3
<1> PICK l \in Inputs : later = TimeAt(l) /\ TimeAt(p) < later
  BY <1>3
<1>4. /\ First(p) \in Nat /\ First(l) \in Nat /\ First(p) < First(l)
      /\ TimeNsToSamps(later - TimeAt(p)) = First(l) - First(p)
  <2>1. /\ First(p) \in Nat /\ First(l) \in Nat
        /\ TimeAt(p) = PeriodNum * First(p) /\ TimeAt(l) = PeriodNum * First(l)
    BY <1>1, TimesAtFront
  <2>2. First(p) < First(l) /\ later - TimeAt(p) = PeriodNum * (First(l) - First(p))
    BY <2>1, TimesOrder
  <2>3. First(l) - First(p) \in Nat
    BY <2>1, <2>2
  <2> QED
    BY <2>1, <2>2, <2>3, ExactSamps
<1>5. n \in Nat /\ n \in 0 .. Len(Front(queue[p])) /\ n <= First(l) - First(p)
  <2>1. AtFront(p) \in Nat /\ AtFront(p) = Len(Front(queue[p]))
    BY <1>1, TimesAtFront
  <2> QED
    BY <1>4, <2>1 DEF SmallerOf
<1> HIDE DEF n
<1>6. /\ Without(queue[p], n) \in Seq(Element)
      /\ Good(Without(queue[p], n), a[p], fr[p], TimeAt(p) + SampsToTimeNs(n))
      /\ TicksOf(Without(queue[p], n)) = TicksOf(queue[p]) \ range
      /\ TicksOf(SubSeq(queue[p], 1, n)) = range
      /\ range \subseteq TicksOf(queue[p])
      /\ TimeAt(p) + SampsToTimeNs(n) \in Nat
  <2>1. /\ queue[p] \in Seq(Element) /\ queue[p] # <<>>
        /\ a[p] \in Nat /\ fr[p] \in BOOLEAN
        /\ Good(queue[p], a[p], fr[p], nextTimeNs[p])
        /\ TimeAt(p) = PeriodNum * First(p) /\ TimeAt(p) \in Nat
    BY <1>1, TimesAtFront
  <2>2. SampsToTimeNs(n) = PeriodNum * n /\ SampsToTimeNs(n) \in Nat
    BY <1>5, ExactNs
  <2>3. /\ Without(queue[p], n) \in Seq(Element)
        /\ Good(Without(queue[p], n), a[p], fr[p], PeriodNum * queue[p][1].tick + PeriodNum * n)
        /\ TicksOf(Without(queue[p], n)) = TicksOf(queue[p]) \ (queue[p][1].tick .. queue[p][1].tick + n - 1)
    BY <1>5, <2>1, Consumed
  <2>4. TicksOf(SubSeq(queue[p], 1, n)) = queue[p][1].tick .. queue[p][1].tick + n - 1
    BY <1>5, <2>1, TicksOfFront
  <2>5. queue[p][1].tick .. queue[p][1].tick + n - 1 \subseteq TicksOf(queue[p])
    BY <1>5, <2>1, Within
  <2>6. TimeAt(p) + SampsToTimeNs(n) \in Nat
    BY <2>1, <2>2
  <2>7. TimeAt(p) + SampsToTimeNs(n) = PeriodNum * queue[p][1].tick + PeriodNum * n
    BY <2>1, <2>2 DEF First
  <2> QED
    BY <2>3, <2>4, <2>5, <2>6, <2>7 DEF First
<1>7. /\ \A j \in Inputs : queue'[j] = IF j = p THEN Without(queue[p], n) ELSE queue[j]
      /\ \A j \in Inputs : dropped'[j] = IF j = p THEN dropped[p] \cup range ELSE dropped[j]
      /\ \A j \in Inputs : nextTimeNs'[j] = IF j = p THEN TimeAt(p) + SampsToTimeNs(n) ELSE TimeAt(j)
  <2>1. \A j \in Inputs : TimeAt(j) + 0 = TimeAt(j)
    <3> TAKE j \in Inputs
    <3>1. TimeAt(j) \in Nat
      BY <1>1, TimesAtFront
    <3> QED
      BY <3>1
  <2>2. \A j \in Inputs : queue'[j] = IF j = p THEN Without(queue[p], n) ELSE queue[j]
    BY <1>2 DEF Types
  <2>3. \A j \in Inputs : dropped'[j] = IF j = p THEN dropped[p] \cup range ELSE dropped[j]
    BY <1>2, <1>6 DEF Types
  <2>4. \A j \in Inputs : nextTimeNs'[j] = TimeAt(j) + (IF j = p THEN SampsToTimeNs(n) ELSE 0)
    BY <1>2
  <2> HIDE DEF range
  <2> QED
    BY <2>1, <2>2, <2>3, <2>4
<1>8. \A k \in range : k \in Ticks /\ k < First(l)
  <2>1. \A k \in range : k < First(l)
    BY <1>4, <1>5
  <2>2. \A k \in TicksOf(queue[p]) : k \in Ticks
    <3>1. 0 \in 0 .. Len(Front(queue[p]))
      BY <1>5
    <3> QED
      BY <1>1, <3>1, TimesAtFront, Within
  <2> QED
    BY <1>6, <2>1, <2>2
<1> HIDE DEF range
<1>9. Types'
  <2>1. queue' \in [Inputs -> Seq(Element)]
    BY <1>2, <1>6 DEF Types
  <2>2. dropped' \in [Inputs -> SUBSET Ticks]
    BY <1>2, <1>6, <1>8 DEF Types
  <2>3. nextTimeNs' \in [Inputs -> Nat]
    <3>1. \A j \in Inputs : nextTimeNs'[j] \in Nat
      BY <1>1, <1>6, <1>7, TimesAtFront
    <3> QED
      BY <1>2, <3>1
  <2> QED
    BY <1>2, <2>1, <2>2, <2>3 DEF Types
<1>10. Known(a, fr)'
  <2> SUFFICES ASSUME NEW i \in Inputs
               PROVE  Good(queue'[i], a[i], fr[i], nextTimeNs'[i])
    BY <1>2 DEF Known
  <2>1. CASE i = p
    BY <1>6, <1>7, <2>1
  <2>2. CASE i # p
    <3>1. /\ Good(queue[i], a[i], fr[i], nextTimeNs[i])
          /\ queue[i] # <<>> /\ TimeAt(i) = PeriodNum * queue[i][1].tick
      BY <1>1, TimesAtFront DEF First
    <3>2. Good(queue[i], a[i], fr[i], TimeAt(i))
      BY <3>1 DEF Good
    <3> QED
      BY <1>7, <2>2, <3>2
  <2> QED
    BY <2>1, <2>2
<1>11. \A i \in Inputs : /\ Gone(i)' = IF i = p THEN Gone(i) \cup range ELSE Gone(i)
                         /\ TicksOf(queue'[i]) = IF i = p THEN TicksOf(queue[i]) \ range
                                                          ELSE TicksOf(queue[i])
  BY <1>2, <1>6, <1>7 DEF Gone
<1>12. \A k \in range : k <= a[p]
  <2>1. 0 \in 0 .. Len(Front(queue[p]))
    BY <1>5
  <2>2. \A k \in TicksOf(queue[p]) : k <= a[p]
    BY <1>1, <2>1, TimesAtFront, Within
  <2> QED
    BY <1>6, <2>2
<1>13. Past(a)'
  BY <1>2, <1>7, <1>11, <1>12 DEF Past
<1>14. Accounted(a)'
  BY <1>2, <1>11 DEF Accounted, Ahead
<1>15. SentBefore(a)'
  <2>1. \A i \in Inputs : TicksOf(queue'[i]) \subseteq TicksOf(queue[i])
    <3> TAKE i \in Inputs
    <3>1. CASE i = p
      BY <1>6, <1>7, <3>1
    <3>2. CASE i # p
      BY <1>7, <3>2
    <3> QED
      BY <3>1, <3>2
  <2> QED
    BY <1>2, <2>1 DEF SentBefore
<1>16. NoneMissing(a)'
  <2>1. 1 \in Inputs
    BY InputsAssumption DEF Inputs
  <2> QED
    BY <1>2, <1>11, <2>1 DEF NoneMissing
<1>17. NothingDroppedInVain'
  <2>1. ASSUME NEW k \in range PROVE \E j \in Inputs : k \in lost[j]
    <3>1. 0 \in 0 .. Len(Front(queue[l]))
      BY <1>1, TimesAtFront
    <3>2. /\ First(l) \in TicksOf(queue[l])
          /\ \A m \in TicksOf(queue[l]) : First(l) <= m /\ m <= a[l]
      BY <1>1, <3>1, TimesAtFront, Within DEF First
    <3>3. k \in Nat /\ k \in Ticks /\ k < First(l) /\ a[l] \in Nat
      BY <1>1, <1>8, TimesAtFront, TicksAssumption DEF Ticks
    <3>4. k <= a[l] /\ k \notin TicksOf(queue[l])
      BY <1>4, <3>2, <3>3
    <3>5. Ahead(a, p, k)
      BY <1>6 DEF Ahead
    <3>6. k \in Gone(l)
      BY <3>3, <3>4, <3>5 DEF Accounted
    <3> QED
      BY <3>6 DEF Gone, NothingDroppedInVain
  <2> QED
    BY <1>2, <1>7, <2>1 DEF NothingDroppedInVain
<1> QED
  BY <1>9, <1>10, <1>13, <1>14, <1>15, <1>16, <1>17

LEMMA ForwardInv ==
  ASSUME Exact, NEW a, NEW fr, Inv(a, fr), Forward
  PROVE  Inv(a, fr)' /\ Output!Send
<1> USE DEF Inv
<1>1. Available /\ Aligned
  BY DEF Forward
<1> PICK p \in Inputs :
      LET n == AtFront(p) IN
      /\ \A j \in Inputs : n <= AtFront(j)
      /\ sent' = [j \in Inputs |-> TicksOf(SubSeq(queue[j], 1, n))]
      /\ queue' = [j \in Inputs |-> Without(queue[j], n)]
      /\ nextTimeNs' = [j \in Inputs |-> TimeAt(j) + SampsToTimeNs(n)]
  BY DEF Forward
<1> DEFINE n == AtFront(p)
           range == First(1) .. First(1) + n - 1
<1>2. /\ \A j \in Inputs : n <= AtFront(j)
      /\ sent' = [j \in Inputs |-> TicksOf(SubSeq(queue[j], 1, n))]
      /\ queue' = [j \in Inputs |-> Without(queue[j], n)]
      /\ nextTimeNs' = [j \in Inputs |-> TimeAt(j) + SampsToTimeNs(n)]
      /\ UNCHANGED <<lost, dropped>>
  BY DEF Forward, upstream
<1>3. n \in Nat /\ n >= 1
  <2>1. /\ queue[p] \in Seq(Element) /\ queue[p] # <<>> /\ AtFront(p) = Len(Front(queue[p]))
        /\ Good(queue[p], a[p], fr[p], nextTimeNs[p])
    BY <1>1, TimesAtFront
  <2>2. \E f \in 1..Len(queue[p]) : Len(Front(queue[p])) = f
    BY <2>1, FrontOf
  <2>3. Len(queue[p]) \in Nat
    BY <2>1, ElementType
  <2> QED
    BY <2>1, <2>2, <2>3
<1> HIDE DEF n
<1>4. 1 \in Inputs
  BY InputsAssumption DEF Inputs
<1>5. SampsToTimeNs(n) = PeriodNum * n /\ SampsToTimeNs(n) \in Nat
  BY <1>3, ExactNs
<1>6. ASSUME NEW j \in Inputs
      PROVE  /\ Without(queue[j], n) \in Seq(Element)
             /\ Good(Without(queue[j], n), a[j], fr[j], TimeAt(j) + SampsToTimeNs(n))
             /\ TicksOf(Without(queue[j], n)) = TicksOf(queue[j]) \ range
             /\ TicksOf(SubSeq(queue[j], 1, n)) = range
             /\ range \subseteq TicksOf(queue[j])
             /\ TimeAt(j) + SampsToTimeNs(n) \in Nat
             /\ \A k \in TicksOf(queue[j]) : k \in Ticks /\ k <= a[j] /\ First(1) <= k
  <2>1. /\ queue[j] \in Seq(Element) /\ queue[j] # <<>>
        /\ a[j] \in Nat /\ fr[j] \in BOOLEAN
        /\ Good(queue[j], a[j], fr[j], nextTimeNs[j])
        /\ TimeAt(j) = PeriodNum * First(j) /\ TimeAt(j) \in Nat
        /\ First(j) \in Nat
        /\ AtFront(j) = Len(Front(queue[j])) /\ AtFront(j) \in Nat
    BY <1>1, TimesAtFront
  <2>2. First(j) = First(1)
    <3>1. First(1) \in Nat /\ TimeAt(1) = PeriodNum * First(1)
      BY <1>1, <1>4, TimesAtFront
    <3>2. PeriodNum * First(j) = PeriodNum * First(1)
      BY <1>1, <2>1, <3>1 DEF Aligned
    <3> QED
      BY <2>1, <3>1, <3>2, TimesOrder
  <2>3. n \in 0 .. Len(Front(queue[j]))
    BY <1>2, <1>3, <2>1
  <2>4. /\ Without(queue[j], n) \in Seq(Element)
        /\ Good(Without(queue[j], n), a[j], fr[j], PeriodNum * queue[j][1].tick + PeriodNum * n)
        /\ TicksOf(Without(queue[j], n)) = TicksOf(queue[j]) \ (queue[j][1].tick .. queue[j][1].tick + n - 1)
    BY <2>1, <2>3, Consumed
  <2>5. TicksOf(SubSeq(queue[j], 1, n)) = queue[j][1].tick .. queue[j][1].tick + n - 1
    BY <2>1, <2>3, TicksOfFront
  <2>6. /\ queue[j][1].tick .. queue[j][1].tick + n - 1 \subseteq TicksOf(queue[j])
        /\ \A k \in TicksOf(queue[j]) : k \in Ticks /\ k <= a[j] /\ queue[j][1].tick <= k
    BY <2>1, <2>3, Within
  <2>7. TimeAt(j) + SampsToTimeNs(n) \in Nat
    BY <1>5, <2>1
  <2>8. /\ TimeAt(j) + SampsToTimeNs(n) = PeriodNum * queue[j][1].tick + PeriodNum * n
        /\ queue[j][1].tick = First(1)
    BY <1>5, <2>1, <2>2 DEF First
  <2> QED
    BY <2>4, <2>5, <2>6, <2>7, <2>8
<1>7. \A j \in Inputs : /\ queue'[j] = Without(queue[j], n)
                        /\ nextTimeNs'[j] = TimeAt(j) + SampsToTimeNs(n)
                        /\ sent'[j] = range
  BY <1>2, <1>6
<1> DEFINE upTo == First(1) + n - 1
<1>8. /\ \A k \in range : k \in Ticks
      /\ First(1) \in range /\ upTo \in range /\ First(1) <= upTo
      /\ First(1) \in Nat /\ upTo \in Nat /\ range = First(1) .. upTo
  <2>1. First(1) \in Nat
    BY <1>1, <1>4, TimesAtFront
  <2> QED
    BY <1>3, <1>4, <1>6, <2>1
<1> HIDE DEF upTo
<1> HIDE DEF range
<1>9. Types'
  <2>1. queue' \in [Inputs -> Seq(Element)]
    BY <1>2, <1>6
  <2>2. nextTimeNs' \in [Inputs -> Nat]
    BY <1>2, <1>6
  <2>3. sent' \in [Inputs -> SUBSET Ticks]
    BY <1>2, <1>7, <1>8
  <2> QED
    BY <1>2, <2>1, <2>2, <2>3 DEF Types
<1>10. Known(a, fr)'
  BY <1>2, <1>6, <1>7 DEF Known
<1>11. \A i \in Inputs : Gone(i)' = Gone(i) /\ TicksOf(queue'[i]) = TicksOf(queue[i]) \ range
  BY <1>2, <1>6, <1>7 DEF Gone
<1>12. Past(a)'
  BY <1>2, <1>11 DEF Past
<1>13. Accounted(a)'
  <2> SUFFICES ASSUME NEW i \in Inputs, NEW j \in Inputs, NEW k \in Ticks,
                      Ahead(a, i, k)', k <= a[j]
               PROVE  k \in TicksOf(queue'[j]) \cup Gone(j)'
    BY <1>2 DEF Accounted
  <2>1. Ahead(a, i, k)
    BY <1>2, <1>11 DEF Ahead
  <2>2. k \notin range
    <3>1. k \in TicksOf(queue'[i]) \/ k > a[i]
      BY <1>2 DEF Ahead
    <3>2. ASSUME k \in range PROVE k \in TicksOf(queue[i]) /\ k <= a[i]
      BY <1>6, <3>2
    <3>3. k \in Nat /\ a[i] \in Nat
      BY TicksAssumption DEF Ticks, Progress
    <3> QED
      BY <1>11, <3>1, <3>2, <3>3
  <2>3. k \in TicksOf(queue[j]) \cup Gone(j)
    BY <2>1 DEF Accounted
  <2> QED
    BY <1>11, <2>2, <2>3
<1>14. NothingDroppedInVain'
  BY <1>2 DEF NothingDroppedInVain
<1>15. SentBefore(a)'
  <2> SUFFICES ASSUME NEW i \in Inputs, NEW j \in Inputs, NEW m \in range
               PROVE  m <= a[i] /\ \A k \in TicksOf(queue'[i]) : m < k
    BY <1>2, <1>7 DEF SentBefore
  <2>1. m <= a[i]
    BY <1>6
  <2>2. ASSUME NEW k \in TicksOf(queue[i]) \ range PROVE m < k
    <3>1. k \in Ticks /\ First(1) <= k
      BY <1>6, <2>2
    <3>2. k \in Nat /\ k \notin First(1) .. upTo /\ m \in First(1) .. upTo
      BY <1>8, <2>2, <3>1, TicksAssumption DEF Ticks
    <3> QED
      BY <1>8, <3>1, <3>2
  <2> QED
    BY <1>11, <2>1, <2>2
<1>16. \A j \in Inputs : \A m \in sent[j] : m < First(1) /\ m \in Nat
  <2>1. First(1) \in TicksOf(queue[1])
    BY <1>4, <1>6, <1>8
  <2> QED
    BY <1>4, <2>1, TicksAssumption DEF SentBefore, Types, Ticks
<1>17. NoneMissing(a)'
  <2> SUFFICES ASSUME NEW k \in Ticks, k <= a[1], k \notin TicksOf(queue'[1]) \cup Gone(1)
               PROVE  \E m \in range : k <= m
    BY <1>2, <1>4, <1>7, <1>11 DEF NoneMissing
  <2>1. k \in Nat
    BY TicksAssumption DEF Ticks
  <2>2. k \in range \/ \E m \in sent[1] : k <= m
    BY <1>4, <1>11 DEF NoneMissing
  <2>3. ASSUME NEW m \in sent[1], k <= m PROVE k <= First(1)
    BY <1>4, <1>8, <1>16, <2>1, <2>3
  <2> QED
    BY <1>8, <2>1, <2>2, <2>3
<1>18. Output!Send
  <2>1. First(1) \in Ticks /\ upTo \in Ticks /\ sent' = [i \in Inputs |-> First(1) .. upTo]
    <3>1. sent' = [i \in Inputs |-> sent'[i]]
      BY <1>9 DEF Types
    <3> QED
      BY <1>7, <1>8, <3>1
  <2>2. \A k \in 1 .. First(1) - 1 : (\A m \in sent[1] : m < k) => \E i \in Inputs : k \in lost[i]
    <3> SUFFICES ASSUME NEW k \in 1 .. First(1) - 1, \A m \in sent[1] : m < k
                 PROVE  \E i \in Inputs : k \in lost[i]
      OBVIOUS
    <3>1. First(1) \in TicksOf(queue[1]) /\ First(1) <= a[1] /\ a[1] \in Nat
      BY <1>4, <1>6, <1>8 DEF Progress
    <3>2. k \in Ticks /\ k \in Nat /\ k <= a[1]
      BY <1>8, <2>1, <3>1, TicksAssumption DEF Ticks
    <3>3. k \notin TicksOf(queue[1])
      BY <1>4, <1>6, <1>8, <3>2
    <3>4. ~\E m \in sent[1] : k <= m
      BY <1>4, <1>16, <3>2
    <3>5. k \in Gone(1)
      BY <3>2, <3>3, <3>4 DEF NoneMissing
    <3> QED
      BY <1>4, <3>5 DEF Gone, NothingDroppedInVain
  <2>3. \A k \in First(1) .. upTo : ~\E i \in Inputs : k \in lost[i]
    BY <1>6, <1>8 DEF Past, Gone
  <2>4. \A i \in Inputs : \A m \in sent[i] : m < First(1)
    BY <1>16
  <2>5. First(1) <= upTo
    BY <1>8
  <2>6. Inputs = Output!Inputs /\ Ticks = Output!Ticks /\ \A k : Output!Skipped(k) = \E i \in Inputs : k \in lost[i]
    BY DEF Output!Inputs, Output!Ticks, Output!Skipped, Inputs, Ticks
  <2>7. \E first, last \in Ticks :
          /\ first <= last
          /\ \A i \in Inputs : \A m \in sent[i] : m < first
          /\ \A k \in 1 .. first - 1 : (\A m \in sent[1] : m < k) => Output!Skipped(k)
          /\ \A k \in first .. last : ~Output!Skipped(k)
          /\ sent' = [i \in Inputs |-> first .. last]
    <3> First(1) \in Ticks /\ upTo \in Ticks
      BY <2>1
    <3> WITNESS First(1) \in Ticks, upTo \in Ticks
    <3> QED
      BY <2>1, <2>2, <2>3, <2>4, <2>5, <2>6
  <2> QED
    BY <1>2, <2>6, <2>7 DEF Output!Send
<1> QED
  BY <1>9, <1>10, <1>12, <1>13, <1>14, <1>15, <1>17, <1>18

-----------------------------------------------------------------------------
(* The aligner at its sources.                                             *)

IInv == SourceOK /\ Inv(arrived, fresh)

\* What comes to input i only changes what is there and to come.
LEMMA FromSources ==
  ASSUME Exact, IInv, Upstream
  PROVE  IInv' /\ Output!LoseSome
<1> USE DEF IInv
<1> PICK a, fr, b, gr : a = arrived /\ fr = fresh /\ b = arrived' /\ gr = fresh'
  OBVIOUS
<1>1. Inv(a, fr)
  OBVIOUS
<1>2. Types /\ Known(arrived, fresh) /\ \A i \in Inputs : \A k \in lost[i] : k \notin TicksOf(queue[i])
  BY DEF Inv, Past, Gone
<1>3. ASSUME SourceOK', Types', Known(b, gr)', \A i \in Inputs : Came(i, a[i], b[i]),
             UNCHANGED <<sent, dropped>>
      PROVE  IInv' /\ Output!LoseSome
  <2>1. Progress(b, gr)
    BY <1>3, TicksAssumption DEF SourceOK, Progress
  <2>2. Inv(b, gr)' /\ Output!LoseSome
    BY <1>1, <1>3, <2>1, UpstreamInv
  <2>3. Inv(arrived, fresh)'
    BY <2>2 DEF Inv, Progress, Known, Past, Accounted, Ahead, SentBefore, NoneMissing
  <2> QED
    BY <1>3, <2>2, <2>3
<1>4. ASSUME NEW i \in Inputs, UNCHANGED <<queue[i], arrived[i], fresh[i], lost[i], nextTimeNs[i]>>
      PROVE  Came(i, a[i], b[i]) /\ Good(queue'[i], b[i], gr[i], nextTimeNs'[i])
  <2>1. Came(i, a[i], b[i])
    BY <1>2, <1>4, SourceTypes DEF Came
  <2> QED
    BY <1>2, <1>4, <2>1 DEF Known
<1>5. CASE \E p \in Inputs : Arrive(p)
  <2> PICK p \in Inputs : Arrive(p)
    BY <1>5
  <2>1. /\ Types' /\ SourceOK'
        /\ Good(queue'[p], arrived'[p], fresh'[p], nextTimeNs'[p])
        /\ Came(p, arrived[p], arrived'[p])
        /\ \A i \in Inputs \ {p} : UNCHANGED <<queue[i], arrived[i], fresh[i]>>
        /\ UNCHANGED <<lost, nextTimeNs, sent, dropped>>
    BY <1>2, ArriveCame DEF Known
  <2>2. \A i \in Inputs : Came(i, a[i], b[i]) /\ Good(queue'[i], b[i], gr[i], nextTimeNs'[i])
    BY <1>4, <2>1
  <2> QED
    BY <1>3, <2>1, <2>2 DEF Known
<1>6. CASE \E p \in Inputs : Lose(p)
  <2> PICK p \in Inputs : Lose(p)
    BY <1>6
  <2>1. /\ Types' /\ SourceOK'
        /\ \A i \in Inputs \ {p} : UNCHANGED <<arrived[i], fresh[i], lost[i]>>
        /\ UNCHANGED <<queue, nextTimeNs, sent, dropped>>
    BY <1>2, LoseCame
  <2>2. /\ Good(queue[p], arrived'[p], fresh'[p], nextTimeNs[p])
        /\ Came(p, arrived[p], arrived'[p])
    BY <1>2, LoseAtInput DEF Known
  <2>3. \A i \in Inputs : Came(i, a[i], b[i]) /\ Good(queue'[i], b[i], gr[i], nextTimeNs'[i])
    BY <1>4, <2>1, <2>2
  <2> QED
    BY <1>3, <2>1, <2>3 DEF Known
<1>7. CASE Restart([i \in Inputs |-> {}])
  <2>1. \A i \in Inputs : a[i] <= arrived[i] /\ \A k \in Ticks : ~(a[i] < k /\ k <= arrived[i])
    <3> SUFFICES ASSUME NEW i \in Inputs, NEW k \in Ticks
                 PROVE  arrived[i] <= arrived[i] /\ ~(arrived[i] < k /\ k <= arrived[i])
      BY SourceTypes
    <3> QED
      BY SourceTypes
  <2>2. Inv(arrived, fresh)' /\ SourceOK' /\ Output!LoseSome
    BY <1>1, <1>7, <2>1, RestartInv
  <2> QED
    BY <2>2
<1> QED
  BY <1>5, <1>6, <1>7 DEF Upstream

\* work() leaves alone what comes to the inputs.
LEMMA AlignerWorks ==
  ASSUME Exact, NEW a, NEW fr, Inv(a, fr), Work
  PROVE  /\ Inv(a, fr)' /\ UNCHANGED <<arrived, fresh, lost>>
         /\ Output!Send \/ UNCHANGED sent
<1>1. UNCHANGED <<arrived, fresh, lost>>
  BY DEF Work, CatchUp, Forward, upstream
<1>2. CASE CatchUp
  BY <1>1, <1>2, CatchUpInv DEF CatchUp
<1>3. CASE Forward
  BY <1>1, <1>3, ForwardInv
<1> QED
  BY <1>2, <1>3 DEF Work

\* What the invariant speaks of stays as it is.
LEMMA StutterInv ==
  ASSUME NEW a, NEW fr, Inv(a, fr), UNCHANGED <<lost, queue, nextTimeNs, sent, dropped>>
  PROVE  Inv(a, fr)'
BY DEF Inv, Progress, Types, Known, Past, Accounted, Gone, Ahead, SentBefore, NoneMissing,
       NothingDroppedInVain

LEMMA IInvStep ==
  ASSUME Exact, IInv, [Next]_vars
  PROVE  IInv' /\ (Output!Next \/ UNCHANGED <<lost, sent>>)
<1> PICK a, fr : a = arrived /\ fr = fresh
  OBVIOUS
<1>1. Inv(a, fr) /\ SourceOK
  BY DEF IInv
<1>2. ASSUME Inv(a, fr)', UNCHANGED <<arrived, fresh, lost>> PROVE IInv'
  BY <1>1, <1>2 DEF IInv, SourceOK, Inv, Progress, Known, Past, Accounted, Ahead, SentBefore,
                    NoneMissing
<1>3. CASE Upstream
  BY <1>3, FromSources DEF Output!Next
<1>4. CASE Work
  BY <1>1, <1>2, <1>4, AlignerWorks DEF Output!Next
<1>5. CASE UNCHANGED vars
  BY <1>1, <1>2, <1>5, StutterInv DEF vars, upstream
<1> QED
  BY <1>3, <1>4, <1>5 DEF Next

LEMMA Inductive == ASSUME Exact PROVE Spec => []IInv
<1>1. Init => IInv
  <2>1. 0 \in 0..MaxTick
    BY TicksAssumption
  <2> QED
    BY <2>1, InitInv DEF IInv, SourceOK, Init
<1>2. IInv /\ [Next]_vars => IInv'
  BY IInvStep
<1> QED
  BY <1>1, <1>2, PTL DEF Spec

\* The times, the elements at the inputs and the account of those that are
\* gone are of their types, and no element is both gone and still there.
THEOREM TypeCorrect == ASSUME Exact PROVE Spec => []TypeOK
<1>1. IInv => TypeOK
  BY DEF IInv, SourceOK, Inv, TypeOK, Types, Past, Gone, Element
<1> QED
  BY Inductive, <1>1, PTL

\* "output N time-aligned output streams": whatever is lost, and restarted, in
\* any order, work() forwards the elements that no stream has lost, in order,
\* those of the same time together.
THEOREM AlignerImplementsOutput == ASSUME Exact PROVE Spec => ImplementsAlignedOutput
<1>1. Init => Output!Init
  BY DEF Init, Output!Init, Output!Inputs, Inputs
<1>2. IInv /\ [Next]_vars => [Output!Next]_<<lost, sent>>
  BY IInvStep
<1> QED
  BY Inductive, <1>1, <1>2, PTL DEF Spec, ImplementsAlignedOutput, Output!Spec

\* "selective dropping": work() drops an element only if another stream has
\* lost the element of its time.
THEOREM DropsHaveReasons == ASSUME Exact PROVE Spec => []NothingDroppedInVain
<1>1. IInv => NothingDroppedInVain
  BY DEF IInv, Inv
<1> QED
  BY Inductive, <1>1, PTL

-----------------------------------------------------------------------------
(* The aligner behind the dropper.                                         *)

\* What has come through the dropper: everything before the element that it
\* has at its front. The next has a label if the dropper has one or posts one.
Labelled == IF input = <<>> THEN fresh[1] ELSE input[1].rxTime # {}
come ==
  [i \in Inputs |-> IF i = 1 /\ input # <<>> THEN input[1].tick - 1 ELSE arrived[i]]
coming ==
  [i \in Inputs |-> IF i = 1 THEN IF postTime \/ Labelled THEN TRUE ELSE FALSE ELSE fresh[i]]

\* The dropper knows the time of its elements, none of them was lost, what has
\* arrived behind the first was lost or is there, and it posts a time as soon
\* as it goes on behind a drop.
DropperInv ==
  /\ input \in Seq(Element)
  /\ probability \in 0..Steps
  /\ dropSize \in DropSizes
  /\ numLeftToDrop \in Nat /\ \E size \in DropSizes : numLeftToDrop <= size
  /\ postTime \in BOOLEAN
  /\ dropperTimeNs \in Nat
  /\ Good(input, arrived[1], fresh[1], dropperTimeNs)
  /\ \A k \in TicksOf(input) : k \notin lost[1]
  /\ input # <<>> => \A k \in Ticks : input[1].tick < k /\ k <= arrived[1] =>
                                       k \in TicksOf(input) \cup lost[1]
  /\ numLeftToDrop # 0 => postTime

ChainInv == SourceOK /\ DropperInv /\ Inv(come, coming)

\* The types, and what comes, seen from the outside.
ComeTypes ==
  /\ Progress(come, coming)
  /\ \A i \in Inputs \ {1} : come[i] = arrived[i] /\ coming[i] = fresh[i]
  /\ input = <<>> => come[1] = arrived[1]
  /\ input # <<>> => /\ come[1] = input[1].tick - 1 /\ input[1].tick \in Ticks
                    /\ input[1].tick = come[1] + 1 /\ come[1] < arrived[1]
  /\ coming[1] <=> postTime \/ Labelled

LEMMA ComeIs ==
  ASSUME Exact, SourceOK, DropperInv
  PROVE  ComeTypes
<1>1. 1 \in Inputs /\ \A i \in Inputs : arrived[i] \in Nat /\ fresh[i] \in BOOLEAN
  BY InputsAssumption, SourceTypes DEF Inputs
<1>2. ASSUME input # <<>>
      PROVE  /\ input[1].tick \in Nat /\ input[1].tick \in Ticks /\ input[1].tick >= 1 /\ input[1].tick <= arrived[1]
  <2>1. 1 \in 1..Len(input)
    BY <1>2, ElementType DEF DropperInv
  <2>2. input[1].tick \in Ticks /\ input[1].tick <= arrived[1]
    BY <2>1, ElementType DEF DropperInv, Good
  <2> QED
    BY <2>2, TicksAssumption DEF Ticks
<1>3. come \in [Inputs -> Nat]
  <2>1. \A i \in Inputs : come[i] \in Nat
    BY <1>1, <1>2 DEF come
  <2> QED
    BY <2>1 DEF come
<1>4. coming \in [Inputs -> BOOLEAN]
  BY <1>1 DEF coming
<1>5. input # <<>> => /\ come[1] = input[1].tick - 1 /\ input[1].tick = come[1] + 1
                     /\ come[1] < arrived[1]
  BY <1>1, <1>2 DEF come
<1> QED
  BY <1>1, <1>2, <1>3, <1>4, <1>5 DEF come, coming, Progress, ComeTypes

LEMMA ComeWillBe ==
  ASSUME Exact
  PROVE  SourceOK' /\ DropperInv' => ComeTypes'
<1>1. SourceOK /\ DropperInv => ComeTypes
  BY ComeIs
<1> QED
  BY <1>1, PTL

\* Whatever changes what comes or is there.
LEMMA ChainCame ==
  ASSUME Exact, ChainInv, SourceOK', DropperInv', Types', UNCHANGED <<sent, dropped>>,
         \A i \in Inputs : /\ Came(i, come[i], come'[i])
                          /\ Good(queue'[i], come'[i], coming'[i], nextTimeNs'[i])
  PROVE  ChainInv' /\ Output!LoseSome
<1> PICK a, fr, b, gr : a = come /\ fr = coming /\ b = come' /\ gr = coming'
  OBVIOUS
<1>1. Inv(a, fr)
  BY DEF ChainInv
<1>2. Progress(b, gr)
  BY ComeWillBe DEF ComeTypes, Progress
<1>3. Known(b, gr)'
  BY DEF Known
<1>4. Inv(b, gr)' /\ Output!LoseSome
  BY <1>1, <1>2, <1>3, UpstreamInv
<1>5. Inv(come, coming)'
  BY <1>4 DEF Inv, Progress, Known, Past, Accounted, Ahead, SentBefore, NoneMissing
<1> QED
  BY <1>4, <1>5 DEF ChainInv

-----------------------------------------------------------------------------
(* The dropper.                                                            *)

\* The operators of Streams are the same in both blocks.
LEMMA SameStreams ==
  /\ \A n : Dropper!SampsToTimeNs(n) = SampsToTimeNs(n)
  /\ \A m, n : Dropper!SmallerOf(m, n) = SmallerOf(m, n)
  /\ \A q : Dropper!Front(q) = Front(q) /\ Dropper!TicksOf(q) = TicksOf(q)
  /\ \A q, n : Dropper!Without(q, n) = Without(q, n)
  /\ \A q, t : Dropper!FrontTime(q, t) = FrontTime(q, t)
<1>1. \A n : Dropper!SampsToTimeNs(n) = SampsToTimeNs(n)
  BY DEF Dropper!SampsToTimeNs, SampsToTimeNs
<1>2. \A m, n : Dropper!SmallerOf(m, n) = SmallerOf(m, n)
  BY DEF Dropper!SmallerOf, SmallerOf
<1>3. \A q : Dropper!Front(q) = Front(q)
  BY DEF Dropper!Front, Front
<1>4. \A q : Dropper!TicksOf(q) = TicksOf(q)
  BY DEF Dropper!TicksOf, TicksOf
<1>5. \A q, n : Dropper!Without(q, n) = Without(q, n)
  BY DEF Dropper!Without, Without
<1>6. \A q, t : Dropper!FrontTime(q, t) = FrontTime(q, t)
  BY DEF Dropper!FrontTime, FrontTime, Dropper!Front, Front, Dropper!SampsToTimeNs, SampsToTimeNs
<1> QED
  BY <1>1, <1>2, <1>3, <1>4, <1>5, <1>6

LEMMA AtDropper ==
  ASSUME Exact, SourceOK, DropperInv, input # <<>>
  PROVE  /\ Dropper!Time = PeriodNum * input[1].tick /\ Dropper!Time \in Nat
         /\ Dropper!Time = PeriodNum * (come[1] + 1)
         /\ Dropper!AtFront = Len(Front(input)) /\ Dropper!AtFront \in 1..Len(input)
         /\ Len(input) \in Nat /\ arrived[1] \in Nat /\ fresh[1] \in BOOLEAN
         /\ come[1] \in Nat /\ input[1].tick = come[1] + 1
<1>1. input \in Seq(Element) /\ Good(input, arrived[1], fresh[1], dropperTimeNs)
  BY DEF DropperInv
<1>2. Dropper!Time = PeriodNum * input[1].tick
  BY <1>1, TimeOfFront, SameStreams DEF Dropper!Time
<1>3. input[1].tick = come[1] + 1 /\ come[1] \in Nat
  BY ComeIs, InputsAssumption DEF ComeTypes, Progress, Inputs
<1>4. PeriodNum * (come[1] + 1) \in Nat
  BY <1>3, TimesOrder
<1>5. Dropper!AtFront = Len(Front(input)) /\ Dropper!AtFront \in 1..Len(input)
  BY <1>1, FrontOf, SameStreams DEF Dropper!AtFront
<1>6. Len(input) \in Nat /\ arrived[1] \in Nat /\ fresh[1] \in BOOLEAN
  BY <1>1, ElementType, InputsAssumption, SourceTypes DEF Inputs
<1> QED
  BY <1>2, <1>3, <1>4, <1>5, <1>6

\* What remains at the dropper behind n elements of the front, and how far
\* the stream has come then: as far as these, and over what was lost behind.
NextCome == IF input = <<>> THEN arrived[1] ELSE input[1].tick - 1

LEMMA DropperConsumes ==
  ASSUME Exact, SourceOK, DropperInv, input # <<>>, NEW n \in 1 .. Dropper!AtFront,
         input' = Without(input, n), dropperTimeNs' = Dropper!Time + SampsToTimeNs(n),
         UNCHANGED <<arrived, fresh>>,
         lost[1] \subseteq lost'[1], lost'[1] \subseteq lost[1] \cup (come[1] + 1 .. come[1] + n)
  PROVE  /\ input' \in Seq(Element) /\ dropperTimeNs' \in Nat
         /\ Good(input', arrived[1], fresh[1], dropperTimeNs')
         /\ \A k \in TicksOf(input') : k \notin lost'[1]
         /\ input' # <<>> => \A k \in Ticks : input'[1].tick < k /\ k <= arrived[1] =>
                                              k \in TicksOf(input') \cup lost'[1]
         /\ TicksOf(SubSeq(input, 1, n)) = come[1] + 1 .. come[1] + n
         /\ come[1] + 1 .. come[1] + n \subseteq TicksOf(input)
         /\ NextCome' \in Nat /\ come[1] + n <= NextCome' /\ NextCome' <= arrived[1]
         /\ \A k \in Ticks : come[1] + n < k /\ k <= NextCome' => k \in lost[1]
<1> DEFINE w == Without(input, n)
           c == come[1]
           range == c + 1 .. c + n
<1>1. /\ input \in Seq(Element) /\ Good(input, arrived[1], fresh[1], dropperTimeNs)
      /\ arrived[1] \in Nat /\ fresh[1] \in BOOLEAN /\ c \in Nat /\ input[1].tick = c + 1
      /\ n \in Nat /\ n >= 1 /\ n \in 0 .. Len(Front(input))
      /\ Dropper!Time = PeriodNum * input[1].tick /\ Dropper!Time \in Nat
  BY AtDropper DEF DropperInv
<1>2. SampsToTimeNs(n) = PeriodNum * n /\ SampsToTimeNs(n) \in Nat
  BY <1>1, ExactNs
<1>3. dropperTimeNs' \in Nat /\ dropperTimeNs' = PeriodNum * input[1].tick + PeriodNum * n
  BY <1>1, <1>2
<1>4. input[1].tick .. input[1].tick + n - 1 = range
  BY <1>1
<1>5. /\ w \in Seq(Element) /\ Good(w, arrived[1], fresh[1], dropperTimeNs')
      /\ TicksOf(w) = TicksOf(input) \ range
  <2> DEFINE then == PeriodNum * input[1].tick + PeriodNum * n
  <2>1. /\ w \in Seq(Element) /\ Good(w, arrived[1], fresh[1], then)
        /\ TicksOf(w) = TicksOf(input) \ (input[1].tick .. input[1].tick + n - 1)
    BY <1>1, Consumed
  <2> HIDE DEF then, w, range, c
  <2>2. dropperTimeNs' = then
    BY <1>3 DEF then
  <2> QED
    BY <1>4, <2>1, <2>2
<1>6. TicksOf(SubSeq(input, 1, n)) = range
  BY <1>1, <1>4, TicksOfFront
<1>7. /\ range \subseteq TicksOf(input)
      /\ \A k \in TicksOf(input) : k \in Ticks /\ k \in Nat /\ c + 1 <= k /\ k <= arrived[1]
  <2>1. /\ input[1].tick .. input[1].tick + n - 1 \subseteq TicksOf(input)
        /\ \A k \in TicksOf(input) : k \in Ticks /\ input[1].tick <= k /\ k <= arrived[1]
    BY <1>1, Within
  <2> QED
    BY <1>1, <1>4, <2>1, TicksAssumption DEF Ticks
<1>8. \A k \in Ticks : k \in Nat
  BY TicksAssumption DEF Ticks
<1> HIDE DEF w, c
<1>9. input' = w
  BY DEF w
<1>10. ASSUME w # <<>>
       PROVE  /\ w[1].tick \in TicksOf(w) /\ \A k \in TicksOf(w) : w[1].tick <= k
              /\ w[1].tick \in Nat /\ c + n < w[1].tick /\ w[1].tick <= arrived[1]
  <2>1. 0 \in 0 .. Len(Front(w))
    <3>1. Len(Front(w)) \in Nat
      BY <1>5, <1>10, FrontOf, ElementType
    <3> QED
      BY <3>1
  <2>2. w[1].tick \in TicksOf(w) /\ \A k \in TicksOf(w) : w[1].tick <= k
    BY <1>1, <1>5, <1>10, <2>1, Within
  <2>3. w[1].tick \in TicksOf(input) /\ w[1].tick \notin range
    BY <1>5, <2>2
  <2> QED
    BY <1>1, <1>7, <2>2, <2>3
<1>11. \A k \in Ticks : c + 1 < k /\ k <= arrived[1] => k \in TicksOf(input) \cup lost[1]
  BY <1>1 DEF DropperInv
<1>12. \A k \in Ticks : c + n < k /\ k <= arrived[1] => k \in TicksOf(w) \cup lost[1]
  <2> SUFFICES ASSUME NEW k \in Ticks, c + n < k, k <= arrived[1] PROVE k \in TicksOf(w) \cup lost[1]
    OBVIOUS
  <2>1. c + 1 < k /\ k \notin range
    BY <1>1, <1>8
  <2> QED
    BY <1>5, <1>11, <2>1
<1>13. \A k \in TicksOf(w) : k \notin lost'[1]
  BY <1>5 DEF DropperInv, c
<1>14. w # <<>> => \A k \in Ticks : w[1].tick < k /\ k <= arrived[1] => k \in TicksOf(w) \cup lost'[1]
  <2> SUFFICES ASSUME w # <<>>, NEW k \in Ticks, w[1].tick < k, k <= arrived[1]
               PROVE  k \in TicksOf(w) \cup lost'[1]
    OBVIOUS
  <2>1. c + n < k
    BY <1>1, <1>8, <1>10
  <2> QED
    BY <1>12, <2>1
<1>15. /\ NextCome' \in Nat /\ c + n <= NextCome' /\ NextCome' <= arrived[1]
       /\ \A k \in Ticks : c + n < k /\ k <= NextCome' => k \in lost[1]
  <2>1. CASE w = <<>>
    <3>1. NextCome' = arrived[1]
      BY <1>9, <2>1 DEF NextCome
    <3>2. TicksOf(w) = {}
      BY <2>1, EmptySeq, LenProperties DEF TicksOf
    <3>3. c + n \in range
      BY <1>1
    <3> QED
      BY <1>1, <1>7, <1>12, <3>1, <3>2, <3>3
  <2>2. CASE w # <<>>
    <3>1. NextCome' = w[1].tick - 1
      BY <1>9, <2>2 DEF NextCome
    <3>2. NextCome' \in Nat /\ c + n <= NextCome' /\ NextCome' <= arrived[1]
      BY <1>1, <1>10, <2>2, <3>1
    <3>3. ASSUME NEW k \in Ticks, c + n < k, k <= NextCome' PROVE k \in lost[1]
      <4>1. k <= arrived[1] /\ ~(w[1].tick <= k)
        BY <1>1, <1>8, <1>10, <2>2, <3>1, <3>2, <3>3
      <4> QED
        BY <1>10, <1>12, <2>2, <3>3, <4>1
    <3> QED
      BY <3>2, <3>3
  <2> QED
    BY <2>1, <2>2
<1> QED
  BY <1>3, <1>5, <1>6, <1>7, <1>9, <1>13, <1>14, <1>15 DEF c

\* What the dropper forwards are elements of the ticks that come next, the
\* first with the time if it posts one.
LEMMA ForwardedIs ==
  ASSUME Exact, SourceOK, DropperInv, input # <<>>
  PROVE  LET s == Dropper!Forwarded IN
         /\ s \in Seq(Element) /\ s # <<>> /\ Len(s) = Dropper!AtFront
         /\ \A n \in 1..Len(s) : s[n].tick = come[1] + n
         /\ \A n \in 2..Len(s) : s[n].rxTime = {}
         /\ s[1].rxTime # {} => s[1].rxTime = {PeriodNum * (come[1] + 1)}
         /\ coming[1] => s[1].rxTime # {}
<1> DEFINE q == Front(input)
           t == PeriodNum * (come[1] + 1)
           s == Dropper!Forwarded
<1> PICK f \in 1..Len(input) :
      /\ q \in Seq(Element) /\ Len(q) = f
      /\ \A n \in 1..f : q[n] = input[n]
      /\ \A n \in 2..f : input[n].rxTime = {}
  BY FrontOf DEF DropperInv
<1>1. /\ input \in Seq(Element) /\ Good(input, arrived[1], fresh[1], dropperTimeNs)
      /\ Dropper!Time = t /\ t \in Nat /\ Dropper!AtFront = f
      /\ Len(input) \in Nat /\ come[1] \in Nat /\ input[1].tick = come[1] + 1
  BY AtDropper DEF DropperInv
<1>2. f \in Nat /\ f >= 1 /\ DOMAIN q = 1..f /\ 1 \in 1..f /\ 1 \in 1..Len(input)
  BY <1>1, LenProperties
<1>3. q[1] \in Element /\ input[1] = q[1]
  BY <1>2, ElementOfSeq
<1>4. input[1].rxTime # {} => input[1].rxTime = {t}
  BY <1>1, <1>2 DEF Good
<1> HIDE DEF t, q
<1> DEFINE time == IF postTime THEN q[1].rxTime \cup {t} ELSE q[1].rxTime
           e == [q[1] EXCEPT !.rxTime = time]
<1>5. s = [q EXCEPT ![1] = e]
  BY <1>1, SameStreams DEF Dropper!Forwarded, q
<1>6. time \in SUBSET Nat
  BY <1>1, <1>3 DEF Element
<1> HIDE DEF time
<1>7. e \in Element /\ e.tick = input[1].tick /\ e.rxTime = time
  BY <1>3, <1>6 DEF Element
<1> HIDE DEF e, s
<1>8. /\ s \in Seq(Element) /\ Len(s) = f /\ s[1] = e
      /\ \A n \in 2..f : s[n] = q[n]
  <2>1. s \in Seq(Element) /\ Len(s) = f
    BY <1>2, <1>5, <1>7, ExceptSeq
  <2>2. s[1] = e /\ \A n \in 1..f : n # 1 => s[n] = q[n]
    BY <1>2, <1>5
  <2> QED
    BY <2>1, <2>2
<1>9. \A n \in 1..f : s[n].tick = come[1] + n
  <2> TAKE n \in 1..f
  <2>1. f \in 0 .. Len(Front(input))
    BY <1>2 DEF q
  <2>2. input[n].tick = input[1].tick + (n - 1)
    BY <1>1, <2>1, TicksOfFront
  <2>3. input[n].tick = come[1] + n
    <3>1. \A c \in Nat : (c + 1) + (n - 1) = c + n
      BY <1>2
    <3> QED
      BY <1>1, <2>2, <3>1
  <2>4. n = 1 \/ n \in 2..f
    BY <1>2
  <2>5. s[n].tick = input[n].tick
    BY <1>7, <1>8, <2>4
  <2> QED
    BY <2>3, <2>5
<1>10. s[1].rxTime # {} => s[1].rxTime = {t}
  BY <1>3, <1>4, <1>7, <1>8 DEF time
<1>11. coming[1] => s[1].rxTime # {}
  <2>1. coming[1] <=> postTime \/ Labelled
    BY ComeIs DEF ComeTypes
  <2> QED
    BY <1>3, <1>7, <1>8, <2>1 DEF time, Labelled
<1>12. s # <<>>
  BY <1>2, <1>8, ElementType
<1>13. \A n \in 2..f : s[n].rxTime = {}
  <2> TAKE n \in 2..f
  <2>1. n \in 1..f
    BY <1>2
  <2> QED
    BY <1>8, <2>1
<1> QED
  BY <1>1, <1>8, <1>9, <1>10, <1>11, <1>12, <1>13 DEF s, t

-----------------------------------------------------------------------------
(* The steps of the chain.                                                 *)

\* An input that neither anything is lost to nor comes to.
LEMMA Unmoved ==
  ASSUME ChainInv, NEW i \in Inputs, UNCHANGED <<queue[i], lost[i], nextTimeNs[i], come[i]>>,
         coming[i] => coming'[i]
  PROVE  /\ Came(i, come[i], come'[i])
         /\ Good(queue'[i], come'[i], coming'[i], nextTimeNs'[i])
<1>1. come[i] \in Nat /\ \A k \in Ticks : k \in Nat
  BY TicksAssumption DEF ChainInv, Inv, Progress, Ticks
<1>2. Good(queue[i], come[i], coming[i], nextTimeNs[i])
  BY DEF ChainInv, Inv, Known
<1>3. \A k \in lost[i] : k \notin TicksOf(queue[i])
  BY DEF ChainInv, Inv, Past, Gone
<1>4. \A k \in Ticks : ~(come[i] < k /\ k <= come[i])
  BY <1>1
<1>5. Came(i, come[i], come'[i])
  BY <1>1, <1>3, <1>4 DEF Came
<1> QED
  BY <1>2, <1>5 DEF Good

\* The dropper drops: the ticks are lost, and the next element will have the
\* time.
LEMMA DropInv ==
  ASSUME Exact, ChainInv, Dropper!Drop, UNCHANGED ofAligner
  PROVE  ChainInv' /\ Output!LoseSome
<1> DEFINE n == SmallerOf(numLeftToDrop, Dropper!AtFront)
           c == come[1]
           range == c + 1 .. c + n
<1>0. SourceOK /\ DropperInv /\ Inv(come, coming) /\ input # <<>>
  BY DEF ChainInv, Dropper!Drop
<1>1. /\ numLeftToDrop \in Nat /\ numLeftToDrop # 0 /\ postTime = TRUE
      /\ Dropper!AtFront \in Nat /\ Dropper!AtFront >= 1
      /\ Dropper!Time \in Nat
  BY <1>0, AtDropper DEF DropperInv, Dropper!Drop
<1>2. n \in 1 .. Dropper!AtFront /\ numLeftToDrop - n \in Nat /\ numLeftToDrop - n <= numLeftToDrop
  BY <1>1 DEF SmallerOf
<1>3. /\ input' = Without(input, n)
      /\ lost' = [lost EXCEPT ![1] = lost[1] \cup TicksOf(SubSeq(input, 1, n))]
      /\ dropperTimeNs' = Dropper!Time + SampsToTimeNs(n)
      /\ numLeftToDrop' = numLeftToDrop - n
      /\ UNCHANGED <<fresh, queue, probability, dropSize, postTime>>
  BY SameStreams DEF Dropper!Drop, Dropper!parameters
<1>4. UNCHANGED <<arrived, nextTimeNs, sent, dropped>>
  BY DEF ofAligner
<1> HIDE DEF n
<1>5. 1 \in Inputs /\ lost \in [Inputs -> SUBSET Ticks] /\ arrived[1] \in Nat
  BY <1>0, SourceTypes, InputsAssumption DEF Inputs, SourceOK
<1>6. TicksOf(SubSeq(input, 1, n)) = range
  <2>1. n \in 0 .. Len(Front(input)) /\ input[1].tick = c + 1 /\ c \in Nat
    BY <1>0, <1>2, AtDropper
  <2>2. input[1].tick .. input[1].tick + n - 1 = range
    BY <1>2, <2>1
  <2> QED
    BY <1>0, <2>1, <2>2, TicksOfFront DEF DropperInv
<1> HIDE DEF c
<1>7. lost'[1] = lost[1] \cup range /\ \A i \in Inputs \ {1} : lost'[i] = lost[i]
  BY <1>3, <1>5, <1>6
<1>8. /\ input' \in Seq(Element) /\ dropperTimeNs' \in Nat
      /\ Good(input', arrived[1], fresh[1], dropperTimeNs')
      /\ \A k \in TicksOf(input') : k \notin lost'[1]
      /\ input' # <<>> => \A k \in Ticks : input'[1].tick < k /\ k <= arrived[1] =>
                                           k \in TicksOf(input') \cup lost'[1]
      /\ range \subseteq TicksOf(input)
      /\ NextCome' \in Nat /\ c + n <= NextCome' /\ NextCome' <= arrived[1]
      /\ \A k \in Ticks : c + n < k /\ k <= NextCome' => k \in lost[1]
  <2>1. lost[1] \subseteq lost'[1] /\ lost'[1] \subseteq lost[1] \cup (come[1] + 1 .. come[1] + n)
    BY <1>7 DEF c
  <2> HIDE DEF range
  <2> QED
    BY <1>0, <1>2, <1>3, <1>4, <2>1, DropperConsumes DEF c, range
<1>9. \A k \in range : k \in Ticks /\ k <= arrived[1] /\ k > c
  <2>1. \A k \in TicksOf(input) : k \in Ticks /\ k <= arrived[1]
    <3>1. 0 \in 0 .. Len(Front(input))
      BY <1>0, AtDropper
    <3> QED
      BY <1>0, <1>5, <3>1, Within DEF DropperInv
  <2>2. \A k \in range : k > c
    BY <1>0, <1>2, AtDropper DEF c
  <2> QED
    BY <1>8, <2>1, <2>2
<1>10. SourceOK'
  <2>1. lost' \in [Inputs -> SUBSET Ticks]
    BY <1>3, <1>5, <1>6, <1>9
  <2>2. \A i \in Inputs : \A k \in lost'[i] : k <= arrived[i]
    BY <1>0, <1>7, <1>9 DEF SourceOK
  <2> QED
    BY <1>0, <1>3, <1>4, <2>1, <2>2 DEF SourceOK
<1>11. DropperInv'
  <2>1. \E size \in DropSizes : numLeftToDrop' <= size
    <3> PICK size \in DropSizes : numLeftToDrop <= size
      BY <1>0 DEF DropperInv
    <3>1. size \in Nat
      BY DropSizesAssumption
    <3> QED
      BY <1>1, <1>2, <1>3, <3>1
  <2> QED
    BY <1>0, <1>1, <1>2, <1>3, <1>4, <1>8, <2>1 DEF DropperInv
<1>12. Types'
  BY <1>0, <1>3, <1>4, <1>10 DEF Inv, Types, SourceOK
<1>13. ComeTypes /\ ComeTypes' /\ come'[1] = NextCome'
  <2>1. ComeTypes'
    BY <1>10, <1>11, ComeWillBe
  <2> QED
    BY <1>0, <2>1, ComeIs DEF ComeTypes, NextCome
<1>14. ASSUME NEW i \in Inputs \ {1}
       PROVE  /\ Came(i, come[i], come'[i])
              /\ Good(queue'[i], come'[i], coming'[i], nextTimeNs'[i])
  <2>1. come'[i] = come[i] /\ (coming[i] => coming'[i])
    BY <1>3, <1>4, <1>13 DEF ComeTypes
  <2> QED
    BY <1>3, <1>4, <1>7, <2>1, Unmoved
<1>15. /\ Came(1, come[1], come'[1])
       /\ Good(queue'[1], come'[1], coming'[1], nextTimeNs'[1])
  <2> PICK b : b = NextCome'
    OBVIOUS
  <2>1. /\ queue[1] \in Seq(Element) /\ Good(queue[1], c, coming[1], nextTimeNs[1]) /\ c \in Nat
        /\ \A k \in lost[1] : k \notin TicksOf(queue[1])
    BY <1>0, <1>5 DEF Inv, Types, Known, Progress, Past, Gone, c
  <2>2. \A k \in Ticks : c < k /\ k <= b => k \in lost'[1]
    <3> SUFFICES ASSUME NEW k \in Ticks, c < k, k <= b PROVE k \in lost'[1]
      OBVIOUS
    <3>1. k \in range \/ c + n < k
      BY <1>2, <2>1, TicksAssumption DEF Ticks
    <3> QED
      BY <1>7, <1>8, <3>1
  <2>3. b \in Nat /\ c <= b
    <3>1. c + n <= b /\ b \in Nat /\ n \in Nat
      BY <1>1, <1>2, <1>8
    <3> QED
      BY <2>1, <3>1
  <2>4. \A k \in lost'[1] \ lost[1] : k > c
    BY <1>7, <1>9
  <2>5. Came(1, c, b) /\ Good(queue[1], b, TRUE, nextTimeNs[1])
    BY <1>3, <1>5, <1>7, <2>1, <2>2, <2>3, <2>4, LostOnTheWay
  <2> QED
    BY <1>1, <1>3, <1>4, <1>13, <2>5 DEF ComeTypes, Good, c
<1>16. \A i \in Inputs : /\ Came(i, come[i], come'[i])
                        /\ Good(queue'[i], come'[i], coming'[i], nextTimeNs'[i])
  BY <1>14, <1>15
<1> QED
  BY <1>4, <1>10, <1>11, <1>12, <1>16, ChainCame

\* Setters, and the decision to drop, move no element.
LEMMA NothingComes ==
  ASSUME Exact, ChainInv, DropperInv', postTime => postTime',
         UNCHANGED <<arrived, fresh, lost, queue, nextTimeNs, sent, dropped, input>>
  PROVE  ChainInv'
<1>1. SourceOK /\ DropperInv /\ Inv(come, coming)
  BY DEF ChainInv
<1>2. SourceOK' /\ Types'
  BY <1>1 DEF SourceOK, Inv, Types
<1>3. ComeTypes /\ ComeTypes'
  BY <1>1, <1>2, ComeIs, ComeWillBe
<1>4. come' = come
  BY DEF come
<1>5. \A i \in Inputs : coming[i] => coming'[i]
  <2> TAKE i \in Inputs
  <2>1. CASE i = 1
    BY <1>3, <2>1 DEF ComeTypes, Labelled
  <2>2. CASE i # 1
    BY <1>3, <2>2 DEF ComeTypes
  <2> QED
    BY <2>1, <2>2
<1>6. \A i \in Inputs : /\ Came(i, come[i], come'[i])
                       /\ Good(queue'[i], come'[i], coming'[i], nextTimeNs'[i])
  BY <1>4, <1>5, Unmoved
<1> QED
  BY <1>2, <1>6, ChainCame

LEMMA CauseDropInv ==
  ASSUME Exact, ChainInv, Dropper!CauseDrop, UNCHANGED ofAligner
  PROVE  ChainInv' /\ UNCHANGED <<lost, sent>>
<1>1. /\ postTime' = TRUE /\ numLeftToDrop' = dropSize /\ dropperTimeNs' = Dropper!Time
      /\ UNCHANGED <<fresh, lost, input, queue, probability, dropSize>>
      /\ UNCHANGED <<arrived, nextTimeNs, sent, dropped>> /\ input # <<>>
  BY DEF Dropper!CauseDrop, Dropper!parameters, ofAligner
<1>2. /\ Dropper!Time = PeriodNum * input[1].tick /\ Dropper!Time \in Nat
      /\ SourceOK /\ DropperInv
  BY <1>1, AtDropper DEF ChainInv
<1>3. DropperInv'
  <2>1. Good(input, arrived[1], fresh[1], dropperTimeNs')
    BY <1>1, <1>2 DEF DropperInv, Good
  <2>2. numLeftToDrop' \in Nat /\ \E size \in DropSizes : numLeftToDrop' <= size
    BY <1>1, <1>2, DropSizesAssumption DEF DropperInv
  <2> QED
    BY <1>1, <1>2, <2>1, <2>2 DEF DropperInv
<1> QED
  BY <1>1, <1>3, NothingComes

LEMMA SettersInv ==
  ASSUME Exact, ChainInv, Dropper!Setters, UNCHANGED ofAligner
  PROVE  ChainInv' /\ UNCHANGED <<lost, sent>>
<1>1. /\ UNCHANGED <<fresh, lost, input, queue, numLeftToDrop, postTime, dropperTimeNs>>
      /\ dropSize' = dropSize \/ dropSize' \in DropSizes
      /\ probability' = probability \/ probability' \in 0..Steps
  BY DEF Dropper!Setters, Dropper!SetDropSize, Dropper!SetProbability,
         Dropper!RefuseProbability, Dropper!parameters, Dropper!drop
<1>2. UNCHANGED <<arrived, nextTimeNs, sent, dropped>>
  BY DEF ofAligner
<1>3. DropperInv'
  BY <1>1, <1>2 DEF ChainInv, DropperInv
<1> QED
  BY <1>1, <1>2, <1>3, NothingComes

\* The dropper forwards what is at its front.
LEMMA DropperForwardInv ==
  ASSUME Exact, ChainInv, Dropper!Forward, UNCHANGED ofAligner
  PROVE  ChainInv' /\ Output!LoseSome
<1> DEFINE n == Dropper!AtFront
           c == come[1]
           range == c + 1 .. c + n
           s == Dropper!Forwarded
<1>0. SourceOK /\ DropperInv /\ Inv(come, coming) /\ input # <<>>
  BY DEF ChainInv, Dropper!Forward
<1>1. /\ n = Len(Front(input)) /\ n \in 1..Len(input) /\ n \in Nat /\ n >= 1
      /\ Len(input) \in Nat /\ arrived[1] \in Nat /\ fresh[1] \in BOOLEAN
      /\ c \in Nat /\ input[1].tick = c + 1
  BY <1>0, AtDropper
<1>2. /\ queue' = [queue EXCEPT ![1] = queue[1] \o s]
      /\ input' = Without(input, n) /\ postTime' = FALSE
      /\ dropperTimeNs' = Dropper!Time + SampsToTimeNs(n) /\ numLeftToDrop = 0
      /\ UNCHANGED <<fresh, lost, probability, dropSize, numLeftToDrop>>
  BY SameStreams DEF Dropper!Forward, Dropper!parameters
<1>3. UNCHANGED <<arrived, nextTimeNs, sent, dropped>>
  BY DEF ofAligner
<1>4. /\ s \in Seq(Element) /\ s # <<>> /\ Len(s) = n
      /\ \A m \in 1..Len(s) : s[m].tick = c + m
      /\ \A m \in 2..Len(s) : s[m].rxTime = {}
      /\ s[1].rxTime # {} => s[1].rxTime = {PeriodNum * (c + 1)}
      /\ coming[1] => s[1].rxTime # {}
  BY <1>0, ForwardedIs
<1>5. /\ input' \in Seq(Element) /\ dropperTimeNs' \in Nat
      /\ Good(input', arrived[1], fresh[1], dropperTimeNs')
      /\ \A k \in TicksOf(input') : k \notin lost'[1]
      /\ input' # <<>> => \A k \in Ticks : input'[1].tick < k /\ k <= arrived[1] =>
                                           k \in TicksOf(input') \cup lost'[1]
      /\ range \subseteq TicksOf(input)
      /\ NextCome' \in Nat /\ c + n <= NextCome' /\ NextCome' <= arrived[1]
      /\ \A k \in Ticks : c + n < k /\ k <= NextCome' => k \in lost[1]
  <2>1. n \in 1 .. Dropper!AtFront
    BY <1>1
  <2>2. lost[1] \subseteq lost'[1] /\ lost'[1] \subseteq lost[1] \cup (come[1] + 1 .. come[1] + n)
    BY <1>2
  <2> HIDE DEF range, n
  <2> QED
    BY <1>0, <1>2, <1>3, <2>1, <2>2, DropperConsumes DEF c, range
<1> HIDE DEF n, c, s
<1>6. SourceOK'
  BY <1>0, <1>2, <1>3 DEF SourceOK
<1>7. DropperInv'
  BY <1>0, <1>2, <1>3, <1>5 DEF DropperInv
<1>8. ComeTypes /\ ComeTypes' /\ come'[1] = NextCome'
  <2>1. ComeTypes'
    BY <1>6, <1>7, ComeWillBe
  <2> QED
    BY <1>0, <2>1, ComeIs DEF ComeTypes, NextCome
<1>9. /\ 1 \in Inputs /\ queue[1] \in Seq(Element) /\ queue \in [Inputs -> Seq(Element)]
      /\ coming[1] \in BOOLEAN /\ Good(queue[1], c, coming[1], nextTimeNs[1])
      /\ \A k \in lost[1] : k \notin TicksOf(queue[1])
  BY <1>0, InputsAssumption DEF Inv, Types, Known, Past, Gone, Progress, Inputs, c
<1>10. queue'[1] = queue[1] \o s /\ \A i \in Inputs \ {1} : queue'[i] = queue[i]
  BY <1>2, <1>9
<1> PICK b : b = NextCome'
  OBVIOUS
<1>11. ASSUME ~Labelled' PROVE b = c + n
  <2>1. PICK f \in 1..Len(input) :
          n = f /\ (f = Len(input) \/ input[f + 1].rxTime # {})
    BY <1>0, <1>1, FrontOf DEF DropperInv
  <2>2. /\ Len(input') = Len(input) - n
        /\ \A m \in 1 .. Len(input) - n : input'[m] = input[m + n]
    <3>1. n \in 0 .. Len(input)
      BY <1>1
    <3> QED
      BY <1>0, <1>2, <3>1, Remaining DEF DropperInv
  <2>3. input' = <<>>
    <3> SUFFICES ASSUME input' # <<>> PROVE FALSE
      OBVIOUS
    <3>1. Len(input') >= 1
      BY <1>5, ElementType
    <3>2. 1 \in 1 .. Len(input) - n /\ n # Len(input)
      BY <1>1, <2>2, <3>1
    <3>3. input'[1] = input[1 + n] /\ 1 + n = n + 1
      BY <1>1, <2>2, <3>2
    <3>4. input'[1].rxTime # {}
      BY <2>1, <3>2, <3>3
    <3> QED
      BY <1>11, <3>4 DEF Labelled
  <2>4. b = arrived[1] /\ ~fresh[1]
    BY <1>2, <1>3, <1>11, <2>3 DEF NextCome, Labelled
  <2>5. n = Len(input)
    <3>1. ~(Len(input') >= 1)
      BY <1>5, <2>3, ElementType
    <3> QED
      BY <1>1, <2>2, <3>1
  <2>6. input[n].tick = arrived[1]
    BY <1>0, <2>4, <2>5 DEF DropperInv, Good
  <2>7. input[n].tick = input[1].tick + (n - 1)
    <3>1. n \in 0 .. Len(Front(input)) /\ n \in 1..n
      BY <1>1
    <3> QED
      BY <1>0, <3>1, TicksOfFront DEF DropperInv
  <2> QED
    BY <1>1, <2>4, <2>6, <2>7
<1>12. b \in Nat /\ coming'[1] \in BOOLEAN /\ (~coming'[1] => b = c + n)
  <2>1. coming'[1] \in BOOLEAN /\ (coming'[1] <=> postTime' \/ Labelled')
    BY <1>8, <1>9 DEF ComeTypes, Progress
  <2> QED
    BY <1>5, <1>11, <2>1
<1>13. /\ queue[1] \o s \in Seq(Element)
       /\ Good(queue[1] \o s, b, coming'[1], nextTimeNs[1])
       /\ TicksOf(queue[1] \o s) = TicksOf(queue[1]) \cup range
  <2> PICK gr : gr = coming'[1]
    OBVIOUS
  <2>1. c + Len(s) <= b /\ gr \in BOOLEAN /\ (~gr => b = c + Len(s))
    BY <1>4, <1>5, <1>12
  <2>2. /\ queue[1] \o s \in Seq(Element)
        /\ Good(queue[1] \o s, b, gr, nextTimeNs[1])
        /\ TicksOf(queue[1] \o s) = TicksOf(queue[1]) \cup (c + 1 .. c + Len(s))
    <3> PICK q, fr, next : q = queue[1] /\ fr = coming[1] /\ next = nextTimeNs[1]
      OBVIOUS
    <3>1. /\ q \in Seq(Element) /\ fr \in BOOLEAN /\ Good(q, c, fr, next)
          /\ fr => s[1].rxTime # {}
      BY <1>4, <1>9
    <3>2. /\ q \o s \in Seq(Element)
          /\ Good(q \o s, b, gr, next)
          /\ TicksOf(q \o s) = TicksOf(q) \cup (c + 1 .. c + Len(s))
      <4>1. Following(s, c, fr, b, gr)
        BY <1>4, <2>1, <3>1 DEF Following
      <4> QED
        BY <1>1, <1>4, <1>12, <2>1, <3>1, <4>1, Concatenated
    <3> QED
      BY <3>2
  <2> QED
    BY <1>4, <2>2
<1>14. Types'
  BY <1>0, <1>2, <1>3, <1>9, <1>13 DEF Inv, Types
<1>15. Came(1, c, b)
  <2>1. c <= b
    BY <1>1, <1>5, <1>12
  <2>2. ASSUME NEW k \in Ticks
        PROVE  /\ k \in range => c < k /\ k <= b /\ k \notin lost[1]
               /\ c < k /\ k <= b => k \in range \/ k \in lost[1]
    <3>1. k \in Nat
      BY TicksAssumption DEF Ticks
    <3>2. k \in range => k \notin lost[1]
      BY <1>0, <1>5 DEF DropperInv
    <3>3. k \in range => c < k /\ k <= b
      BY <1>1, <1>5, <1>12, <3>1
    <3>4. c < k /\ k <= b => k \in range \/ c + n < k
      BY <1>1, <1>12, <3>1
    <3> QED
      BY <1>5, <3>2, <3>3, <3>4
  <2> HIDE DEF range
  <2> QED
    BY <1>2, <1>9, <1>10, <1>13, <2>1, <2>2 DEF Came
<1>16. /\ Came(1, come[1], come'[1])
       /\ Good(queue'[1], come'[1], coming'[1], nextTimeNs'[1])
  BY <1>3, <1>8, <1>10, <1>13, <1>15 DEF c
<1>17. ASSUME NEW i \in Inputs \ {1}
       PROVE  /\ Came(i, come[i], come'[i])
              /\ Good(queue'[i], come'[i], coming'[i], nextTimeNs'[i])
  <2>1. come'[i] = come[i] /\ (coming[i] => coming'[i])
    BY <1>2, <1>3, <1>8 DEF ComeTypes
  <2> QED
    BY <1>2, <1>3, <1>10, <2>1, Unmoved
<1>18. \A i \in Inputs : /\ Came(i, come[i], come'[i])
                        /\ Good(queue'[i], come'[i], coming'[i], nextTimeNs'[i])
  BY <1>16, <1>17
<1> QED
  BY <1>3, <1>6, <1>7, <1>14, <1>18, ChainCame

\* An element comes to the dropper: what has come through it is as before.
LEMMA ArriveAtDropperInv ==
  ASSUME Exact, ChainInv, ArriveAtDropper
  PROVE  ChainInv' /\ UNCHANGED <<lost, sent>>
<1> DEFINE k0 == arrived[1] + 1
           e == Received(k0, fresh[1])
<1>0. SourceOK /\ DropperInv /\ Inv(come, coming) /\ 1 \in Inputs
  BY InputsAssumption DEF ChainInv, Inputs
<1>1. /\ arrived[1] \in Nat /\ k0 \in Ticks /\ fresh[1] \in BOOLEAN /\ k0 \notin lost[1]
      /\ \A k \in Ticks : k \in Nat
      /\ input \in Seq(Element) /\ Good(input, arrived[1], fresh[1], dropperTimeNs)
  BY <1>0, SourceTypes DEF ArriveAtDropper, DropperInv
<1>2. /\ Append(input, e) \in Seq(Element)
      /\ Good(Append(input, e), k0, FALSE, dropperTimeNs)
      /\ TicksOf(Append(input, e)) = TicksOf(input) \cup {k0}
  BY <1>1, Appended
<1>3. /\ arrived' = [arrived EXCEPT ![1] = k0] /\ fresh' = [fresh EXCEPT ![1] = FALSE]
      /\ input' = Append(input, e)
      /\ UNCHANGED <<lost, queue, nextTimeNs, sent, dropped, probability, dropSize,
                     numLeftToDrop, postTime, dropperTimeNs>>
  BY DEF ArriveAtDropper
<1>4. k0 \in 0..MaxTick /\ k0 \in Nat /\ k0 = arrived[1] + 1
  BY <1>1, TicksAssumption DEF Ticks
<1>5. e.tick = k0 /\ (e.rxTime # {} <=> fresh[1])
  <2>1. CASE fresh[1]
    BY <2>1 DEF Received
  <2>2. CASE ~fresh[1]
    BY <2>2 DEF Received
  <2> QED
    BY <2>1, <2>2
<1>6. /\ input' # <<>>
      /\ input'[1] = IF input = <<>> THEN e ELSE input[1]
  <2>1. /\ Len(input) \in Nat /\ Len(Append(input, e)) = Len(input) + 1
        /\ \A n \in 1..Len(input) : Append(input, e)[n] = input[n]
        /\ Append(input, e)[Len(input) + 1] = e
        /\ Len(Append(input, e)) >= 1 => Append(input, e) # <<>>
        /\ input # <<>> <=> Len(input) >= 1
    BY <1>1, <1>2, ElementType, AppendProperties
  <2> HIDE DEF e
  <2> QED
    BY <1>3, <2>1
<1> HIDE DEF k0, e
<1>7. /\ arrived'[1] = k0 /\ fresh'[1] = FALSE
      /\ \A i \in Inputs \ {1} : arrived'[i] = arrived[i] /\ fresh'[i] = fresh[i]
  BY <1>0, <1>3 DEF SourceOK
<1>8. SourceOK'
  <2>1. arrived' \in [Inputs -> 0..MaxTick] /\ fresh' \in [Inputs -> BOOLEAN]
    BY <1>0, <1>3, <1>4 DEF SourceOK
  <2>2. ASSUME NEW i \in Inputs, NEW k \in lost[i] PROVE k <= arrived'[i]
    <3>1. k \in Nat /\ arrived[i] \in Nat /\ k <= arrived[i]
      BY <1>0, SourceTypes DEF SourceOK
    <3> QED
      BY <1>4, <1>7, <3>1
  <2> QED
    BY <1>0, <1>3, <2>1, <2>2 DEF SourceOK
<1>9. DropperInv'
  <2>1. \A k \in TicksOf(input') : k \notin lost[1]
    BY <1>0, <1>1, <1>2, <1>3 DEF DropperInv
  <2>2. ASSUME NEW k \in Ticks, input'[1].tick < k, k <= k0
        PROVE  k \in TicksOf(input') \cup lost[1]
    <3>1. k = k0 \/ k <= arrived[1]
      BY <1>1, <1>4, <2>2
    <3>2. CASE k = k0
      BY <1>2, <1>3, <3>2
    <3>3. CASE k <= arrived[1] /\ input = <<>>
      BY <1>1, <1>4, <1>5, <1>6, <2>2, <3>3
    <3>4. CASE k <= arrived[1] /\ input # <<>>
      BY <1>0, <1>2, <1>3, <1>6, <2>2, <3>4 DEF DropperInv
    <3> QED
      BY <3>1, <3>2, <3>3, <3>4
  <2> QED
    BY <1>0, <1>2, <1>3, <1>7, <2>1, <2>2 DEF DropperInv
<1>10. Types'
  BY <1>0, <1>3 DEF Inv, Types
<1>11. ComeTypes /\ ComeTypes'
  BY <1>0, <1>8, <1>9, ComeIs, ComeWillBe
<1>12. \A i \in Inputs : come'[i] = come[i] /\ (coming[i] => coming'[i])
  <2> TAKE i \in Inputs
  <2>1. CASE i # 1
    BY <1>7, <1>11, <2>1 DEF ComeTypes
  <2>2. CASE i = 1
    <3>1. come'[1] = input'[1].tick - 1
      BY <1>6, <1>11 DEF ComeTypes
    <3>2. come[1] = IF input = <<>> THEN arrived[1] ELSE input[1].tick - 1
      BY <1>11 DEF ComeTypes
    <3>3. come'[1] = come[1]
      BY <1>1, <1>4, <1>5, <1>6, <3>1, <3>2
    <3>4. Labelled' <=> Labelled
      BY <1>5, <1>6 DEF Labelled
    <3> QED
      BY <1>3, <1>11, <2>2, <3>3, <3>4 DEF ComeTypes
  <2> QED
    BY <2>1, <2>2
<1>13. \A i \in Inputs : /\ Came(i, come[i], come'[i])
                        /\ Good(queue'[i], come'[i], coming'[i], nextTimeNs'[i])
  BY <1>3, <1>12, Unmoved
<1> QED
  BY <1>3, <1>8, <1>9, <1>10, <1>13, ChainCame

\* An element comes to another input of the aligner.
LEMMA ChainArriveInv ==
  ASSUME Exact, ChainInv, NEW p \in Inputs \ {1}, Arrive(p), UNCHANGED dropperVars
  PROVE  ChainInv' /\ UNCHANGED <<lost, sent>>
<1>0. SourceOK /\ DropperInv /\ Inv(come, coming) /\ ComeTypes /\ 1 \in Inputs
  BY ComeIs, InputsAssumption DEF ChainInv, Inputs
<1>1. come[p] = arrived[p] /\ coming[p] = fresh[p]
  BY <1>0 DEF ComeTypes
<1>2. /\ Types /\ Good(queue[p], arrived[p], fresh[p], nextTimeNs[p])
      /\ \A k \in lost[p] : k \notin TicksOf(queue[p])
  BY <1>0, <1>1 DEF Inv, Known, Past, Gone
<1>3. /\ Types' /\ SourceOK'
      /\ Good(queue'[p], arrived'[p], fresh'[p], nextTimeNs'[p])
      /\ Came(p, arrived[p], arrived'[p])
      /\ \A i \in Inputs \ {p} : UNCHANGED <<queue[i], arrived[i], fresh[i]>>
      /\ UNCHANGED <<lost, nextTimeNs, sent, dropped>>
  BY <1>0, <1>2, ArriveCame
<1>4. UNCHANGED <<input, probability, dropSize, numLeftToDrop, postTime, dropperTimeNs>>
  BY DEF dropperVars
<1>5. DropperInv'
  BY <1>0, <1>3, <1>4 DEF DropperInv
<1>6. ComeTypes'
  BY <1>3, <1>5, ComeWillBe
<1>7. ASSUME NEW i \in Inputs
      PROVE  /\ Came(i, come[i], come'[i])
             /\ Good(queue'[i], come'[i], coming'[i], nextTimeNs'[i])
  <2>1. CASE i = p
    BY <1>1, <1>3, <1>6, <2>1 DEF ComeTypes
  <2>2. CASE i # p
    <3>1. come'[i] = come[i] /\ (coming[i] => coming'[i])
      BY <1>0, <1>3, <1>4, <1>6, <2>2 DEF ComeTypes, Labelled
    <3> QED
      BY <1>3, <2>2, <3>1, Unmoved
  <2> QED
    BY <2>1, <2>2
<1> QED
  BY <1>3, <1>5, <1>7, ChainCame

\* A stream loses an element.
LEMMA ChainLoseInv ==
  ASSUME Exact, ChainInv, NEW p \in Inputs, Lose(p), UNCHANGED dropperVars
  PROVE  ChainInv' /\ Output!LoseSome
<1> PICK k0 : k0 = arrived'[p]
  OBVIOUS
<1>0. SourceOK /\ DropperInv /\ Inv(come, coming) /\ ComeTypes /\ 1 \in Inputs /\ Types
  BY ComeIs, InputsAssumption DEF ChainInv, Inputs, Inv
<1>1. /\ Types' /\ SourceOK'
      /\ k0 = arrived[p] + 1 /\ k0 \in Ticks /\ fresh'[p] = TRUE
      /\ lost'[p] = lost[p] \cup {k0}
      /\ \A i \in Inputs \ {p} : UNCHANGED <<arrived[i], fresh[i], lost[i]>>
      /\ UNCHANGED <<queue, nextTimeNs, sent, dropped>>
  BY <1>0, LoseCame
<1>2. UNCHANGED <<input, probability, dropSize, numLeftToDrop, postTime, dropperTimeNs>>
  BY DEF dropperVars
<1>3. /\ arrived[p] \in Nat /\ k0 \in Nat /\ arrived[p] < k0
      /\ \A k \in Ticks : k \in Nat
  BY <1>0, <1>1, SourceTypes
<1>4. DropperInv'
  <2>1. CASE p # 1
    BY <1>0, <1>1, <1>2, <2>1 DEF DropperInv
  <2>2. CASE p = 1
    <3>1. \A n \in 1..Len(input) : input[n].tick \in Nat /\ input[n].tick <= arrived[1]
      BY <1>0, ElementType DEF DropperInv, Good
    <3>2. Good(input, k0, TRUE, dropperTimeNs)
      <4>1. \A n \in 1..Len(input) : input[n].tick <= k0
        BY <1>3, <2>2, <3>1
      <4> QED
        BY <1>0, <4>1 DEF DropperInv, Good
    <3>3. k0 \notin TicksOf(input)
      <4> SUFFICES ASSUME NEW n \in 1..Len(input), input[n].tick = k0 PROVE FALSE
        BY <1>0, ElementType DEF TicksOf, DropperInv
      <4> QED
        BY <1>3, <2>2, <3>1
    <3>4. \A k \in Ticks : k <= k0 => k <= arrived[1] \/ k = k0
      BY <1>1, <1>3, <2>2
    <3>5. arrived'[1] = k0 /\ fresh'[1] = TRUE /\ lost'[1] = lost[1] \cup {k0}
      BY <1>1, <2>2
    <3> QED
      BY <1>0, <1>2, <3>2, <3>3, <3>4, <3>5 DEF DropperInv
  <2> QED
    BY <2>1, <2>2
<1>5. ComeTypes'
  BY <1>1, <1>4, ComeWillBe
<1>6. ASSUME NEW i \in Inputs
      PROVE  /\ i # p => come'[i] = come[i] /\ (coming[i] => coming'[i])
             /\ come[p] <= arrived[p] /\ come[p] \in Nat
             /\ \/ come'[p] = come[p] /\ (coming[p] => coming'[p]) /\ p = 1 /\ input # <<>>
                \/ come[p] = arrived[p] /\ come'[p] = k0 /\ coming'[p] = TRUE
  <2>1. i # p => come'[i] = come[i] /\ (coming[i] => coming'[i])
    BY <1>0, <1>1, <1>2, <1>5 DEF ComeTypes, Labelled
  <2>2. CASE p # 1
    <3>1. come[p] = arrived[p] /\ come'[p] = k0 /\ coming'[p] = TRUE
      BY <1>0, <1>1, <1>5, <2>2 DEF ComeTypes
    <3>2. come[p] <= arrived[p]
      BY <1>3, <3>1
    <3> QED
      BY <1>3, <2>1, <3>1, <3>2
  <2>3. CASE p = 1 /\ input = <<>>
    <3>1. come[1] = arrived[1] /\ come'[1] = k0
      BY <1>0, <1>2, <1>5, <2>3 DEF ComeTypes
    <3>2. Labelled' /\ (coming'[1] <=> postTime' \/ Labelled') /\ coming'[1] \in BOOLEAN
      BY <1>0, <1>1, <1>2, <1>5, <2>3 DEF ComeTypes, Labelled, Progress
    <3> QED
      BY <1>3, <2>1, <2>3, <3>1, <3>2
  <2>4. CASE p = 1 /\ input # <<>>
    <3>1. come'[1] = come[1] /\ come[1] < arrived[1] /\ come[1] \in Nat
      BY <1>0, <1>2, <1>5, <2>4 DEF ComeTypes, Progress
    <3>2. coming[1] => coming'[1]
      BY <1>0, <1>2, <1>5, <2>4 DEF ComeTypes, Labelled
    <3> QED
      BY <1>3, <2>1, <2>4, <3>1, <3>2
  <2> QED
    BY <2>2, <2>3, <2>4
<1>7. ASSUME NEW i \in Inputs
      PROVE  /\ Came(i, come[i], come'[i])
             /\ Good(queue'[i], come'[i], coming'[i], nextTimeNs'[i])
  <2>1. CASE i # p
    BY <1>1, <1>6, <2>1, Unmoved
  <2>2. CASE i = p
    <3>0. /\ come[p] <= arrived[p] /\ come[p] \in Nat
          /\ \/ come'[p] = come[p] /\ (coming[p] => coming'[p])
             \/ come[p] = arrived[p] /\ come'[p] = k0 /\ coming'[p] = TRUE
      BY <1>6
    <3> PICK b : b = come'[p]
      OBVIOUS
    <3>1. /\ queue[p] \in Seq(Element) /\ come[p] \in Nat
          /\ Good(queue[p], come[p], coming[p], nextTimeNs[p])
          /\ \A k \in lost[p] : k \notin TicksOf(queue[p])
      BY <1>0, <1>6 DEF Inv, Types, Known, Past, Gone
    <3>2. \A k \in lost'[p] \ lost[p] : k > come[p]
      <4>1. come[p] < k0
        BY <1>3, <3>0
      <4> QED
        BY <1>1, <4>1
    <3>3. /\ b \in Nat /\ come[p] <= b
          /\ \A k \in Ticks : come[p] < k /\ k <= b => k \in lost'[p]
      <4>1. CASE b = come[p]
        BY <1>3, <3>0, <4>1
      <4>2. CASE b = k0 /\ come[p] = arrived[p]
        <5>1. \A k \in Ticks : arrived[p] < k /\ k <= k0 => k = k0
          <6> TAKE k \in Ticks
          <6>1. k \in Nat /\ arrived[p] \in Nat /\ k0 = arrived[p] + 1
            BY <1>1, <1>3
          <6> QED
            BY <6>1
        <5> QED
          BY <1>1, <1>3, <4>2, <5>1
      <4> QED
        BY <3>0, <4>1, <4>2
    <3>4. Came(p, come[p], b) /\ Good(queue[p], b, TRUE, nextTimeNs[p])
      BY <1>1, <3>1, <3>2, <3>3, LostOnTheWay
    <3>5. Good(queue[p], b, coming'[p], nextTimeNs[p])
      <4>1. CASE b = come[p] /\ (coming[p] => coming'[p])
        BY <3>1, <4>1 DEF Good
      <4>2. CASE coming'[p] = TRUE
        BY <3>4, <4>2
      <4> QED
        BY <3>0, <4>1, <4>2
    <3> QED
      BY <1>1, <2>2, <3>4, <3>5
  <2> QED
    BY <2>1, <2>2
<1> QED
  BY <1>1, <1>4, <1>7, ChainCame

LEMMA ChainRestartInv ==
  ASSUME Exact, ChainInv, ChainRestart
  PROVE  ChainInv' /\ Output!LoseSome
<1> DEFINE onTheWay == [i \in Inputs |-> IF i = 1 THEN TicksOf(input) ELSE {}]
<1> PICK a, fr : a = come /\ fr = coming
  OBVIOUS
<1>0. SourceOK /\ DropperInv /\ Inv(a, fr) /\ ComeTypes /\ 1 \in Inputs
  BY ComeIs, InputsAssumption DEF ChainInv, Inputs
<1>1. /\ Restart(onTheWay) /\ input' = <<>>
      /\ UNCHANGED <<probability, dropSize, numLeftToDrop, postTime, dropperTimeNs>>
  BY DEF ChainRestart
<1>2. /\ \A i \in Inputs : a[i] \in Nat /\ arrived[i] \in Nat /\ a[i] <= arrived[i]
      /\ \A i \in Inputs \ {1} : a[i] = arrived[i]
      /\ \A k \in Ticks : k \in Nat
  BY <1>0, SourceTypes DEF ComeTypes, Progress
<1>3. ASSUME NEW k \in TicksOf(input) PROVE k \in Ticks /\ a[1] < k /\ k <= arrived[1]
  <2>1. input # <<>>
    BY EmptySeq, LenProperties DEF TicksOf
  <2>2. 0 \in 0 .. Len(Front(input))
    BY <1>0, <2>1, AtDropper
  <2>3. k \in Ticks /\ input[1].tick <= k /\ k <= arrived[1]
    BY <1>0, <1>2, <2>1, <2>2, Within DEF DropperInv
  <2> QED
    BY <1>0, <1>2, <2>1, <2>3 DEF ComeTypes
<1>4. ASSUME NEW i \in Inputs, NEW k \in Ticks, a[i] < k, k <= arrived[i]
      PROVE  k \in onTheWay[i] \cup lost[i]
  <2>1. i = 1 /\ input # <<>>
    BY <1>0, <1>2, <1>4 DEF ComeTypes
  <2>2. input[1].tick = k \/ input[1].tick < k
    BY <1>0, <1>2, <1>4, <2>1 DEF ComeTypes
  <2>3. input[1].tick \in TicksOf(input)
    BY <1>0, <2>1, ElementType DEF TicksOf, DropperInv
  <2> QED
    BY <1>0, <1>4, <2>1, <2>2, <2>3 DEF DropperInv
<1>5. Inv(arrived, fresh)' /\ SourceOK' /\ Output!LoseSome
  <2>1. \A i \in Inputs : \A k \in onTheWay[i] : k \in Ticks /\ a[i] < k /\ k <= arrived[i]
    BY <1>3
  <2> HIDE DEF onTheWay
  <2> QED
    BY <1>0, <1>1, <1>2, <1>4, <2>1, RestartInv
<1>6. /\ \A i \in Inputs : fresh'[i] = TRUE
      /\ arrived' = arrived
  BY <1>1 DEF Restart
<1>7. DropperInv'
  <2>1. Len(<<>>) = 0 /\ TicksOf(<<>>) = {} /\ <<>> \in Seq(Element)
    BY EmptySeq, LenProperties DEF TicksOf
  <2>2. Good(input', arrived'[1], fresh'[1], dropperTimeNs')
    BY <1>0, <1>1, <1>6, <2>1 DEF Good
  <2> QED
    BY <1>0, <1>1, <2>1, <2>2 DEF DropperInv
<1>8. come' = arrived' /\ coming' = fresh'
  <2>1. ComeTypes'
    BY <1>5, <1>7, ComeWillBe
  <2>2. \A i \in Inputs : come'[i] = arrived'[i] /\ coming'[i] = fresh'[i]
    <3> TAKE i \in Inputs
    <3>1. CASE i = 1
      BY <1>0, <1>1, <1>6, <2>1, <3>1 DEF ComeTypes, Labelled, Progress
    <3>2. CASE i # 1
      BY <2>1, <3>2 DEF ComeTypes
    <3> QED
      BY <3>1, <3>2
  <2> QED
    BY <1>5, <2>1, <2>2 DEF ComeTypes, Progress, SourceOK
<1>9. Inv(come, coming)'
  BY <1>5, <1>8 DEF Inv, Progress, Known, Past, Accounted, Ahead, SentBefore, NoneMissing
<1> QED
  BY <1>5, <1>7, <1>9 DEF ChainInv

LEMMA ChainStep ==
  ASSUME Exact, ChainInv, [ChainNext]_chainVars
  PROVE  ChainInv' /\ (Output!Next \/ UNCHANGED <<lost, sent>>)
<1>1. CASE ChainUpstream
  BY <1>1, ArriveAtDropperInv, ChainArriveInv, ChainLoseInv DEF ChainUpstream, Output!Next
<1>2. CASE ChainRestart
  BY <1>2, ChainRestartInv DEF Output!Next
<1>3. CASE Dropper!Setters /\ UNCHANGED ofAligner
  BY <1>3, SettersInv
<1>4. CASE DropperWork
  BY <1>4, DropInv, CauseDropInv, DropperForwardInv DEF DropperWork, Dropper!Work, Output!Next
<1>5. ASSUME UNCHANGED <<arrived, fresh, lost>>, UNCHANGED dropperVars,
             \A a, fr : Inv(a, fr) => Inv(a, fr)'
      PROVE  ChainInv'
  <2> PICK a, fr : a = come /\ fr = coming
    OBVIOUS
  <2>1. Inv(a, fr) /\ SourceOK /\ DropperInv
    BY DEF ChainInv
  <2>2. SourceOK' /\ DropperInv'
    BY <1>5, <2>1 DEF SourceOK, DropperInv, dropperVars
  <2>3. come' = a /\ coming' = fr
    BY <1>5 DEF come, coming, Labelled, dropperVars
  <2>4. Inv(a, fr)'
    BY <1>5, <2>1
  <2>5. Inv(come, coming)'
    BY <2>3, <2>4 DEF Inv, Progress, Known, Past, Accounted, Ahead, SentBefore, NoneMissing
  <2> QED
    BY <2>2, <2>5 DEF ChainInv
<1>6. CASE AlignerWork
  BY <1>5, <1>6, AlignerWorks DEF AlignerWork, Output!Next, ChainInv
<1>7. CASE UNCHANGED chainVars
  BY <1>5, <1>7, StutterInv DEF chainVars, vars, upstream
<1> QED
  BY <1>1, <1>2, <1>3, <1>4, <1>6, <1>7 DEF ChainNext

LEMMA ChainInductive == ASSUME Exact PROVE ChainSpec => []ChainInv
<1>1. ChainInit => ChainInv
  <2> SUFFICES ASSUME ChainInit PROVE ChainInv
    OBVIOUS
  <2>1. /\ input = <<>> /\ probability = 0 /\ dropSize \in DropSizes /\ numLeftToDrop = 0
        /\ postTime = FALSE /\ dropperTimeNs = 0 /\ Init
    BY DEF ChainInit, Dropper!Init
  <2>2. 0 \in 0..MaxTick /\ 0 \in 0..Steps /\ 1 \in Inputs
    BY TicksAssumption, ChancesAssumption, InputsAssumption DEF Inputs
  <2>3. SourceOK
    BY <2>1, <2>2 DEF SourceOK, Init
  <2>4. DropperInv
    <3>1. Len(<<>>) = 0 /\ TicksOf(<<>>) = {} /\ <<>> \in Seq(Element)
      BY EmptySeq, LenProperties DEF TicksOf
    <3>2. Good(input, arrived[1], fresh[1], dropperTimeNs)
      BY <2>1, <2>2, <3>1 DEF Good, Init
    <3>3. \E size \in DropSizes : numLeftToDrop <= size
      BY <2>1, DropSizesAssumption
    <3> QED
      BY <2>1, <2>2, <3>1, <3>2, <3>3 DEF DropperInv
  <2>5. come = arrived /\ coming = fresh
    BY <2>1, <2>2 DEF come, coming, Labelled, Init
  <2> QED
    BY <2>1, <2>3, <2>4, <2>5, InitInv DEF ChainInv
<1>2. ChainInv /\ [ChainNext]_chainVars => ChainInv'
  BY ChainStep
<1> QED
  BY <1>1, <1>2, PTL DEF ChainSpec

\* The dropper and the aligner behind it keep their types, for any number of
\* streams, any sizes of drops and any probabilities.
THEOREM ChainTypeCorrect == ASSUME Exact PROVE ChainSpec => []DropperTypeOK
<1>1. ChainInv => DropperTypeOK
  BY DEF ChainInv, SourceOK, DropperInv, Inv, DropperTypeOK, TypeOK, Types, Past, Gone, Element
<1> QED
  BY ChainInductive, <1>1, PTL

\* "A new timestamp will be inserted after the drop to re-establish sync":
\* whatever is lost or dropped, in any order, and whatever was there before a
\* restart, both blocks have the time of the elements in front of them.
THEOREM ChainTimesAreRight == ASSUME Exact PROVE ChainSpec => []TimesAreRight
<1>1. ChainInv => TimesAreRight
  <2> SUFFICES ASSUME ChainInv PROVE TimesAreRight
    OBVIOUS
  <2>1. input # <<>> => Dropper!Time = SampsToTimeNs(input[1].tick)
    <3> SUFFICES ASSUME input # <<>> PROVE Dropper!Time = SampsToTimeNs(input[1].tick)
      OBVIOUS
    <3>1. Dropper!Time = PeriodNum * input[1].tick
      BY AtDropper DEF ChainInv
    <3>2. input[1].tick \in Nat
      BY AtDropper DEF ChainInv
    <3> QED
      BY <3>1, <3>2, ExactNs
  <2>2. ASSUME NEW i \in Inputs, queue[i] # <<>>
        PROVE  TimeAt(i) = SampsToTimeNs(queue[i][1].tick)
    <3>1. queue[i] \in Seq(Element) /\ Good(queue[i], come[i], coming[i], nextTimeNs[i])
      BY DEF ChainInv, Inv, Types, Known
    <3>2. TimeAt(i) = PeriodNum * queue[i][1].tick
      BY <2>2, <3>1, TimeOfFront DEF TimeAt
    <3>3. 1 \in 1..Len(queue[i])
      BY <2>2, <3>1, ElementType
    <3>4. queue[i][1].tick \in Nat
      BY <3>1, <3>3, ElementType
    <3> QED
      BY <3>2, <3>4, ExactNs
  <2> QED
    BY <2>1, <2>2 DEF TimesAreRight
<1> QED
  BY ChainInductive, <1>1, PTL

\* The aligner keeps its promise behind the dropper too: drops count as losses.
THEOREM ChainImplementsOutput == ASSUME Exact PROVE ChainSpec => ImplementsAlignedOutput
<1>1. ChainInit => Output!Init
  BY DEF ChainInit, Init, Output!Init, Output!Inputs, Inputs
<1>2. ChainInv /\ [ChainNext]_chainVars => [Output!Next]_<<lost, sent>>
  BY ChainStep
<1> QED
  BY ChainInductive, <1>1, <1>2, PTL DEF ChainSpec, ImplementsAlignedOutput, Output!Spec

\* Nor does the aligner drop more behind the dropper than it has to.
THEOREM ChainDropsHaveReasons == ASSUME Exact PROVE ChainSpec => []NothingDroppedInVain
<1>1. ChainInv => NothingDroppedInVain
  BY DEF ChainInv, Inv
<1> QED
  BY ChainInductive, <1>1, PTL
=============================================================================
