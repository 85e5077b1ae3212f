------------------------------ MODULE Streams -------------------------------
(***************************************************************************)
(* Received elements and their time labels, as the blocks in               *)
(* utility/ChannelAligner.cpp and utility/RandomDropper.cpp read them.     *)
(*                                                                         *)
(* An element is known by its tick, the sample clock of the hardware when  *)
(* it was taken, and has the values of its rxTime labels. The rxRate label *)
(* comes with the first elements and is not seen here: a tick lasts        *)
(* PeriodNum / PeriodDen nanoseconds.                                      *)
(***************************************************************************)
EXTENDS Integers, Sequences

CONSTANTS
  PeriodNum, PeriodDen,
  Joined        \* labels may be anywhere in a buffer, not at its start only

ASSUME PeriodAssumption == {PeriodNum, PeriodDen} \subseteq Nat \ {0}
ASSUME JoinedAssumption == Joined \in BOOLEAN

\* Both conversions round to the nearest.
SampsToTimeNs(n) == (2 * n * PeriodNum + PeriodDen) \div (2 * PeriodDen)

\* Faulty: rounded down, from a difference that is one too small.
FaultyTimeNsToSamps(t) == ((t - 1) * PeriodDen) \div PeriodNum

\* Faulty: one more than the nearest.
FaultyOneMore(t) == (2 * t * PeriodDen + PeriodNum) \div (2 * PeriodNum) + 1

TimeNsToSamps(t) == (2 * t * PeriodDen + PeriodNum) \div (2 * PeriodNum)

SmallerOf(m, n) == IF m <= n THEN m ELSE n

\* An element as it arrives, with a label or without one.
Received(k, labelled) ==
  [tick |-> k, rxTime |-> IF labelled THEN {SampsToTimeNs(k)} ELSE {}]

TicksOf(q) == {q[n].tick : n \in DOMAIN q}

\* Faulty: the last of the first n elements stays.
FaultyWithout(q, n) == SubSeq(q, n, Len(q))

\* consume(): without the first n elements.
Without(q, n) == SubSeq(q, n + 1, Len(q))

\* The buffer at the front of an input. Elements behind a discontinuity are
\* in a buffer of their own, unless buffers are joined.
Front(q) ==
  LET cuts == {n \in 2 .. Len(q) : ~Joined /\ q[n].rxTime # {}}
  IN IF cuts = {} THEN q
     ELSE SubSeq(q, 1, (CHOOSE n \in cuts : \A m \in cuts : n <= m) - 1)

\* The time of the first element: that of the last label in the buffer, less
\* the elements in front of it, or else what was expected.
FrontTime(q, expected) ==
  LET at == {n \in DOMAIN Front(q) : q[n].rxTime # {}}
      n == CHOOSE n \in at : \A m \in at : m <= n
  IN IF at = {} THEN expected
     ELSE (CHOOSE t \in q[n].rxTime : TRUE) - SampsToTimeNs(n - 1)
=============================================================================
