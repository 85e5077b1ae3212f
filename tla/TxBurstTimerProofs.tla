------------------------- MODULE TxBurstTimerProofs -------------------------
(***************************************************************************)
(* Proofs about TxBurstTimer, for any sample rates up to 1 GHz, frames of  *)
(* any length, and clocks that are told any time.                          *)
(***************************************************************************)
EXTENDS TxBurstTimer, TLAPS

\* What the rounding of AfterElements leaves of the duration of n elements:
\* the one element too many makes up for it.
LEMMA LongEnough ==
  ASSUME period \in Periods, NEW t \in Nat, NEW n \in Nat
  PROVE  /\ AfterElements(t, n) \in Nat
         /\ AfterElements(t, n) * PeriodDen >= t * PeriodDen + n * period
<1> DEFINE exact == t * PeriodDen + (n + 1) * period
<1>1. PeriodDen \in Nat \ {0} /\ period \in Nat /\ period >= PeriodDen
  BY PeriodAssumption
<1>2. exact \in Nat /\ exact = t * PeriodDen + n * period + period
  BY <1>1
<1>3. ASSUME NEW a \in Nat, NEW d \in Nat \ {0}
      PROVE  a \div d \in Nat /\ (a \div d) * d > a - d
  OBVIOUS
<1>4. exact \div PeriodDen \in Nat /\ (exact \div PeriodDen) * PeriodDen > exact - PeriodDen
  BY <1>1, <1>2, <1>3
<1>5. t * PeriodDen + n * period \in Nat
  BY <1>1
<1>6. (exact \div PeriodDen) * PeriodDen >= t * PeriodDen + n * period
  <2> DEFINE got == (exact \div PeriodDen) * PeriodDen
             least == t * PeriodDen + n * period
  <2>1. got \in Int /\ least \in Int /\ got > least + period - PeriodDen
    BY <1>1, <1>2, <1>4, <1>5
  <2> HIDE DEF got, least
  <2>2. got >= least
    BY <1>1, <2>1
  <2> QED
    BY <2>2 DEF got, least
<1> QED
  BY <1>4, <1>6 DEF AfterElements

\* The last burst is over, but for what is consumed of it, at the time that
\* the next one must wait for.
Room ==
  \A s \in DOMAIN times :
    lastSampleTime * PeriodDen >= times[s] * PeriodDen + played[consumed] - played[s - 1]

Inv == TypeOK /\ BurstsDoNotOverlap /\ Room

\* What a step of Forward does, without the search for the end of the buffer.
LEMMA ForwardType ==
  ASSUME TypeOK, Forward
  PROVE  TypeOK'
<1> USE PeriodAssumption, TimesAssumption, BoundsAssumption DEF TypeOK, Elems
<1> PICK upTo \in consumed + 1 .. arrived :
      /\ consumed' = upTo
      /\ lastSampleTime' = AfterElements(IF AtStart THEN TxTime ELSE lastSampleTime,
                                         upTo - consumed)
      /\ played' = [k \in 0..upTo |-> IF k <= consumed THEN played[k]
                                     ELSE played[consumed] + (k - consumed) * period]
  BY DEF Forward
<1>1. upTo \in Nat /\ upTo - consumed \in Nat /\ TxTime \in Nat
  BY DEF TxTime
<1>2. lastSampleTime' \in Nat
  BY <1>1, LongEnough
<1>3. \A s \in DOMAIN times' : times'[s] \in Nat
  BY <1>1 DEF Forward
<1>4. \A k \in 0..upTo : played'[k] \in Nat
  <2> TAKE k \in 0..upTo
  <2>1. consumed \in 0..consumed /\ played[consumed] \in Nat /\ period \in Nat
    OBVIOUS
  <2>2. CASE k <= consumed
    <3>1. k \in 0..consumed /\ played'[k] = played[k]
      BY <2>2
    <3> QED
      BY <3>1
  <2>3. CASE ~(k <= consumed)
    <3>1. k - consumed \in Nat /\ played'[k] = played[consumed] + (k - consumed) * period
      BY <2>3
    <3> DEFINE more == (k - consumed) * period
    <3>2. more \in Nat
      BY <2>1, <3>1
    <3> HIDE DEF more
    <3>3. played[consumed] + more \in Nat
      BY <2>1, <3>2
    <3> QED
      BY <3>1, <3>3 DEF more
  <2> QED
    BY <2>2, <2>3
<1>5. played' \in [0..consumed' -> Nat]
  BY <1>4
<1> QED
  BY <1>1, <1>2, <1>3, <1>5 DEF Forward

LEMMA TypeStep == TypeOK /\ [Next]_vars => TypeOK'
<1> SUFFICES ASSUME TypeOK, [Next]_vars PROVE TypeOK'
  OBVIOUS
<1> USE PeriodAssumption, TimesAssumption, BoundsAssumption DEF TypeOK, Elems
<1>1. CASE Arrive
  BY <1>1 DEF Arrive, history
<1>2. CASE Tick
  BY <1>2 DEF Tick, stream, history
<1>3. CASE Setters
  <2>1. lastHwTime' \in Nat /\ passed' \in Nat
    BY <1>3 DEF Setters, SetTime, SetTimeDelta, SetSampleRate, SetFrameStartId, stream
  <2>2. timeDelta' \in TimeDeltas /\ period' \in Periods
    BY <1>3 DEF Setters, SetTime, SetTimeDelta, SetSampleRate, SetFrameStartId, stream
  <2>3. starts' \subseteq Elems /\ UNCHANGED <<arrived, consumed>>
    BY <1>3 DEF Setters, SetTime, SetTimeDelta, SetSampleRate, SetFrameStartId, stream
  <2>4. syncs' \in Nat /\ UNCHANGED <<lastSampleTime, times, played>>
    BY <1>3 DEF Setters, history
  <2> QED
    BY <2>1, <2>2, <2>3, <2>4
<1>4. CASE Wait
  <2>1. TxTime \in Nat
    BY DEF TxTime
  <2>2. SmallerOf(MaxTimeout, lastSampleTime - TxTime) \in Nat
    BY <1>4, <2>1 DEF Wait, TooEarly, SmallerOf
  <2> QED
    BY <1>4, <2>2 DEF Wait, stream, history
<1>5. CASE Forward
  BY <1>5, ForwardType
<1>6. CASE UNCHANGED vars
  BY <1>6 DEF vars, stream, history
<1> QED
  BY <1>1, <1>2, <1>3, <1>4, <1>5, <1>6 DEF Next, Work

\* Times and counts stay numbers, and no more elements are forwarded than have
\* arrived, whatever the clocks are set to.
THEOREM TypeCorrect == Spec => []TypeOK
<1>1. Init => TypeOK
  BY TimesAssumption, BoundsAssumption DEF Init, TypeOK
<1> QED
  BY <1>1, TypeStep, PTL DEF Spec

-----------------------------------------------------------------------------
LEMMA RoomStep ==
  ASSUME TypeOK, TypeOK', BurstsDoNotOverlap, Room, Forward
  PROVE  BurstsDoNotOverlap' /\ Room'
<1> DEFINE first == consumed + 1
           t0 == IF AtStart THEN TxTime ELSE lastSampleTime
<1> PICK upTo \in first .. arrived :
      /\ EndsAt(upTo)
      /\ consumed' = upTo
      /\ lastSampleTime' = AfterElements(t0, upTo - consumed)
      /\ played' = [k \in 0..upTo |-> IF k <= consumed THEN played[k]
                                     ELSE played[consumed] + (k - consumed) * period]
  BY DEF Forward
<1> HIDE DEF t0
<1>1. /\ PeriodDen \in Nat \ {0} /\ period \in Nat /\ period \in Periods
      /\ consumed \in Nat /\ arrived \in Nat /\ upTo \in Nat /\ first \in Nat
      /\ lastSampleTime \in Nat /\ lastSampleTime' \in Nat /\ TxTime \in Nat
      /\ starts \subseteq Elems
  <2>1. consumed \in Nat /\ arrived \in Nat
    BY BoundsAssumption DEF TypeOK
  <2>2. upTo \in Nat /\ first \in Nat
    BY <2>1
  <2>3. lastSampleTime \in Nat /\ lastSampleTime' \in Nat
    BY DEF TypeOK
  <2>4. TxTime \in Nat
    BY TimesAssumption DEF TypeOK, TxTime
  <2> QED
    BY <2>1, <2>2, <2>3, <2>4, PeriodAssumption DEF TypeOK
<1>2. starts' = starts /\ DOMAIN times' = starts \cap 1..upTo
  <2>1. DOMAIN times' = IF AtStart THEN DOMAIN times \cup {first} ELSE DOMAIN times
    BY DEF Forward
  <2>2. starts \cap 1..upTo = IF AtStart THEN (starts \cap 1..consumed) \cup {first}
                                         ELSE starts \cap 1..consumed
    BY <1>1 DEF EndsAt, AtStart
  <2> QED
    BY <2>1, <2>2 DEF Forward, BurstsDoNotOverlap
<1>3. \A s \in DOMAIN times : s \in 1..consumed /\ times[s] \in Nat
  BY DEF TypeOK, BurstsDoNotOverlap
<1>4. \A s \in DOMAIN times : times'[s] = times[s] /\ s \in DOMAIN times'
  BY <1>1, <1>3 DEF Forward
<1>5. t0 \in Nat /\ t0 >= lastSampleTime
  BY <1>1 DEF t0, Forward, TooEarly
<1> DEFINE duration == (upTo - consumed) * period
           reached == t0 * PeriodDen
<1>length. duration \in Nat /\ reached \in Nat
  <2>1. upTo - consumed \in Nat
    BY <1>1
  <2> QED
    BY <1>1, <1>5, <2>1
<1>6. lastSampleTime' * PeriodDen >= reached + duration
  BY <1>1, <1>5, LongEnough
<1>played. /\ \A k \in 0..consumed : played'[k] = played[k] /\ played[k] \in Nat
      /\ played'[upTo] = played[consumed] + duration
  <2>1. \A k \in 0..consumed : k \in 0..upTo /\ k <= consumed
    BY <1>1
  <2>2. upTo \in 0..upTo /\ ~(upTo <= consumed) /\ consumed' = upTo
    BY <1>1
  <2> QED
    BY <2>1, <2>2 DEF TypeOK
<1>7. reached >= lastSampleTime * PeriodDen
  BY <1>1, <1>5
<1> HIDE DEF duration
<1>8. ASSUME AtStart
      PROVE  first \in DOMAIN times' /\ times'[first] = t0
  BY <1>8 DEF t0, Forward
<1>9. \A s \in DOMAIN times' : s \in DOMAIN times \/ (AtStart /\ s = first)
  BY DEF Forward
<1>10. ASSUME NEW s \in DOMAIN times
       PROVE  lastSampleTime' * PeriodDen >= times[s] * PeriodDen + played'[upTo] - played'[s - 1]
  <2>1. lastSampleTime * PeriodDen >= times[s] * PeriodDen + played[consumed] - played[s - 1]
    BY DEF Room
  <2>2. s - 1 \in 0..consumed /\ consumed \in 0..consumed
    BY <1>1, <1>3
  <2>3. played'[upTo] = played[consumed] + duration /\ played'[s - 1] = played[s - 1]
        /\ played[consumed] \in Nat /\ played[s - 1] \in Nat
    BY <1>played, <2>2
  <2>4. times[s] * PeriodDen \in Nat /\ lastSampleTime * PeriodDen \in Nat /\ lastSampleTime' * PeriodDen \in Nat
    BY <1>1, <1>3
  <2> HIDE DEF reached
  <2> QED
    BY <1>6, <1>7, <1>length, <2>1, <2>3, <2>4
<1>11. Room'
  <2> SUFFICES ASSUME NEW s \in DOMAIN times'
               PROVE  lastSampleTime' * PeriodDen >=
                        times'[s] * PeriodDen + played'[upTo] - played'[s - 1]
    BY DEF Room
  <2>1. CASE s \in DOMAIN times
    BY <2>1, <1>4, <1>10
  <2>2. CASE AtStart /\ s = first
    <3>1. s - 1 = consumed /\ consumed \in 0..consumed
      BY <2>2, <1>1
    <3>2. played'[upTo] - played'[s - 1] = duration
      <4>1. played'[s - 1] = played[consumed] /\ played[consumed] \in Nat
        BY <3>1, <1>played
      <4>2. played'[upTo] = played[consumed] + duration
        BY <1>played
      <4> QED
        BY <4>1, <4>2, <1>length
    <3>3. times'[s] * PeriodDen = reached
      BY <2>2, <1>8
    <3> HIDE DEF reached
    <3>4. lastSampleTime' * PeriodDen >= reached + (played'[upTo] - played'[s - 1])
      BY <3>2, <1>6
    <3>5. played'[upTo] \in Nat /\ played'[s - 1] \in Nat
      BY <3>1, <1>length, <1>played
    <3> QED
      BY <3>3, <3>4, <3>5, <1>length
  <2> QED
    BY <2>1, <2>2, <1>9
<1>12. \A s, u \in DOMAIN times' :
         s < u => times'[u] * PeriodDen >= times'[s] * PeriodDen + played'[u - 1] - played'[s - 1]
  <2> SUFFICES ASSUME NEW s \in DOMAIN times', NEW u \in DOMAIN times', s < u
               PROVE  times'[u] * PeriodDen >= times'[s] * PeriodDen + played'[u - 1] - played'[s - 1]
    OBVIOUS
  <2>1. CASE u \in DOMAIN times
    <3>1. s \in DOMAIN times
      BY <2>1, <1>1, <1>3, <1>9
    <3>2. s - 1 \in 0..consumed /\ u - 1 \in 0..consumed
      BY <2>1, <3>1, <1>1, <1>3
    <3>3. times[u] * PeriodDen >= times[s] * PeriodDen + played[u - 1] - played[s - 1]
      BY <2>1, <3>1 DEF BurstsDoNotOverlap
    <3> QED
      BY <2>1, <3>1, <3>2, <3>3, <1>4, <1>played
  <2>2. CASE AtStart /\ u = first
    <3>1. s \in DOMAIN times
      BY <2>2, <1>1, <1>9
    <3>2. lastSampleTime * PeriodDen >= times[s] * PeriodDen + played[consumed] - played[s - 1]
      BY <3>1 DEF Room
    <3>3. times'[u] * PeriodDen >= lastSampleTime * PeriodDen
      BY <2>2, <1>7, <1>8
    <3>4. times'[u] \in Nat /\ times'[s] = times[s]
      BY <2>2, <3>1, <1>4, <1>5, <1>8
    <3>5. s - 1 \in 0..consumed /\ u - 1 = consumed /\ consumed \in 0..consumed
      BY <1>1, <1>3, <2>2, <3>1
    <3>6. played'[u - 1] = played[consumed] /\ played'[s - 1] = played[s - 1]
          /\ played[consumed] \in Nat /\ played[s - 1] \in Nat
      BY <1>played, <3>5
    <3>7. times[s] * PeriodDen \in Nat /\ lastSampleTime * PeriodDen \in Nat /\ times'[u] * PeriodDen \in Nat
      BY <1>1, <1>3, <3>1, <3>4
    <3> QED
      BY <3>2, <3>3, <3>4, <3>6, <3>7
  <2> QED
    BY <2>1, <2>2, <1>9
<1> QED
  BY <1>2, <1>11, <1>12 DEF BurstsDoNotOverlap

LEMMA InvStep == Inv /\ [Next]_vars => Inv'
<1> SUFFICES ASSUME Inv, [Next]_vars PROVE Inv'
  OBVIOUS
<1>1. TypeOK'
  BY TypeStep DEF Inv
<1>2. CASE Forward
  BY <1>1, <1>2, RoomStep DEF Inv
<1>3. CASE ~Forward
  <2>1. /\ UNCHANGED <<consumed, lastSampleTime, times, played>>
        /\ starts' \cap 1..consumed = starts \cap 1..consumed
    <3>1. CASE Setters
      BY <3>1 DEF Setters, SetTime, SetTimeDelta, SetSampleRate, SetFrameStartId, stream, history
    <3>2. CASE ~Setters
      BY <1>3, <3>2 DEF Next, Work, Arrive, Tick, Wait, vars, stream, history
    <3> QED
      BY <3>1, <3>2
  <2> QED
    BY <1>1, <2>1 DEF Inv, BurstsDoNotOverlap, Room
<1> QED
  BY <1>2, <1>3

\* "the wait time between subsequent bursts": no burst is timed before those
\* in front of it are over, whatever clock setTime() sets and however long
\* their elements last (TxBurstTimer::work).
THEOREM BurstsStayApart == Spec => []BurstsDoNotOverlap
<1>1. Init => Inv
  BY TimesAssumption, BoundsAssumption DEF Init, Inv, TypeOK, BurstsDoNotOverlap, Room
<1>2. Inv => BurstsDoNotOverlap
  BY DEF Inv
<1> QED
  BY <1>1, <1>2, InvStep, PTL DEF Spec
=============================================================================
