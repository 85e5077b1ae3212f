---------------------------- MODULE TxBurstTimer ----------------------------
(***************************************************************************)
(* The block that gives each burst the time to transmit it at              *)
(* (utility/TxBurstTimer.cpp), from the hardware time it was last told and *)
(* the time that has passed since.                                         *)
(*                                                                         *)
(* Elements are numbered from 1 and have no values; starts are those with  *)
(* a frame start label. Times are nanoseconds.                             *)
(***************************************************************************)
EXTENDS Integers

CONSTANTS
  Periods, PeriodDen,     \* 1e9 / _sampleRate is one of Periods / PeriodDen
  TimeDeltas,   \* the arguments of setTimeDelta()
  MaxTimeout,   \* maxTimeoutNs, how long work() may sleep
  MaxElems,     \* bound: the elements of the stream
  MaxTime,      \* bound: the hardware times that setTime() tells, and the
                \* time that passes by itself
  MaxSyncs      \* bound: how often the setters are called

ASSUME PeriodAssumption ==
  PeriodDen \in Nat \ {0} /\ Periods \subseteq {p \in Nat : p >= PeriodDen}
ASSUME TimesAssumption == TimeDeltas \subseteq Nat /\ MaxTimeout \in Nat \ {0}
ASSUME BoundsAssumption == {MaxElems, MaxTime, MaxSyncs} \subseteq Nat

VARIABLES
  starts,           \* the elements with a frame start label
  arrived,          \* how many elements have arrived, and
  consumed,         \* how many were forwarded
  period,           \* PeriodDen times 1e9 / _sampleRate
  timeDelta,        \* _timeDeltaNs
  lastHwTime,       \* _lastHwTime
  passed,           \* now() - _lastPcTime
  lastSampleTime,   \* _lastSampleTimeNs
  syncs,            \* how often the setters were called
  times,            \* history: the txTime label of each start, and
  played            \* PeriodDen times how long the first elements last

stream == <<starts, arrived, consumed>>
history == <<times, played>>
vars == <<stream, period, timeDelta, lastHwTime, passed, lastSampleTime,
          syncs, history>>

Elems == 1..MaxElems

Init ==
  /\ starts \in SUBSET Elems
  /\ arrived = 0
  /\ consumed = 0
  /\ period \in Periods
  /\ timeDelta \in TimeDeltas
  /\ lastHwTime = 0
  /\ passed = 0
  /\ lastSampleTime = 0
  /\ syncs = 0
  /\ times = <<>>
  /\ played = [k \in {0} |-> 0]

-----------------------------------------------------------------------------
\* The scheduler delivers the next elements, with their labels.
Arrive ==
  /\ arrived' \in arrived + 1 .. MaxElems
  /\ UNCHANGED <<starts, consumed, period, timeDelta, lastHwTime, passed,
                 lastSampleTime, syncs, history>>

Tick ==
  /\ passed < MaxTime
  /\ passed' = passed + 1
  /\ UNCHANGED <<stream, period, timeDelta, lastHwTime, lastSampleTime, syncs,
                 history>>

\* The hardware's clock may be behind or ahead of what has passed here.
SetTime ==
  /\ lastHwTime' \in 0..MaxTime
  /\ passed' = 0
  /\ UNCHANGED <<stream, period, timeDelta>>

SetTimeDelta ==
  /\ timeDelta' \in TimeDeltas
  /\ UNCHANGED <<stream, period, lastHwTime, passed>>

SetSampleRate ==
  /\ period' \in Periods
  /\ UNCHANGED <<stream, timeDelta, lastHwTime, passed>>

\* Other labels mark the starts from here on.
SetFrameStartId ==
  /\ starts' \in SUBSET Elems
  /\ starts' \cap 1..consumed = starts \cap 1..consumed
  /\ UNCHANGED <<arrived, consumed, period, timeDelta, lastHwTime, passed>>

Setters ==
  /\ syncs < MaxSyncs
  /\ syncs' = syncs + 1
  /\ SetTime \/ SetTimeDelta \/ SetSampleRate \/ SetFrameStartId
  /\ UNCHANGED <<lastSampleTime, history>>

-----------------------------------------------------------------------------
(* work(), when there are elements.                                        *)

Available == consumed < arrived
AtStart == consumed + 1 \in starts
TxTime == lastHwTime + timeDelta + passed

SmallerOf(m, n) == IF m <= n THEN m ELSE n

\* Faulty: waits for a difference that may be zero.
FaultyTooEarly == AtStart /\ TxTime <= lastSampleTime

TooEarly == AtStart /\ TxTime < lastSampleTime

\* "insufficient time since last burst": sleep, and try again.
Wait ==
  /\ Available
  /\ TooEarly
  /\ passed' = passed + SmallerOf(MaxTimeout, lastSampleTime - TxTime)
  /\ UNCHANGED <<stream, period, timeDelta, lastHwTime, lastSampleTime, syncs,
                 history>>

\* The buffer is cut in front of the next start.
EndsAt(upTo) ==
  /\ starts \cap (consumed + 2 .. upTo) = {}
  /\ upTo = arrived \/ upTo + 1 \in starts

\* Faulty: the duration of the elements alone, rounded down.
FaultyAfterElements(t, n) == (t * PeriodDen + n * period) \div PeriodDen

\* One element more than there are, rounded down.
AfterElements(t, n) == (t * PeriodDen + (n + 1) * period) \div PeriodDen

Forward ==
  /\ Available
  /\ ~TooEarly
  /\ \E upTo \in consumed + 1 .. arrived :
       /\ EndsAt(upTo)
       /\ consumed' = upTo
       /\ lastSampleTime' = AfterElements(IF AtStart THEN TxTime ELSE lastSampleTime,
                                          upTo - consumed)
       /\ played' = [k \in 0..upTo |-> IF k <= consumed THEN played[k]
                                      ELSE played[consumed] + (k - consumed) * period]
  /\ times' = IF AtStart
              THEN [s \in DOMAIN times \cup {consumed + 1} |->
                      IF s = consumed + 1 THEN TxTime ELSE times[s]]
              ELSE times
  /\ UNCHANGED <<starts, arrived, period, timeDelta, lastHwTime, passed, syncs>>

-----------------------------------------------------------------------------
Work == Wait \/ Forward

Next == Arrive \/ Tick \/ Setters \/ Work

Spec == Init /\ [][Next]_vars

\* work() is called as long as there are elements.
FairSpec == Spec /\ WF_vars(Work)

-----------------------------------------------------------------------------
TypeOK ==
  /\ starts \subseteq Elems
  /\ arrived \in 0..MaxElems
  /\ consumed \in 0..arrived
  /\ period \in Periods
  /\ timeDelta \in TimeDeltas
  /\ {lastHwTime, passed, lastSampleTime, syncs} \subseteq Nat
  /\ \A s \in DOMAIN times : times[s] \in Nat
  /\ played \in [0..consumed -> Nat]

\* "The txTime label will be produced on the exact same index as the detected
\* frame start label", and "the wait time between subsequent bursts": each
\* start that was forwarded has a time, and no burst begins before the ones
\* in front of it are over, at the rates they were forwarded with, even if
\* setTime() turns the clock back.
BurstsDoNotOverlap ==
  /\ DOMAIN times = starts \cap 1..consumed
  /\ \A s, t \in DOMAIN times :
       s < t => times[t] * PeriodDen >= times[s] * PeriodDen + played[t - 1] - played[s - 1]

\* Whatever a burst has to wait for, it is forwarded in the end.
InputIsForwarded == Available ~> ~Available
=============================================================================
