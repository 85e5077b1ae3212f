--------------------------- MODULE RandomDropper ----------------------------
(***************************************************************************)
(* The block that simulates overflows (utility/RandomDropper.cpp), put in  *)
(* front of input Stream of a block that relies on time labels. Elements   *)
(* that were consumed and not forwarded count as lost upstream. If the     *)
(* framework passes their labels on, these come before the label that is   *)
(* posted at the next element, and do not count: see Front.                *)
(***************************************************************************)
EXTENDS Streams

CONSTANTS
  Stream,
  DropSizes,    \* those that are set
  Steps,        \* probabilities are multiples of 1 / Steps
  Chances       \* Chances / Steps are the probabilities that are asked for

VARIABLES
  fresh, lost,  \* of the upstream block
  input,        \* the elements at the input
  queue,        \* those at the inputs of the block behind
  probability,  \* Steps times _probability
  dropSize,     \* _dropSize
  numLeftToDrop,\* _numLeftToDrop
  postTime,     \* _postTime
  nextTimeNs    \* _nextTimeNs

parameters == <<probability, dropSize>>
drop == <<numLeftToDrop, postTime>>

Init ==
  /\ input = <<>>
  /\ probability = 0
  /\ dropSize \in DropSizes
  /\ numLeftToDrop = 0
  /\ postTime = FALSE
  /\ nextTimeNs = 0

-----------------------------------------------------------------------------
SetDropSize(num) ==
  /\ dropSize' = num
  /\ UNCHANGED <<fresh, lost, input, queue, probability, drop, nextTimeNs>>

SetProbability(chance) ==
  /\ chance \in 0..Steps
  /\ probability' = chance
  /\ UNCHANGED <<fresh, lost, input, queue, dropSize, drop, nextTimeNs>>

\* setProbability() throws.
RefuseProbability(chance) ==
  /\ chance \notin 0..Steps
  /\ UNCHANGED <<fresh, lost, input, queue, parameters, drop, nextTimeNs>>

-----------------------------------------------------------------------------
(* work(): read the labels, then drop, or cause a drop, or forward.        *)

Time == FrontTime(input, nextTimeNs)
AtFront == Len(Front(input))

\* Faulty: the time stands still.
FaultyDrop ==
  /\ input # <<>> /\ numLeftToDrop # 0
  /\ LET n == SmallerOf(numLeftToDrop, AtFront)
     IN /\ input' = Without(input, n)
        /\ lost' = [lost EXCEPT ![Stream] = @ \cup TicksOf(SubSeq(input, 1, n))]
        /\ nextTimeNs' = Time
        /\ numLeftToDrop' = numLeftToDrop - n
  /\ UNCHANGED <<fresh, queue, parameters, postTime>>

Drop ==
  /\ input # <<>> /\ numLeftToDrop # 0
  /\ LET n == SmallerOf(numLeftToDrop, AtFront)
     IN /\ input' = Without(input, n)
        /\ lost' = [lost EXCEPT ![Stream] = @ \cup TicksOf(SubSeq(input, 1, n))]
        /\ nextTimeNs' = Time + SampsToTimeNs(n)
        /\ numLeftToDrop' = numLeftToDrop - n
  /\ UNCHANGED <<fresh, queue, parameters, postTime>>

\* The random numbers from 0 up to 1 are represented by multiples of a half of
\* 1 / Steps.
Randoms == 0 .. 2 * Steps - 1

\* Faulty: the drop is one too short.
FaultyCauseDrop ==
  /\ input # <<>> /\ numLeftToDrop = 0
  /\ \E random \in Randoms : random <= 2 * probability
  /\ postTime' = TRUE
  /\ numLeftToDrop' = dropSize - 1
  /\ nextTimeNs' = Time
  /\ UNCHANGED <<fresh, lost, input, queue, parameters>>

CauseDrop ==
  /\ input # <<>> /\ numLeftToDrop = 0
  /\ \E random \in Randoms : random <= 2 * probability
  /\ postTime' = TRUE
  /\ numLeftToDrop' = dropSize
  /\ nextTimeNs' = Time
  /\ UNCHANGED <<fresh, lost, input, queue, parameters>>

\* The elements at the front, the first with the time behind a drop.
Forwarded ==
  [Front(input) EXCEPT ![1].rxTime = IF postTime THEN @ \cup {Time} ELSE @]

Forward ==
  /\ input # <<>> /\ numLeftToDrop = 0
  /\ \E random \in Randoms : random > 2 * probability
  /\ queue' = [queue EXCEPT ![Stream] = @ \o Forwarded]
  /\ input' = Without(input, AtFront)
  /\ postTime' = FALSE
  /\ nextTimeNs' = Time + SampsToTimeNs(AtFront)
  /\ UNCHANGED <<fresh, lost, parameters, numLeftToDrop>>

-----------------------------------------------------------------------------
Setters ==
  \/ \E num \in DropSizes : SetDropSize(num)
  \/ \E chance \in Chances : SetProbability(chance) \/ RefuseProbability(chance)

Work == Drop \/ CauseDrop \/ Forward
=============================================================================
