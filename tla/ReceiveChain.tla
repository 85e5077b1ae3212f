---------------------------- MODULE ReceiveChain ----------------------------
(***************************************************************************)
(* A random dropper in front of the first input of a channel aligner, as   *)
(* "to simulate overflows from an SDR source to test recovery". Both lose  *)
(* what they have when the topology is deactivated, and keep their state.  *)
(***************************************************************************)
EXTENDS ChannelAligner

CONSTANTS DropSizes, Steps, Chances

ASSUME DropSizesAssumption == DropSizes # {} /\ DropSizes \subseteq Nat
ASSUME ChancesAssumption == Steps \in Nat \ {0} /\ Chances \subseteq Int

VARIABLES input, probability, dropSize, numLeftToDrop, postTime, dropperTimeNs

Dropper == INSTANCE RandomDropper WITH Stream <- 1, nextTimeNs <- dropperTimeNs

dropperVars ==
  <<input, probability, dropSize, numLeftToDrop, postTime, dropperTimeNs>>
chainVars == <<vars, dropperVars>>

ChainInit == Init /\ Dropper!Init

-----------------------------------------------------------------------------
\* The upstream block of the dropper: Arrive and Lose of its own.
ArriveAtDropper ==
  LET k == arrived[1] + 1 IN
  /\ k \in Ticks
  /\ arrived' = [arrived EXCEPT ![1] = k]
  /\ fresh' = [fresh EXCEPT ![1] = FALSE]
  /\ input' = Append(input, Received(k, fresh[1]))
  /\ UNCHANGED <<lost, queue, nextTimeNs, sent, dropped, probability, dropSize,
                 numLeftToDrop, postTime, dropperTimeNs>>

ChainUpstream ==
  \/ ArriveAtDropper
  \/ /\ \E i \in Inputs \ {1} : Arrive(i)
     /\ UNCHANGED dropperVars
  \/ /\ \E i \in Inputs : Lose(i)
     /\ UNCHANGED dropperVars

ChainRestart ==
  /\ Restart([i \in Inputs |-> IF i = 1 THEN TicksOf(input) ELSE {}])
  /\ input' = <<>>
  /\ UNCHANGED <<probability, dropSize, numLeftToDrop, postTime, dropperTimeNs>>

\* The steps of the dropper's work(), and of the aligner's.
ofAligner == <<arrived, nextTimeNs, sent, dropped>>
DropperForward == Dropper!Forward /\ UNCHANGED ofAligner
DropperWork == Dropper!Work /\ UNCHANGED ofAligner
AlignerWork == Work /\ UNCHANGED dropperVars

ChainNext ==
  \/ ChainUpstream
  \/ ChainRestart
  \/ Dropper!Setters /\ UNCHANGED ofAligner
  \/ DropperWork
  \/ AlignerWork

\* As long as the probability is below 1, the dropper forwards at last.
ChainSpec ==
  /\ ChainInit /\ [][ChainNext]_chainVars
  /\ WF_chainVars(AlignerWork)
  /\ WF_chainVars(DropperWork) /\ SF_chainVars(DropperForward)

-----------------------------------------------------------------------------
DropperTypeOK ==
  /\ TypeOK
  /\ input \in Seq([tick : Ticks, rxTime : SUBSET Nat])
  /\ probability \in 0..Steps
  /\ dropSize \in DropSizes
  /\ numLeftToDrop \in Nat /\ \E size \in DropSizes : numLeftToDrop <= size
  /\ postTime \in BOOLEAN
  /\ dropperTimeNs \in Nat

\* "A new timestamp will be inserted after the drop to re-establish sync":
\* whatever was lost or dropped, in one piece or in several, and whatever time
\* is left from before a restart, both blocks have the time of the elements in
\* front of them.
TimesAreRight ==
  /\ input # <<>> => Dropper!Time = SampsToTimeNs(input[1].tick)
  /\ \A i \in Inputs :
       queue[i] # <<>> => TimeAt(i) = SampsToTimeNs(queue[i][1].tick)

\* Whatever is dropped, elements do not stay at the input of the dropper.
DropperGoesOn == input # <<>> ~> input = <<>>
=============================================================================
