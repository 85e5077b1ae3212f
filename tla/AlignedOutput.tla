---------------------------- MODULE AlignedOutput ----------------------------
(***************************************************************************)
(* What a channel aligner promises to those behind it (the documentation   *)
(* at the top of utility/ChannelAligner.cpp: "uses timestamps and          *)
(* selective dropping to output N time-aligned output streams"): the       *)
(* elements that no stream has lost, in order, those of the same time      *)
(* together on all outputs.                                                *)
(***************************************************************************)
EXTENDS Integers

CONSTANTS NumInputs, MaxTick

VARIABLES
  lost,   \* the ticks of each stream that did not reach the block
  sent    \* the ticks that were last forwarded, by stream

Inputs == 1..NumInputs
Ticks == 1..MaxTick

Init ==
  /\ lost = [i \in Inputs |-> {}]
  /\ sent = [i \in Inputs |-> {}]

\* Upstream loses elements that are still to come.
LoseSome ==
  /\ lost' \in [Inputs -> SUBSET Ticks]
  /\ \A i \in Inputs :
       /\ lost[i] \subseteq lost'[i]
       /\ \A k \in lost'[i] \ lost[i], m \in sent[i] : m < k
  /\ UNCHANGED sent

\* Whatever is left out was lost by some stream.
Skipped(k) == \E i \in Inputs : k \in lost[i]

\* The next elements are forwarded.
Send ==
  /\ \E first, upTo \in Ticks :
       /\ first <= upTo
       /\ \A i \in Inputs : \A m \in sent[i] : m < first
       /\ \A k \in 1 .. first - 1 : (\A m \in sent[1] : m < k) => Skipped(k)
       /\ \A k \in first .. upTo : ~Skipped(k)
       /\ sent' = [i \in Inputs |-> first .. upTo]
  /\ UNCHANGED lost

Next == LoseSome \/ Send

Spec == Init /\ [][Next]_<<lost, sent>>
=============================================================================
