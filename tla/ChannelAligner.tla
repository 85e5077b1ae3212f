--------------------------- MODULE ChannelAligner ---------------------------
(***************************************************************************)
(* The block that aligns the streams of several receiving channels by      *)
(* their time labels (utility/ChannelAligner.cpp). Upstream some ticks of  *)
(* a stream are lost, and the element behind a loss has a label, as the    *)
(* first element after an activation has.                                  *)
(***************************************************************************)
EXTENDS Streams

CONSTANTS
  NumInputs,    \* the channels
  MaxTick       \* bound: the ticks of a stream

ASSUME InputsAssumption == NumInputs \in Nat /\ NumInputs >= 2
ASSUME TicksAssumption == MaxTick \in Nat

VARIABLES
  arrived,      \* the last tick of each stream that arrived or was lost
  fresh,        \* the next element of the stream has a label
  lost,         \* the ticks of each stream that were lost upstream
  queue,        \* the elements at each input
  nextTimeNs,   \* _nextTimeNs
  sent,         \* history: the ticks that were last forwarded
  dropped       \* history: the ticks consumed and not forwarded, by stream

upstream == <<arrived, fresh, lost>>
vars == <<upstream, queue, nextTimeNs, sent, dropped>>

Inputs == 1..NumInputs
Ticks == 1..MaxTick

Init ==
  /\ arrived = [i \in Inputs |-> 0]
  /\ fresh = [i \in Inputs |-> TRUE]
  /\ lost = [i \in Inputs |-> {}]
  /\ queue = [i \in Inputs |-> <<>>]
  /\ nextTimeNs = [i \in Inputs |-> 0]
  /\ sent = [i \in Inputs |-> {}]
  /\ dropped = [i \in Inputs |-> {}]

-----------------------------------------------------------------------------
Arrive(i) ==
  LET k == arrived[i] + 1 IN
  /\ k \in Ticks
  /\ arrived' = [arrived EXCEPT ![i] = k]
  /\ fresh' = [fresh EXCEPT ![i] = FALSE]
  /\ queue' = [queue EXCEPT ![i] = Append(@, Received(k, fresh[i]))]
  /\ UNCHANGED <<lost, nextTimeNs, sent, dropped>>

Lose(i) ==
  LET k == arrived[i] + 1 IN
  /\ k \in Ticks
  /\ arrived' = [arrived EXCEPT ![i] = k]
  /\ fresh' = [fresh EXCEPT ![i] = TRUE]
  /\ lost' = [lost EXCEPT ![i] = @ \cup {k}]
  /\ UNCHANGED <<queue, nextTimeNs, sent, dropped>>

\* The topology is deactivated and activated: what is at the inputs, or on the
\* way to them, is lost, the sources label their next elements, and activate()
\* keeps the times.
Restart(onTheWay) ==
  /\ fresh' = [i \in Inputs |-> TRUE]
  /\ lost' = [i \in Inputs |-> lost[i] \cup TicksOf(queue[i]) \cup onTheWay[i]]
  /\ queue' = [i \in Inputs |-> <<>>]
  /\ UNCHANGED <<arrived, nextTimeNs, sent, dropped>>

-----------------------------------------------------------------------------
(* work(): read the labels, then either consume from an input that is      *)
(* behind, or forward from all.                                            *)

TimeAt(i) == FrontTime(queue[i], nextTimeNs[i])
AtFront(i) == Len(Front(queue[i]))

\* The search for an input whose time is not that of the first: if it is
\* newer, the search starts again from it and ends at the first input.
Behind(i, later) ==
  \E j \in Inputs \ {1} :
    /\ TimeAt(j) # TimeAt(1)
    /\ \A o \in 2 .. j - 1 : TimeAt(o) = TimeAt(1)
    /\ IF TimeAt(j) < TimeAt(1) THEN i = j /\ later = TimeAt(1)
                                ELSE i = 1 /\ later = TimeAt(j)

Available == \A i \in Inputs : queue[i] # <<>>

CatchUp ==
  /\ Available
  /\ \E i \in Inputs : \E later \in {TimeAt(j) : j \in Inputs} :
       /\ Behind(i, later)
       /\ LET n == SmallerOf(AtFront(i), TimeNsToSamps(later - TimeAt(i)))
          IN /\ queue' = [queue EXCEPT ![i] = Without(@, n)]
             /\ nextTimeNs' = [j \in Inputs |->
                  TimeAt(j) + (IF j = i THEN SampsToTimeNs(n) ELSE 0)]
             /\ dropped' = [dropped EXCEPT ![i] = @ \cup TicksOf(SubSeq(queue[i], 1, n))]
  /\ UNCHANGED <<upstream, sent>>

\* Faulty: the last input is not looked at.
FaultyAligned == \A i \in Inputs \ {NumInputs} : TimeAt(i) = TimeAt(1)

Aligned == \A i \in Inputs : TimeAt(i) = TimeAt(1)

Forward ==
  /\ Available
  /\ Aligned
  /\ \E i \in Inputs :
       LET n == AtFront(i) IN
       /\ \A j \in Inputs : n <= AtFront(j)
       /\ sent' = [j \in Inputs |-> TicksOf(SubSeq(queue[j], 1, n))]
       /\ queue' = [j \in Inputs |-> Without(queue[j], n)]
       /\ nextTimeNs' = [j \in Inputs |-> TimeAt(j) + SampsToTimeNs(n)]
  /\ UNCHANGED <<upstream, dropped>>

-----------------------------------------------------------------------------
Upstream ==
  \/ \E i \in Inputs : Arrive(i) \/ Lose(i)
  \/ Restart([i \in Inputs |-> {}])

Work == CatchUp \/ Forward

Next == Upstream \/ Work

Spec == Init /\ [][Next]_vars

\* work() is called as long as there are elements at all inputs.
FairSpec == Spec /\ WF_vars(Work)

-----------------------------------------------------------------------------
TypeOK ==
  /\ arrived \in [Inputs -> 0..MaxTick]
  /\ fresh \in [Inputs -> BOOLEAN]
  /\ lost \in [Inputs -> SUBSET Ticks]
  /\ queue \in [Inputs -> Seq([tick : Ticks, rxTime : SUBSET Nat])]
  /\ nextTimeNs \in [Inputs -> Nat]
  /\ sent \in [Inputs -> SUBSET Ticks]
  /\ dropped \in [Inputs -> SUBSET Ticks]
  /\ \A i \in Inputs : TicksOf(queue[i]) \cap (dropped[i] \cup lost[i]) = {}

\* "output N time-aligned output streams": the block implements the abstract
\* specification of its output. What is forwarded together was taken at the
\* same time, comes in order, and lacks only what some stream has lost.
Output == INSTANCE AlignedOutput
ImplementsAlignedOutput == Output!Spec

\* "selective dropping": an element is dropped only if another stream has
\* lost the element of its time.
NothingDroppedInVain ==
  \A i \in Inputs : \A k \in dropped[i] : \E j \in Inputs : k \in lost[j]

\* "we get called again ASAP if inputs are available": elements that are
\* available at all inputs do not stay there for ever.
InputsAreUsedUp == Available ~> ~Available
=============================================================================
