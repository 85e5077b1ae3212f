------------------------------ MODULE SDRSink -------------------------------
(***************************************************************************)
(* The transmitting block (SoapySink.cpp): work() writes a packet, if one  *)
(* has arrived and the block has one channel, and then elements of the     *)
(* input streams, as far as their labels let it in one call of the device. *)
(*                                                                         *)
(* The elements of the streams are numbered 1, 2, ...; timed and ended are *)
(* the elements with a txTime and with a txEnd label. A txEnd label covers *)
(* the elements of its width; at one element txTime comes before txEnd.    *)
(***************************************************************************)
EXTENDS Naturals

CONSTANTS
  NumChannels,  \* _channels.size()
  Width,        \* the width of the txEnd labels
  MaxElems,     \* bound: the elements of the input streams
  MaxPackets    \* bound: the packets that arrive

ASSUME ChannelsAssumption == NumChannels \in Nat \ {0}
ASSUME WidthAssumption == Width \in Nat \ {0}
ASSUME BoundsAssumption == MaxElems \in Nat /\ MaxPackets \in Nat

VARIABLES
  timed, ended, \* the labels
  consumed,     \* the elements that were consumed
  arrived,      \* the packets that have arrived
  packets,      \* those that wait in the queue of the input
  work,         \* where work() is
  written       \* history: the successful calls of writeStream()

labels == <<timed, ended>>
vars == <<labels, consumed, arrived, packets, work, written>>

Elems == 1..MaxElems

\* The last element of the end label at element e.
LastOf(e) == e + Width - 1

Init ==
  /\ timed \in SUBSET Elems
  /\ ended \in SUBSET {e \in Elems : LastOf(e) <= MaxElems}
  /\ \A e \in ended : (e + 1 .. LastOf(e)) \cap (timed \cup ended) = {}
  /\ consumed = 0
  /\ arrived = 0
  /\ packets = 0
  /\ work = "idle"
  /\ written = {}

-----------------------------------------------------------------------------
PacketArrives ==
  /\ arrived < MaxPackets
  /\ arrived' = arrived + 1
  /\ packets' = packets + 1
  /\ UNCHANGED <<labels, consumed, work, written>>

\* The framework calls work() when there is something to do.
Work ==
  /\ work = "idle"
  /\ consumed < MaxElems \/ packets > 0
  /\ work' = IF NumChannels <= 1 /\ packets > 0 THEN "packet" ELSE "stream"
  /\ UNCHANGED <<labels, consumed, arrived, packets, written>>

\* packetWork(): after a packet was written, or left in the queue because of
\* a timeout, work() goes on; an error drops the packet and leaves work().
PacketWritten ==
  /\ work = "packet"
  /\ packets' = packets - 1
  /\ work' = "stream"
  /\ UNCHANGED <<labels, consumed, arrived, written>>

PacketTimeout ==
  /\ work = "packet"
  /\ work' = "stream"
  /\ UNCHANGED <<labels, consumed, arrived, packets, written>>

PacketError ==
  /\ work = "packet"
  /\ packets' = packets - 1
  /\ work' = "idle"
  /\ UNCHANGED <<labels, consumed, arrived, written>>

NoElements ==
  /\ work = "stream"
  /\ work' = "idle"
  /\ UNCHANGED <<labels, consumed, arrived, packets, written>>

-----------------------------------------------------------------------------
(* The scan of the labels, with the elements up to `limit` in the buffers. *)

\* What ends the scan: a time label that is not at the first element, or an
\* end label, whichever comes first.
TimeStops(t, limit) ==
  /\ t \in timed
  /\ t \in consumed + 2 .. limit
  /\ timed \cap (consumed + 2 .. t - 1) = {}
  /\ ended \cap (consumed + 1 .. t - 1) = {}

\* Faulty: a time label does not end the scan.
FaultyEndStops(e, limit) ==
  /\ e \in ended
  /\ e \in consumed + 1 .. limit
  /\ ended \cap (consumed + 1 .. e - 1) = {}

EndStops(e, limit) ==
  /\ e \in ended
  /\ e \in consumed + 1 .. limit
  /\ ended \cap (consumed + 1 .. e - 1) = {}
  /\ timed \cap (consumed + 2 .. e) = {}

NothingStops(limit) ==
  /\ timed \cap (consumed + 2 .. limit) = {}
  /\ ended \cap (consumed + 1 .. limit) = {}

SmallerOf(m, n) == IF m <= n THEN m ELSE n

\* Faulty: the elements behind the end label are written with it.
FaultyAsks(last, end, limit) ==
  \/ /\ \E t \in timed : TimeStops(t, limit) /\ last = t - 1
     /\ ~end
  \/ /\ \E e \in ended : EndStops(e, limit) /\ last = limit
     /\ end
  \/ /\ NothingStops(limit) /\ last = limit
     /\ ~end

\* Faulty: a time label at the first element ends the scan, too.
FaultyAsksNothing(last, end, limit) ==
  LET first == consumed + 1 IN
  IF first \in timed THEN last = consumed /\ ~end
  ELSE \/ /\ \E t \in timed : TimeStops(t, limit) /\ last = t - 1
          /\ ~end
       \/ /\ \E e \in ended : EndStops(e, limit) /\ last = SmallerOf(LastOf(e), limit)
          /\ end
       \/ /\ NothingStops(limit) /\ last = limit
          /\ ~end

\* The last element that is written, and END_BURST.
Asks(last, end, limit) ==
  \/ /\ \E t \in timed : TimeStops(t, limit) /\ last = t - 1
     /\ ~end
  \/ /\ \E e \in ended : EndStops(e, limit) /\ last = SmallerOf(LastOf(e), limit)
     /\ end
  \/ /\ NothingStops(limit) /\ last = limit
     /\ ~end

\* HAS_TIME.
HasTime == consumed + 1 \in timed

-----------------------------------------------------------------------------
\* writeStream() takes some of the elements, and these are consumed.
Written ==
  /\ work = "stream"
  /\ \E limit \in consumed + 1 .. MaxElems, last \in consumed .. MaxElems, end \in BOOLEAN :
       /\ Asks(last, end, limit)
       /\ \E upTo \in consumed + 1 .. last :
            /\ consumed' = upTo
            /\ written' = written \cup
                 {[first |-> consumed + 1, upTo |-> upTo, last |-> last,
                   time |-> HasTime, end |-> end]}
  /\ work' = "idle"
  /\ UNCHANGED <<labels, arrived, packets>>

WriteTimeout ==
  /\ work = "stream"
  /\ consumed < MaxElems
  /\ work' = "idle"
  /\ UNCHANGED <<labels, consumed, arrived, packets, written>>

\* Any other result, 0 included: the elements are dropped.
WriteError ==
  /\ work = "stream"
  /\ \E limit \in consumed + 1 .. MaxElems, last \in consumed .. MaxElems, end \in BOOLEAN :
       /\ Asks(last, end, limit)
       /\ consumed' = last
  /\ work' = "idle"
  /\ UNCHANGED <<labels, arrived, packets, written>>

-----------------------------------------------------------------------------
PacketWork == PacketWritten \/ PacketTimeout \/ PacketError
StreamWork == NoElements \/ Written \/ WriteTimeout \/ WriteError

Next == PacketArrives \/ Work \/ PacketWork \/ StreamWork

Spec == Init /\ [][Next]_vars

\* work() is called again and again, and again and again the device takes
\* the packet, or some of the elements, that it is given.
FairSpec ==
  /\ Spec
  /\ WF_vars(Work)
  /\ WF_vars(PacketWork) /\ SF_vars(PacketWritten)
  /\ WF_vars(StreamWork) /\ SF_vars(Written)

-----------------------------------------------------------------------------
TypeOK ==
  /\ timed \in SUBSET Elems
  /\ ended \in SUBSET Elems
  /\ consumed \in 0..MaxElems
  /\ arrived \in 0..MaxPackets
  /\ packets \in 0..arrived
  /\ work \in {"idle", "packet", "stream"}
  /\ work = "packet" => packets > 0
  /\ written \subseteq [first : Elems, upTo : Elems, last : Elems,
                        time : BOOLEAN, end : BOOLEAN]

\* "txTime - the hardware transmit time for the associated stream element":
\* an element with a time label is written as the first of a call with a
\* time, however the input is cut into buffers and whatever calls were
\* partial or timed out; and no other call has a time.
TimesAreMet ==
  \A w \in written :
    /\ timed \cap (w.first + 1 .. w.upTo) = {}
    /\ w.time = (w.first \in timed)

\* "txEnd - the associated stream element signifies the end of a burst": the
\* last element of an end label is written as the last of a call with
\* END_BURST, and no other call ends a burst.
EndsAreMet ==
  \A w \in written :
    /\ \A e \in ended : LastOf(e) \in w.first .. w.upTo => w.end /\ w.last = LastOf(e)
    /\ w.end => \E e \in ended : w.last = LastOf(e)

\* A label never makes the block ask for nothing, and packets are written
\* although stream elements come between them: all input is used up.
InputIsUsedUp ==
  /\ <>(consumed = MaxElems)
  /\ packets > 0 ~> packets = 0
=============================================================================
