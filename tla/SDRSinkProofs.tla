--------------------------- MODULE SDRSinkProofs ----------------------------
(***************************************************************************)
(* Proofs about SDRSink, for any input: any number of elements, and labels *)
(* anywhere.                                                               *)
(***************************************************************************)
EXTENDS SDRSink, TLAPS

\* What Init says of the labels, which never change.
LabelsOK == \A e \in ended : (e + 1 .. LastOf(e)) \cap (timed \cup ended) = {}

LEMMA TypeInit == Init => TypeOK /\ LabelsOK
BY BoundsAssumption DEF Init, TypeOK, LabelsOK, Elems

\* What a call of writeStream() is asked to write, for the labels of Elems.
LEMMA AsksType ==
  ASSUME TypeOK, NEW limit \in consumed + 1 .. MaxElems, NEW last \in consumed .. MaxElems,
         NEW end \in BOOLEAN, Asks(last, end, limit)
  PROVE  /\ consumed \in Nat /\ limit \in Nat /\ last \in Nat
         /\ last \in 0..MaxElems
         /\ consumed + 1 .. last \subseteq Elems
BY BoundsAssumption DEF TypeOK, Elems

LEMMA TypeStep == TypeOK /\ [Next]_vars => TypeOK'
<1> SUFFICES ASSUME TypeOK, [Next]_vars PROVE TypeOK'
  OBVIOUS
<1> USE BoundsAssumption DEF TypeOK, labels, Elems
<1>1. CASE PacketArrives
  BY <1>1 DEF PacketArrives
<1>2. CASE Work
  BY <1>2 DEF Work
<1>3. CASE PacketWork
  <2>1. /\ UNCHANGED <<timed, ended, consumed, arrived, written>>
        /\ work = "packet" /\ work' \in {"idle", "stream"}
        /\ packets' = packets \/ packets' = packets - 1
    BY <1>3 DEF PacketWork, PacketWritten, PacketTimeout, PacketError
  <2>2. packets' \in 0..arrived
    BY <2>1
  <2> QED
    BY <2>1, <2>2
<1>4. CASE NoElements \/ WriteTimeout
  BY <1>4 DEF NoElements, WriteTimeout
<1>5. CASE Written
  <2> PICK limit \in consumed + 1 .. MaxElems, last \in consumed .. MaxElems, end \in BOOLEAN :
         /\ Asks(last, end, limit)
         /\ \E upTo \in consumed + 1 .. last :
              /\ consumed' = upTo
              /\ written' = written \cup
                   {[first |-> consumed + 1, upTo |-> upTo, last |-> last,
                     time |-> HasTime, end |-> end]}
    BY <1>5 DEF Written
  <2> PICK upTo \in consumed + 1 .. last :
         /\ consumed' = upTo
         /\ written' = written \cup
              {[first |-> consumed + 1, upTo |-> upTo, last |-> last,
                time |-> HasTime, end |-> end]}
    OBVIOUS
  <2>1. consumed + 1 \in Elems /\ upTo \in Elems /\ last \in Elems
    OBVIOUS
  <2>2. HasTime \in BOOLEAN
    BY DEF HasTime
  <2> HIDE DEF Elems
  <2>3. written' \subseteq [first : Elems, upTo : Elems, last : Elems,
                            time : BOOLEAN, end : BOOLEAN]
    BY <2>1, <2>2
  <2>4. consumed' \in 0..MaxElems
    BY <2>1 DEF Elems
  <2> QED
    BY <1>5, <2>3, <2>4 DEF Written
<1>6. CASE WriteError
  BY <1>6 DEF WriteError
<1>7. CASE UNCHANGED vars
  BY <1>7 DEF vars
<1> QED
  BY <1>1, <1>2, <1>3, <1>4, <1>5, <1>6, <1>7 DEF Next, StreamWork

LEMMA LabelsStep == LabelsOK /\ [Next]_vars => LabelsOK'
<1> SUFFICES ASSUME [Next]_vars PROVE UNCHANGED labels
  BY DEF LabelsOK, LastOf, labels
<1> QED
  BY DEF Next, PacketArrives, Work, PacketWork, PacketWritten, PacketTimeout,
     PacketError, StreamWork, NoElements, Written, WriteTimeout, WriteError, vars

\* Type correctness: the elements that are asked for and consumed are ones
\* of the input, and a packet is only looked at when there is one.
THEOREM TypeCorrect == Spec => []TypeOK
<1>1. TypeOK /\ [Next]_vars => TypeOK'
  BY TypeStep
<1> QED
  BY TypeInit, <1>1, PTL DEF Spec

-----------------------------------------------------------------------------
(* The labels of the elements that one call of writeStream() asks for.     *)

LEMMA NoTimeInside ==
  ASSUME TypeOK, LabelsOK,
         NEW limit \in consumed + 1 .. MaxElems, NEW last \in consumed .. MaxElems,
         NEW end \in BOOLEAN, Asks(last, end, limit)
  PROVE  timed \cap (consumed + 2 .. last) = {}
<1> USE AsksType
<1>1. CASE \E t \in timed : TimeStops(t, limit) /\ last = t - 1
  BY <1>1 DEF TimeStops, TypeOK, Elems
<1>2. CASE \E e \in ended : EndStops(e, limit) /\ last = SmallerOf(LastOf(e), limit)
  <2> PICK e \in ended : EndStops(e, limit) /\ last = SmallerOf(LastOf(e), limit)
    BY <1>2
  <2>1. e \in Nat /\ Width \in Nat /\ last <= LastOf(e)
    BY WidthAssumption, BoundsAssumption DEF TypeOK, Elems, SmallerOf, LastOf
  <2>2. \A t \in timed : t \in Nat /\ t \notin consumed + 2 .. e /\ t \notin e + 1 .. LastOf(e)
    BY BoundsAssumption DEF EndStops, LabelsOK, TypeOK, Elems
  <2> QED
    BY <2>1, <2>2, WidthAssumption DEF LastOf
<1>3. CASE NothingStops(limit) /\ last = limit
  BY <1>3 DEF NothingStops
<1> QED
  BY <1>1, <1>2, <1>3 DEF Asks

LEMMA EndIsLast ==
  ASSUME Width = 1, TypeOK,
         NEW limit \in consumed + 1 .. MaxElems, NEW last \in consumed .. MaxElems,
         NEW end \in BOOLEAN, Asks(last, end, limit)
  PROVE  /\ end => last \in ended
         /\ \A e \in ended : e \in consumed + 1 .. last => end /\ e = last
<1> USE AsksType
<1>0. \A e \in ended : e \in Nat /\ LastOf(e) = e
  BY BoundsAssumption DEF TypeOK, Elems, LastOf
<1>1. CASE (\E t \in timed : TimeStops(t, limit) /\ last = t - 1) /\ ~end
  BY <1>0, <1>1 DEF TimeStops
<1>2. CASE (\E e \in ended : EndStops(e, limit) /\ last = SmallerOf(LastOf(e), limit)) /\ end
  <2> PICK e \in ended : EndStops(e, limit) /\ last = SmallerOf(LastOf(e), limit)
    BY <1>2
  <2>1. last = e
    BY <1>0 DEF EndStops, SmallerOf
  <2>2. \A f \in ended : f \in consumed + 1 .. e => f = e
    BY <1>0 DEF EndStops
  <2> QED
    BY <1>2, <2>1, <2>2
<1>3. CASE NothingStops(limit) /\ last = limit /\ ~end
  BY <1>3 DEF NothingStops
<1> QED
  BY <1>1, <1>2, <1>3 DEF Asks

-----------------------------------------------------------------------------
LEMMA TimesStep ==
  ASSUME TypeOK, LabelsOK, TimesAreMet, [Next]_vars
  PROVE  TimesAreMet'
<1>1. CASE Written
  <2> PICK limit \in consumed + 1 .. MaxElems, last \in consumed .. MaxElems, end \in BOOLEAN :
         /\ Asks(last, end, limit)
         /\ \E upTo \in consumed + 1 .. last :
              /\ consumed' = upTo
              /\ written' = written \cup
                   {[first |-> consumed + 1, upTo |-> upTo, last |-> last,
                     time |-> HasTime, end |-> end]}
    BY <1>1 DEF Written
  <2> PICK upTo \in consumed + 1 .. last :
         written' = written \cup
              {[first |-> consumed + 1, upTo |-> upTo, last |-> last,
                time |-> HasTime, end |-> end]}
    OBVIOUS
  <2> DEFINE new == [first |-> consumed + 1, upTo |-> upTo, last |-> last,
                     time |-> HasTime, end |-> end]
  <2>1. timed \cap (consumed + 2 .. last) = {}
    BY NoTimeInside
  <2>2. timed \cap (new.first + 1 .. new.upTo) = {}
    BY <2>1, AsksType
  <2>3. new.time = (new.first \in timed)
    BY DEF HasTime
  <2>4. written' = written \cup {new} /\ timed' = timed
    BY <1>1 DEF Written, labels
  <2> HIDE DEF new
  <2> QED
    BY <2>2, <2>3, <2>4 DEF TimesAreMet
<1>2. CASE ~Written
  <2>1. UNCHANGED <<timed, written>>
    BY <1>2 DEF Next, PacketArrives, Work, PacketWork, PacketWritten, PacketTimeout,
       PacketError, StreamWork, NoElements, WriteTimeout, WriteError, vars, labels
  <2> QED
    BY <2>1 DEF TimesAreMet
<1> QED
  BY <1>1, <1>2

\* Whatever labels an input has, and however it is cut into buffers and
\* partial writes, an element with a time is the first of a call with a time.
THEOREM TimesAreHonoured == Spec => []TimesAreMet
<1>1. Init => TimesAreMet
  BY DEF Init, TimesAreMet
<1>2. TypeOK /\ LabelsOK /\ TimesAreMet /\ [Next]_vars => TimesAreMet'
  BY TimesStep
<1>3. Init => LabelsOK
  BY TypeInit
<1> QED
  BY TypeCorrect, LabelsStep, <1>1, <1>2, <1>3, PTL DEF Spec

-----------------------------------------------------------------------------
LEMMA EndsStep ==
  ASSUME Width = 1, TypeOK, EndsAreMet, [Next]_vars
  PROVE  EndsAreMet'
<1>0. \A e \in ended : LastOf(e) = e
  BY BoundsAssumption DEF TypeOK, Elems, LastOf
<1>1. CASE Written
  <2> PICK limit \in consumed + 1 .. MaxElems, last \in consumed .. MaxElems, end \in BOOLEAN :
         /\ Asks(last, end, limit)
         /\ \E upTo \in consumed + 1 .. last :
              /\ consumed' = upTo
              /\ written' = written \cup
                   {[first |-> consumed + 1, upTo |-> upTo, last |-> last,
                     time |-> HasTime, end |-> end]}
    BY <1>1 DEF Written
  <2> PICK upTo \in consumed + 1 .. last :
         written' = written \cup
              {[first |-> consumed + 1, upTo |-> upTo, last |-> last,
                time |-> HasTime, end |-> end]}
    OBVIOUS
  <2> DEFINE new == [first |-> consumed + 1, upTo |-> upTo, last |-> last,
                     time |-> HasTime, end |-> end]
  <2>1. /\ end => last \in ended
        /\ \A e \in ended : e \in consumed + 1 .. last => end /\ e = last
    BY EndIsLast
  <2>2. \A e \in ended : LastOf(e) \in new.first .. new.upTo => new.end /\ new.last = LastOf(e)
    <3>1. \A e \in ended : e \in consumed + 1 .. upTo => e \in consumed + 1 .. last
      BY AsksType DEF TypeOK, Elems
    <3> QED
      BY <1>0, <2>1, <3>1
  <2>3. new.end => \E e \in ended : new.last = LastOf(e)
    BY <1>0, <2>1
  <2>4. written' = written \cup {new} /\ ended' = ended
    BY <1>1 DEF Written, labels
  <2> HIDE DEF new
  <2> QED
    BY <2>2, <2>3, <2>4 DEF EndsAreMet, LastOf
<1>2. CASE ~Written
  <2>1. UNCHANGED <<ended, written>>
    BY <1>2 DEF Next, PacketArrives, Work, PacketWork, PacketWritten, PacketTimeout,
       PacketError, StreamWork, NoElements, WriteTimeout, WriteError, vars, labels
  <2> QED
    BY <2>1 DEF EndsAreMet, LastOf
<1> QED
  BY <1>1, <1>2

\* With end labels of one element, the usual case, every burst is ended at
\* its last element and nowhere else.
THEOREM EndsAreHonoured ==
  ASSUME Width = 1
  PROVE  Spec => []EndsAreMet
<1>1. Init => EndsAreMet
  BY DEF Init, EndsAreMet
<1>2. TypeOK /\ EndsAreMet /\ [Next]_vars => EndsAreMet'
  BY EndsStep
<1> QED
  BY TypeCorrect, <1>1, <1>2, PTL DEF Spec
=============================================================================
