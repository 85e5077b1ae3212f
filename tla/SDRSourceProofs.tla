-------------------------- MODULE SDRSourceProofs ---------------------------
(***************************************************************************)
(* Proofs about SDRSource, for any number of ports, bounds and transfers.  *)
(***************************************************************************)
EXTENDS SDRSource, TLAPS

LEMMA TypeInit == Init => TypeOK
<1> SUFFICES ASSUME Init PROVE TypeOK
  OBVIOUS
<1> USE PortsAssumption DEF Init, Ports, NoRate
<1>1. 1 \in 1..ports
  OBVIOUS
<1>2. transfer \in [elems : Nat, flags : SUBSET Flags, time : Nat]
  BY DEF Nothing
<1>3. pending \in [Ports -> SUBSET Nat] /\ \A p \in Ports : pending[p] = {}
  OBVIOUS
<1>4. rate \in [Ports -> Nat] /\ label \in [Ports -> Nat]
  OBVIOUS
<1> QED
  BY <1>1, <1>2, <1>3, <1>4 DEF TypeOK

LEMMA TypeStep == TypeOK /\ [Next]_vars => TypeOK'
<1> SUFFICES ASSUME TypeOK, [Next]_vars PROVE TypeOK'
  OBVIOUS
<1> USE PortsAssumption, BoundsAssumption DEF TypeOK, Ports, known, stream, working, setting
<1>1. CASE Activate
  BY <1>1 DEF Activate, Free, Later
<1>2. CASE Deactivate
  BY <1>2 DEF Deactivate, Free
<1>3. CASE Restart
  BY <1>3 DEF Restart, Free, Later
<1>4. CASE ReadOverflow
  BY <1>4 DEF ReadOverflow, Free, Later
<1>5. CASE Read
  <2> PICK n \in 1..MaxTransfer, flags \in SUBSET Flags :
         /\ now + n <= MaxTime
         /\ transfer' = [elems |-> n, flags |-> flags, time |-> now]
         /\ now' \in IF flags \cap {"END_BURST", "END_ABRUPT"} = {}
                     THEN {now + n} ELSE Later(now + n)
         /\ work' = IF ports = 1 /\ "ONE_PACKET" \in flags THEN "packet" ELSE "post"
    BY <1>5 DEF Read
  <2>1. n \in Nat /\ now + n \in Nat
    OBVIOUS
  <2>2. now' \in Nat
    BY <2>1 DEF Later
  <2>3. transfer' \in [elems : Nat, flags : SUBSET Flags, time : Nat]
    BY <2>1
  <2>4. /\ work' \in {"packet", "post"} /\ port' = 1 /\ active
        /\ UNCHANGED <<told, displaced, postTime, active, pending, label,
                      ports, rate, unread, setter, channel, calls>>
    BY <1>5 DEF Read
  <2> QED
    BY <2>2, <2>3, <2>4
<1>6. CASE PostPacket
  BY <1>6 DEF PostPacket, Nothing, Flags
<1>7. CASE NonePending
  BY <1>7 DEF NonePending, NextOutput
<1>8. CASE PostPending
  <2> PICK r \in pending[port] : label' = [label EXCEPT ![port] = r]
    BY <1>8 DEF PostPending
  <2>1. r \in Nat
    OBVIOUS
  <2> QED
    BY <1>8, <2>1 DEF PostPending
<1>9. CASE ClearPending
  <2>1. pending' = [pending EXCEPT ![port] = {}]
    BY <1>9 DEF ClearPending
  <2>2. pending' \in [Ports -> SUBSET Nat]
    BY <2>1
  <2>3. \A p \in Ports : pending'[p] = {} \/ pending'[p] = pending[p]
    BY <2>1
  <2>4. \A p \in Ports : \A q, r \in pending'[p] : q = r
    BY <2>3
  <2>5. work' \in {"post", "label"} /\ port' \in 1..ports /\ work # "idle"
    BY <1>9 DEF ClearPending, NextOutput
  <2>6. UNCHANGED <<now, told, displaced, postTime, active, transfer, label,
                    ports, rate, unread, setter, channel, calls>>
    BY <1>9 DEF ClearPending
  <2> QED
    BY <2>2, <2>4, <2>5, <2>6
<1>10. CASE PostLabels
  <2>1. told' \in Nat
    BY <1>10 DEF PostLabels
  <2> QED
    BY <1>10, <2>1 DEF PostLabels, Nothing, Flags
<1>11. CASE SetSampleRate
  BY <1>11 DEF SetSampleRate, SetterFree
<1>12. CASE SetDeviceRate
  BY <1>12 DEF SetDeviceRate
<1>13. CASE SetPending
  <2>1. pending' = [pending EXCEPT ![channel] = {rate[channel]}]
    BY <1>13 DEF SetPending
  <2>2. pending' \in [Ports -> SUBSET Nat]
    BY <2>1
  <2>3. \A p \in Ports : pending'[p] = {rate[p]} \/ pending'[p] = pending[p]
    BY <2>1
  <2> QED
    BY <1>13, <2>2, <2>3 DEF SetPending
<1>14. CASE UNCHANGED vars
  BY <1>14 DEF vars
<1>15. CASE RateThrows
  BY <1>15 DEF RateThrows
<1>16. CASE ReadBackThrows
  <2>1. pending' \in [Ports -> SUBSET Nat]
    BY <1>16 DEF ReadBackThrows, NoRate
  <2>2. \A p \in Ports : pending'[p] = {NoRate} \/ pending'[p] = pending[p]
    BY <1>16 DEF ReadBackThrows
  <2>3. \A p \in Ports : \A q, r \in pending'[p] : q = r
    BY <2>2
  <2> QED
    BY <1>16, <2>1, <2>3 DEF ReadBackThrows
<1> QED
  BY <1>1, <1>2, <1>3, <1>4, <1>5, <1>6, <1>7, <1>8, <1>9, <1>10, <1>11, <1>12,
     <1>13, <1>14, <1>15, <1>16 DEF Next, Stream, Work, Setter

\* Type correctness: every transfer that is passed on belongs to an active
\* block, and the loops over outputs and channels stay within them.
THEOREM TypeCorrect == Spec => []TypeOK
<1>1. TypeOK /\ [Next]_vars => TypeOK'
  BY TypeStep
<1> QED
  BY TypeInit, <1>1, PTL DEF Spec

-----------------------------------------------------------------------------
(* TimeIsKnown. While no time label is due, the reader's count is the      *)
(* device's time at the start of the transfer that is being passed on; a   *)
(* transfer after which the next elements do not follow has a flag that    *)
(* makes a time label due when it was passed on. A packet displaces the    *)
(* stream when it is posted.                                               *)

Ended == transfer.flags \cap {"END_BURST", "END_ABRUPT"} # {}

TimeInv ==
  /\ work # "idle" => Ended \/ now = transfer.time + transfer.elems
  /\ active /\ ~postTime /\ ~displaced =>
       told = IF work = "idle" THEN now ELSE transfer.time

LEMMA TimeInit == Init => TimeInv
BY DEF Init, TimeInv

LEMMA TimeStep ==
  ASSUME TypeOK, TimeInv, [Next]_vars
  PROVE  TimeInv'
<1> USE PortsAssumption, BoundsAssumption DEF known, stream, working, setting
<1>1. CASE Activate
  BY <1>1 DEF Activate, Free, TimeInv
<1>2. CASE Deactivate
  BY <1>2 DEF Deactivate, Free, TimeInv
<1>3. CASE ReadOverflow
  BY <1>3 DEF ReadOverflow, Free, TimeInv
<1>4. CASE Read
  <2> PICK n \in 1..MaxTransfer, flags \in SUBSET Flags :
         /\ now + n <= MaxTime
         /\ transfer' = [elems |-> n, flags |-> flags, time |-> now]
         /\ now' \in IF flags \cap {"END_BURST", "END_ABRUPT"} = {}
                     THEN {now + n} ELSE Later(now + n)
         /\ work' = IF ports = 1 /\ "ONE_PACKET" \in flags THEN "packet" ELSE "post"
    BY <1>4 DEF Read
  <2>1. transfer'.flags = flags /\ transfer'.time = now /\ transfer'.elems = n
    OBVIOUS
  <2>2. Ended' \/ now' = now + n
    BY <2>1 DEF Ended
  <2>3. work = "idle" /\ postTime' = postTime /\ told' = told /\ active' = active
        /\ displaced' = displaced /\ ports' = ports
    BY <1>4 DEF Read, Free
  <2>4. work' # "idle"
    OBVIOUS
  <2>5. active /\ ~postTime /\ ~displaced => told = now
    BY <2>3 DEF TimeInv
  <2> QED
    BY <2>1, <2>2, <2>3, <2>4, <2>5 DEF TimeInv
<1>5. CASE PostPacket
  BY <1>5 DEF PostPacket, TimeInv
<1>6. CASE NonePending
  BY <1>6 DEF NonePending, NextOutput, TimeInv, Ended
<1>7. CASE PostPending
  BY <1>7 DEF PostPending, TimeInv, Ended
<1>8. CASE ClearPending
  BY <1>8 DEF ClearPending, NextOutput, TimeInv, Ended
<1>9. CASE PostLabels
  <2> DEFINE post == postTime /\ "HAS_TIME" \in transfer.flags
  <2>1. /\ work = "label" /\ work' = "idle"
        /\ now' = now /\ active' = active /\ ports' = ports
        /\ postTime' = (Ended \/ (postTime /\ ~post))
        /\ displaced' = (displaced /\ ~post)
        /\ told' = (IF post THEN transfer.time ELSE told) + transfer.elems
    BY <1>9 DEF PostLabels, Ended
  <2>2. /\ now \in Nat /\ told \in Nat
        /\ transfer.time \in Nat /\ transfer.elems \in Nat
    BY DEF TypeOK
  <2>3. ASSUME active', ~postTime', ~displaced'
        PROVE  told' = now'
    <3>1. now = transfer.time + transfer.elems
      BY <2>1, <2>3 DEF TimeInv
    <3>2. (IF post THEN transfer.time ELSE told) = transfer.time
      BY <2>1, <2>3 DEF TimeInv
    <3> QED
      BY <2>1, <3>1, <3>2
  <2> QED
    BY <2>1, <2>3 DEF TimeInv
<1>10. CASE Setter \/ UNCHANGED vars
  <2>1. UNCHANGED <<ports, now, told, displaced, postTime, active, work, transfer>>
    BY <1>10 DEF Setter, SetSampleRate, SetDeviceRate, SetPending, RateThrows, ReadBackThrows, vars
  <2> QED
    BY <2>1 DEF TimeInv, Ended
<1>11. CASE Restart
  BY <1>11 DEF Restart, Free, TimeInv
<1> QED
  BY <1>1, <1>2, <1>3, <1>4, <1>5, <1>6, <1>7, <1>8, <1>9, <1>10, <1>11
     DEF Next, Stream, Work

\* As long as neither streamControl() nor a packet has displaced the stream,
\* whoever counts elements from the last rxTime label is right about their
\* time, unless the next transfer with a time is about to bring a label.
THEOREM TimeStaysKnown == Spec => []TimeIsKnown
<1>1. TypeOK /\ TimeInv /\ [Next]_vars => TimeInv'
  BY TimeStep
<1>2. TimeInv => TimeIsKnown
  BY DEF TimeInv, TimeIsKnown
<1> QED
  BY TypeCorrect, TimeInit, <1>1, <1>2, PTL DEF Spec

-----------------------------------------------------------------------------
(* RateIsTold. Between calls of work() and setSampleRate() a rate is on    *)
(* its output or pending. That need not hold of the channel that           *)
(* setSampleRate() is at, nor of one whose rate was not read back; during  *)
(* work() the label of the output it is at is both posted and pending.     *)

Settled(p) ==
  \/ pending[p] = {rate[p]}
  \/ pending[p] = {} /\ rate[p] = label[p]

RateInv ==
  /\ setter # "idle" => work = "idle"
  /\ \A p \in Ports : (setter = "label" /\ p = channel) \/ p \in unread \/ Settled(p)
  /\ work = "clear" => port \in unread \/ rate[port] = label[port]

LEMMA RateInit == Init => RateInv
BY DEF Init, RateInv, Settled

LEMMA RateStep ==
  ASSUME ~Background, TypeOK, RateInv, [Next]_vars
  PROVE  RateInv'
<1> USE DEF known, stream, working, setting
<1>0. port \in Ports /\ channel \in Ports /\ Ports' = Ports
  BY PortsAssumption DEF TypeOK, Ports
<1>1. CASE Stream \/ ReadOverflow \/ Read \/ UNCHANGED vars
  <2>1. UNCHANGED <<rate, unread, label, pending, setter, channel>>
    BY <1>1 DEF Stream, Activate, Deactivate, Restart, ReadOverflow, Read, vars
  <2>2. setter = "idle" \/ work' = work
    BY <1>1 DEF Stream, Activate, Deactivate, Restart, ReadOverflow, Read, vars, Free
  <2>3. work' # "clear" \/ UNCHANGED <<work, port>>
    BY <1>1 DEF Stream, Activate, Deactivate, Restart, ReadOverflow, Read, vars
  <2> QED
    BY <2>1, <2>2, <2>3 DEF RateInv, Settled
<1>2. CASE PostPacket \/ NonePending \/ PostLabels
  BY <1>2 DEF PostPacket, NonePending, NextOutput, PostLabels, RateInv, Settled
<1>3. CASE PostPending
  <2> PICK r \in pending[port] : label' = [label EXCEPT ![port] = r]
    BY <1>3 DEF PostPending
  <2>1. /\ work' = "clear" /\ setter = "idle" /\ port \in Ports
        /\ UNCHANGED <<rate, unread, pending, port, setter, channel>>
    BY <1>0, <1>3 DEF PostPending, RateInv
  <2>2. \A p \in Ports : label'[p] = IF p = port THEN r ELSE label[p]
    BY <2>1 DEF TypeOK
  <2>3. \A p \in Ports : p \in unread \/ Settled(p)
    BY <2>1 DEF RateInv
  <2>4. port \in unread \/ r = rate[port]
    BY <2>1, <2>3 DEF Settled
  <2> QED
    BY <2>1, <2>2, <2>4 DEF RateInv, Settled
<1>4. CASE ClearPending
  <2>1. /\ pending' = [pending EXCEPT ![port] = {}] /\ work = "clear"
        /\ UNCHANGED <<rate, unread, label, setter, channel>> /\ work' # "clear"
    BY <1>4 DEF ClearPending, NextOutput
  <2>2. \A p \in Ports : p # port => pending'[p] = pending[p]
    BY <2>1 DEF TypeOK
  <2> QED
    BY <2>1, <2>2 DEF RateInv, Settled
<1>5. CASE SetSampleRate
  BY <1>5 DEF SetSampleRate, SetterFree, RateInv, Settled
<1>6. CASE SetDeviceRate
  BY <1>0, <1>6 DEF SetDeviceRate, RateInv, Settled, TypeOK
<1>7. CASE SetPending
  BY <1>0, <1>7 DEF SetPending, RateInv, Settled, TypeOK
<1>8. CASE RateThrows
  BY <1>8 DEF RateThrows, RateInv, Settled
<1>9. CASE ReadBackThrows
  BY <1>0, <1>9 DEF ReadBackThrows, RateInv, Settled, TypeOK
<1> QED
  BY <1>1, <1>2, <1>3, <1>4, <1>5, <1>6, <1>7, <1>8, <1>9 DEF Next, Work, Setter

\* With synchronous calls no sample rate that the device told is lost between
\* setSampleRate() and the labels of work(), on any number of outputs, and
\* wherever the calls of the device throw.
THEOREM RatesAreTold ==
  ASSUME ~Background
  PROVE  Spec => []RateIsTold
<1>1. TypeOK /\ RateInv /\ [Next]_vars => RateInv'
  BY RateStep
<1>2. RateInv => RateIsTold
  BY DEF RateInv, RateIsTold, Settled
<1> QED
  BY TypeCorrect, RateInit, <1>1, <1>2, PTL DEF Spec
-----------------------------------------------------------------------------
(* LabelsAccompanyElements. Behind the output that work() is at, and on    *)
(* outputs that the block has not, nothing is pending, so that nothing is  *)
(* when the loop over the outputs is over.                                 *)

Done(p) ==
  \/ p \notin 1..ports
  \/ work \in {"post", "clear"} /\ p < port
  \/ work = "label"

LabelInv == \A p \in Ports : Done(p) => pending[p] = {}

LEMMA LabelStep ==
  ASSUME ~Background, TypeOK, RateInv, LabelInv, [Next]_vars
  PROVE  LabelInv'
<1> USE DEF known, stream, working, setting
<1>0. /\ port \in 1..ports /\ channel \in 1..ports /\ ports \in Nat
      /\ Ports' = Ports /\ \A p \in Ports : p \in Nat /\ p >= 1
  BY PortsAssumption DEF TypeOK, Ports
<1>1. CASE Stream \/ ReadOverflow \/ PostPacket \/ PostPending \/ PostLabels \/ UNCHANGED vars
  <2>1. UNCHANGED <<pending, ports>>
    BY <1>1 DEF Stream, Activate, Deactivate, Restart, ReadOverflow, PostPacket, PostPending,
                PostLabels, vars
  <2>2. \/ work' = "idle"
        \/ UNCHANGED <<work, port>>
        \/ work = "post" /\ work' = "clear" /\ port' = port
    BY <1>1 DEF Stream, Activate, Deactivate, Restart, ReadOverflow, PostPacket, PostPending,
                PostLabels, vars
  <2> QED
    BY <1>0, <2>1, <2>2 DEF LabelInv, Done
<1>2. CASE Read
  <2>1. UNCHANGED <<pending, ports>> /\ port' = 1 /\ work' \in {"packet", "post"}
    BY <1>2 DEF Read
  <2> QED
    BY <1>0, <2>1 DEF LabelInv, Done
<1>3. CASE NonePending \/ ClearPending
  <2>1. /\ NextOutput /\ ports' = ports /\ work \in {"post", "clear"}
        /\ \A p \in Ports : pending'[p] = IF p = port THEN {} ELSE pending[p]
    BY <1>0, <1>3 DEF NonePending, ClearPending, TypeOK
  <2>2. ASSUME NEW p \in Ports, Done(p)' PROVE pending'[p] = {}
    <3>1. p = port \/ Done(p)
      <4>1. CASE port = ports
        BY <1>0, <2>1, <2>2, <4>1 DEF NextOutput, Done
      <4>2. CASE port # ports
        BY <1>0, <2>1, <2>2, <4>2 DEF NextOutput, Done
      <4> QED
        BY <4>1, <4>2
    <3> QED
      BY <2>1, <3>1 DEF LabelInv
  <2> QED
    BY <1>0, <2>2 DEF LabelInv
<1>4. CASE SetSampleRate \/ SetDeviceRate \/ RateThrows
  BY <1>0, <1>4 DEF SetSampleRate, SetDeviceRate, RateThrows, LabelInv, Done
<1>5. CASE SetPending \/ ReadBackThrows
  <2>1. /\ work = "idle" /\ UNCHANGED <<work, ports>>
        /\ \A p \in Ports : p # channel => pending'[p] = pending[p]
    BY <1>5 DEF SetPending, ReadBackThrows, RateInv, TypeOK
  <2> QED
    BY <1>0, <2>1 DEF LabelInv, Done
<1> QED
  BY <1>1, <1>2, <1>3, <1>4, <1>5 DEF Next, Work, Setter

\* With synchronous calls, whenever work() has passed a transfer of the stream
\* on, every output was told the sample rate of its channel before it, but for
\* the channels whose rate the device did not tell.
THEOREM RatesAccompanyElements ==
  ASSUME ~Background
  PROVE  Spec => LabelsAccompanyElements
<1>1. Init => LabelInv
  BY DEF Init, LabelInv
<1>2. TypeOK /\ RateInv /\ [Next]_vars => RateInv'
  BY RateStep
<1>3. TypeOK /\ RateInv /\ LabelInv /\ [Next]_vars => LabelInv'
  BY LabelStep
<1>4. TypeOK /\ RateInv /\ LabelInv /\ [Next]_vars =>
        [work = "label" /\ work' = "idle" =>
           \A p \in Ports \ unread : rate[p] = label'[p]]_vars
  <2> SUFFICES ASSUME TypeOK, RateInv, LabelInv, Next, work = "label", work' = "idle",
                      NEW p \in Ports \ unread
               PROVE  rate[p] = label'[p]
    OBVIOUS
  <2>1. Settled(p) /\ pending[p] = {} /\ setter = "idle"
    BY DEF RateInv, LabelInv, Done
  <2>2. label' = label
    BY <2>1 DEF Next, Stream, Activate, Deactivate, Restart, Free, Work, ReadOverflow, Read,
      PostPacket, NonePending, PostPending, ClearPending, PostLabels, Setter, SetSampleRate,
      SetDeviceRate, SetPending, RateThrows, ReadBackThrows, setting
  <2> QED
    BY <2>1, <2>2 DEF Settled
<1> QED
  BY TypeCorrect, RateInit, <1>1, <1>2, <1>3, <1>4, PTL DEF Spec, LabelsAccompanyElements
=============================================================================
