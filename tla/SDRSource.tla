----------------------------- MODULE SDRSource ------------------------------
(***************************************************************************)
(* The receiving block (SoapySource.cpp): work() reads a transfer from the *)
(* device, passes it on and posts labels; setSampleRate() (SoapyBlock.cpp) *)
(* changes the device and leaves a label for work() to post.               *)
(*                                                                         *)
(* Elements have no values. An element is known by its hardware time, in   *)
(* samples: told is the time a reader of the stream computes for its next  *)
(* element by counting from the last rxTime label, and now the time the    *)
(* device will take it at. Packets leave the block beside the stream.      *)
(***************************************************************************)
EXTENDS Naturals

CONSTANTS
  NumPorts,     \* the channels of a block, at most
  Background,   \* setSampleRate() is made by the evaluation thread
  MaxTransfer,  \* the elements of a transfer, at most
  MaxTime,      \* bound on the hardware time
  MaxRate       \* bound: how often setSampleRate() is called

ASSUME PortsAssumption == NumPorts \in Nat \ {0}
ASSUME BackgroundAssumption == Background \in BOOLEAN
ASSUME BoundsAssumption == {MaxTransfer, MaxTime, MaxRate} \subseteq Nat

VARIABLES
  ports,        \* _channels.size()
  now, told, postTime, active,
  displaced,    \* history: since the last rxTime label, streamControl()
                \* displaced the stream or a packet was taken out of it
  work,         \* where work() is
  transfer,     \* what readStream() returned: elements, flags, time
  port,         \* the output work() is at
  pending,      \* _pendingLabels[i]["rxRate"], the empty set for no label
  rate,         \* the sample rate of each channel, by the number of the call
  unread,       \* history: the channels whose rate was last set by a call that
                \* threw when it read the rate back
  label,        \* history: the last rxRate label on each output
  setter,       \* where setSampleRate() is
  channel,      \* the channel it is at
  calls         \* how often it was called

vars == <<ports, now, told, postTime, active, displaced, work, transfer, port, pending, rate,
          unread, label, setter, channel, calls>>
known == <<told, displaced>>
stream == <<now, known, postTime, active>>
working == <<work, transfer, port>>
setting == <<ports, rate, unread, setter, channel, calls>>

Ports == 1..NumPorts
Flags == {"HAS_TIME", "END_BURST", "END_ABRUPT", "ONE_PACKET"}
NoRate == 0
Nothing == [elems |-> 0, flags |-> {}, time |-> 0]

Init ==
  /\ ports \in Ports
  /\ now = 0 /\ told = 0 /\ displaced = FALSE
  /\ postTime = FALSE
  /\ active = FALSE
  /\ work = "idle"
  /\ transfer = Nothing
  /\ port = 1
  /\ pending = [p \in Ports |-> {}]
  /\ rate = [p \in Ports |-> NoRate]
  /\ unread = {}
  /\ label = [p \in Ports |-> NoRate]
  /\ setter = "idle"
  /\ channel = 1
  /\ calls = 0

Later(t) == t..MaxTime

\* The framework makes one call of the block at a time.
Free == work = "idle" /\ (Background \/ setter = "idle")

-----------------------------------------------------------------------------
\* activate() starts the stream at some time and asks for that time.
Activate ==
  /\ Free
  /\ ~active
  /\ active' = TRUE
  /\ now' \in Later(now)
  /\ postTime' = TRUE
  /\ UNCHANGED <<known, working, pending, label, setting>>

Deactivate ==
  /\ Free
  /\ active
  /\ active' = FALSE
  /\ UNCHANGED <<now, known, postTime, working, pending, label, setting>>

\* streamControl("DEACTIVATE"), and later streamControl("ACTIVATE").
Restart ==
  /\ Free
  /\ active
  /\ now' \in Later(now)
  /\ displaced' = TRUE
  /\ UNCHANGED <<told, postTime, active, working, pending, label, setting>>

-----------------------------------------------------------------------------
(* work(). Nothing changes when there is no room in the outputs, when both *)
(* reads time out, and when an error is thrown.                            *)

\* Samples were lost.
ReadOverflow ==
  /\ Free
  /\ active
  /\ now' \in Later(now)
  /\ postTime' = TRUE
  /\ UNCHANGED <<known, active, working, pending, label, setting>>

\* Elements arrive in the first read, which does not wait, or in the second.
\* After the end of a burst, or an abrupt end, the next come any time later.
\* Each transfer of a block with one output may be a packet.
Read ==
  /\ Free
  /\ active
  /\ \E n \in 1..MaxTransfer, flags \in SUBSET Flags :
       /\ now + n <= MaxTime
       /\ transfer' = [elems |-> n, flags |-> flags, time |-> now]
       /\ now' \in IF flags \cap {"END_BURST", "END_ABRUPT"} = {}
                   THEN {now + n} ELSE Later(now + n)
       /\ work' = IF ports = 1 /\ "ONE_PACKET" \in flags THEN "packet" ELSE "post"
  /\ port' = 1
  /\ UNCHANGED <<known, postTime, active, pending, label, setting>>

\* Faulty: a packet drops the labels that are pending.
FaultyPostPacket ==
  /\ work = "packet"
  /\ work' = "idle"
  /\ transfer' = Nothing
  /\ displaced' = TRUE
  /\ pending' = [p \in Ports |-> {}]
  /\ UNCHANGED <<now, told, postTime, active, port, label, setting>>

\* A packet carries its own time. It leaves the labels of the stream alone,
\* and whatever its flags are, work() is not asked for the time behind it.
PostPacket ==
  /\ work = "packet"
  /\ work' = "idle"
  /\ transfer' = Nothing
  /\ displaced' = TRUE
  /\ UNCHANGED <<now, told, postTime, active, port, pending, label, setting>>

\* The loop over the outputs: a pending label is posted, then cleared.
NextOutput ==
  /\ work' = IF port = ports THEN "label" ELSE "post"
  /\ port' = IF port = ports THEN 1 ELSE port + 1

NonePending ==
  /\ work = "post"
  /\ pending[port] = {}
  /\ NextOutput
  /\ UNCHANGED <<stream, transfer, pending, label, setting>>

\* Faulty: the first output alone has labels.
FaultyPostPending ==
  /\ work = "post"
  /\ work' = "clear"
  /\ \E r \in pending[port] : label' = [label EXCEPT ![1] = r]
  /\ UNCHANGED <<stream, transfer, port, pending, setting>>

PostPending ==
  /\ work = "post"
  /\ work' = "clear"
  /\ \E r \in pending[port] : label' = [label EXCEPT ![port] = r]
  /\ UNCHANGED <<stream, transfer, port, pending, setting>>

\* Faulty: the loop goes one output too far.
FaultyClearPending ==
  /\ work = "clear"
  /\ work' = IF port > ports THEN "label" ELSE "post"
  /\ port' = IF port > ports THEN 1 ELSE port + 1
  /\ pending' = [pending EXCEPT ![port] = {}]
  /\ UNCHANGED <<stream, transfer, label, setting>>

ClearPending ==
  /\ work = "clear"
  /\ NextOutput
  /\ pending' = [pending EXCEPT ![port] = {}]
  /\ UNCHANGED <<stream, transfer, label, setting>>

\* Faulty: the end of a burst is tested for before the time is posted.
FaultyPostLabels ==
  /\ work = "label"
  /\ LET ended == transfer.flags \cap {"END_BURST", "END_ABRUPT"} # {}
         post == (postTime \/ ended) /\ "HAS_TIME" \in transfer.flags
     IN /\ told' = (IF post THEN transfer.time ELSE told) + transfer.elems
        /\ postTime' = ((postTime \/ ended) /\ ~post)
        /\ displaced' = (displaced /\ ~post)
  /\ work' = "idle"
  /\ transfer' = Nothing
  /\ UNCHANGED <<now, active, port, pending, label, setting>>

\* rxTime is posted once after each discontinuity; the end of a burst, or an
\* abrupt end, asks for it again.
PostLabels ==
  /\ work = "label"
  /\ LET post == postTime /\ "HAS_TIME" \in transfer.flags
         ended == transfer.flags \cap {"END_BURST", "END_ABRUPT"} # {}
     IN /\ told' = (IF post THEN transfer.time ELSE told) + transfer.elems
        /\ postTime' = (ended \/ (postTime /\ ~post))
        /\ displaced' = (displaced /\ ~post)
  /\ work' = "idle"
  /\ transfer' = Nothing
  /\ UNCHANGED <<now, active, port, pending, label, setting>>

-----------------------------------------------------------------------------
(* setSampleRate(): for each channel, the device is set and then asked for *)
(* the rate it has, for the label. Either call may throw and end the call. *)

SetterFree == Background \/ work = "idle"

SetSampleRate ==
  /\ SetterFree
  /\ setter = "idle"
  /\ calls < MaxRate
  /\ calls' = calls + 1
  /\ setter' = "device"
  /\ channel' = 1
  /\ UNCHANGED <<stream, working, ports, pending, rate, unread, label>>

SetDeviceRate ==
  /\ setter = "device"
  /\ rate' = [rate EXCEPT ![channel] = calls]
  /\ setter' = "label"
  /\ UNCHANGED <<stream, working, ports, pending, unread, label, channel, calls>>

SetPending ==
  /\ setter = "label"
  /\ pending' = [pending EXCEPT ![channel] = {rate[channel]}]
  /\ unread' = unread \ {channel}
  /\ setter' = IF channel = ports THEN "idle" ELSE "device"
  /\ channel' = IF channel = ports THEN 1 ELSE channel + 1
  /\ UNCHANGED <<stream, working, ports, rate, label, calls>>

\* The device refuses the rate.
RateThrows ==
  /\ setter = "device"
  /\ setter' = "idle"
  /\ channel' = 1
  /\ UNCHANGED <<stream, working, ports, pending, rate, unread, label, calls>>

\* The device does not tell which rate it has now. Where the compiler looks up
\* the label first, that leaves one without a rate if there was none.
ReadBackThrows ==
  /\ setter = "label"
  /\ \/ UNCHANGED pending
     \/ pending[channel] = {} /\ pending' = [pending EXCEPT ![channel] = {NoRate}]
  /\ unread' = unread \cup {channel}
  /\ setter' = "idle"
  /\ channel' = 1
  /\ UNCHANGED <<stream, working, ports, rate, label, calls>>

-----------------------------------------------------------------------------
Stream == Activate \/ Deactivate \/ Restart
Work == \/ ReadOverflow \/ Read \/ PostPacket
        \/ NonePending \/ PostPending \/ ClearPending \/ PostLabels
Setter == SetSampleRate \/ SetDeviceRate \/ SetPending \/ RateThrows \/ ReadBackThrows

Next == Stream \/ Work \/ Setter

Spec == Init /\ [][Next]_vars

-----------------------------------------------------------------------------
TypeOK ==
  /\ ports \in Ports
  /\ now \in Nat /\ told \in Nat
  /\ {postTime, active, displaced} \subseteq BOOLEAN
  /\ work \in {"idle", "packet", "post", "clear", "label"}
  /\ transfer \in [elems : Nat, flags : SUBSET Flags, time : Nat]
  /\ work = "idle" => transfer = Nothing
  /\ work # "idle" => active
  /\ port \in 1..ports
  /\ pending \in [Ports -> SUBSET Nat]
  /\ \A p \in Ports : \A q, r \in pending[p] : q = r
  /\ rate \in [Ports -> Nat]
  /\ unread \subseteq Ports
  /\ label \in [Ports -> Nat]
  /\ setter \in {"idle", "device", "label"}
  /\ channel \in 1..ports
  /\ calls \in Nat

\* "discontinuity means repost time": unless a time label is due, a reader of
\* the stream that counts elements from the last one knows the time of the
\* next, through overflows, ends of bursts and transfers without a time. What
\* streamControl() or a packet takes out of the stream asks for no label.
TimeIsKnown ==
  work = "idle" /\ active /\ ~postTime /\ ~displaced => told = now

\* Between calls each output was told the sample rate of its channel, or is
\* about to be: no rate that the device told is lost between setSampleRate(),
\* wherever it throws, and work(), through packets and outputs in turn.
RateIsTold ==
  work = "idle" /\ setter = "idle" =>
    \A p \in Ports \ unread : rate[p] = label[p] \/ pending[p] = {rate[p]}

\* "rxRate - the sample rate of the channel [of] the last call to
\* setSampleRate()": when a transfer of the stream was passed on, its outputs
\* were told the rate, unless the device did not tell it.
LabelsAccompanyElements ==
  [][work = "label" /\ work' = "idle" =>
       \A p \in Ports \ unread : rate[p] = label'[p]]_vars
=============================================================================
