--------------------------- MODULE ChannelSetters ---------------------------
(***************************************************************************)
(* The setters of the device and its channels (SoapyBlock.cpp): one value  *)
(* for all channels, a list, a map or a list of maps of values, or a value *)
(* of one channel; the tune arguments they remember and the labels they    *)
(* leave for work().                                                       *)
(*                                                                         *)
(* A call is a sequence of writes to the device, and the device may throw  *)
(* at each. Settings share no state: a behaviour makes calls of one kind   *)
(* of setting, chosen at its start.                                        *)
(***************************************************************************)
EXTENDS Naturals, SequencesExt

CONSTANTS
  Channels,       \* _channels: the device's channel of each of the block's
  DeviceChannels, \* the channels of the device
  Values,         \* the values of a setting, and
  Empty,          \* the one that stands for no setting: "" or 0.0
  Keys,           \* the keys of settings, as a sorted sequence
  Elements,       \* the gain elements or tunable components, sorted
  Whole,          \* a setting without a key
  TuneArgs,       \* tune arguments, and
  NoArgs          \* the empty ones

ASSUME ChannelsAssumption == Channels \in Seq(DeviceChannels) /\ Len(Channels) > 0
ASSUME DeviceAssumption == DeviceChannels \subseteq Nat \ {0}
ASSUME ValuesAssumption == Empty \in Values /\ NoArgs \in TuneArgs
ASSUME NamesAssumption ==
  /\ Keys \in Seq(ToSet(Keys)) /\ Len(Keys) > 0
  /\ Elements \in Seq(ToSet(Elements))

VARIABLES
  setting,    \* what is set
  value,      \* what was last written to each place of the device, and
  tunedWith,  \* the arguments of the last tune of each channel
  tuneArgs,   \* _cachedTuneArgs
  rxFreq,     \* the last _pendingLabels[chan]["rxFreq"]
  rest,       \* the writes that the current call has still to make
  args,       \* its tune arguments
  wanted,     \* history: the value that was last asked for, by place
  failed,     \* history: the channels that the device last refused to tune
  unlabelled  \* history: the channels whose last tune left no label

device == <<value, tunedWith>>
tuning == <<tuneArgs, rxFreq, unlabelled>>
vars == <<setting, device, tuning, rest, args, wanted, failed>>

Ports == DOMAIN Channels

\* The block's channels are counted from 1; what is not of a channel is at 0.
Block == 0
Names == {Whole} \cup ToSet(Keys) \cup ToSet(Elements)
Places == (Ports \cup {Block}) \X Names

\* The place of the device behind a place of the block.
Mapped(p) == IF p[1] = Block THEN p ELSE <<Channels[p[1]], p[2]>>
DevicePlaces == (DeviceChannels \cup {Block}) \X Names

\* Of channels: frequencies; bandwidths, and antennas like them; gains; modes
\* and offsets; settings. Of the device: settings and hardware times; clock
\* and time sources and the clock rate; the frontend map; GPIO; the log level.
ChannelSettings == {"frequency", "bandwidth", "gain", "mode", "setting"}
Settings == ChannelSettings \cup {"global", "clock", "frontend", "gpio", "log"}

Init ==
  /\ setting \in Settings
  /\ value = [p \in DevicePlaces |-> Empty]
  /\ tunedWith = [c \in DeviceChannels |-> NoArgs]
  /\ tuneArgs = [i \in Ports |-> NoArgs]
  /\ rxFreq = [i \in Ports |-> Empty]
  /\ rest = <<>>
  /\ args = NoArgs
  /\ wanted = [p \in Places |-> Empty]
  /\ failed = {}
  /\ unlabelled = {}

-----------------------------------------------------------------------------
(* The writes of a call. Lists may be shorter or longer than Channels, and *)
(* maps are walked in the order of their keys.                             *)

Write(i, name, v) == [chan |-> i, name |-> name, value |-> v]

One(i, name, v) == <<Write(i, name, v)>>
All(name, v) == [i \in Ports |-> Write(i, name, v)]
Each(i, map, names) ==
  FlattenSeq([n \in DOMAIN names |->
    IF names[n] \in DOMAIN map THEN One(i, names[n], map[names[n]]) ELSE <<>>])

Lengths == 1 .. Len(Channels) + 1
Lists(S) == UNION {[1..n -> S] : n \in Lengths}
Maps(names) == UNION {[S -> Values] : S \in SUBSET ToSet(names)}

AllOrList ==
  {All(Whole, v) : v \in Values}
    \cup {[i \in DOMAIN vs |-> Write(i, Whole, vs[i])] : vs \in Lists(Values)}
Single(names) == {One(i, name, v) : i \in Lengths, name \in names, v \in Values}

\* A write that throws at once: of a channel the block has not, or of a GPIO
\* bank without a name.
Refused == Write(Len(Channels) + 1, Whole, Empty)

-----------------------------------------------------------------------------
(* The calls.                                                              *)

Ignored(w) == setting \in {"bandwidth", "clock", "frontend"} /\ w.value = Empty
IsRefused(w) == w.chan \notin Ports \cup {Block}

\* A tune of a component changes the frequency of its channel, too.
Written(w) ==
  {w.chan} \X (IF setting = "frequency" THEN {w.name, Whole} ELSE {w.name})

\* The places that writes are about.
About(writes) ==
  UNION {Written(w) : w \in {w \in ToSet(writes) : ~IsRefused(w) /\ ~Ignored(w)}}

LastOf(writes, p) ==
  LET about == {n \in DOMAIN writes : ~Ignored(writes[n]) /\ p \in Written(writes[n])}
  IN writes[CHOOSE n \in about : \A m \in about : m <= n].value

Begin(writes, tune) ==
  /\ rest = <<>>
  /\ rest' = writes
  /\ args' = IF writes = <<>> THEN NoArgs ELSE tune
  /\ wanted' = [p \in Places |-> IF p \in About(writes) THEN LastOf(writes, p) ELSE wanted[p]]
  /\ UNCHANGED <<setting, device, tuning, failed>>

\* setFrequency() and setFrequencies() without arguments take those of the
\* first channel.
SetFrequency ==
  /\ setting = "frequency"
  /\ \E writes \in AllOrList : Begin(writes, tuneArgs[1])

SetFrequencyArgs ==
  /\ setting = "frequency"
  /\ \E writes \in AllOrList \cup Single({Whole}), tune \in TuneArgs : Begin(writes, tune)

ArgsOf(i) == IF i \in Ports THEN tuneArgs[i] ELSE NoArgs

\* setFrequencyChan() takes those of its channel.
SetFrequencyChan ==
  /\ setting = "frequency"
  /\ \E writes \in Single({Whole}) : Begin(writes, ArgsOf(writes[1].chan))

\* setFrequencyName() and setFrequencyNameArgs().
SetFrequencyName ==
  /\ setting = "frequency"
  /\ \E writes \in Single(ToSet(Elements)) :
       \E tune \in TuneArgs \cup {ArgsOf(writes[1].chan)} : Begin(writes, tune)

SetBandwidth ==
  /\ setting \in {"bandwidth", "mode"}
  /\ \E writes \in AllOrList \cup Single({Whole}) : Begin(writes, NoArgs)

\* setGain(), setGainChan(), setGainName(), setGainMap() and setGainChanMap().
SetGain ==
  /\ setting = "gain"
  /\ \/ \E v \in Values : Begin(All(Whole, v), NoArgs)
     \/ \E writes \in Single({Whole} \cup ToSet(Elements)) : Begin(writes, NoArgs)
     \/ \E map \in Maps(Elements) :
          \/ Begin(FlattenSeq([i \in Ports |-> Each(i, map, Elements)]), NoArgs)
          \/ \E i \in Lengths : Begin(Each(i, map, Elements), NoArgs)

\* A list of gains, and of maps of them.
SetGains ==
  /\ setting = "gain"
  /\ \E gains \in Lists([map : Maps(Elements)] \cup [gain : Values]) :
       Begin(FlattenSeq([i \in DOMAIN gains |->
               IF "map" \in DOMAIN gains[i] THEN Each(i, gains[i].map, Elements)
                                            ELSE One(i, Whole, gains[i].gain)]), NoArgs)

\* setChannelSetting() and setChannelSettingsArgs() go from key to key.
SetChannelSettingsArgs ==
  /\ setting = "setting"
  /\ \E map \in Maps(Keys) :
       Begin(FlattenSeq([n \in DOMAIN Keys |->
               IF Keys[n] \in DOMAIN map THEN All(Keys[n], map[Keys[n]]) ELSE <<>>]), NoArgs)

\* setChannelSettings() goes from channel to channel.
SetChannelSettings ==
  /\ setting = "setting"
  /\ \/ \E maps \in Lists(Maps(Keys)) :
          Begin(FlattenSeq([i \in DOMAIN maps |-> Each(i, maps[i], Keys)]), NoArgs)
     \/ \E writes \in Single(ToSet(Keys)) : Begin(writes, NoArgs)

\* setGlobalSetting() and setGlobalSettings(), and setHardwareTime().
SetGlobalSettings ==
  /\ setting = "global"
  /\ \E map \in Maps(Keys) : Begin(Each(Block, map, Keys), NoArgs)

\* setClockRate(), setClockSource(), setTimeSource().
SetClock ==
  /\ setting = "clock"
  /\ \E v \in Values : Begin(One(Block, Whole, v), NoArgs)

\* The frontend map is written, and _antennaOptions, here as a place of its
\* own, become those that the device then has.
SetFrontendMap ==
  /\ setting = "frontend"
  /\ \E v \in Values : Begin(One(Block, Whole, v) \o One(Block, Keys[1], v), NoArgs)

\* setGpioConfig() and setGpioConfigs(): the direction comes before the
\* value, with a mask or without. A configuration without a bank throws, and
\* so does an entry of the list that is none.
SetGpioConfigs ==
  /\ setting = "gpio"
  /\ \E configs \in
         Lists({Each(Block, map, Keys) : map \in Maps(Keys)} \cup {<<Refused>>}) :
       Begin(FlattenSeq(configs), NoArgs)

\* Unknown levels are refused.
SetLogLevel ==
  /\ setting = "log"
  /\ \E v \in Values : Begin(One(Block, Whole, v), NoArgs) \/ Begin(<<Refused>>, NoArgs)

-----------------------------------------------------------------------------
(* One write.                                                              *)

\* Faulty: the arguments of a call outlive it.
FaultyGoOn == rest' = Tail(rest) /\ UNCHANGED args

GoOn ==
  /\ rest' = Tail(rest)
  /\ args' = IF Tail(rest) = <<>> THEN NoArgs ELSE args

\* What the getters return: the device is asked for the mapped channel.
Get(p) == value[Mapped(p)]

\* What is wanted when the rest of the call is not made.
WantedBefore(p) == IF p \in About(rest) THEN Get(p) ELSE wanted[p]

\* The call throws.
EndOfCall ==
  /\ rest' = <<>> /\ args' = NoArgs
  /\ wanted' = [p \in Places |-> WantedBefore(p)]

Makes(w) ==
  /\ rest # <<>> /\ w = Head(rest)
  /\ ~IsRefused(w) /\ ~Ignored(w)

\* Faulty: the block's channel is taken for the device's.
FaultyStore(w) ==
  value' = [p \in DevicePlaces |-> IF p \in Written(w) THEN w.value ELSE value[p]]

Store(w) ==
  value' = [p \in DevicePlaces |->
              IF \E q \in Written(w) : p = Mapped(q) THEN w.value ELSE value[p]]

Remember(w) == tuneArgs' = [tuneArgs EXCEPT ![w.chan] = args]

\* The device is tuned and, unless a component of it was, asked for the
\* frequency it has, for the label.
Tune(w) ==
  /\ setting = "frequency" /\ Makes(w)
  /\ Remember(w)
  /\ Store(w)
  /\ tunedWith' = [tunedWith EXCEPT ![Channels[w.chan]] = args]
  /\ failed' = failed \ {w.chan}
  /\ IF w.name = Whole
     THEN /\ rxFreq' = [rxFreq EXCEPT ![w.chan] = Get(<<w.chan, Whole>>)']
          /\ unlabelled' = unlabelled \ {w.chan}
     ELSE UNCHANGED rxFreq /\ unlabelled' = unlabelled \cup {w.chan}
  /\ GoOn
  /\ UNCHANGED <<setting, wanted>>

Set(w) ==
  /\ setting # "frequency" /\ Makes(w)
  /\ Store(w)
  /\ GoOn
  /\ UNCHANGED <<setting, tunedWith, tuning, wanted, failed>>

\* An empty bandwidth, antenna, clock or frontend map is not set.
Skip(w) ==
  /\ rest # <<>> /\ w = Head(rest)
  /\ ~IsRefused(w) /\ Ignored(w)
  /\ GoOn
  /\ UNCHANGED <<setting, device, tuning, wanted, failed>>

\* Values behind the last channel are ignored, but a setting of a channel
\* that is not there throws, as a bad configuration does.
OutOfRange(w) ==
  /\ rest # <<>> /\ w = Head(rest)
  /\ IsRefused(w)
  /\ IF setting \in {"setting", "gpio", "log"} THEN EndOfCall ELSE GoOn /\ UNCHANGED wanted
  /\ UNCHANGED <<setting, device, tuning, failed>>

\* Faulty: the label is stored before the device is tuned.
FaultyThrows(w) ==
  /\ setting # "log" /\ Makes(w)
  /\ IF setting = "frequency"
     THEN /\ Remember(w) /\ failed' = failed \cup {w.chan}
          /\ rxFreq' = [rxFreq EXCEPT ![w.chan] = w.value]
     ELSE UNCHANGED <<tuneArgs, rxFreq, failed>>
  /\ EndOfCall
  /\ UNCHANGED <<setting, device, unlabelled>>

\* The device is tuned, and throws when it is asked for its frequency. Where
\* the compiler looks up the label first, that leaves one without a frequency
\* if work() has posted the last one. The rest of the call is not made.
ReadBackThrows(w) ==
  /\ setting = "frequency" /\ w.name = Whole /\ Makes(w)
  /\ Remember(w)
  /\ Store(w)
  /\ tunedWith' = [tunedWith EXCEPT ![Channels[w.chan]] = args]
  /\ failed' = failed \ {w.chan}
  /\ rxFreq' \in {rxFreq, [rxFreq EXCEPT ![w.chan] = Empty]}
  /\ unlabelled' = unlabelled \cup {w.chan}
  /\ rest' = <<>> /\ args' = NoArgs
  /\ wanted' = [p \in Places |-> IF p \in Written(w) THEN w.value ELSE WantedBefore(p)]
  /\ UNCHANGED setting

\* The device throws (the log level is not the device's). The arguments of a
\* tune are already remembered.
Throws(w) ==
  /\ setting # "log" /\ Makes(w)
  /\ IF setting = "frequency" THEN Remember(w) /\ failed' = failed \cup {w.chan}
                              ELSE UNCHANGED <<tuneArgs, failed>>
  /\ EndOfCall
  /\ UNCHANGED <<setting, device, rxFreq, unlabelled>>

-----------------------------------------------------------------------------
Calls ==
  \/ SetFrequency \/ SetFrequencyArgs \/ SetFrequencyChan \/ SetFrequencyName
  \/ SetBandwidth \/ SetGain \/ SetGains
  \/ SetChannelSettingsArgs \/ SetChannelSettings \/ SetGlobalSettings
  \/ SetClock \/ SetFrontendMap \/ SetGpioConfigs \/ SetLogLevel

Steps ==
  \E w \in ToSet(rest) :
    Tune(w) \/ Set(w) \/ Skip(w) \/ OutOfRange(w) \/ Throws(w) \/ ReadBackThrows(w)

Next == Calls \/ Steps

Spec == Init /\ [][Next]_vars

-----------------------------------------------------------------------------
TypeOK ==
  /\ setting \in Settings
  /\ value \in [DevicePlaces -> Values]
  /\ tunedWith \in [DeviceChannels -> TuneArgs]
  /\ tuneArgs \in [Ports -> TuneArgs]
  /\ rxFreq \in [Ports -> Values]
  /\ rest \in Seq([chan : Lengths \cup {Block}, name : Names, value : Values])
  /\ args \in TuneArgs
  /\ rest = <<>> => args = NoArgs
  /\ wanted \in [Places -> Values]
  /\ failed \subseteq Ports
  /\ unlabelled \subseteq Ports

\* "setFoo(valArray) sets valArray[i] on channel[i]", where the block's
\* channels are mapped to the device's: the getters return what was last asked
\* for, in whatever form and order. Where the device refused a value, and
\* behind that in the same call, they return what they did before; a frequency
\* that the device took counts as asked for, though it then threw when it was
\* read back. No other channel of the device is touched.
ChannelsHaveTheirValues ==
  rest = <<>> =>
    /\ \A p \in Places : Get(p) = wanted[p]
    /\ \A p \in DevicePlaces \ {Mapped(q) : q \in Places} : value[p] = Empty

\* What a channel remembers of its last tune is what the device has: the
\* arguments, unless the device refused the tune, and the frequency in the
\* label ("rxFreq - the center frequency of the chain from the last tune
\* operation"), even if the device refused a later tune. Only a tune that left
\* no label, of a component or with a read-back that threw, makes it stale,
\* until the next one that leaves a label.
TuneIsRemembered ==
  /\ \A i \in Ports \ failed : tuneArgs[i] = tunedWith[Channels[i]]
  /\ setting = "frequency" =>
       \A i \in Ports \ unlabelled : rxFreq[i] = Get(<<i, Whole>>)
=============================================================================
