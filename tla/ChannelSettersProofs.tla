------------------------ MODULE ChannelSettersProofs ------------------------
(***************************************************************************)
(* That the getters return what was asked for, and that what a channel     *)
(* remembers of its last tune is what the device has, for every number and *)
(* order of channels, every set of keys, components and values, and every  *)
(* sequence of calls and failures.                                         *)
(***************************************************************************)
EXTENDS ChannelSetters, WellFoundedInduction, TLAPS

\* Two of the block's channels are not the same channel of the device.
Distinct == \A i, j \in Ports : Channels[i] = Channels[j] => i = j

-----------------------------------------------------------------------------
(* The least and the greatest of a set of numbers.                         *)

Less == {p \in Nat \X Nat : p[1] < p[2]}

LEMMA Smallest ==
  ASSUME NEW S \in SUBSET Nat, S # {}
  PROVE  \E n \in S : \A m \in S : n <= m
<1>1. IsWellFoundedOn(Less, Nat)
  BY NatLessThanWellFounded DEF OpToRel, Less
<1>2. PICK n \in S : \A m \in S : <<m, n>> \notin Less
  BY <1>1, WFMin
<1>3. ASSUME NEW m \in S, m < n PROVE FALSE
  <2>1. <<m, n>> \in Nat \X Nat /\ <<m, n>>[1] < <<m, n>>[2]
    BY <1>3
  <2> QED
    BY <2>1, <1>2 DEF Less
<1>4. \A m \in S : n <= m
  <2> TAKE m \in S
  <2>1. ~(m < n)
    BY <1>3
  <2> QED
    BY <2>1
<1> QED
  BY <1>4

LEMMA Greatest ==
  ASSUME NEW k \in Nat, NEW S \in SUBSET (1..k), S # {}
  PROVE  \E n \in S : \A m \in S : m <= n
<1> DEFINE T == {i \in Nat : \A m \in S : m <= i}
<1>1. k \in T
  OBVIOUS
<1>2. PICK n \in T : \A i \in T : n <= i
  BY <1>1, Smallest
<1>3. n \in S
  <2> SUFFICES ASSUME n \notin S PROVE FALSE
    OBVIOUS
  <2>1. PICK m \in S : TRUE
    OBVIOUS
  <2>2. m >= 1 /\ m <= n /\ n - 1 \in Nat
    BY <1>2
  <2>3. \A i \in S : i <= n - 1
    <3> TAKE i \in S
    <3>1. i <= n /\ i # n /\ i \in Nat
      BY <1>2
    <3> QED
      BY <3>1
  <2>4. n - 1 \in T
    BY <2>2, <2>3
  <2> QED
    BY <1>2, <2>2, <2>4
<1> QED
  BY <1>2, <1>3

-----------------------------------------------------------------------------
(* The concatenation of sequences of writes is a sequence of writes.       *)

\* The first k sequences put together, one after the other.
Parts(f, seqs, k) ==
  f = [i \in 1..k |-> IF i = 1 THEN seqs[i] ELSE f[i-1] \o seqs[i]]

LEMMA PartsExist ==
  ASSUME NEW S, NEW seqs \in Seq(Seq(S))
  PROVE  \A k \in 0 .. Len(seqs) : \E f : Parts(f, seqs, k)
<1> SUFFICES ASSUME NEW bad \in 0 .. Len(seqs), ~ \E f : Parts(f, seqs, bad) PROVE FALSE
  OBVIOUS
<1> DEFINE B == {k \in 0 .. Len(seqs) : ~ \E f : Parts(f, seqs, k)}
<1>1. B # {} /\ B \in SUBSET Nat
  OBVIOUS
<1>2. PICK k \in B : \A m \in B : k <= m
  BY <1>1, Smallest
<1>3. CASE k = 0
  <2> DEFINE g == [i \in 1..0 |-> IF i = 1 THEN seqs[i] ELSE seqs[i]]
  <2>1. g = [i \in 1..0 |-> IF i = 1 THEN seqs[i] ELSE g[i-1] \o seqs[i]]
    OBVIOUS
  <2> QED
    BY <1>2, <1>3, <2>1 DEF Parts
<1>4. CASE k # 0
  <2>1. k - 1 \in 0 .. Len(seqs) /\ k - 1 \notin B
    BY <1>2, <1>4
  <2>2. PICK f : Parts(f, seqs, k - 1)
    BY <2>1
  <2> DEFINE g == [i \in 1..k |-> IF i = 1 THEN seqs[i] ELSE f[i-1] \o seqs[i]]
  <2>3. \A i \in 1 .. k - 1 : g[i] = f[i]
    <3> TAKE i \in 1 .. k - 1
    <3>1. f[i] = IF i = 1 THEN seqs[i] ELSE f[i-1] \o seqs[i]
      BY <2>2 DEF Parts
    <3>2. i \in 1..k
      BY <2>1
    <3> QED
      BY <3>1, <3>2
  <2>4. g = [i \in 1..k |-> IF i = 1 THEN seqs[i] ELSE g[i-1] \o seqs[i]]
    <3>1. ASSUME NEW i \in 1..k, i # 1 PROVE g[i-1] = f[i-1]
      <4>1. i - 1 \in 1 .. k - 1
        BY <3>1, <2>1
      <4> QED
        BY <4>1, <2>3
    <3> HIDE DEF g
    <3>2. g = [i \in 1..k |-> IF i = 1 THEN seqs[i] ELSE f[i-1] \o seqs[i]]
      BY DEF g
    <3>3. \A i \in 1..k : (IF i = 1 THEN seqs[i] ELSE f[i-1] \o seqs[i])
                          = IF i = 1 THEN seqs[i] ELSE g[i-1] \o seqs[i]
      BY <3>1
    <3> QED
      BY <3>2, <3>3
  <2> HIDE DEF g
  <2> QED
    BY <1>2, <2>4 DEF Parts
<1> QED
  BY <1>3, <1>4

LEMMA PartsType ==
  ASSUME NEW S, NEW seqs \in Seq(Seq(S)), NEW f, Parts(f, seqs, Len(seqs))
  PROVE  \A i \in 1 .. Len(seqs) : f[i] \in Seq(S)
<1> SUFFICES ASSUME NEW bad \in 1 .. Len(seqs), f[bad] \notin Seq(S) PROVE FALSE
  OBVIOUS
<1> DEFINE B == {i \in 1 .. Len(seqs) : f[i] \notin Seq(S)}
<1>0. bad \in B
  OBVIOUS
<1>1. B # {} /\ B \in SUBSET Nat
  <2>1. B \subseteq 1 .. Len(seqs)
    OBVIOUS
  <2> HIDE DEF B
  <2> QED
    BY <1>0, <2>1
<1>2. PICK i \in B : \A m \in B : i <= m
  BY <1>1, Smallest
<1>3. f[i] = IF i = 1 THEN seqs[i] ELSE f[i-1] \o seqs[i]
  BY <1>2 DEF Parts
<1>4. seqs[i] \in Seq(S)
  BY <1>2
<1>5. i # 1
  BY <1>2, <1>3, <1>4
<1>6. i - 1 \in 1 .. Len(seqs) /\ i - 1 \notin B
  BY <1>2, <1>5
<1>7. f[i-1] \in Seq(S)
  BY <1>6
<1>8. f[i] \in Seq(S)
  BY <1>3, <1>4, <1>5, <1>7
<1> QED
  BY <1>2, <1>8

LEMMA FlattenSeqType ==
  ASSUME NEW S, NEW seqs \in Seq(Seq(S))
  PROVE  FlattenSeq(seqs) \in Seq(S)
<1>1. CASE Len(seqs) = 0
  BY <1>1 DEF FlattenSeq
<1>2. CASE Len(seqs) # 0
  <2> DEFINE flatten == CHOOSE f : Parts(f, seqs, Len(seqs))
  <2>1. FlattenSeq(seqs) = flatten[Len(seqs)]
    BY <1>2, Zenon DEF FlattenSeq, Parts
  <2>2. Parts(flatten, seqs, Len(seqs))
    <3>1. \E f : Parts(f, seqs, Len(seqs))
      <4>1. Len(seqs) \in 0 .. Len(seqs)
        OBVIOUS
      <4> QED
        BY <4>1, PartsExist
    <3> QED
      BY <3>1, Zenon
  <2> HIDE DEF flatten
  <2>3. flatten[Len(seqs)] \in Seq(S)
    BY <1>2, <2>2, PartsType
  <2> QED
    BY <2>1, <2>3
<1> QED
  BY <1>1, <1>2

-----------------------------------------------------------------------------
(* The writes of the calls are well-typed.                                 *)

Writes == [chan : Lengths \cup {Block}, name : Names, value : Values]

LEMMA PortsAre == Ports = 1 .. Len(Channels) /\ Len(Channels) \in Nat \ {0}
BY ChannelsAssumption DEF Ports

LEMMA PortsInLengths == Ports \subseteq Lengths /\ 1 \in Ports /\ Block \notin Lengths
BY PortsAre DEF Lengths, Block

LEMMA WriteType ==
  ASSUME NEW i \in Lengths \cup {Block}, NEW name \in Names, NEW v \in Values
  PROVE  Write(i, name, v) \in Writes /\ One(i, name, v) \in Seq(Writes)
BY DEF Write, Writes, One

LEMMA AllType ==
  ASSUME NEW name \in Names, NEW v \in Values
  PROVE  All(name, v) \in Seq(Writes)
<1>1. \A i \in Ports : Write(i, name, v) \in Writes
  BY PortsInLengths, WriteType
<1> QED
  BY <1>1, PortsAre DEF All

LEMMA EachType ==
  ASSUME NEW i \in Lengths \cup {Block}, NEW names, names \in Seq(ToSet(names)),
         ToSet(names) \subseteq Names, NEW map \in Maps(names)
  PROVE  Each(i, map, names) \in Seq(Writes)
<1> DEFINE part(n) == IF names[n] \in DOMAIN map
                      THEN One(i, names[n], map[names[n]]) ELSE <<>>
<1>1. \A n \in DOMAIN names : part(n) \in Seq(Writes)
  <2> TAKE n \in DOMAIN names
  <2>1. names[n] \in Names
    BY DEF ToSet
  <2>2. CASE names[n] \in DOMAIN map
    <3>1. map[names[n]] \in Values
      BY <2>2 DEF Maps
    <3> QED
      BY <2>1, <2>2, <3>1, WriteType
  <2>3. CASE names[n] \notin DOMAIN map
    BY <2>3
  <2> QED
    BY <2>2, <2>3
<1> HIDE DEF part
<1>2. [n \in DOMAIN names |-> part(n)] \in Seq(Seq(Writes))
  BY <1>1
<1> QED
  BY <1>2, FlattenSeqType, Zenon DEF Each, part

LEMMA NamesAre ==
  /\ Whole \in Names /\ ToSet(Keys) \subseteq Names /\ ToSet(Elements) \subseteq Names
  /\ Keys[1] \in ToSet(Keys)
BY NamesAssumption DEF Names, ToSet

LEMMA ListType ==
  ASSUME NEW S, NEW list \in Lists(S)
  PROVE  /\ list \in Seq(S) /\ DOMAIN list = 1 .. Len(list)
         /\ \A i \in DOMAIN list : i \in Lengths /\ list[i] \in S
<1>1. PICK n \in Lengths : list \in [1..n -> S]
  BY DEF Lists
<1>2. n \in Nat /\ \A i \in 1..n : i \in Lengths
  BY <1>1, PortsAre DEF Lengths
<1> QED
  BY <1>1, <1>2
\* Writes of channels, and none of the whole block.
ChannelWrites == [chan : Lengths, name : Names, value : Values]

LEMMA ChannelWritesAre == Seq(ChannelWrites) \subseteq Seq(Writes)
<1>1. ChannelWrites \subseteq Writes
  BY DEF ChannelWrites, Writes
<1> QED
  BY <1>1

LEMMA AllOrListType == AllOrList \subseteq Seq(ChannelWrites)
<1>1. ASSUME NEW v \in Values PROVE All(Whole, v) \in Seq(ChannelWrites)
  <2>1. \A i \in Ports : Write(i, Whole, v) \in ChannelWrites
    BY PortsInLengths, NamesAre DEF Write, ChannelWrites
  <2> QED
    BY <2>1, PortsAre DEF All
<1>2. ASSUME NEW vs \in Lists(Values)
      PROVE  [i \in DOMAIN vs |-> Write(i, Whole, vs[i])] \in Seq(ChannelWrites)
  <2>1. \A i \in DOMAIN vs : Write(i, Whole, vs[i]) \in ChannelWrites
    BY ListType, NamesAre DEF Write, ChannelWrites
  <2>2. DOMAIN vs = 1 .. Len(vs) /\ Len(vs) \in Nat
    BY ListType
  <2> QED
    BY <2>1, <2>2
<1> QED
  BY <1>1, <1>2 DEF AllOrList

LEMMA SingleType ==
  ASSUME NEW names \in SUBSET Names, NEW writes \in Single(names)
  PROVE  writes \in Seq(ChannelWrites) /\ writes[1].chan \in Lengths
<1>1. PICK i \in Lengths, name \in names, v \in Values : writes = One(i, name, v)
  BY DEF Single
<1> QED
  BY <1>1 DEF One, Write, ChannelWrites

LEMMA ArgsOfType ==
  ASSUME TypeOK, NEW i
  PROVE  ArgsOf(i) \in TuneArgs
BY ValuesAssumption DEF TypeOK, ArgsOf

\* Writes of which the parts come from a list, a map or all channels.
LEMMA BuiltType ==
  ASSUME NEW D, NEW n \in Nat, D = 1..n, NEW part, DOMAIN part = D,
         part = [i \in D |-> part[i]], \A i \in D : part[i] \in Seq(Writes)
  PROVE  FlattenSeq(part) \in Seq(Writes)
<1>1. part \in Seq(Seq(Writes))
  OBVIOUS
<1> QED
  BY <1>1, FlattenSeqType

\* Every call begins well-typed writes, and those of a frequency are of
\* channels.
LEMMA CallsBegin ==
  ASSUME TypeOK, Calls
  PROVE  \E writes \in Seq(Writes), tune \in TuneArgs :
           /\ Begin(writes, tune)
           /\ setting = "frequency" => writes \in Seq(ChannelWrites)
<1> DEFINE Goal == \E writes \in Seq(Writes), tune \in TuneArgs :
                     /\ Begin(writes, tune)
                     /\ setting = "frequency" => writes \in Seq(ChannelWrites)
<1> SUFFICES Goal
  OBVIOUS
<1> NoArgs \in TuneArgs /\ Block \in Lengths \cup {Block}
  BY ValuesAssumption
<1>0. ASSUME NEW writes \in Seq(ChannelWrites), NEW tune \in TuneArgs, Begin(writes, tune)
      PROVE  Goal
  BY <1>0, ChannelWritesAre
<1>a. ASSUME NEW writes \in Seq(Writes), Begin(writes, NoArgs), setting # "frequency"
      PROVE  Goal
  BY <1>a
<1>b. /\ {Whole} \in SUBSET Names /\ ToSet(Elements) \in SUBSET Names
      /\ ToSet(Keys) \in SUBSET Names /\ {Whole} \cup ToSet(Elements) \in SUBSET Names
  BY NamesAre
<1> HIDE DEF Goal
<1>1. CASE SetFrequency
  <2>1. PICK writes \in AllOrList : Begin(writes, tuneArgs[1])
    BY <1>1 DEF SetFrequency
  <2>2. tuneArgs[1] \in TuneArgs
    BY PortsInLengths DEF TypeOK
  <2> QED
    BY <2>1, <2>2, <1>0, AllOrListType
<1>2. CASE SetFrequencyArgs
  <2>1. PICK writes \in AllOrList \cup Single({Whole}), tune \in TuneArgs : Begin(writes, tune)
    BY <1>2 DEF SetFrequencyArgs
  <2>2. writes \in Seq(ChannelWrites)
    BY <2>1, <1>b, AllOrListType, SingleType
  <2> QED
    BY <2>1, <2>2, <1>0
<1>3. CASE SetFrequencyChan
  <2>1. PICK writes \in Single({Whole}) : Begin(writes, ArgsOf(writes[1].chan))
    BY <1>3 DEF SetFrequencyChan
  <2>2. writes \in Seq(ChannelWrites) /\ ArgsOf(writes[1].chan) \in TuneArgs
    BY <1>b, SingleType, ArgsOfType
  <2> QED
    BY <2>1, <2>2, <1>0
<1>4. CASE SetFrequencyName
  <2>1. PICK writes \in Single(ToSet(Elements)) :
          \E tune \in TuneArgs \cup {ArgsOf(writes[1].chan)} : Begin(writes, tune)
    BY <1>4 DEF SetFrequencyName
  <2>2. writes \in Seq(ChannelWrites) /\ ArgsOf(writes[1].chan) \in TuneArgs
    BY <1>b, SingleType, ArgsOfType
  <2> QED
    BY <2>1, <2>2, <1>0
<1>5. CASE SetBandwidth
  <2>1. PICK writes \in AllOrList \cup Single({Whole}) : Begin(writes, NoArgs)
    BY <1>5 DEF SetBandwidth
  <2>2. writes \in Seq(ChannelWrites)
    BY <2>1, <1>b, AllOrListType, SingleType
  <2> QED
    BY <2>1, <2>2, <1>0
<1>6. CASE SetGain
  <2> setting # "frequency"
    BY <1>6 DEF SetGain
  <2>1. ASSUME NEW v \in Values, Begin(All(Whole, v), NoArgs) PROVE Goal
    BY <2>1, <1>a, AllType, NamesAre
  <2>2. ASSUME NEW writes \in Single({Whole} \cup ToSet(Elements)), Begin(writes, NoArgs)
        PROVE  Goal
    BY <2>2, <1>0, <1>b, SingleType
  <2>3. ASSUME NEW map \in Maps(Elements), NEW i \in Lengths, Begin(Each(i, map, Elements), NoArgs)
        PROVE  Goal
    BY <2>3, <1>a, EachType, NamesAre, NamesAssumption
  <2>4. ASSUME NEW map \in Maps(Elements),
               Begin(FlattenSeq([i \in Ports |-> Each(i, map, Elements)]), NoArgs)
        PROVE  Goal
    <3> DEFINE part == [i \in Ports |-> Each(i, map, Elements)]
    <3>1. \A i \in Ports : part[i] \in Seq(Writes)
      BY PortsInLengths, EachType, NamesAre, NamesAssumption
    <3>2. FlattenSeq(part) \in Seq(Writes)
      BY <3>1, PortsAre, BuiltType
    <3> QED
      BY <3>2, <2>4, <1>a
  <2> QED
    BY <1>6, <2>1, <2>2, <2>3, <2>4 DEF SetGain
<1>7. CASE SetGains
  <2> DEFINE E == [map : Maps(Elements)] \cup [gain : Values]
             part(gains) == [i \in DOMAIN gains |->
               IF "map" \in DOMAIN gains[i] THEN Each(i, gains[i].map, Elements)
                                            ELSE One(i, Whole, gains[i].gain)]
  <2>1. PICK gains \in Lists(E) : Begin(FlattenSeq(part(gains)), NoArgs)
    BY <1>7 DEF SetGains
  <2>2. \A i \in DOMAIN gains : i \in Lengths /\ gains[i] \in E
    BY ListType
  <2>3. ASSUME NEW i \in DOMAIN gains PROVE part(gains)[i] \in Seq(Writes)
    <3>1. CASE "map" \in DOMAIN gains[i]
      <4>1. gains[i].map \in Maps(Elements)
        BY <3>1, <2>2
      <4> QED
        BY <3>1, <4>1, <2>2, EachType, NamesAre, NamesAssumption
    <3>2. CASE "map" \notin DOMAIN gains[i]
      <4>1. gains[i].gain \in Values
        BY <3>2, <2>2
      <4> QED
        BY <3>2, <4>1, <2>2, WriteType, NamesAre
    <3> QED
      BY <3>1, <3>2
  <2>4. DOMAIN gains = 1 .. Len(gains) /\ Len(gains) \in Nat
    BY ListType
  <2>5. FlattenSeq(part(gains)) \in Seq(Writes)
    BY <2>3, <2>4, BuiltType
  <2> QED
    BY <2>1, <2>5, <1>7, <1>a DEF SetGains
<1>8. CASE SetChannelSettingsArgs
  <2> DEFINE part(map) == [n \in DOMAIN Keys |->
               IF Keys[n] \in DOMAIN map THEN All(Keys[n], map[Keys[n]]) ELSE <<>>]
  <2>1. PICK map \in Maps(Keys) : Begin(FlattenSeq(part(map)), NoArgs)
    BY <1>8 DEF SetChannelSettingsArgs
  <2>2. ASSUME NEW n \in DOMAIN Keys PROVE part(map)[n] \in Seq(Writes)
    <3>1. CASE Keys[n] \in DOMAIN map
      <4>1. Keys[n] \in Names
        BY NamesAre DEF ToSet
      <4>2. map[Keys[n]] \in Values
        BY <3>1 DEF Maps
      <4> QED
        BY <3>1, <4>1, <4>2, AllType
    <3>2. CASE Keys[n] \notin DOMAIN map
      BY <3>2
    <3> QED
      BY <3>1, <3>2
  <2>3. DOMAIN Keys = 1 .. Len(Keys) /\ Len(Keys) \in Nat
    BY NamesAssumption
  <2>4. FlattenSeq(part(map)) \in Seq(Writes)
    BY <2>2, <2>3, BuiltType
  <2> QED
    BY <2>1, <2>4, <1>8, <1>a DEF SetChannelSettingsArgs
<1>9. CASE SetChannelSettings
  <2> setting # "frequency"
    BY <1>9 DEF SetChannelSettings
  <2>1. ASSUME NEW writes \in Single(ToSet(Keys)), Begin(writes, NoArgs) PROVE Goal
    BY <2>1, <1>0, <1>b, SingleType
  <2>2. ASSUME NEW maps \in Lists(Maps(Keys)),
               Begin(FlattenSeq([i \in DOMAIN maps |-> Each(i, maps[i], Keys)]), NoArgs)
        PROVE  Goal
    <3> DEFINE part == [i \in DOMAIN maps |-> Each(i, maps[i], Keys)]
    <3>1. \A i \in DOMAIN maps : part[i] \in Seq(Writes)
      BY ListType, EachType, NamesAre, NamesAssumption
    <3>2. DOMAIN maps = 1 .. Len(maps) /\ Len(maps) \in Nat
      BY ListType
    <3>3. FlattenSeq(part) \in Seq(Writes)
      BY <3>1, <3>2, BuiltType
    <3> QED
      BY <3>3, <2>2, <1>a
  <2> QED
    BY <1>9, <2>1, <2>2 DEF SetChannelSettings
<1>10. CASE SetGlobalSettings
  BY <1>10, <1>a, EachType, NamesAre, NamesAssumption DEF SetGlobalSettings
<1>11. CASE SetClock
  BY <1>11, <1>a, WriteType, NamesAre DEF SetClock
<1>12. CASE SetFrontendMap
  <2>1. PICK v \in Values : Begin(One(Block, Whole, v) \o One(Block, Keys[1], v), NoArgs)
    BY <1>12 DEF SetFrontendMap
  <2>2. One(Block, Whole, v) \in Seq(Writes) /\ One(Block, Keys[1], v) \in Seq(Writes)
    BY WriteType, NamesAre
  <2>3. One(Block, Whole, v) \o One(Block, Keys[1], v) \in Seq(Writes)
    BY <2>2
  <2> QED
    BY <2>1, <2>3, <1>12, <1>a DEF SetFrontendMap
<1>c. <<Refused>> \in Seq(Writes)
  <2>1. Len(Channels) + 1 \in Lengths
    BY PortsAre DEF Lengths
  <2> QED
    BY <2>1, WriteType, NamesAre, ValuesAssumption DEF Refused
<1>13. CASE SetGpioConfigs
  <2> DEFINE E == {Each(Block, map, Keys) : map \in Maps(Keys)} \cup {<<Refused>>}
  <2>1. PICK configs \in Lists(E) : Begin(FlattenSeq(configs), NoArgs)
    BY <1>13 DEF SetGpioConfigs
  <2>2. E \subseteq Seq(Writes)
    BY <1>c, EachType, NamesAre, NamesAssumption
  <2>3. configs \in Seq(E)
    BY ListType
  <2>4. configs \in Seq(Seq(Writes))
    <3> HIDE DEF E
    <3> QED
      BY <2>2, <2>3
  <2>5. FlattenSeq(configs) \in Seq(Writes)
    BY <2>4, FlattenSeqType
  <2> QED
    BY <2>1, <2>5, <1>13, <1>a DEF SetGpioConfigs
<1>14. CASE SetLogLevel
  BY <1>14, <1>a, <1>c, WriteType, NamesAre DEF SetLogLevel
<1> QED
  BY <1>1, <1>2, <1>3, <1>4, <1>5, <1>6, <1>7, <1>8, <1>9, <1>10, <1>11, <1>12, <1>13, <1>14
  DEF Calls
-----------------------------------------------------------------------------
(* The last of the writes about a place.                                   *)

Sets(w, p) == ~Ignored(w) /\ p \in Written(w)

IsLast(writes, p, n) ==
  /\ n \in DOMAIN writes /\ Sets(writes[n], p)
  /\ \A m \in DOMAIN writes : Sets(writes[m], p) => m <= n

LEMMA LastExists ==
  ASSUME NEW writes \in Seq(Writes), NEW p, NEW k \in DOMAIN writes, Sets(writes[k], p)
  PROVE  \E n \in DOMAIN writes : IsLast(writes, p, n)
<1> DEFINE about == {n \in DOMAIN writes : Sets(writes[n], p)}
<1>1. DOMAIN writes = 1 .. Len(writes) /\ Len(writes) \in Nat
  OBVIOUS
<1>2. about \in SUBSET (1 .. Len(writes)) /\ about # {}
  BY <1>1
<1> HIDE DEF about
<1>3. PICK n \in about : \A m \in about : m <= n
  BY <1>1, <1>2, Greatest
<1> QED
  BY <1>3 DEF about, IsLast

LEMMA LastOfIs ==
  ASSUME NEW writes \in Seq(Writes), NEW p, NEW n, IsLast(writes, p, n)
  PROVE  LastOf(writes, p) = writes[n].value
<1> DEFINE about == {k \in DOMAIN writes : ~Ignored(writes[k]) /\ p \in Written(writes[k])}
           last == CHOOSE k \in about : \A m \in about : m <= k
<1>1. n \in about /\ \A m \in about : m <= n
  BY DEF IsLast, Sets
<1>2. about \subseteq Nat
  OBVIOUS
<1>3. LastOf(writes, p) = writes[last].value
  BY Zenon DEF LastOf
<1> HIDE DEF about
<1>4. last \in about /\ \A m \in about : m <= last
  BY <1>1
<1> HIDE DEF last
<1>5. last = n
  <2>1. last <= n /\ n <= last /\ last \in Nat /\ n \in Nat
    BY <1>1, <1>2, <1>4
  <2> QED
    BY <2>1
<1> QED
  BY <1>3, <1>5

LEMMA NotRefused ==
  ASSUME NEW w \in Writes, NEW p \in Places, p \in Written(w)
  PROVE  ~IsRefused(w)
BY DEF Written, Places, IsRefused

LEMMA AboutIs ==
  ASSUME NEW writes \in Seq(Writes), NEW p \in Places
  PROVE  p \in About(writes) <=> \E n \in DOMAIN writes : Sets(writes[n], p)
<1>1. \A n \in DOMAIN writes : writes[n] \in Writes
  OBVIOUS
<1>2. ASSUME NEW n \in DOMAIN writes, Sets(writes[n], p) PROVE p \in About(writes)
  <2>1. ~IsRefused(writes[n]) /\ ~Ignored(writes[n]) /\ p \in Written(writes[n])
    BY <1>1, <1>2, NotRefused DEF Sets
  <2> QED
    BY <2>1 DEF About, ToSet
<1>3. ASSUME p \in About(writes) PROVE \E n \in DOMAIN writes : Sets(writes[n], p)
  BY <1>3 DEF About, ToSet, Sets
<1> QED
  BY <1>2, <1>3

-----------------------------------------------------------------------------
(* The places of the device behind those of the block.                     *)

LEMMA ChannelsType == \A i \in Ports : Channels[i] \in DeviceChannels /\ Channels[i] # Block
BY ChannelsAssumption, DeviceAssumption DEF Ports, Block

LEMMA MappedType == \A p \in Places : Mapped(p) \in DevicePlaces
BY ChannelsType DEF Mapped, Places, DevicePlaces

LEMMA MappedApart ==
  ASSUME Distinct, NEW p \in Places, NEW q \in Places, Mapped(p) = Mapped(q)
  PROVE  p = q
<1>1. p = <<p[1], p[2]>> /\ q = <<q[1], q[2]>>
  BY DEF Places
<1>2. p[2] = q[2]
  BY <1>1 DEF Mapped
<1>3. p[1] = q[1]
  BY ChannelsType DEF Mapped, Places, Distinct
<1> QED
  BY <1>1, <1>2, <1>3

LEMMA WrittenType ==
  ASSUME NEW w \in Writes, ~IsRefused(w)
  PROVE  Written(w) \subseteq Places
<1>1. Whole \in Names
  BY NamesAre
<1> QED
  BY <1>1 DEF Written, Places, IsRefused, Writes

-----------------------------------------------------------------------------
(* Type correctness.                                                       *)

TypeInv == TypeOK /\ (setting = "frequency" => rest \in Seq(ChannelWrites))

LEMMA HeadType ==
  ASSUME TypeInv, NEW w, rest # <<>>, w = Head(rest)
  PROVE  /\ rest \in Seq(Writes) /\ w \in Writes /\ Tail(rest) \in Seq(Writes)
         /\ setting = "frequency" => Tail(rest) \in Seq(ChannelWrites)
         /\ setting = "frequency" /\ ~IsRefused(w) => w.chan \in Ports
<1>1. rest \in Seq(Writes)
  BY DEF TypeInv, TypeOK, Writes
<1>2. w \in Writes /\ Tail(rest) \in Seq(Writes)
  BY <1>1
<1>3. ASSUME setting = "frequency"
      PROVE  w \in ChannelWrites /\ Tail(rest) \in Seq(ChannelWrites)
  BY <1>3 DEF TypeInv
<1>4. ASSUME setting = "frequency", ~IsRefused(w) PROVE w.chan \in Ports
  BY <1>3, <1>4, PortsInLengths DEF ChannelWrites, IsRefused
<1> QED
  BY <1>1, <1>2, <1>3, <1>4

LEMMA StoreType ==
  ASSUME TypeInv, NEW w \in Writes, Store(w)
  PROVE  value' \in [DevicePlaces -> Values]
BY DEF TypeInv, TypeOK, Store, Writes

LEMMA GoOnType ==
  ASSUME TypeInv, NEW w, rest # <<>>, w = Head(rest), GoOn, UNCHANGED setting
  PROVE  /\ rest' \in Seq(Writes) /\ args' \in TuneArgs
         /\ rest' = <<>> => args' = NoArgs
         /\ setting' = "frequency" => rest' \in Seq(ChannelWrites)
BY HeadType, ValuesAssumption DEF GoOn, TypeInv, TypeOK

LEMMA EndType ==
  ASSUME TypeInv, EndOfCall
  PROVE  /\ rest' \in Seq(Writes) /\ rest' \in Seq(ChannelWrites)
         /\ args' \in TuneArgs /\ args' = NoArgs
         /\ wanted' \in [Places -> Values]
<1>1. \A p \in Places : value[Mapped(p)] \in Values
  BY MappedType DEF TypeInv, TypeOK
<1> QED
  BY <1>1, ValuesAssumption DEF EndOfCall, WantedBefore, Get, TypeInv, TypeOK

LEMMA BeginType ==
  ASSUME TypeInv, NEW writes \in Seq(Writes), NEW tune \in TuneArgs, Begin(writes, tune),
         setting = "frequency" => writes \in Seq(ChannelWrites)
  PROVE  TypeInv'
<1>1. \A p \in Places : p \in About(writes) => LastOf(writes, p) \in Values
  <2> TAKE p \in Places
  <2> HAVE p \in About(writes)
  <2>1. PICK n \in DOMAIN writes : IsLast(writes, p, n)
    BY AboutIs, LastExists
  <2>2. writes[n] \in Writes /\ LastOf(writes, p) = writes[n].value
    BY <2>1, LastOfIs
  <2> QED
    BY <2>2 DEF Writes
<1>2. wanted' \in [Places -> Values]
  BY <1>1 DEF Begin, TypeInv, TypeOK
<1> QED
  BY <1>2, ValuesAssumption DEF Begin, TypeInv, TypeOK, Writes, device, tuning

LEMMA TypeStep == TypeInv /\ [Next]_vars => TypeInv'
<1> SUFFICES ASSUME TypeInv, [Next]_vars PROVE TypeInv'
  OBVIOUS
<1>1. CASE Calls
  <2>1. TypeOK
    BY DEF TypeInv
  <2> QED
    BY <1>1, <2>1, CallsBegin, BeginType
<1>2. ASSUME NEW w, Tune(w) PROVE TypeInv'
  <2>1. rest # <<>> /\ w = Head(rest) /\ GoOn /\ UNCHANGED setting /\ ~IsRefused(w)
    BY <1>2 DEF Tune, Makes
  <2>2. w \in Writes /\ w.chan \in Ports /\ w.value \in Values /\ args \in TuneArgs
    BY <2>1, <1>2, HeadType DEF Tune, Writes, TypeInv, TypeOK
  <2>3. value' \in [DevicePlaces -> Values]
    BY <1>2, <2>2, StoreType DEF Tune
  <2>4. tuneArgs' \in [Ports -> TuneArgs] /\ tunedWith' \in [DeviceChannels -> TuneArgs]
    BY <1>2, <2>2 DEF Tune, Remember, TypeInv, TypeOK
  <2>5. /\ rxFreq' \in [Ports -> Values]
        /\ failed' \subseteq Ports /\ unlabelled' \subseteq Ports
    <3>1. <<w.chan, Whole>> \in Places
      BY <2>2, NamesAre DEF Places
    <3>2. Get(<<w.chan, Whole>>)' \in Values
      <4>1. Mapped(<<w.chan, Whole>>) \in DevicePlaces
        BY <3>1, MappedType
      <4> QED
        BY <2>3, <4>1 DEF Get, Mapped
    <3> QED
      BY <1>2, <2>2, <3>2 DEF Tune, TypeInv, TypeOK
  <2>6. setting' \in Settings /\ wanted' \in [Places -> Values]
    BY <1>2 DEF Tune, TypeInv, TypeOK
  <2> QED
    BY <2>1, <2>3, <2>4, <2>5, <2>6, GoOnType DEF TypeInv, TypeOK, Writes
<1>3. ASSUME NEW w, Set(w) PROVE TypeInv'
  <2>1. rest # <<>> /\ w = Head(rest) /\ GoOn /\ UNCHANGED setting
    BY <1>3 DEF Set, Makes
  <2>2. value' \in [DevicePlaces -> Values]
    BY <1>3, <2>1, HeadType, StoreType DEF Set
  <2> QED
    BY <1>3, <2>1, <2>2, GoOnType DEF Set, TypeInv, TypeOK, tuning, Writes
<1>4. ASSUME NEW w, Skip(w) PROVE TypeInv'
  <2>1. rest # <<>> /\ w = Head(rest) /\ GoOn /\ UNCHANGED setting
    BY <1>4 DEF Skip
  <2> QED
    BY <1>4, <2>1, GoOnType DEF Skip, TypeInv, TypeOK, device, tuning, Writes
<1>5. ASSUME NEW w, OutOfRange(w) PROVE TypeInv'
  <2>1. rest # <<>> /\ w = Head(rest) /\ UNCHANGED setting
    BY <1>5 DEF OutOfRange
  <2>2. CASE EndOfCall
    BY <1>5, <2>1, <2>2, EndType DEF OutOfRange, TypeInv, TypeOK, device, tuning, Writes
  <2>3. CASE GoOn /\ UNCHANGED wanted
    BY <1>5, <2>1, <2>3, GoOnType DEF OutOfRange, TypeInv, TypeOK, device, tuning, Writes
  <2> QED
    BY <1>5, <2>2, <2>3 DEF OutOfRange
<1>6. ASSUME NEW w, Throws(w) PROVE TypeInv'
  <2>1. rest # <<>> /\ w = Head(rest) /\ EndOfCall /\ UNCHANGED setting /\ ~IsRefused(w)
    BY <1>6 DEF Throws, Makes
  <2>2. tuneArgs' \in [Ports -> TuneArgs] /\ failed' \subseteq Ports
    <3>1. CASE setting = "frequency"
      BY <1>6, <3>1, <2>1, HeadType DEF Throws, Remember, TypeInv, TypeOK
    <3>2. CASE setting # "frequency"
      BY <1>6, <3>2 DEF Throws, TypeInv, TypeOK
    <3> QED
      BY <3>1, <3>2
  <2> QED
    BY <1>6, <2>1, <2>2, EndType DEF Throws, TypeInv, TypeOK, device, Writes
<1>7. CASE UNCHANGED vars
  BY <1>7 DEF vars, device, tuning, TypeInv, TypeOK
<1>8. ASSUME NEW w, ReadBackThrows(w) PROVE TypeInv'
  <2>1. rest # <<>> /\ w = Head(rest) /\ UNCHANGED setting /\ ~IsRefused(w)
    BY <1>8 DEF ReadBackThrows, Makes
  <2>2. w \in Writes /\ w.chan \in Ports /\ w.value \in Values /\ args \in TuneArgs
    BY <2>1, <1>8, HeadType DEF ReadBackThrows, Writes, TypeInv, TypeOK
  <2>3. value' \in [DevicePlaces -> Values]
    BY <1>8, <2>2, StoreType DEF ReadBackThrows
  <2>4. tuneArgs' \in [Ports -> TuneArgs] /\ tunedWith' \in [DeviceChannels -> TuneArgs]
    BY <1>8, <2>2 DEF ReadBackThrows, Remember, TypeInv, TypeOK
  <2>5. /\ rxFreq' \in [Ports -> Values]
        /\ failed' \subseteq Ports /\ unlabelled' \subseteq Ports
    BY <1>8, <2>2, ValuesAssumption DEF ReadBackThrows, TypeInv, TypeOK
  <2>6. wanted' \in [Places -> Values]
    <3>1. \A p \in Places : WantedBefore(p) \in Values
      BY MappedType DEF WantedBefore, Get, TypeInv, TypeOK
    <3> QED
      BY <1>8, <2>2, <3>1 DEF ReadBackThrows
  <2>7. rest' = <<>> /\ args' = NoArgs /\ setting' \in Settings
    BY <1>8 DEF ReadBackThrows, TypeInv, TypeOK
  <2> QED
    BY <2>3, <2>4, <2>5, <2>6, <2>7, ValuesAssumption DEF TypeInv, TypeOK
<1> QED
  BY <1>1, <1>2, <1>3, <1>4, <1>5, <1>6, <1>7, <1>8 DEF Next, Steps

LEMMA TypeInvariant == Spec => []TypeInv
<1>1. Init => TypeInv
  BY ValuesAssumption DEF Init, TypeInv, TypeOK
<1> QED
  BY <1>1, TypeStep, PTL DEF Spec
-----------------------------------------------------------------------------
(* The values that were asked for.                                         *)

\* What is wanted at a place is what the rest of the call will write there
\* last, and what the device has where it writes no more.
Wanted ==
  \A p \in Places :
    /\ \A n \in DOMAIN rest : IsLast(rest, p, n) => wanted[p] = rest[n].value
    /\ (\A n \in DOMAIN rest : ~Sets(rest[n], p)) => wanted[p] = Get(p)

Untouched == \A p \in DevicePlaces \ {Mapped(q) : q \in Places} : value[p] = Empty

LEMMA BeginWanted ==
  ASSUME TypeInv, Wanted, NEW writes \in Seq(Writes), NEW tune, Begin(writes, tune)
  PROVE  Wanted'
<1>1. /\ rest = <<>> /\ rest' = writes /\ setting' = setting /\ value' = value
      /\ wanted' = [p \in Places |-> IF p \in About(writes) THEN LastOf(writes, p) ELSE wanted[p]]
  BY DEF Begin, device
<1> SUFFICES ASSUME NEW p \in Places
             PROVE  /\ \A n \in DOMAIN rest' : IsLast(rest, p, n)' => wanted'[p] = rest'[n].value
                    /\ (\A n \in DOMAIN rest' : ~Sets(rest[n], p)') => wanted'[p] = Get(p)'
  BY DEF Wanted
<1>2. ASSUME NEW n \in DOMAIN writes, IsLast(writes, p, n)
      PROVE  wanted'[p] = writes[n].value
  BY <1>1, <1>2, LastOfIs, AboutIs DEF IsLast
<1>3. ASSUME \A n \in DOMAIN writes : ~Sets(writes[n], p) PROVE wanted'[p] = Get(p)'
  <2>1. wanted[p] = Get(p)
    BY <1>1 DEF Wanted
  <2>2. Get(p)' = Get(p)
    BY <1>1 DEF Get, Mapped
  <2> QED
    BY <1>1, <1>3, <2>1, <2>2, AboutIs
<1>4. \A n \in DOMAIN writes : Sets(rest[n], p)' <=> Sets(writes[n], p)
  BY <1>1 DEF Sets, Ignored, Written
<1>5. \A n \in DOMAIN writes : IsLast(rest, p, n)' => IsLast(writes, p, n)
  BY <1>1, <1>4 DEF IsLast
<1> QED
  BY <1>1, <1>2, <1>3, <1>4, <1>5

\* One write is made, or passed over, and the call goes on.
LEMMA GoOnWanted ==
  ASSUME TypeInv, Wanted, NEW w, rest # <<>>, w = Head(rest), GoOn,
         UNCHANGED <<setting, wanted>>,
         \A p \in Places : Get(p)' = IF Sets(w, p) THEN w.value ELSE Get(p)
  PROVE  Wanted'
<1>1. PICK r : r = rest'
  OBVIOUS
<1>2. /\ rest \in Seq(Writes) /\ r \in Seq(Writes) /\ Len(r) = Len(rest) - 1
      /\ Len(rest) \in Nat /\ Len(rest) > 0
      /\ \A n \in DOMAIN r : n \in Nat /\ n + 1 \in DOMAIN rest /\ r[n] = rest[n + 1]
      /\ \A n \in DOMAIN rest : n \in Nat /\ (n = 1 \/ (n - 1 \in DOMAIN r /\ rest[n] = r[n - 1]))
      /\ 1 \in DOMAIN rest /\ rest[1] = w
  <2>1. rest \in Seq(Writes) /\ r = Tail(rest) /\ r \in Seq(Writes) /\ rest # <<>>
    BY <1>1, HeadType DEF GoOn
  <2>2. Len(rest) \in Nat /\ Len(rest) > 0 /\ Len(r) = Len(rest) - 1
    BY <2>1
  <2>3. /\ DOMAIN rest = 1 .. Len(rest) /\ DOMAIN r = 1 .. Len(r)
        /\ \A n \in 1 .. Len(r) : r[n] = rest[n + 1]
    BY <2>1, <2>2
  <2>4. \A n \in 1 .. Len(rest) : n = 1 \/ (n - 1 \in 1 .. Len(r) /\ rest[n] = r[n - 1])
    BY <2>2, <2>3
  <2>5. \A n \in 1 .. Len(r) : n \in Nat /\ n + 1 \in 1 .. Len(rest)
    BY <2>2
  <2> QED
    BY <2>1, <2>2, <2>3, <2>4, <2>5
<1> SUFFICES ASSUME NEW p \in Places
             PROVE  /\ \A n \in DOMAIN r : IsLast(rest, p, n)' => wanted[p] = r[n].value
                    /\ (\A n \in DOMAIN r : ~Sets(rest[n], p)') => wanted[p] = Get(p)'
  BY <1>1 DEF Wanted
<1>3. \A n \in DOMAIN r : Sets(rest[n], p)' <=> Sets(r[n], p)
  BY <1>1 DEF Sets, Ignored, Written
<1>4. ASSUME NEW n \in DOMAIN r, IsLast(rest, p, n)' PROVE wanted[p] = r[n].value
  <2>1. Sets(r[n], p) /\ \A m \in DOMAIN r : Sets(r[m], p) => m <= n
    BY <1>1, <1>3, <1>4 DEF IsLast
  <2>2. \A m \in DOMAIN rest : Sets(rest[m], p) => m <= n + 1
    <3> TAKE m \in DOMAIN rest
    <3> HAVE Sets(rest[m], p)
    <3>1. CASE m = 1
      BY <1>2, <3>1
    <3>2. CASE m # 1
      <4>1. m - 1 <= n /\ m \in Nat /\ n \in Nat
        BY <1>2, <2>1, <3>2
      <4> QED
        BY <4>1
    <3> QED
      BY <3>1, <3>2
  <2>3. IsLast(rest, p, n + 1)
    BY <1>2, <2>1, <2>2 DEF IsLast
  <2> QED
    BY <1>2, <2>3 DEF Wanted
<1>5. ASSUME \A n \in DOMAIN r : ~Sets(rest[n], p)' PROVE wanted[p] = Get(p)'
  <2>1. \A m \in DOMAIN rest : Sets(rest[m], p) => m = 1
    BY <1>2, <1>3, <1>5
  <2>2. CASE Sets(w, p)
    <3>1. IsLast(rest, p, 1)
      BY <1>2, <2>1, <2>2 DEF IsLast
    <3> QED
      BY <1>2, <2>2, <3>1 DEF Wanted
  <2>3. CASE ~Sets(w, p)
    <3>1. \A m \in DOMAIN rest : ~Sets(rest[m], p)
      BY <1>2, <2>1, <2>3
    <3> QED
      BY <2>3, <3>1 DEF Wanted
  <2> QED
    BY <2>2, <2>3
<1> QED
  BY <1>4, <1>5

\* A write changes the device at the places that it is about, and only there.
LEMMA StoreGet ==
  ASSUME Distinct, TypeInv, NEW w \in Writes, Store(w), ~IsRefused(w), ~Ignored(w)
  PROVE  /\ \A p \in Places : Get(p)' = IF Sets(w, p) THEN w.value ELSE Get(p)
         /\ \A p \in DevicePlaces \ {Mapped(q) : q \in Places} : value'[p] = value[p]
<1>1. \A q \in Written(w) : q \in Places
  BY WrittenType
<1>2. ASSUME NEW p \in Places PROVE Get(p)' = IF Sets(w, p) THEN w.value ELSE Get(p)
  <2>1. Mapped(p) \in DevicePlaces /\ Get(p)' = value'[Mapped(p)]
    BY MappedType DEF Get, Mapped
  <2>2. (\E q \in Written(w) : Mapped(p) = Mapped(q)) <=> p \in Written(w)
    BY <1>1, MappedApart
  <2> QED
    BY <2>1, <2>2 DEF Store, Sets, Get
<1>3. ASSUME NEW p \in DevicePlaces \ {Mapped(q) : q \in Places} PROVE value'[p] = value[p]
  <2>1. ~ \E q \in Written(w) : p = Mapped(q)
    BY <1>1
  <2> QED
    BY <2>1 DEF Store
<1> QED
  BY <1>2, <1>3

LEMMA BeforeIs ==
  ASSUME Wanted, rest \in Seq(Writes), NEW p \in Places
  PROVE  WantedBefore(p) = Get(p)
BY AboutIs DEF Wanted, WantedBefore

\* The call ends behind a write that the device made.
LEMMA ReadBackWanted ==
  ASSUME Distinct, TypeInv, Wanted, NEW w, ReadBackThrows(w)
  PROVE  Wanted'
<1>1. /\ rest # <<>> /\ w = Head(rest) /\ ~IsRefused(w) /\ ~Ignored(w) /\ Store(w)
      /\ rest' = <<>>
      /\ wanted' = [p \in Places |-> IF p \in Written(w) THEN w.value ELSE WantedBefore(p)]
  BY DEF ReadBackThrows, Makes
<1>2. rest \in Seq(Writes) /\ w \in Writes
  BY <1>1, HeadType
<1>3. ASSUME NEW p \in Places PROVE wanted'[p] = Get(p)'
  <2>1. Get(p)' = IF Sets(w, p) THEN w.value ELSE Get(p)
    BY <1>1, <1>2, StoreGet
  <2>2. Sets(w, p) <=> p \in Written(w)
    BY <1>1 DEF Sets
  <2>3. wanted'[p] = IF p \in Written(w) THEN w.value ELSE Get(p)
    BY <1>1, <1>2, BeforeIs
  <2> QED
    BY <2>1, <2>2, <2>3
<1> QED
  BY <1>1, <1>3 DEF Wanted, IsLast

LEMMA EndWanted ==
  ASSUME TypeInv, Wanted, NEW w, rest # <<>>, w = Head(rest), EndOfCall,
         UNCHANGED <<setting, value>>
  PROVE  Wanted'
<1>1. /\ rest' = <<>>
      /\ wanted' = [p \in Places |-> WantedBefore(p)]
  BY DEF EndOfCall
<1>2. rest \in Seq(Writes)
  BY HeadType
<1>3. \A p \in Places : wanted'[p] = Get(p)
  BY <1>1, <1>2, BeforeIs
<1>4. \A p \in Places : Get(p)' = Get(p)
  BY DEF Get, Mapped
<1> QED
  BY <1>1, <1>3, <1>4 DEF Wanted, IsLast

-----------------------------------------------------------------------------
(* The inductive invariant.                                                *)

SettersInv == TypeInv /\ Wanted /\ Untouched /\ TuneIsRemembered

\* A tune of one channel leaves the others as they are, and is remembered with
\* its arguments though the device may not tell the frequency.
LEMMA TuneRemembered ==
  ASSUME Distinct, SettersInv, NEW w, Tune(w) \/ ReadBackThrows(w)
  PROVE  TuneIsRemembered'
<1>1. /\ rest # <<>> /\ w = Head(rest) /\ ~IsRefused(w) /\ ~Ignored(w)
      /\ setting = "frequency" /\ setting' = setting /\ Store(w) /\ TypeInv
      /\ failed' = failed \ {w.chan} /\ Remember(w)
      /\ tunedWith' = [tunedWith EXCEPT ![Channels[w.chan]] = args]
  BY DEF Tune, ReadBackThrows, Makes, SettersInv
<1>2. w \in Writes /\ w.chan \in Ports
  BY <1>1, HeadType
<1>3. ASSUME NEW i \in Ports, i \notin failed'
      PROVE  tuneArgs'[i] = tunedWith'[Channels[i]]
  <2>1. tuneArgs'[i] = IF i = w.chan THEN args ELSE tuneArgs[i]
    BY <1>1, <1>2 DEF Remember, TypeInv, TypeOK
  <2>2. tunedWith'[Channels[i]] = IF i = w.chan THEN args ELSE tunedWith[Channels[i]]
    BY <1>1, <1>2, ChannelsType DEF TypeInv, TypeOK, Distinct
  <2>3. CASE i = w.chan
    BY <2>1, <2>2, <2>3
  <2>4. CASE i # w.chan
    BY <1>1, <1>3, <2>1, <2>2, <2>4 DEF SettersInv, TuneIsRemembered
  <2> QED
    BY <2>3, <2>4
<1>4. ASSUME NEW i \in Ports, i \notin unlabelled'
      PROVE  rxFreq'[i] = Get(<<i, Whole>>)'
  <2>1. <<i, Whole>> \in Places
    BY NamesAre DEF Places
  <2>2. Get(<<i, Whole>>)' = IF i = w.chan THEN w.value ELSE Get(<<i, Whole>>)
    <3>1. Get(<<i, Whole>>)' = IF Sets(w, <<i, Whole>>) THEN w.value ELSE Get(<<i, Whole>>)
      BY <1>1, <1>2, <2>1, StoreGet
    <3>2. Sets(w, <<i, Whole>>) <=> i = w.chan
      BY <1>1 DEF Sets, Written
    <3> QED
      BY <3>1, <3>2
  <2>3. CASE i = w.chan
    <3>1. Tune(w) /\ w.name = Whole
      BY <1>4, <2>3 DEF Tune, ReadBackThrows
    <3> QED
      BY <3>1, <2>3 DEF Tune, SettersInv, TypeInv, TypeOK
  <2>4. CASE i # w.chan
    <3>1. rxFreq'[i] = rxFreq[i] /\ i \notin unlabelled
      BY <1>4, <2>4 DEF Tune, ReadBackThrows, SettersInv, TypeInv, TypeOK
    <3> QED
      BY <1>1, <2>2, <2>4, <3>1 DEF SettersInv, TuneIsRemembered
  <2> QED
    BY <2>3, <2>4
<1> QED
  BY <1>3, <1>4 DEF TuneIsRemembered

\* A tune that throws is remembered as one that has failed.
LEMMA ThrowRemembered ==
  ASSUME SettersInv, NEW w, Throws(w)
  PROVE  TuneIsRemembered'
<1>1. /\ rest # <<>> /\ w = Head(rest) /\ ~IsRefused(w) /\ TypeInv
      /\ UNCHANGED <<setting, value, tunedWith, rxFreq, unlabelled>>
  BY DEF Throws, Makes, SettersInv, device
<1>2. \A i \in Ports : Get(<<i, Whole>>)' = Get(<<i, Whole>>)
  BY <1>1 DEF Get, Mapped
<1>3. ASSUME NEW i \in Ports, i \notin failed'
      PROVE  i \notin failed /\ tuneArgs'[i] = tuneArgs[i]
  BY <1>3 DEF Throws, Remember, SettersInv, TypeInv, TypeOK
<1> QED
  BY <1>1, <1>2, <1>3 DEF TuneIsRemembered, SettersInv

LEMMA SameRemembered ==
  ASSUME TuneIsRemembered,
         UNCHANGED <<setting, tunedWith, tuneArgs, failed>>,
         setting = "frequency" => UNCHANGED <<value, rxFreq, unlabelled>>
  PROVE  TuneIsRemembered'
<1>1. setting = "frequency" => \A i \in Ports : Get(<<i, Whole>>)' = Get(<<i, Whole>>)
  BY DEF Get, Mapped
<1> QED
  BY <1>1 DEF TuneIsRemembered

\* A step that leaves the device as it is and goes on behind a write that is
\* not made.
LEMMA PassedOver ==
  ASSUME TypeInv, Wanted, NEW w, rest # <<>>, w = Head(rest), GoOn,
         IsRefused(w) \/ Ignored(w), UNCHANGED <<setting, wanted, value>>
  PROVE  Wanted'
<1>1. w \in Writes
  BY HeadType
<1>2. \A p \in Places : Get(p)' = Get(p) /\ ~Sets(w, p)
  BY <1>1, NotRefused DEF Get, Mapped, Sets
<1> QED
  BY <1>2, GoOnWanted

LEMMA SettersStep ==
  ASSUME Distinct, SettersInv, [Next]_vars
  PROVE  SettersInv'
<1>0. TypeInv /\ Wanted /\ Untouched /\ TuneIsRemembered /\ TypeInv'
  BY TypeStep DEF SettersInv
<1>1. CASE Calls
  <2>1. PICK writes \in Seq(Writes), tune \in TuneArgs : Begin(writes, tune)
    BY <1>0, <1>1, CallsBegin DEF TypeInv
  <2>2. Wanted'
    BY <1>0, <2>1, BeginWanted
  <2>3. UNCHANGED <<setting, device, tuning, failed>>
    BY <2>1 DEF Begin
  <2> QED
    BY <1>0, <2>2, <2>3, SameRemembered DEF device, tuning, Untouched, SettersInv
<1>2. ASSUME NEW w, Tune(w) \/ Set(w) PROVE SettersInv'
  <2>1. /\ rest # <<>> /\ w = Head(rest) /\ ~IsRefused(w) /\ ~Ignored(w)
        /\ Store(w) /\ GoOn /\ UNCHANGED <<setting, wanted>>
    BY <1>2 DEF Tune, Set, Makes
  <2>2. w \in Writes
    BY <1>0, <2>1, HeadType
  <2>3. Wanted'
    BY <1>0, <2>1, <2>2, StoreGet, GoOnWanted
  <2>4. Untouched'
    BY <1>0, <2>1, <2>2, StoreGet DEF Untouched, Mapped
  <2>5. TuneIsRemembered'
    <3>1. CASE Tune(w)
      BY <3>1, TuneRemembered
    <3>2. CASE Set(w)
      BY <1>0, <3>2, SameRemembered DEF Set, tuning
    <3> QED
      BY <1>2, <3>1, <3>2
  <2> QED
    BY <1>0, <2>3, <2>4, <2>5 DEF SettersInv
<1>3. ASSUME NEW w, Skip(w) PROVE SettersInv'
  <2>1. Wanted'
    BY <1>0, <1>3, PassedOver DEF Skip, device
  <2> QED
    BY <1>0, <1>3, <2>1, SameRemembered DEF Skip, device, tuning, Untouched, SettersInv
<1>4. ASSUME NEW w, OutOfRange(w) PROVE SettersInv'
  <2>1. /\ rest # <<>> /\ w = Head(rest) /\ IsRefused(w)
        /\ UNCHANGED <<setting, device, tuning, failed>>
        /\ EndOfCall \/ (GoOn /\ UNCHANGED wanted)
    BY <1>4 DEF OutOfRange
  <2>2. Wanted'
    BY <1>0, <2>1, PassedOver, EndWanted DEF device
  <2> QED
    BY <1>0, <2>1, <2>2, SameRemembered DEF device, tuning, Untouched, SettersInv
<1>5. ASSUME NEW w, Throws(w) PROVE SettersInv'
  <2>1. rest # <<>> /\ w = Head(rest) /\ EndOfCall /\ UNCHANGED <<setting, device>>
    BY <1>5 DEF Throws, Makes
  <2>2. Wanted'
    BY <1>0, <2>1, EndWanted DEF device
  <2>3. TuneIsRemembered'
    BY <1>5, ThrowRemembered
  <2> QED
    BY <1>0, <2>1, <2>2, <2>3 DEF device, Untouched, SettersInv
<1>6. CASE UNCHANGED vars
  <2>1. Wanted'
    <3>1. /\ \A p \in Places, n \in DOMAIN rest : IsLast(rest, p, n)' <=> IsLast(rest, p, n)
          /\ \A p \in Places, n \in DOMAIN rest : Sets(rest[n], p)' <=> Sets(rest[n], p)
          /\ \A p \in Places : Get(p)' = Get(p)
      BY <1>6 DEF vars, device, IsLast, Sets, Ignored, Written, Get, Mapped
    <3> QED
      BY <1>0, <1>6, <3>1 DEF vars, Wanted
  <2> QED
    BY <1>0, <1>6, <2>1, SameRemembered DEF vars, device, tuning, Untouched, SettersInv
<1>7. ASSUME NEW w, ReadBackThrows(w) PROVE SettersInv'
  <2>1. /\ rest # <<>> /\ w = Head(rest) /\ ~IsRefused(w) /\ ~Ignored(w) /\ Store(w)
        /\ UNCHANGED setting
    BY <1>7 DEF ReadBackThrows, Makes
  <2>2. w \in Writes
    BY <1>0, <2>1, HeadType
  <2>3. Untouched'
    BY <1>0, <2>1, <2>2, StoreGet DEF Untouched, Mapped
  <2>4. Wanted' /\ TuneIsRemembered'
    BY <1>0, <1>7, ReadBackWanted, TuneRemembered
  <2> QED
    BY <1>0, <2>3, <2>4 DEF SettersInv
<1> QED
  BY <1>1, <1>2, <1>3, <1>4, <1>5, <1>6, <1>7 DEF Next, Steps

LEMMA SettersInductive == ASSUME Distinct PROVE Spec => []SettersInv
<1>1. Init => SettersInv
  <2> SUFFICES ASSUME Init PROVE SettersInv
    OBVIOUS
  <2>1. TypeInv
    BY ValuesAssumption DEF Init, TypeInv, TypeOK
  <2>2. Wanted /\ Untouched
    BY MappedType DEF Init, Wanted, Untouched, Get
  <2>3. TuneIsRemembered
    <3>1. \A i \in Ports : <<i, Whole>> \in Places
      BY NamesAre DEF Places
    <3> QED
      BY <3>1, MappedType, ChannelsType DEF Init, TuneIsRemembered, Get
  <2> QED
    BY <2>1, <2>2, <2>3 DEF SettersInv
<1>2. SettersInv /\ [Next]_vars => SettersInv'
  BY SettersStep
<1> QED
  BY <1>1, <1>2, PTL DEF Spec

-----------------------------------------------------------------------------
(* The theorems.                                                           *)

\* Whatever is called, and whichever call throws, every variable has its
\* type: every list and map of values becomes writes of channels, components
\* and keys, and the tune arguments of a call do not outlive it.
THEOREM SettersTypeCorrect == Spec => []TypeOK
<1>1. TypeInv => TypeOK
  BY DEF TypeInv
<1> QED
  BY <1>1, TypeInvariant, PTL

\* "setFoo(valArray) sets valArray[i] on channel[i]": between calls, the
\* getters return what was last asked for and not refused, whatever the calls
\* were, whichever of them threw and where, as long as no two of the block's
\* channels are the same channel of the device.
THEOREM ChannelsKeepTheirValues == ASSUME Distinct PROVE Spec => []ChannelsHaveTheirValues
<1>1. SettersInv => ChannelsHaveTheirValues
  BY DEF SettersInv, Wanted, Untouched, ChannelsHaveTheirValues
<1> QED
  BY <1>1, SettersInductive, PTL

\* The tune arguments that a channel remembers are those of its last tune, if
\* the device did not refuse it, and the rxFreq label has the frequency of the
\* device, if the last tune that the device took left a label
\* (setFrequencyChanArgs()).
THEOREM TunesAreRemembered == ASSUME Distinct PROVE Spec => []TuneIsRemembered
<1>1. SettersInv => TuneIsRemembered
  BY DEF SettersInv
<1> QED
  BY <1>1, SettersInductive, PTL
=============================================================================
