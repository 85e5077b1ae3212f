# Verification of PothosSoapy

This directory holds TLA+ models of the PothosSoapy module (blocks that connect
the Pothos data-flow framework to radios through SoapySDR), the configurations
that check them with TLC, and proofs that TLAPS checks. `PROJECT.json` lists
components, runs, mutants, findings, hazards and theorems, and maps every
definition that models code to its lines.

## The system

| Part | Source | State | Operations |
| --- | --- | --- | --- |
| Delayed dispatch | `BlockThread.cpp` | `_cachedArgs`, `_argsMutex`, `_cond`, `_evalError(Valid)`, `_backgrounding`, `_activateWaits`, `_eventSquash`, `_evalThreadDone` | `setCallingMode`, `setEventSquash`, `opaqueCallHandler`, `isReady`, `evalThreadLoop` |
| Device, stream, status | `SoapyBlock.cpp` 303-441, 1026-1090 | `_device`, `_stream`, `_autoActivate`, `_enableStatus`, `_statusMonitor` | set up, activation, `streamControl`, `setEnableStatus`, `forwardStatusLoop`, destructor |
| Setters | `SoapyBlock.cpp` 443-1021 | `_channels`, `_cachedTuneArgs`, `_pendingLabels`, the device | `setFoo`, `setFooChan`, lists, maps, getters |
| Source | `SoapySource.cpp` | `_postTime`, `_pendingLabels` | `activate`, `work` |
| Sink | `SoapySink.cpp` | none but the input ports | `work`, `packetWork` |
| Enumeration cache | `EnumerateCache.cpp` | `_cache`, `_mutex`, `_cv`, `_done` | `cachedEnumerate`, `pollingLoop` |
| Channel aligner | `utility/ChannelAligner.cpp` | `_nextTimeNs`, `_droppedSamps` | `activate`, `work` |
| Burst timer | `utility/TxBurstTimer.cpp` | `_lastHwTime`, `_lastPcTime`, `_lastSampleTimeNs`, `_timeDeltaNs`, `_sampleRate`, `_frameStartId` | `work`, `setTime`, `setTimeDelta`, `setSampleRate`, `setFrameStartId` |
| Random dropper | `utility/RandomDropper.cpp` | `_probability`, `_dropSize`, `_numLeftToDrop`, `_postTime`, `_nextTimeNs` | `setProbability`, `setDropSize`, `work` |
| Demo controller, converter | `DemoController.cpp`, `utility/Converter.cpp` | counters, a factor | `work`, setters |
| Overlay, device info, logger | `SoapyBlock.cpp` 219-301, `SoapyInfo.cpp`, `Logger.cpp` | none | formatting, forwarding |

The framework calls into a block from one thread at a time: registered calls go
through `opaqueCallHandler()`, and `activate()`, `deactivate()` and `work()` are
called directly. Setters may instead be queued and made by the block's own
evaluation thread, which then shares `_device`, `_stream`, `_pendingLabels`,
`_enableStatus` and `_statusMonitor` with the framework's thread, mostly without
a lock. A third thread forwards the stream status, and one per process
enumerates devices. What is hard is therefore

* the order of setters, of which some are queued and others made at once, with
  squashing, failures, and one condition variable for everybody who waits;
* starting and stopping three kinds of threads, and releasing what they use;
* labels that must stay with their elements through partial transfers,
  discontinuities, and changes made between or during calls of `work()`;
* settings that are mapped from the block's channels to those of the device
  and may fail in the middle.

No test in the repository exercises any of this. The full list is under
`hazards` in `PROJECT.json`, each at its line and with the properties that
watch it.

## The modules

One module per component, without PlusCal and without recursive operators, so
that all of them can be proved about. Operators called `Faulty...` are plausible
mistakes in the operator that follows them; they are used by the mutants of
`PROJECT.json` to show that each property depends on the code, and by nothing
else.

### EvalQueue (the core), SettingsLog

`EvalQueue` has any number of callers and the evaluation thread. One action is
one stretch of a thread that nothing can divide: a locked region, a
`notify_one()` after unlocking, an access to an unprotected flag, the end of a
call of the device. `mutex` is held across steps only by a caller that makes a
call itself, as the code does; the other locked regions are single actions
guarded by `mutex = Nobody`. `waiters` is the wait set of `_cond`; `NotifyOne`
removes any one thread and `Spurious` any thread at any time. A setter is a
record of a name (what squashing compares), a key (a gain element, the key of a
setting) and an argument; `setCallingMode` and `setEventSquash` are setters
that also change the dispatch, and are queued like others. `issued` numbers the
accepted settings; `latest`, `device`, `failed`, `skipped` and `direct` record
what became of them. The rest of `activate()` is the step `ActivateEnds`; after
it the active state is left open because the framework decides it.

`SettingsLog` is what this promises to a user of the block: a log of accepted
settings, of which the oldest pending one is made, refused or (if a later one
has its name) discarded, and settings that are made at once while at most one
other is on its way. `EvalQueue!ImplementsSettingsLog` is the refinement, with
`pending` the setting in flight followed by `_cachedArgs`.

### StreamLife

The same block from the outside: the framework's thread, the evaluation thread
(which makes the setters if `background` is chosen) and the status monitor share
the device, the stream and the monitor's thread object. The queue between the
first two is abstracted: the evaluation thread takes up some setter whenever it
is idle, which is what `EvalQueue` allows. Only a `setupDevice()` that throws,
or the destructor, ends it (`EvalStopped`): behind a `setupStream()` that threw
the block goes on without a stream, and `setAutoActivate()` and
`setEnableStatus()`, which look at neither device nor stream, are taken before,
between and after the initializers. Set up, activation and deactivation may
throw. `configureStatusThread()` is split at every access to `isActive()`,
`_enableStatus` and `joinable()`; assigning to a joinable thread or joining twice
leads to `Terminate`. Setters in the background share
`_enableStatus`, `_statusMonitor` and `_stream` without a lock; the properties
that this breaks are stated for `Synchronous` behaviours, the others for all.

### BgEnumerator

The singleton, its first caller, the polling thread and the destructor. A list
of devices is represented by the number of the change that led to it, and an
enumeration may never return; the first one, which the constructor makes, may
also throw, and the next caller constructs the singleton.

### SDRSource, SDRSink

`work()` in the steps that other threads can see. Elements have no values. In
`SDRSource`, `ports` are the block's channels, chosen at the start, `now` is the
hardware time of the next element and `told` the time that a reader of the
output computes by counting from the last `rxTime` label; `displaced` records
that `streamControl()` restarted the stream since, or that a packet took
elements out of it: with one output, the flags of each transfer decide whether
it is a packet. `pending` is the `rxRate` label that waits for `work()`.
`setSampleRate()` sets the device and then reads the rate back, and either may
throw (`RateThrows`, `ReadBackThrows`); `unread` are the channels whose rate the
device has not told since it was set. Before C++17 the language leaves open
whether `_pendingLabels[i]["rxRate"]` is looked up before the rate is read back:
if it is, a read-back that throws leaves a label without a rate (`NoRate`).

In `SDRSink` the labels are chosen at the start, buffers are cut anywhere
(`limit`), and `written` records the calls of `writeStream()` that took elements.

### ChannelSetters

A call of a setter is a sequence of writes to the device, and the device may
throw at each: whatever the form of the call (one value for all channels, a
list of any length, a map, a list of maps, one channel), `rest` is what it has
still to write. Settings share no state, and a behaviour makes calls of one
`setting`: `frequency` and `gain` with their elements, `bandwidth` for antennas
too (empty values are not set), `mode` for gain modes and DC offsets, `setting`
for channel settings (which throw for a channel that does not exist), `global`
for hardware times too, `clock` for clock rate, clock source and time source,
`frontend`, `gpio` and `log`. What is not of a channel is at place 0. `Get` is
what the getters return; a command time and GPIO masks are values like others.
`wanted` is what was asked for last. Where a call throws, `EndOfCall` takes
back what it had not yet made. A tune is two calls of the device: it is set, and
asked for the frequency that it has, for the label. `Throws` is the first that
throws, and leaves the device as it was (`failed`); `ReadBackThrows` is the
second, behind which the device is tuned and the label is old, or empty for the
reason above (`unlabelled`). `setFrequencyName()` asks for no frequency.

### Streams, ChannelAligner, AlignedOutput, RandomDropper, ReceiveChain

`Streams` has what the two blocks in `utility/` share: elements that are known
by their tick, their `rxTime` labels, the conversions between samples and
nanoseconds with the rounding of the code, and the search for the time of the
first element (`FrontTime`). `Front` is the buffer that the framework shows:
it ends in front of the next label, or (`Joined`) anywhere.

In `ChannelAligner` `lost` is what upstream lost, and the element behind a loss
is labelled, as the first one after an activation is. `Restart` deactivates and
activates the topology: what is on its way is lost, and `activate()` keeps the
times. `AlignedOutput` is what the block promises: upstream may lose elements
that are still to come, and what is sent next are elements that no stream has
lost, later than those sent before, the same ticks on all outputs, and whatever
is left out between them was lost by some stream. It knows neither queues nor
times; catching up is a stutter. `ChannelAligner!ImplementsAlignedOutput` is the
refinement. `RandomDropper` has the three ends of its `work()`: go on dropping, cause
a drop, or forward, where a drop counts as a loss for the block behind it.
`ReceiveChain` puts it in front of the first input of an aligner, as its
documentation says it is meant to be used: upstream losses, drops in one piece
or in several, changes of both parameters and restarts come in any order.

### TxBurstTimer

`passed` is the time since `setTime()`, so that `SetTime` may turn the clock
back or on at will; `SetSampleRate` changes what an element lasts, even in the
middle of a burst, and `SetFrameStartId` which of the elements to come start
one. `starts` are the elements with a frame start label, `times` records the
time that each got, and `played` how long the elements last, each at the rate
it was forwarded with. The end of what was forwarded is
rounded at every buffer, as in the code, which is safe because each adds one
element more than it has. A buffer ends in front of the next start that has
arrived (`EndsAt`).

## The runs

| Run | Instance | What it shows |
| --- | --- | --- |
| `queue_background` | 2 callers, 3 settings, background modes | settings are made in order, the newest wins, direct calls find the queue drained, the evaluation thread survives every failed setting but a `setupDevice`, behind which it makes nothing |
| `queue_mixed` | 1 caller, 3 settings, all modes, squashing, fair threads | types, nothing queued is lost, only intermediates are skipped, no lost wakeup, refinement of `SettingsLog`, calls return and queued settings settle |
| `enumerator` | 2 readers, 3 changes, a first enumeration that may throw | the cache never goes back, overlays are answered even while a driver hangs; if enumerations return, the cache catches up and the destructor returns |
| `stream_life` | synchronous or background setters, failures of every call of the device | nothing is used after it is closed or released; with synchronous setters the monitor runs when wanted, only then, and only on an open stream, nothing leaks, calls return |
| `source` | 2 ports, or 1 with packets between the transfers of the stream; rates are set twice, and setting or reading them back throws | readers know time and rate of what they get, but for a time displaced and a rate not told; no rate is lost through packets |
| `sink` | every placement of labels on 4 elements, 1 packet | times and ends reach the device at their elements; input is used up |
| `setters` | 2 channels mapped crosswise to 3, 2 keys, 1 gain element, lists of 1 to 3 values | values, arguments and labels are those of the right channel, wherever a write or a read-back throws |
| `receive_chain` | 3 streams of 3 ticks, any losses and restarts; drops of 1 or 2 | both blocks know the time of what they have, refinement of `AlignedOutput`, no vain drops, progress of both |
| `burst_timer` | any starts on 4 elements, 2 calls of setters, 5/3 or 7/3 ns per element | starts get times, bursts do not overlap, input is forwarded |

The bounds: two setters suffice to be out of order, and a third to be skipped
or overtaken between them or to change the mode; two callers already compete
for `notify_one()`; two channels are enough to confuse them and three device
channels to touch a wrong one; four elements hold a label before, at, between
and behind the cuts of a buffer. Three streams let two of them lose different
elements while the third must follow, or let the search of `work()` start again
from a newer one; three ticks hold a drop of two, and a loss next to it. Lists
may have one value more than there are channels. `MaxSettings`, `MaxChanges`, `MaxTime`,
`MaxRate`, `MaxElems`, `MaxPackets`, `MaxTick` and `MaxSyncs` stop the
environment only. Periods of 5/3 and 7/3 ns make every rounding of the burst
timer happen, down and up.
Deadlock is not checked because the framework may stop calling, a destroyed
block has no steps, and bounded environments run out; that nobody waits for
ever is stated by the liveness properties instead.

### Fairness

Threads run, and calls of the device return (`EvalQueue!Fairness`,
`StreamLife!FairSpec`): `readStreamStatus()` has a timeout, and the code has no
means against a device that blocks for ever. Nothing is assumed of the
framework or of spurious wakeups: nobody has to call. In `BgEnumerator` a
reader is let in eventually, since the polling thread never holds the mutex for
long. That every enumeration returns is not part of its fairness: it is
`EnumerationsReturn`, the premise of the properties that need it. In
`SDRSink` `work()` is called again and again, as the scheduler of the framework
does while there is input, and the device accepts something again and again.
In `ChannelAligner`, `ReceiveChain` and `TxBurstTimer` `work()` is called while
there is input. `ChainSpec` adds that a dropper that can forward again and again
does so at last: its random numbers are not for ever below a probability that
is less than 1; with a probability of 1 it cannot forward, and the properties
then rest on the drops alone.

### Where code and documentation disagree

Each of these runs ends with a counterexample; the quotations are in
`PROJECT.json` under `findings`.

| Run | Counterexample |
| --- | --- |
| `queue_keys` | squashing discards the only value of one gain for another's |
| `queue_destructor` | the destructor's notification is lost, `join()` hangs |
| `aligner_rounding` | a rounding error of 1 ns stops the block for ever |

### Where the properties end

The conditions of the passing runs are not idle. The change in the middle
column makes TLC find the property on the left violated:

| Property | Change | Counterexample |
| --- | --- | --- |
| `NewestSettingWins` | add it to `EvalQueueMixed.cfg` | a queued setting overwrites one that was made at once meanwhile: between two calls the queue is empty while the older setting is in flight (`BlockThread.cpp:70`) |
| `MonitorRunsIfWanted` | `Synchronous == TRUE` | `joinable()` and `_enableStatus` change between the tests of two threads (`SoapyBlock.cpp:426-441`) |
| `StreamInUse` | `Synchronous == TRUE` | `setupStream()` failed, and a queued `setEnableStatus(true)` is made while `activate()` waits in `isReady()`: it finds the block active and starts a monitor that reads from a null stream (`SoapyBlock.cpp:406, 429`) |
| `CallsReturn` | `Synchronous == TRUE` | `join()` waits for a monitor that was enabled again |
| `NothingLeaks` | `Synchronous == TRUE` | the evaluation thread opens a stream after the destructor closed the last (`SoapyBlock.cpp:320`) |
| `RateIsTold` | `Background = TRUE` | a label is cleared that was stored after the post (`SoapySource.cpp:106`) |
| `TimeIsKnown` | without `displaced` | `streamControl()` restarts the stream, or a packet comes between two transfers of it (`SoapySource.cpp:67`), and no time is posted |
| `LabelsAccompanyElements` | for packets too | labels stay pending behind a packet |
| `RateIsTold`, `LabelsAccompanyElements` | for `unread` channels too | the read-back throws (`SoapyBlock.cpp:357`): the device has a rate that no label tells |
| `EndsAreMet` | `Width = 2` | a buffer cuts the end label, and the burst ends too early |
| `TuneIsRemembered` | for `unlabelled` channels too | the read-back throws (`SoapyBlock.cpp:510`), or a named component is tuned (line 518): the label is that of an earlier frequency |
| `TuneIsRemembered` | for `failed` channels too | arguments of a tune that the device refused are remembered (`SoapyBlock.cpp:508`) |
| `TimesAreRight`, `ImplementsAlignedOutput`, `NothingDroppedInVain` | `Joined = TRUE` | a label in the middle of a buffer is taken for the time of its first element |
| `InputsAreUsedUp` | a period of 50/3 ns (`aligner_rounding`) | times of the same element differ by 1 ns for ever |
| `DropperGoesOn` | `DropSizes = {0}` | with a probability of 1 and drops of no elements the block neither drops nor forwards (`RandomDropper.cpp:135`) |
| `ChannelsHaveTheirValues`, `TuneIsRemembered` | `Crossed == <<1, 1>>` | a block that was given one channel of the device twice: the value of one is that of the other |
| `BurstsDoNotOverlap` | a period of 1/3 ns, without `PeriodAssumption` | the element that is added no longer makes up for the rounding |

With a probability of 0 the dropper still drops when its random number is
exactly 0 (`RandomDropper.cpp:135`), although "a probability of 0 would mean
that drops never occur" (line 26): `CauseDrop` has it, and the properties hold
all the same. `isReady()` is true while the last setting is in flight (`BlockThread.cpp:94`),
and a `setFrequency()` without arguments takes the first channel's for all
(`SoapyBlock.cpp:469`); the model has both.

## The proofs

For every set of callers, every set of setters, every number of channels and
streams, and every bound TLAPS proves:

| Theorem | Module | Argument |
| --- | --- | --- |
| `TypeCorrect` | `EvalQueueProofs` | `TypeOK` is inductive once it says that whoever is in the wait set is at a call of `wait()` |
| `MadeInOrder` | `EvalQueueProofs` | with `TypeOK`, identifiers in the queue grow and never exceed `issued` |
| `NothingQueuedIsLost` | `EvalQueueProofs` | order gives uniqueness: popping one entry leaves the others on the way |
| `NewestIsNotSkipped` | `EvalQueueProofs` | a skipped entry has a later one of its name, hence of its target if `OneKeyPerName` |
| `DirectCallsAreDrained` | `EvalQueueProofs` | who holds the mutex saw an empty queue, and only its holder may enqueue |
| `SingleCallerWakes` | `EvalQueueProofs` | with `SingleCaller`, caller and evaluation thread never sleep together, so `notify_one()` reaches the right one |
| `EvalThreadLives` | `EvalQueueProofs` | the loop is left where the flag is set, or behind a call that threw and has the name `setupDevice`; behind such a failure the thread stays on its way out |
| `NewestWinsInBackground` | `EvalQueueProofs` | if setters never leave the background modes, a direct setter is made before any was queued |
| `QueueImplementsLog` | `EvalQueueProofs` | each action maps to a step of the log or to a stutter, using the invariants above |
| `TypeCorrect`, `TimeStaysKnown`, `RatesAreTold`, `RatesAccompanyElements` | `SDRSourceProofs` | an invariant for each place of `work()` and of `setSampleRate()`, from which a channel is excepted while its rate is not read back; the loop over the outputs leaves nothing pending behind it (`LabelInv`); `~Background` is assumed for rates |
| `TypeCorrect`, `TimesAreHonoured`, `EndsAreHonoured` | `SDRSinkProofs` | the elements up to `consumed` were cut at every label; `Width = 1` is assumed for ends |
| `TypeCorrect`, `CacheNeverGoesBack` | `BgEnumeratorProofs` | `Newer`: what was shown is no newer than the cache, and the cache no newer than a list on its way into it; one reader constructs, and nothing polls until it has |
| `BurstsStayApart` | `TxBurstTimerProofs` | `Room`: the end that was computed is not before that of any burst so far, because each buffer adds one element more than it has and a period is at least 1 ns, which makes up for the rounding |
| `TypeCorrect`, `AlignerImplementsOutput`, `DropsHaveReasons` | `ReceiveChainProofs` | the aligner alone, see below |
| `ChainTypeCorrect`, `ChainTimesAreRight`, `ChainImplementsOutput`, `ChainDropsHaveReasons` | `ReceiveChainProofs` | the dropper in front of it, see below |
| `LifeTypeCorrect`, `LifeStreamInUse`, `LifeReleasedAfterCalls`, `LifeNothingLeaks`, `LifeMonitorRunsIfWanted` | `StreamLifeProofs` | `LifeInv`, see below |
| `SettersTypeCorrect`, `ChannelsKeepTheirValues`, `TunesAreRemembered` | `ChannelSettersProofs` | `SettersInv`, see below; `Distinct` is assumed for the last two |

**Aligner.** The aligner's theorems assume `Exact`: a tick is a whole number of
nanoseconds and labels are at the start of buffers; both are needed, as the
counterexamples above show. The invariant `Inv` has five parts that TLC does not
see. `Known` says of each input that the elements between two labels have
subsequent ticks and that the first has a label or the time that is expected, so
that `FrontTime` is the time of the first element (`TimeOfFront`). `Past` says
that what is lost or dropped never comes back. `Accounted` says that an element
that one input has, or will have, is gone at another only if it was lost or
dropped there; so whatever `work()` drops because another input is ahead was
lost at that one, or dropped there for the same reason (`CatchUpInv`).
`SentBefore` says that what was forwarded last comes before all that is at the
inputs or still to come, and `NoneMissing` that up to there every element was
forwarded or is gone; with them each loss and restart is a step `LoseSome` of
`AlignedOutput`, and forwarding is its `Send` (`ForwardInv`), where the gap in
front of what is sent was lost by `NothingDroppedInVain`. That elements are
consumed from the front of a buffer without upsetting any of this is `Consumed`.

**Aligner behind a dropper.** `Inv(a, fr)` does not fix how far its inputs have
come and whether the next element has a label: `a` and `fr` are parameters. The
aligner alone has `arrived` and `fresh` there. In the chain the first input has
`come` and `coming`: it has come up to the element in front of the one that the
dropper holds first, and the next one is labelled if the dropper has a label for
it or is about to post one. With these, what the dropper drops is to the aligner
what upstream loses (`ChainCame`, `LostOnTheWay`), what it forwards is what
arrives (`ForwardedIs`), and all that the aligner does it does as when it is
alone. `DropperInv` is the dropper's side, what
`Known` is at the aligner for its own input and the time that it computes;
`Following` describes the elements that arrive behind those that are there, and
`Concatenated` that they go on where those end. `ChainInv` has both, and `ChainStep`
shows that each action of either block keeps it and is a step of
`AlignedOutput` or a stutter.

**Device, stream, monitor.** `StreamLife` is finite, and TLC can visit all of its
states; the proof adds both values of both constants, and the argument that a
change of the code has to keep. `LifeInv` says at which places of the calls each thread
may be (`Places`), what is there between set up and destructor (`Hardware`), in
which order the destructor stops, closes, joins and releases (`Destroying`), and,
with synchronous setters only, that the monitor is there while it is wanted
(`Monitoring`). The essential parts of the argument for `StreamInUse`, which holds
with setters in the background too, are that a monitor goes on reading only
while the block is active, that `deactivate()` and the destructor have made it
inactive before they come to `join()`, and that nothing behind the join lets a
new one start to read. That the stream was ever opened is another matter: with
synchronous setters the block is active only behind `check_stream_ptr()`.

**Setters.** `Wanted` says at any place of any call that what is wanted of a
place is what the rest of the call writes there last, and what the device has if
it writes there no more. One write keeps it because it changes the device at its
place only (`StoreGet`): that two places of the block are two places of the
device (`MappedApart`) is where `Distinct`, that no channel of the device was
given to the block twice, is needed. A call that throws keeps it because what it
had still to write is no longer wanted, be it before a write or, in
`ReadBackWanted`, behind one. `CallsBegin` shows that every form of
every call, its lists and maps, begins a sequence of well-typed writes; for that,
`FlattenSeqType` shows what the community modules' recursive `FlattenSeq` returns,
from the least place where it would be something else (`Smallest`).

The invariants that the properties need are named in the proof modules, next
to the theorem that uses them. The assumptions on constants are the `ASSUME`s
of the modules and, where a theorem needs more, its own `ASSUME`; the
counterexamples above show that these are needed.

Every invariant and every action property of the passing runs is stated by a
theorem, and so are the refinements of `SettingsLog` and `AlignedOutput`. Only
model-checked is all liveness: `CallReturns`, `QueuedSettingSettles`,
`ChangesReachCache`, `DestructorReturns`, `OverlayAnswers`, `CallsReturn`,
`InputIsUsedUp`, `InputsAreUsedUp`, `DropperGoesOn` and `InputIsForwarded`
(TLAPS has no proofs with fairness and `ENABLED` here). `SDRSink!TypeOK` and
`TxBurstTimer!TypeOK` are proved and not run.

## Not modelled

* The demo controller: an example application, a transceiver that times its
  bursts by counting received elements and shares no state with the blocks.
* The converter, device info, log formatting, block descriptions and
  registration: no control, or no state.
* Which options, formats and device arguments are passed to the device. The
  getters read only (`Get`); those of sensors pass the block's channel on
  unmapped (`SoapyBlock.cpp:863`).
* An `enumerate()` that throws in the polling thread: it ends the process.
* `overlay()` reads `_antennaOptions` while the evaluation thread may assign it:
  a data race whose outcome has no state behind it.
* A sample rate that changes while the aligner or the dropper stream: an
  `rxRate` label without an `rxTime` label makes them convert the times of older
  elements at the new rate. `setNumChannels()`, which is called when the block
  is made.
* Labels other than `rxTime` behind a drop: what the framework does with the
  labels of elements that are consumed and not forwarded is its own affair.
* The elements of packets: a packet is written, times out or fails as a whole.

The framework and SoapySDR are external: their calls appear as the choices they
leave open.

## Plan

1. A sample rate that changes while streaming: `rxRate` labels in `Streams`, and
   `SDRSource` in front of `ReceiveChain`, from the device to aligned outputs.
2. `DemoController` with `SDRSource` and `SDRSink`: a loop of bursts.
3. `EvalQueue` with several callers that block, and the composition of
   `EvalQueue` with `StreamLife`, which would replace the latter's abstract
   evaluation thread.
4. An abstract specification of the status monitor, and the refinement.
5. Proofs: what of `EvalQueue` holds for several callers that block (the part of
   `NoLostWakeup` that does not need `SingleCaller`), and the safety that goes
   with points 1 to 4.
