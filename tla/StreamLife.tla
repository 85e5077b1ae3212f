----------------------------- MODULE StreamLife -----------------------------
(***************************************************************************)
(* The life of a block's device, stream and status monitor thread          *)
(* (SoapyBlock.cpp): set up, activation, setEnableStatus(), streamControl(),*)
(* deactivation, destructor.                                               *)
(*                                                                         *)
(* Three threads take steps: the framework's ("main"), which makes one     *)
(* call at a time, the block's evaluation thread ("eval"), which makes the *)
(* setter calls when they are in the background, and the status monitor.   *)
(* How calls travel to the evaluation thread is the business of EvalQueue; *)
(* here it takes up some call whenever it is idle.                         *)
(***************************************************************************)
CONSTANT
  Timed         \* a receiver with hardware time: activated at a time first

ASSUME ConstantsAssumption == Timed \in BOOLEAN

VARIABLES
  background,   \* setters are evaluated by the evaluation thread
  device,       \* _device: "none", "made" or "released"
  stream,       \* _stream: "none", "open" or "closed"
  streaming,    \* the device streams
  setup,        \* the next initializer, "done", or "failed" with setupDevice
  active,       \* isActive(), kept by the framework
  auto,         \* _autoActivate
  enabled,      \* _enableStatus
  joinable,     \* _statusMonitor.joinable()
  monitor,      \* where the monitor thread is
  supported,    \* the monitor thread was not answered NOT_SUPPORTED
  call,         \* the call each thread makes and where it is in it
  conf          \* where it is in configureStatusThread()

vars == <<background, device, stream, streaming, setup, active, auto,
          enabled, joinable, monitor, supported, call, conf>>
hardware == <<device, stream, streaming, setup>>
settings == <<background, active, auto, enabled>>
thread == <<joinable, monitor, supported>>

Threads == {"main", "eval"}

\* The thread that evaluates setters.
Setter == IF background THEN "eval" ELSE "main"

Init ==
  /\ background \in BOOLEAN
  /\ device = "none"
  /\ stream = "none"
  /\ streaming = FALSE
  /\ setup = "setupDevice"
  /\ active = FALSE
  /\ auto = TRUE
  /\ enabled = FALSE
  /\ joinable = FALSE
  /\ monitor = "none"
  /\ supported = TRUE
  /\ call = [t \in Threads |-> "idle"]
  /\ conf = [t \in Threads |-> "out"]

\* Thread t goes on from one place to another, or calls configureStatusThread.
Goes(t, from, to) ==
  /\ call[t] = from
  /\ conf[t] = "out"
  /\ call' = [call EXCEPT ![t] = to]
  /\ UNCHANGED conf

Configures(t, from, to) ==
  /\ call[t] = from
  /\ call' = [call EXCEPT ![t] = to]
  /\ conf' = [conf EXCEPT ![t] = "test"]

\* The evaluation thread takes no more calls: the destructor stops it, or
\* setupDevice failed in it. It survives any other setter that throws.
EvalStopped ==
  setup = "failed" \/ call["main"] \in {"join eval", "unmake", "destroyed"}

-----------------------------------------------------------------------------
(* Initializers and setters, on the thread that evaluates them. The        *)
(* framework calls each initializer once, in order; setAutoActivate() and  *)
(* setEnableStatus() look at neither device nor stream and may come before *)
(* the initializers, or after one that failed.                             *)

Takes(t) == t = Setter /\ (t = "eval" => ~EvalStopped)

BeginSetup(t) ==
  /\ setup \in {"setupDevice", "setupStream"}
  /\ Takes(t)
  /\ Goes(t, "idle", setup)
  /\ UNCHANGED <<hardware, settings, thread>>

\* Device::make() and the queries that follow it succeed or throw. After a
\* failure the evaluation thread, or the creation of the block, is over.
SetupDevice(t) ==
  /\ Goes(t, "setupDevice", "idle")
  /\ \/ device' = "made" /\ setup' = "setupStream"
     \/ device' \in {"none", "made"} /\ setup' = "failed"
  /\ UNCHANGED <<stream, streaming, settings, thread>>

\* When setupStream() throws, the block goes on without a stream.
SetupStream(t) ==
  /\ Goes(t, "setupStream", "idle")
  /\ stream' \in {"open", stream}
  /\ setup' = "done"
  /\ UNCHANGED <<device, streaming, settings, thread>>

SetAutoActivate(t) ==
  /\ Takes(t)
  /\ Goes(t, "idle", "idle")
  /\ auto' = ~auto
  /\ UNCHANGED <<hardware, background, active, enabled, thread>>

\* streamControl() is not a setter: the framework's thread makes it, when no
\* setter waits. A failure throws and changes nothing.
StreamControl ==
  /\ stream = "open"
  /\ Goes("main", "idle", "idle")
  /\ streaming' \in BOOLEAN
  /\ UNCHANGED <<device, stream, setup, settings, thread>>

SetEnableStatus(t) ==
  /\ Takes(t)
  /\ Configures(t, "idle", "setEnableStatus")
  /\ enabled' \in BOOLEAN
  /\ UNCHANGED <<hardware, background, active, auto, thread>>

-----------------------------------------------------------------------------
(* configureStatusThread().                                                *)

\* Where a thread goes on after it.
After(where) ==
  CASE where = "stop monitor" -> "stop stream"
    [] where = "~SoapyBlock" -> "close stream"
    [] OTHER -> "idle"

Within(t, from, to) ==
  /\ conf[t] = from
  /\ conf' = [conf EXCEPT ![t] = to]
  /\ call' = IF to = "out" THEN [call EXCEPT ![t] = After(@)] ELSE call

TestWanted(t) ==
  /\ Within(t, "test", IF active /\ enabled THEN "start" ELSE "stop")
  /\ UNCHANGED <<hardware, settings, thread>>

TestJoinable(t) ==
  /\ \/ Within(t, "start", IF joinable THEN "out" ELSE "spawn")
     \/ Within(t, "stop", IF joinable THEN "join" ELSE "out")
  /\ UNCHANGED <<hardware, settings, thread>>

Spawn(t) ==
  /\ ~joinable
  /\ Within(t, "spawn", "out")
  /\ joinable' = TRUE
  /\ monitor' = "test"
  /\ supported' = TRUE
  /\ UNCHANGED <<hardware, settings>>

\* Faulty: detach() for join().
FaultyJoinMonitor(t) ==
  /\ joinable
  /\ Within(t, "join", "out")
  /\ joinable' = FALSE
  /\ UNCHANGED <<hardware, settings, supported, monitor>>

JoinMonitor(t) ==
  /\ joinable
  /\ monitor = "returned"
  /\ Within(t, "join", "out")
  /\ joinable' = FALSE
  /\ monitor' = "none"
  /\ UNCHANGED <<hardware, settings, supported>>

\* Both threads were past their tests of joinable(): a thread is assigned to
\* one that is joinable, or one is joined twice, and the program ends.
Terminate(t) ==
  /\ conf[t] = IF joinable THEN "spawn" ELSE "join"
  /\ call' = [u \in Threads |-> "terminated"]
  /\ conf' = [u \in Threads |-> "out"]
  /\ UNCHANGED <<hardware, settings, thread>>

-----------------------------------------------------------------------------
(* forwardStatusLoop().                                                    *)

\* Faulty: the loop ignores deactivation.
FaultyMonitorTest ==
  /\ monitor = "test"
  /\ monitor' = IF enabled THEN "read" ELSE "returned"
  /\ UNCHANGED <<hardware, settings, joinable, supported, call, conf>>

MonitorTest ==
  /\ monitor = "test"
  /\ monitor' = IF active /\ enabled THEN "read" ELSE "returned"
  /\ UNCHANGED <<hardware, settings, joinable, supported, call, conf>>

\* readStreamStatus() times out, has a status, or is not supported; a status
\* is emitted, and after NOT_SUPPORTED the thread returns.
MonitorRead ==
  /\ monitor = "read"
  /\ \/ monitor' = "test" /\ UNCHANGED supported
     \/ monitor' = "emit" /\ supported' \in BOOLEAN
  /\ UNCHANGED <<hardware, settings, joinable, call, conf>>

MonitorEmit ==
  /\ monitor = "emit"
  /\ monitor' = IF supported THEN "test" ELSE "returned"
  /\ UNCHANGED <<hardware, settings, joinable, supported, call, conf>>

-----------------------------------------------------------------------------
(* Activation and deactivation. The framework calls activate() with        *)
(* isActive() true and deactivate() with isActive() false, and it does not *)
(* count a block as active whose activate() threw.                         *)

Activate ==
  /\ ~active
  /\ Goes("main", "idle", "ready")
  /\ active' = TRUE
  /\ UNCHANGED <<hardware, background, auto, enabled, thread>>

Throw(from) ==
  /\ Goes("main", from, "idle")
  /\ active' = FALSE
  /\ UNCHANGED <<hardware, background, auto, enabled, thread>>

\* isReady() throws the error of a setter, or because setters wait; once such
\* an error was thrown it is forgotten, and check_stream_ptr() still throws.
Ready ==
  /\ stream = "open"
  /\ Goes("main", "ready", IF auto THEN "activate stream" ELSE "signals")
  /\ UNCHANGED <<hardware, settings, thread>>

NotReady == Throw("ready")

\* With hardware time a receiver is activated at a time; without support for
\* that it is tried again.
ActivateStream ==
  \/ /\ Goes("main", "activate stream", "signals")
     /\ streaming' = TRUE
     /\ UNCHANGED <<device, stream, setup, settings, thread>>
  \/ Throw("activate stream")
  \/ /\ Timed
     /\ Goes("main", "activate stream", "try again")
     /\ UNCHANGED <<hardware, settings, thread>>

ActivateAgain ==
  \/ /\ Goes("main", "try again", "signals")
     /\ streaming' = TRUE
     /\ UNCHANGED <<device, stream, setup, settings, thread>>
  \/ Throw("try again")

\* Faulty: activate() ends with the signals.
FaultyEmitSignals ==
  /\ Goes("main", "signals", "idle")
  /\ UNCHANGED <<hardware, settings, thread>>

\* emitActivationSignals() calls the getters of the device: any may throw.
EmitSignals ==
  \/ /\ Configures("main", "signals", "start monitor")
     /\ UNCHANGED <<hardware, settings, thread>>
  \/ Throw("signals")

Deactivate ==
  /\ active
  /\ conf["main"] = "out"
  /\ Configures("main", "idle", "stop monitor")
  /\ active' = FALSE
  /\ UNCHANGED <<hardware, background, auto, enabled, thread>>

\* deactivateStream() may fail, and deactivate() throw.
StopStream ==
  /\ Goes("main", "stop stream", "idle")
  /\ streaming' \in {FALSE, streaming}
  /\ UNCHANGED <<device, stream, setup, settings, thread>>

-----------------------------------------------------------------------------
(* ~SoapyBlock(), of a block that is not active.                           *)

\* Faulty: the destructor relies on deactivate() to stop the monitor.
FaultyDestroy ==
  /\ ~active
  /\ Goes("main", "idle", "close stream")
  /\ UNCHANGED <<hardware, settings, thread>>

Destroy ==
  /\ ~active
  /\ Configures("main", "idle", "~SoapyBlock")
  /\ enabled' = FALSE
  /\ UNCHANGED <<hardware, background, active, auto, thread>>

\* Faulty: only a stream that is running is closed.
FaultyCloseStream ==
  /\ Goes("main", "close stream", "join eval")
  /\ stream' = IF streaming THEN "closed" ELSE stream
  /\ UNCHANGED <<device, streaming, setup, settings, thread>>

\* if (_stream != nullptr) closeStream(), and _evalThreadDone = true.
CloseStream ==
  /\ Goes("main", "close stream", "join eval")
  /\ stream' = IF stream = "open" THEN "closed" ELSE stream
  /\ UNCHANGED <<device, streaming, setup, settings, thread>>

\* Faulty: the device is released first.
FaultyJoinEval ==
  /\ Goes("main", "join eval", "unmake")
  /\ UNCHANGED <<hardware, settings, thread>>

JoinEval ==
  /\ call["eval"] = "idle"
  /\ Goes("main", "join eval", "unmake")
  /\ UNCHANGED <<hardware, settings, thread>>

Unmake ==
  /\ Goes("main", "unmake", "destroyed")
  /\ device' = IF device = "made" THEN "released" ELSE device
  /\ UNCHANGED <<stream, streaming, setup, settings, thread>>

-----------------------------------------------------------------------------
ConfigureStatusThread(t) ==
  TestWanted(t) \/ TestJoinable(t) \/ Spawn(t) \/ JoinMonitor(t) \/ Terminate(t)

ThreadStep(t) == SetupDevice(t) \/ SetupStream(t) \/ ConfigureStatusThread(t)

ActivateStep == Ready \/ NotReady \/ ActivateStream \/ ActivateAgain \/ EmitSignals
DestroyStep == CloseStream \/ JoinEval \/ Unmake
MonitorStep == MonitorTest \/ MonitorRead \/ MonitorEmit

Next ==
  \/ \E t \in Threads :
       BeginSetup(t) \/ SetAutoActivate(t) \/ SetEnableStatus(t) \/ ThreadStep(t)
  \/ StreamControl \/ Activate \/ ActivateStep
  \/ Deactivate \/ StopStream
  \/ Destroy \/ DestroyStep
  \/ MonitorStep

Spec == Init /\ [][Next]_vars

\* A call that was made is carried on: the calls of the device return, and
\* readStreamStatus() by its timeout. Nobody has to make a call.
FairSpec ==
  /\ Spec
  /\ \A t \in Threads : WF_vars(ThreadStep(t))
  /\ WF_vars(ActivateStep \/ StopStream \/ DestroyStep)
  /\ WF_vars(MonitorStep)

-----------------------------------------------------------------------------
TypeOK ==
  /\ device \in {"none", "made", "released"}
  /\ stream \in {"none", "open", "closed"}
  /\ stream = "open" => device # "none"
  /\ streaming \in BOOLEAN
  /\ setup \in {"setupDevice", "setupStream", "done", "failed"}
  /\ {background, active, auto, enabled, joinable, supported} \subseteq BOOLEAN
  /\ monitor \in {"none", "test", "read", "emit", "returned"}
  /\ joinable <=> monitor # "none"
  /\ conf \in [Threads -> {"out", "test", "start", "spawn", "stop", "join"}]
  /\ DOMAIN call = Threads

\* Setters in the background share _enableStatus, _statusMonitor and _stream
\* with activation, deactivation and the destructor without a lock, and the
\* properties of a block with synchronous setters do not hold of them.
Synchronous == ~background

AtRest == call = [t \in Threads |-> "idle"]

\* Between calls, an active block with the status enabled has a thread that
\* forwards it, unless the device told that thread it has no status; and any
\* other block has none (configureStatusThread, "ensure thread is running",
\* "ensure thread is stopped").
MonitorRunsIfWanted ==
  Synchronous /\ AtRest =>
    IF active /\ enabled
    THEN monitor \in {"test", "read", "emit"} \/ ~supported
    ELSE ~joinable

\* Neither the status monitor, which may be in readStreamStatus() whenever
\* its block is deactivated or destroyed, nor deactivate(), which does not
\* check the stream, uses what was closed or released, whoever starts and
\* stops the monitor. A stream that was never opened is not used with
\* synchronous setters, and never by deactivate().
StreamInUse ==
  /\ monitor = "read" => stream # "closed" /\ device # "released"
  /\ monitor = "read" /\ Synchronous => stream = "open"
  /\ call["main"] \in {"stop monitor", "stop stream"} => stream = "open"

\* "stop the eval thread before cleaning up": a call that the evaluation
\* thread still makes when the destructor starts has its device to the end.
ReleasedAfterCalls == device = "released" => call["eval"] = "idle"

\* "this actually cleans up and frees the stream object": nothing of the
\* device is left behind by the destructor.
NothingLeaks ==
  Synchronous /\ call["main"] = "destroyed" => stream # "open" /\ device # "made"

\* Every call of the framework returns: no join waits for a monitor that
\* goes on.
Returned == {"idle", "destroyed", "terminated"}
CallsReturn ==
  Synchronous => (call["main"] \notin Returned ~> call["main"] \in Returned)
=============================================================================
