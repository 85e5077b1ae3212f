-------------------------- MODULE StreamLifeProofs --------------------------
(***************************************************************************)
(* What holds in every state of the life of a block's device, stream and   *)
(* status monitor, whether its setters are in the background or not,       *)
(* whether it is activated at a time or not, and wherever the device fails.*)
(***************************************************************************)
EXTENDS StreamLife, TLAPS

-----------------------------------------------------------------------------
(* The inductive invariant.                                                *)

Configuring == {"setEnableStatus", "start monitor", "stop monitor", "~SoapyBlock"}
Initializing == {"setupDevice", "setupStream"}
Activating == {"ready", "activate stream", "try again", "signals"}
Closing == {"close stream", "join eval", "unmake", "destroyed"}

CallsOf(t) ==
  {"idle", "terminated", "setEnableStatus"} \cup Initializing
    \cup (IF t = "main"
          THEN {"start monitor", "stop monitor", "stop stream", "~SoapyBlock"}
                 \cup Activating \cup Closing
          ELSE {})

Types ==
  /\ device \in {"none", "made", "released"}
  /\ stream \in {"none", "open", "closed"}
  /\ streaming \in BOOLEAN
  /\ setup \in {"setupDevice", "setupStream", "done", "failed"}
  /\ background \in BOOLEAN /\ active \in BOOLEAN /\ auto \in BOOLEAN
  /\ enabled \in BOOLEAN /\ joinable \in BOOLEAN /\ supported \in BOOLEAN
  /\ monitor \in {"none", "test", "read", "emit", "returned"}
  /\ joinable <=> monitor # "none"
  /\ conf \in [Threads -> {"out", "test", "start", "spawn", "stop", "join"}]
  /\ DOMAIN call = Threads
  /\ \A t \in Threads : call[t] \in CallsOf(t)

\* A thread is in configureStatusThread() in the calls that lead there, and
\* only the one that evaluates setters makes the calls of initializers and
\* setters.
Places ==
  /\ \A t \in Threads : conf[t] # "out" <=> call[t] \in Configuring
  /\ \A t \in Threads : call[t] \in Initializing => setup = call[t] /\ t = Setter
  /\ \A t \in Threads : call[t] = "setEnableStatus" => t = Setter

\* The device and the stream are there from set up to the end of the
\* destructor; activate() has checked the stream before it goes on, so that a
\* block that is still active when activate() is over has one.
Hardware ==
  /\ setup = "setupDevice" => device = "none" /\ stream = "none"
  /\ setup = "setupStream" => device # "none" /\ stream = "none"
  /\ setup = "done" => device # "none"
  /\ stream # "none" => device # "none" /\ setup = "done"
  /\ call["main"] \in {"activate stream", "try again", "signals", "start monitor",
                        "stop monitor", "stop stream"} => stream = "open"
  /\ active /\ call["main"] \notin {"ready", "terminated"} => stream = "open"

\* The destructor: it stops the monitor, closes the stream, joins the
\* evaluation thread, releases the device, in this order.
Destroying ==
  /\ call["main"] \in Closing \cup {"stop monitor", "stop stream", "~SoapyBlock"} => ~active
  /\ call["main"] = "~SoapyBlock" => conf["main"] \notin {"start", "spawn"}
  /\ call["main"] \in Closing => monitor \notin {"read", "emit"}
  /\ call["main"] \in {"unmake", "destroyed"} => call["eval"] = "idle"
  /\ device = "released" => call["main"] = "destroyed"
  /\ call["main"] = "destroyed" => device # "made"
  /\ stream = "closed" =>
       /\ call["main"] \in {"join eval", "unmake", "destroyed", "terminated"}
       /\ ~active
       /\ monitor \notin {"read", "emit"}

\* What the setters in the background may break: the monitor is there while
\* the block is active and wants it, and at no other time.
Monitoring ==
  /\ call["eval"] \in {"idle", "terminated"}
  /\ joinable => stream # "none"
  /\ monitor = "returned" /\ active /\ enabled => ~supported
  /\ call["main"] \in {"idle", "stop stream"} \cup Initializing =>
       (joinable <=> active /\ enabled)
  /\ call["main"] \in Activating \cup {"start monitor"} => ~joinable
  /\ conf["main"] \in {"start", "spawn"} => active /\ enabled
  /\ conf["main"] \in {"stop", "join"} => ~(active /\ enabled)
  /\ conf["main"] = "spawn" => ~joinable
  /\ conf["main"] = "join" => joinable
  /\ call["main"] \in {"join eval", "unmake", "destroyed"} => stream # "open"

LifeInv == Types /\ Places /\ Hardware /\ Destroying /\ (Synchronous => Monitoring)

-----------------------------------------------------------------------------
(* Every step preserves the invariant.                                     *)

LEMMA LifeInductive == LifeInv /\ [Next]_vars => LifeInv'
<1> SUFFICES ASSUME LifeInv, [Next]_vars PROVE LifeInv'
  OBVIOUS
<1> USE DEF LifeInv, Types, Places, Hardware, Destroying, Monitoring, CallsOf, Configuring,
  Initializing, Activating, Closing, Synchronous, Setter, Threads, hardware, settings, thread,
  EvalStopped
<1>1. ASSUME NEW t \in Threads, BeginSetup(t) PROVE LifeInv'
  <2>1. Types'
    BY <1>1 DEF Takes, Goes, BeginSetup
  <2>2. Places'
    BY <1>1 DEF Takes, Goes, BeginSetup
  <2>3. Hardware'
    BY <1>1 DEF Takes, Goes, BeginSetup
  <2>4. Destroying'
    BY <1>1 DEF Takes, Goes, BeginSetup
  <2>5. (Synchronous => Monitoring)'
    BY <1>1 DEF Takes, Goes, BeginSetup
  <2> QED
    BY <2>1, <2>2, <2>3, <2>4, <2>5
<1>2. ASSUME NEW t \in Threads, SetupDevice(t) PROVE LifeInv'
  <2>1. Types'
    BY <1>2 DEF Goes, SetupDevice
  <2>2. Places'
    BY <1>2 DEF Goes, SetupDevice
  <2>3. Hardware'
    BY <1>2 DEF Goes, SetupDevice
  <2>4. Destroying'
    BY <1>2 DEF Goes, SetupDevice
  <2>5. (Synchronous => Monitoring)'
    BY <1>2 DEF Goes, SetupDevice
  <2> QED
    BY <2>1, <2>2, <2>3, <2>4, <2>5
<1>3. ASSUME NEW t \in Threads, SetupStream(t) PROVE LifeInv'
  <2>1. Types'
    <3>1. stream' \in {"none", "open", "closed"} /\ setup' = "done"
      BY <1>3 DEF SetupStream
    <3>2. DOMAIN call' = Threads /\ \A u \in Threads : call'[u] \in CallsOf(u)
      BY <1>3 DEF Goes, SetupStream
    <3> QED
      BY <1>3, <3>1, <3>2 DEF Goes, SetupStream
  <2>2. Places'
    BY <1>3 DEF Goes, SetupStream
  <2>3. Hardware'
    BY <1>3 DEF Goes, SetupStream
  <2>4. Destroying'
    BY <1>3 DEF Goes, SetupStream
  <2>5. (Synchronous => Monitoring)'
    BY <1>3 DEF Goes, SetupStream
  <2> QED
    BY <2>1, <2>2, <2>3, <2>4, <2>5
<1>4. ASSUME NEW t \in Threads, SetAutoActivate(t) PROVE LifeInv'
  <2>1. Types'
    BY <1>4 DEF Takes, Goes, SetAutoActivate
  <2>2. Places'
    BY <1>4 DEF Takes, Goes, SetAutoActivate
  <2>3. Hardware'
    BY <1>4 DEF Takes, Goes, SetAutoActivate
  <2>4. Destroying'
    BY <1>4 DEF Takes, Goes, SetAutoActivate
  <2>5. (Synchronous => Monitoring)'
    BY <1>4 DEF Takes, Goes, SetAutoActivate
  <2> QED
    BY <2>1, <2>2, <2>3, <2>4, <2>5
<1>5. ASSUME NEW t \in Threads, SetEnableStatus(t) PROVE LifeInv'
  <2>1. Types'
    BY <1>5 DEF Takes, Configures, SetEnableStatus
  <2>2. Places'
    BY <1>5 DEF Takes, Configures, SetEnableStatus
  <2>3. Hardware'
    BY <1>5 DEF Takes, Configures, SetEnableStatus
  <2>4. Destroying'
    BY <1>5 DEF Takes, Configures, SetEnableStatus
  <2>5. (Synchronous => Monitoring)'
    BY <1>5 DEF Takes, Configures, SetEnableStatus
  <2> QED
    BY <2>1, <2>2, <2>3, <2>4, <2>5
<1>6. ASSUME NEW t \in Threads, TestWanted(t) PROVE LifeInv'
  <2>1. Types'
    BY <1>6 DEF Within, After, TestWanted
  <2>2. Places'
    BY <1>6 DEF Within, After, TestWanted
  <2>3. Hardware'
    BY <1>6 DEF Within, After, TestWanted
  <2>4. Destroying'
    BY <1>6 DEF Within, After, TestWanted
  <2>5. (Synchronous => Monitoring)'
    BY <1>6 DEF Within, After, TestWanted
  <2> QED
    BY <2>1, <2>2, <2>3, <2>4, <2>5
<1>7. ASSUME NEW t \in Threads, TestJoinable(t) PROVE LifeInv'
  <2>1. CASE Within(t, "start", IF joinable THEN "out" ELSE "spawn")
    <3>1. Types'
      BY <1>7, <2>1 DEF Within, After, TestJoinable
    <3>2. Places'
      BY <1>7, <2>1 DEF Within, After, TestJoinable
    <3>3. Hardware'
      BY <1>7, <2>1 DEF Within, After, TestJoinable
    <3>4. Destroying'
      BY <1>7, <2>1 DEF Within, After, TestJoinable
    <3>5. (Synchronous => Monitoring)'
      BY <1>7, <2>1 DEF Within, After, TestJoinable
    <3> QED
      BY <3>1, <3>2, <3>3, <3>4, <3>5
  <2>2. CASE Within(t, "stop", IF joinable THEN "join" ELSE "out")
    <3>1. Types'
      <4>1. conf' \in [Threads -> {"out", "test", "start", "spawn", "stop", "join"}]
        BY <2>2 DEF Within
      <4>2. DOMAIN call' = Threads /\ \A u \in Threads : call'[u] \in CallsOf(u)
        BY <2>2 DEF Within, After
      <4> QED
        BY <1>7, <4>1, <4>2 DEF TestJoinable
    <3>2. Places'
      BY <1>7, <2>2 DEF Within, After, TestJoinable
    <3>3. Hardware'
      BY <1>7, <2>2 DEF Within, After, TestJoinable
    <3>4. Destroying'
      BY <1>7, <2>2 DEF Within, After, TestJoinable
    <3>5. (Synchronous => Monitoring)'
      BY <1>7, <2>2 DEF Within, After, TestJoinable
    <3> QED
      BY <3>1, <3>2, <3>3, <3>4, <3>5
  <2> QED
    BY <1>7, <2>1, <2>2 DEF TestJoinable
<1>8. ASSUME NEW t \in Threads, Spawn(t) PROVE LifeInv'
  <2>1. Types'
    BY <1>8 DEF Within, After, Spawn
  <2>2. Places'
    BY <1>8 DEF Within, After, Spawn
  <2>3. Hardware'
    BY <1>8 DEF Within, After, Spawn
  <2>4. Destroying'
    BY <1>8 DEF Within, After, Spawn
  <2>5. (Synchronous => Monitoring)'
    BY <1>8 DEF Within, After, Spawn
  <2> QED
    BY <2>1, <2>2, <2>3, <2>4, <2>5
<1>9. ASSUME NEW t \in Threads, JoinMonitor(t) PROVE LifeInv'
  <2>1. Types'
    BY <1>9 DEF Within, After, JoinMonitor
  <2>2. Places'
    BY <1>9 DEF Within, After, JoinMonitor
  <2>3. Hardware'
    BY <1>9 DEF Within, After, JoinMonitor
  <2>4. Destroying'
    BY <1>9 DEF Within, After, JoinMonitor
  <2>5. (Synchronous => Monitoring)'
    BY <1>9 DEF Within, After, JoinMonitor
  <2> QED
    BY <2>1, <2>2, <2>3, <2>4, <2>5
<1>10. ASSUME NEW t \in Threads, Terminate(t) PROVE LifeInv'
  <2>1. Types'
    BY <1>10 DEF Terminate
  <2>2. Places'
    BY <1>10 DEF Terminate
  <2>3. Hardware'
    BY <1>10 DEF Terminate
  <2>4. Destroying'
    BY <1>10 DEF Terminate
  <2>5. (Synchronous => Monitoring)'
    BY <1>10 DEF Terminate
  <2> QED
    BY <2>1, <2>2, <2>3, <2>4, <2>5
<1>11. ASSUME NEW from \in Activating, Throw(from) PROVE LifeInv'
  <2>1. Types'
    BY <1>11 DEF Goes, Throw
  <2>2. Places'
    BY <1>11 DEF Goes, Throw
  <2>3. Hardware'
    BY <1>11 DEF Goes, Throw
  <2>4. Destroying'
    BY <1>11 DEF Goes, Throw
  <2>5. (Synchronous => Monitoring)'
    BY <1>11 DEF Goes, Throw
  <2> QED
    BY <2>1, <2>2, <2>3, <2>4, <2>5
<1>12. CASE StreamControl
  BY <1>12 DEF Goes, StreamControl
<1>13. CASE Activate
  <2>1. Types'
    BY <1>13 DEF Goes, Activate
  <2>2. Places'
    BY <1>13 DEF Goes, Activate
  <2>3. Hardware'
    BY <1>13 DEF Goes, Activate
  <2>4. Destroying'
    BY <1>13 DEF Goes, Activate
  <2>5. (Synchronous => Monitoring)'
    BY <1>13 DEF Goes, Activate
  <2> QED
    BY <2>1, <2>2, <2>3, <2>4, <2>5
<1>14. CASE Ready
  BY <1>14 DEF Goes, Ready
<1>15. CASE NotReady
  BY <1>15, <1>11 DEF NotReady
<1>16. CASE ActivateStream
  <2>0. CASE Throw("activate stream")
    BY <1>11, <2>0
  <2>1. CASE Goes("main", "activate stream", "signals") /\ streaming' = TRUE
          /\ UNCHANGED <<device, stream, setup, settings, thread>>
    <3>1. Types'
      BY <1>16, <2>1 DEF Goes, ActivateStream
    <3>2. Places'
      BY <1>16, <2>1 DEF Goes, ActivateStream
    <3>3. Hardware'
      BY <1>16, <2>1 DEF Goes, ActivateStream
    <3>4. Destroying'
      BY <1>16, <2>1 DEF Goes, ActivateStream
    <3>5. (Synchronous => Monitoring)'
      BY <1>16, <2>1 DEF Goes, ActivateStream
    <3> QED
      BY <3>1, <3>2, <3>3, <3>4, <3>5
  <2>2. CASE Goes("main", "activate stream", "try again")
               /\ UNCHANGED <<hardware, settings, thread>>
    <3>1. Types'
      BY <1>16, <2>2 DEF Goes, ActivateStream
    <3>2. Places'
      BY <1>16, <2>2 DEF Goes, ActivateStream
    <3>3. Hardware'
      BY <1>16, <2>2 DEF Goes, ActivateStream
    <3>4. Destroying'
      BY <1>16, <2>2 DEF Goes, ActivateStream
    <3>5. (Synchronous => Monitoring)'
      BY <1>16, <2>2 DEF Goes, ActivateStream
    <3> QED
      BY <3>1, <3>2, <3>3, <3>4, <3>5
  <2> QED
    BY <1>16, <2>0, <2>1, <2>2 DEF ActivateStream
<1>17. CASE ActivateAgain
  <2>0. CASE Throw("try again")
    BY <1>11, <2>0
  <2>1. CASE Goes("main", "try again", "signals") /\ streaming' = TRUE
          /\ UNCHANGED <<device, stream, setup, settings, thread>>
    <3>1. Types'
      BY <1>17, <2>1 DEF Goes, ActivateAgain
    <3>2. Places'
      BY <1>17, <2>1 DEF Goes, ActivateAgain
    <3>3. Hardware'
      BY <1>17, <2>1 DEF Goes, ActivateAgain
    <3>4. Destroying'
      BY <1>17, <2>1 DEF Goes, ActivateAgain
    <3>5. (Synchronous => Monitoring)'
      BY <1>17, <2>1 DEF Goes, ActivateAgain
    <3> QED
      BY <3>1, <3>2, <3>3, <3>4, <3>5
  <2> QED
    BY <1>17, <2>0, <2>1 DEF ActivateAgain
<1>18. CASE EmitSignals
  <2>0. CASE Throw("signals")
    BY <1>11, <2>0
  <2>1. CASE Configures("main", "signals", "start monitor")
         
               /\ UNCHANGED <<hardware, settings, thread>>
    <3>1. Types'
      BY <1>18, <2>1 DEF Goes, Configures, EmitSignals
    <3>2. Places'
      BY <1>18, <2>1 DEF Goes, Configures, EmitSignals
    <3>3. Hardware'
      BY <1>18, <2>1 DEF Goes, Configures, EmitSignals
    <3>4. Destroying'
      BY <1>18, <2>1 DEF Goes, Configures, EmitSignals
    <3>5. (Synchronous => Monitoring)'
      BY <1>18, <2>1 DEF Goes, Configures, EmitSignals
    <3> QED
      BY <3>1, <3>2, <3>3, <3>4, <3>5
  <2> QED
    BY <1>18, <2>0, <2>1 DEF EmitSignals
<1>19. CASE Deactivate
  BY <1>19 DEF Configures, Deactivate
<1>20. CASE StopStream
  BY <1>20 DEF Goes, StopStream
<1>21. CASE Destroy
  <2>1. Types'
    BY <1>21 DEF Configures, Destroy
  <2>2. Places'
    BY <1>21 DEF Configures, Destroy
  <2>3. Hardware'
    BY <1>21 DEF Configures, Destroy
  <2>4. Destroying'
    BY <1>21 DEF Configures, Destroy
  <2>5. (Synchronous => Monitoring)'
    BY <1>21 DEF Configures, Destroy
  <2> QED
    BY <2>1, <2>2, <2>3, <2>4, <2>5
<1>22. CASE CloseStream
  BY <1>22 DEF Goes, CloseStream
<1>23. CASE JoinEval
  BY <1>23 DEF Goes, JoinEval
<1>24. CASE Unmake
  BY <1>24 DEF Goes, Unmake
<1>25. CASE MonitorTest
  <2>1. Types'
    BY <1>25 DEF MonitorTest
  <2>2. Places'
    BY <1>25 DEF MonitorTest
  <2>3. Hardware'
    BY <1>25 DEF MonitorTest
  <2>4. Destroying'
    BY <1>25 DEF MonitorTest
  <2>5. (Synchronous => Monitoring)'
    BY <1>25 DEF MonitorTest
  <2> QED
    BY <2>1, <2>2, <2>3, <2>4, <2>5
<1>26. CASE MonitorRead
  BY <1>26 DEF MonitorRead
<1>27. CASE MonitorEmit
  BY <1>27 DEF MonitorEmit
<1>28. CASE UNCHANGED vars
  <2>1. Types'
    BY <1>28 DEF vars
  <2>2. Places'
    BY <1>28 DEF vars
  <2>3. Hardware'
    BY <1>28 DEF vars
  <2>4. Destroying'
    BY <1>28 DEF vars
  <2>5. (Synchronous => Monitoring)'
    BY <1>28 DEF vars
  <2> QED
    BY <2>1, <2>2, <2>3, <2>4, <2>5
<1> HIDE DEF LifeInv
<1> QED
  BY <1>1, <1>2, <1>3, <1>4, <1>5, <1>6, <1>7, <1>8, <1>9, <1>10,
     <1>11, <1>12, <1>13, <1>14, <1>15, <1>16, <1>17, <1>18, <1>19, <1>20,
     <1>21, <1>22, <1>23, <1>24, <1>25, <1>26, <1>27, <1>28
  DEF Next, ThreadStep, ConfigureStatusThread, ActivateStep, DestroyStep, MonitorStep

LEMMA LifeInvariant == Spec => []LifeInv
<1>1. Init => LifeInv
  BY DEF Init, LifeInv, Types, Places, Hardware, Destroying, Monitoring, CallsOf, Configuring,
    Initializing, Activating, Closing, Synchronous, Threads
<1> QED
  BY <1>1, LifeInductive, PTL DEF Spec

-----------------------------------------------------------------------------
(* The theorems.                                                           *)

\* Every variable has its type, a stream is open only of a device, and the
\* monitor thread is joinable exactly while there is one.
THEOREM LifeTypeCorrect == Spec => []TypeOK
<1>1. LifeInv => TypeOK
  BY DEF LifeInv, Types, Hardware, TypeOK
<1> QED
  BY <1>1, LifeInvariant, PTL

\* Neither the status monitor nor deactivate() uses a stream that was closed
\* or a device that was released, even when setters in the background start
\* and stop the monitor while another thread deactivates or destroys the block;
\* with synchronous setters both use open streams only, whichever initializer
\* failed before.
THEOREM LifeStreamInUse == Spec => []StreamInUse
<1>1. LifeInv => StreamInUse
  <2> SUFFICES ASSUME LifeInv PROVE StreamInUse
    OBVIOUS
  <2>1. monitor = "read" => stream # "closed" /\ device # "released"
    BY DEF LifeInv, Destroying, Closing
  <2>2. monitor = "read" /\ Synchronous => stream = "open"
    BY <2>1 DEF LifeInv, Types, Monitoring
  <2>3. call["main"] \in {"stop monitor", "stop stream"} => stream = "open"
    BY DEF LifeInv, Hardware
  <2> QED
    BY <2>1, <2>2, <2>3 DEF StreamInUse
<1> QED
  BY <1>1, LifeInvariant, PTL

\* ~SoapyBlock() releases the device only when the evaluation thread makes
\* no call any more.
THEOREM LifeReleasedAfterCalls == Spec => []ReleasedAfterCalls
<1>1. LifeInv => ReleasedAfterCalls
  BY DEF LifeInv, Destroying, ReleasedAfterCalls
<1> QED
  BY <1>1, LifeInvariant, PTL

\* Behind the destructor of a block with synchronous setters, its stream is
\* closed and its device released, whichever call failed or threw before.
THEOREM LifeNothingLeaks == Spec => []NothingLeaks
<1>1. LifeInv => NothingLeaks
  BY DEF LifeInv, Destroying, Monitoring, NothingLeaks
<1> QED
  BY <1>1, LifeInvariant, PTL

\* Between the calls of a block with synchronous setters, the monitor runs
\* exactly if the block is active and its status enabled, unless the device
\* told the thread that it has no status (configureStatusThread()).
THEOREM LifeMonitorRunsIfWanted == Spec => []MonitorRunsIfWanted
<1>1. LifeInv => MonitorRunsIfWanted
  <2> SUFFICES ASSUME LifeInv, Synchronous, AtRest
               PROVE  IF active /\ enabled
                      THEN monitor \in {"test", "read", "emit"} \/ ~supported
                      ELSE ~joinable
    BY DEF MonitorRunsIfWanted
  <2>1. call["main"] = "idle"
    BY DEF AtRest, Threads
  <2>2. /\ joinable <=> active /\ enabled
        /\ monitor = "returned" /\ active /\ enabled => ~supported
    BY <2>1 DEF LifeInv, Monitoring
  <2> QED
    BY <2>2 DEF LifeInv, Types
<1> QED
  BY <1>1, LifeInvariant, PTL
=============================================================================
