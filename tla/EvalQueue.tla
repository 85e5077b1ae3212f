------------------------------ MODULE EvalQueue ------------------------------
(***************************************************************************)
(* The delayed dispatch of calls into a SoapyBlock (BlockThread.cpp): a    *)
(* caller either appends a setter to _cachedArgs, or waits on _cond until  *)
(* _cachedArgs is empty and makes its call itself with _argsMutex held;    *)
(* the evaluation thread pops the oldest setter under the mutex and makes  *)
(* the call without it.  The destructor stops the evaluation thread        *)
(* through _evalThreadDone, _cond and join.                                *)
(*                                                                         *)
(* One action is one stretch of a thread that the others cannot divide: a  *)
(* locked region, a notify_one() made after unlock, one access to an       *)
(* unprotected flag, the completion of one device call.                    *)
(***************************************************************************)
EXTENDS Naturals, Sequences, FiniteSets

CONSTANTS
  Callers,      \* the threads that call into the block
  Eval,         \* the evaluation thread
  Nobody,       \* "the mutex is free"
  Setters,      \* the setter calls that may be made: records [name, key, arg]
  MaxSettings   \* bound: setter calls are begun while fewer were accepted

ASSUME CallersAssumption ==
  /\ IsFiniteSet(Callers)
  /\ Eval \notin Callers
  /\ Nobody \notin Callers \cup {Eval}

ASSUME SettersAssumption ==
  /\ Setters \subseteq [name : STRING, key : STRING, arg : STRING]
  /\ MaxSettings \in Nat

\* What a call sets: setGain0("LNA", g) and setGain0("PGA", g) are calls of
\* one name that set two things, as setGlobalSetting(key, value) does.
Target(s) == <<s.name, s.key>>
Targets == {Target(s) : s \in Setters}

\* The modes setCallingMode() knows; any other string makes it throw.
BackgroundModes == {"ACTIVATE_WAITS", "ACTIVATE_THROWS"}
WaitingModes == {"SYNCHRONOUS", "ACTIVATE_WAITS"}
CallingModes == BackgroundModes \cup WaitingModes

VARIABLES
  cachedArgs,      \* _cachedArgs: the queued setters, oldest first
  backgrounding,   \* _backgrounding
  activateWaits,   \* _activateWaits
  eventSquash,     \* _eventSquash
  active,          \* isActive(), kept by the framework
  mutex,           \* who holds _argsMutex across steps: a direct caller
  waiters,         \* the threads blocked in _cond.wait()
  evalErrorValid,  \* _evalErrorValid
  evalThreadDone,  \* _evalThreadDone
  pc,              \* where each caller is
  op,              \* the call each caller is making
  evalPc,          \* where the evaluation thread is
  current,         \* the setter the evaluation thread popped
  issued,          \* history: number of setters accepted so far
  latest,          \* history: the last setter accepted for each target
  device,          \* for each target, the setter whose value is in force
  failed,          \* history: queued setters whose call threw
  skipped,         \* history: queued setters discarded by squashing
  direct,          \* history: setters called by the caller itself
  setupFailed      \* history: a setupDevice made by the evaluation thread threw

queueVars   == <<cachedArgs, evalErrorValid>>
optionVars  == <<backgrounding, activateWaits, eventSquash>>
callerVars  == <<pc, op>>
evalVars    == <<evalPc, current>>
historyVars == <<issued, latest, device, failed, skipped, direct, setupFailed>>

vars == <<queueVars, optionVars, active, mutex, waiters, evalThreadDone,
          callerVars, evalVars, historyVars>>

-----------------------------------------------------------------------------
Op(k)    == [kind |-> k, name |-> "none", key |-> "none", arg |-> "none"]
NoOp     == Op("none")
SetOp(s) == [kind |-> "set", name |-> s.name, key |-> s.key, arg |-> s.arg]
NoEntry  == [name |-> "none", key |-> "none", arg |-> "none", id |-> 0]
Entry(o, k) == [name |-> o.name, key |-> o.key, arg |-> o.arg, id |-> k]

Destroying == \E c \in Callers : op[c].kind = "destroy"

\* Faulty: the background modes only count while the block is inactive.
FaultyBackground == (backgrounding /\ ~active) \/ (eventSquash /\ active)

\* A setter is queued in a background mode, or by squashing while active.
Background == backgrounding \/ (eventSquash /\ active)

\* _cond.notify_one(): one waiting thread, if there is any, becomes runnable.
NotifyOne ==
  \/ waiters = {} /\ UNCHANGED waiters
  \/ \E t \in waiters : waiters' = waiters \ {t}

Goto(c, at) == pc' = [pc EXCEPT ![c] = at]

Return(c) ==
  /\ pc' = [pc EXCEPT ![c] = "idle"]
  /\ op' = [op EXCEPT ![c] = NoOp]

\* What a call to setter n does to the dispatch itself; the rest is device.
Effect(n, a) ==
  /\ IF n = "setCallingMode"
     THEN /\ backgrounding' = (a \in BackgroundModes)
          /\ activateWaits' = (a \in WaitingModes)
     ELSE UNCHANGED <<backgrounding, activateWaits>>
  /\ eventSquash' = IF n = "setEventSquash" THEN a = "true" ELSE eventSquash

UnknownMode(n, a) == n = "setCallingMode" /\ a \notin CallingModes

\* setEventSquash() cannot throw and setCallingMode() throws on an unknown
\* mode only; any other setter throws when the device makes it.
MayThrow(n, a) ==
  \/ n \notin {"setCallingMode", "setEventSquash"}
  \/ UnknownMode(n, a)

-----------------------------------------------------------------------------
Init ==
  /\ cachedArgs = <<>>
  /\ backgrounding = FALSE
  /\ activateWaits = FALSE
  /\ eventSquash = FALSE
  /\ active = FALSE
  /\ mutex = Nobody
  /\ waiters = {}
  /\ evalErrorValid = FALSE
  /\ evalThreadDone = FALSE
  /\ pc = [c \in Callers |-> "idle"]
  /\ op = [c \in Callers |-> NoOp]
  /\ evalPc = "check"
  /\ current = NoEntry
  /\ issued = 0
  /\ latest = [t \in Targets |-> 0]
  /\ device = [t \in Targets |-> 0]
  /\ failed = {}
  /\ skipped = {}
  /\ direct = {}
  /\ setupFailed = FALSE

-----------------------------------------------------------------------------
(* The framework's side: which call a thread makes next.                   *)

\* A thread calls a setter, any other registered call, a probe or overlay.
Call(c, o) ==
  /\ pc[c] = "idle"
  /\ ~Destroying
  /\ o.kind = "set" => issued < MaxSettings
  /\ op' = [op EXCEPT ![c] = o]
  /\ Goto(c, "entry")
  /\ UNCHANGED <<queueVars, optionVars, active, mutex, waiters,
                 evalThreadDone, evalVars, historyVars>>

\* The framework marks the block active and then calls activate().
Activate(c) ==
  /\ pc[c] = "idle"
  /\ ~Destroying
  /\ ~active
  /\ active' = TRUE
  /\ op' = [op EXCEPT ![c] = Op("activate")]
  /\ Goto(c, "entry")
  /\ UNCHANGED <<queueVars, optionVars, mutex, waiters, evalThreadDone,
                 evalVars, historyVars>>

\* The framework marks the block inactive; deactivate() takes no lock.
Deactivate(c) ==
  /\ pc[c] = "idle"
  /\ ~Destroying
  /\ active
  /\ \A d \in Callers : op[d].kind # "activate"
  /\ active' = FALSE
  /\ UNCHANGED <<queueVars, optionVars, mutex, waiters, evalThreadDone,
                 callerVars, evalVars, historyVars>>

\* An inactive block that nobody is calling is destroyed.
Destroy(c) ==
  /\ \A d \in Callers : pc[d] = "idle"
  /\ ~active
  /\ op' = [op EXCEPT ![c] = Op("destroy")]
  /\ Goto(c, "stopping")
  /\ UNCHANGED <<queueVars, optionVars, active, mutex, waiters,
                 evalThreadDone, evalVars, historyVars>>

-----------------------------------------------------------------------------
(* opaqueCallHandler() and isReady().                                      *)

\* A probe calls the handler again for the getter behind it, an overlay
\* call only reads the enumeration cache: both leave the mutex alone.
Bypass(c) ==
  /\ pc[c] = "entry"
  /\ \/ /\ op[c].kind = "probe"
        /\ op' = [op EXCEPT ![c] = Op("get")]
        /\ UNCHANGED pc
     \/ /\ op[c].kind = "overlay"
        /\ Return(c)
  /\ UNCHANGED <<queueVars, optionVars, active, mutex, waiters,
                 evalThreadDone, evalVars, historyVars>>

\* Throw a stored error to this caller and clear it.
RethrowError(c) ==
  /\ evalErrorValid
  /\ evalErrorValid' = FALSE
  /\ Return(c)
  /\ UNCHANGED <<cachedArgs, optionVars, mutex, waiters, evalThreadDone,
                 evalVars, historyVars>>

\* while (not _cachedArgs.empty()) _cond.wait(argsLock), and what follows: a
\* call is made with the mutex still held, isReady() returns and releases it.
AwaitEmpty(c) ==
  /\ \/ /\ cachedArgs # <<>>
        /\ waiters' = waiters \cup {c}
        /\ Goto(c, "waiting")
        /\ UNCHANGED mutex
     \/ /\ cachedArgs = <<>>
        /\ op[c].kind = "activate"
        /\ Goto(c, "activating")
        /\ UNCHANGED <<mutex, waiters>>
     \/ /\ cachedArgs = <<>>
        /\ op[c].kind # "activate"
        /\ mutex' = c
        /\ Goto(c, "direct")
        /\ UNCHANGED waiters
  /\ UNCHANGED <<queueVars, optionVars, active, op, evalThreadDone,
                 evalVars, historyVars>>

\* Faulty: the setter goes to the front of the queue.
FaultyEnqueue(c) ==
  /\ issued' = issued + 1
  /\ cachedArgs' = <<Entry(op[c], issued + 1)>> \o cachedArgs
  /\ latest' = [latest EXCEPT ![Target(op[c])] = issued + 1]
  /\ Goto(c, "notify")
  /\ UNCHANGED <<evalErrorValid, optionVars, active, mutex, waiters, op,
                 evalThreadDone, evalVars, device, failed, skipped, direct,
                 setupFailed>>

Enqueue(c) ==
  /\ issued' = issued + 1
  /\ cachedArgs' = Append(cachedArgs, Entry(op[c], issued + 1))
  /\ latest' = [latest EXCEPT ![Target(op[c])] = issued + 1]
  /\ Goto(c, "notify")
  /\ UNCHANGED <<evalErrorValid, optionVars, active, mutex, waiters, op,
                 evalThreadDone, evalVars, device, failed, skipped, direct,
                 setupFailed>>

OpaqueCall(c) ==
  /\ pc[c] = "entry"
  /\ op[c].kind \in {"set", "get"}
  /\ mutex = Nobody
  /\ \/ RethrowError(c) /\ UNCHANGED active
     \/ ~evalErrorValid /\ op[c].kind = "set" /\ Background /\ Enqueue(c)
     \/ ~evalErrorValid /\ (op[c].kind = "set" => ~Background) /\ AwaitEmpty(c)

\* activate() asks isReady() first and throws unless it returns true; what
\* the framework then makes of the active state is left open.
IsReady(c) ==
  /\ pc[c] = "entry"
  /\ op[c].kind = "activate"
  /\ mutex = Nobody
  /\ \/ RethrowError(c) /\ active' \in BOOLEAN
     \/ ~evalErrorValid /\ activateWaits /\ AwaitEmpty(c)
     \/ ~evalErrorValid /\ ~activateWaits /\ cachedArgs = <<>> /\ AwaitEmpty(c)
     \/ /\ ~evalErrorValid
        /\ ~activateWaits
        /\ cachedArgs # <<>>
        /\ active' \in BOOLEAN
        /\ Return(c)
        /\ UNCHANGED <<queueVars, optionVars, mutex, waiters,
                       evalThreadDone, evalVars, historyVars>>

\* Faulty: the caller polls the queue and never leaves the wait set.
FaultyPollingWake(c) ==
  /\ pc[c] = "waiting"
  /\ mutex = Nobody
  /\ AwaitEmpty(c)

\* Faulty: the caller looks at the queue once, if (...) for while (...).
FaultyWakeOnce(c) ==
  /\ pc[c] = "waiting"
  /\ c \notin waiters
  /\ mutex = Nobody
  /\ mutex' = c
  /\ Goto(c, "direct")
  /\ UNCHANGED <<queueVars, optionVars, active, waiters, op, evalThreadDone,
                 evalVars, historyVars>>

\* A caller that was woken takes the mutex again and looks again.
Wake(c) ==
  /\ pc[c] = "waiting"
  /\ c \notin waiters
  /\ mutex = Nobody
  /\ AwaitEmpty(c)

\* Faulty: a queued setter does not notify the evaluation thread.
FaultyCallerNotify(c) ==
  /\ pc[c] = "notify"
  /\ Return(c)
  /\ UNCHANGED <<queueVars, optionVars, active, mutex, waiters,
                 evalThreadDone, evalVars, historyVars>>

CallerNotify(c) ==
  /\ pc[c] = "notify"
  /\ NotifyOne
  /\ Return(c)
  /\ UNCHANGED <<queueVars, optionVars, active, mutex, evalThreadDone,
                 evalVars, historyVars>>

\* The blocking call in the caller's context returns; leaving the handler
\* releases the mutex and notifies nobody.
DirectReturns(c) ==
  /\ pc[c] = "direct"
  /\ \/ /\ op[c].kind = "get"
        /\ UNCHANGED <<optionVars, historyVars>>
     \/ /\ op[c].kind = "set"
        /\ ~UnknownMode(op[c].name, op[c].arg)
        /\ Effect(op[c].name, op[c].arg)
        /\ issued' = issued + 1
        /\ latest' = [latest EXCEPT ![Target(op[c])] = issued + 1]
        /\ device' = [device EXCEPT ![Target(op[c])] = issued + 1]
        /\ direct' = direct \cup {issued + 1}
        /\ UNCHANGED <<failed, skipped, setupFailed>>
  /\ mutex' = Nobody
  /\ Return(c)
  /\ UNCHANGED <<queueVars, active, waiters, evalThreadDone, evalVars>>

\* The call throws to its caller: the setting was not accepted.
DirectThrows(c) ==
  /\ pc[c] = "direct"
  /\ op[c].kind = "set" => MayThrow(op[c].name, op[c].arg)
  /\ mutex' = Nobody
  /\ Return(c)
  /\ UNCHANGED <<queueVars, optionVars, active, waiters, evalThreadDone,
                 evalVars, historyVars>>

\* The rest of activate(), which runs without the mutex, returns or throws.
ActivateEnds(c) ==
  /\ pc[c] = "activating"
  /\ active' \in BOOLEAN
  /\ Return(c)
  /\ UNCHANGED <<queueVars, optionVars, mutex, waiters, evalThreadDone,
                 evalVars, historyVars>>

-----------------------------------------------------------------------------
(* The destructor: stop the evaluation thread before releasing the device. *)

StopEval(c) ==
  /\ pc[c] = "stopping"
  /\ evalThreadDone' = TRUE
  /\ Goto(c, "stopNotify")
  /\ UNCHANGED <<queueVars, optionVars, active, mutex, waiters, op, evalVars,
                 historyVars>>

StopNotify(c) ==
  /\ pc[c] = "stopNotify"
  /\ NotifyOne
  /\ Goto(c, "joining")
  /\ UNCHANGED <<queueVars, optionVars, active, mutex, evalThreadDone, op,
                 evalVars, historyVars>>

JoinEval(c) ==
  /\ pc[c] = "joining"
  /\ evalPc = "exited"
  /\ Goto(c, "destroyed")
  /\ UNCHANGED <<queueVars, optionVars, active, mutex, waiters,
                 evalThreadDone, op, evalVars, historyVars>>

-----------------------------------------------------------------------------
(* evalThreadLoop().                                                       *)

EvalCheck ==
  /\ evalPc = "check"
  /\ evalPc' = IF evalThreadDone THEN "exited" ELSE "locking"
  /\ UNCHANGED <<queueVars, optionVars, active, mutex, waiters,
                 evalThreadDone, callerVars, current, historyVars>>

\* Faulty: anything that is queued behind a setting supersedes it.
FaultySuperseded(e, rest) == rest # <<>>

\* A more recent call of the same name is queued behind it, whatever its key.
Superseded(e, rest) == \E i \in DOMAIN rest : rest[i].name = e.name

Skip ==
  /\ eventSquash
  /\ active
  /\ Superseded(Head(cachedArgs), Tail(cachedArgs))

\* Faulty: pop the newest setting.
FaultyPop ==
  /\ cachedArgs # <<>>
  /\ cachedArgs' = SubSeq(cachedArgs, 1, Len(cachedArgs) - 1)
  /\ current' = cachedArgs[Len(cachedArgs)]
  /\ evalPc' = "popped"
  /\ UNCHANGED <<evalErrorValid, optionVars, active, mutex, waiters,
                 evalThreadDone, callerVars, historyVars>>

\* Pop the oldest setting and decide, under the lock, whether to skip it.
Pop ==
  /\ cachedArgs # <<>>
  /\ cachedArgs' = Tail(cachedArgs)
  /\ \/ /\ Skip
        /\ current' = NoEntry
        /\ skipped' = skipped \cup {Head(cachedArgs).id}
        /\ evalPc' = "skipping"
     \/ /\ ~Skip
        /\ current' = Head(cachedArgs)
        /\ UNCHANGED skipped
        /\ evalPc' = "popped"
  /\ UNCHANGED <<evalErrorValid, optionVars, active, mutex, waiters,
                 evalThreadDone, callerVars, issued, latest, device, failed,
                 direct, setupFailed>>

EvalLock ==
  /\ evalPc = "locking"
  /\ mutex = Nobody
  /\ \/ Pop
     \/ /\ cachedArgs = <<>>
        /\ waiters' = waiters \cup {Eval}
        /\ evalPc' = "waiting"
        /\ UNCHANGED <<queueVars, optionVars, active, mutex, evalThreadDone,
                       callerVars, current, historyVars>>

EvalWake ==
  /\ evalPc = "waiting"
  /\ Eval \notin waiters
  /\ mutex = Nobody
  /\ \/ Pop
     \/ /\ cachedArgs = <<>>
        /\ evalPc' = "check"
        /\ UNCHANGED <<queueVars, optionVars, active, mutex, waiters,
                       evalThreadDone, callerVars, current, historyVars>>

\* Faulty: the blockers are not told that the queue shrank.
FaultyEvalNotify ==
  /\ \/ evalPc = "popped"   /\ evalPc' = "calling"
     \/ evalPc = "skipping" /\ evalPc' = "check"
  /\ UNCHANGED <<queueVars, optionVars, active, mutex, waiters,
                 evalThreadDone, callerVars, current, historyVars>>

\* Unlocked: tell one blocker, then make the call unless it was skipped.
EvalNotify ==
  /\ \/ evalPc = "popped"   /\ evalPc' = "calling"
     \/ evalPc = "skipping" /\ evalPc' = "check"
  /\ NotifyOne
  /\ UNCHANGED <<queueVars, optionVars, active, mutex, evalThreadDone,
                 callerVars, current, historyVars>>

EvalReturns ==
  /\ evalPc = "calling"
  /\ ~UnknownMode(current.name, current.arg)
  /\ Effect(current.name, current.arg)
  /\ device' = [device EXCEPT ![Target(current)] = current.id]
  /\ evalPc' = "check"
  /\ current' = NoEntry
  /\ UNCHANGED <<queueVars, active, mutex, waiters, evalThreadDone,
                 callerVars, issued, latest, failed, skipped, direct,
                 setupFailed>>

\* Faulty: a setting whose call throws stays in force as if it had been made.
FaultyEvalThrows ==
  /\ evalPc = "calling"
  /\ MayThrow(current.name, current.arg)
  /\ device' = [device EXCEPT ![Target(current)] = current.id]
  /\ failed' = failed \cup {current.id}
  /\ setupFailed' = (setupFailed \/ current.name = "setupDevice")
  /\ evalPc' = "failing"
  /\ UNCHANGED <<queueVars, optionVars, active, mutex, waiters,
                 evalThreadDone, callerVars, current, issued, latest,
                 skipped, direct>>

EvalThrows ==
  /\ evalPc = "calling"
  /\ MayThrow(current.name, current.arg)
  /\ failed' = failed \cup {current.id}
  /\ setupFailed' = (setupFailed \/ current.name = "setupDevice")
  /\ evalPc' = "failing"
  /\ UNCHANGED <<queueVars, optionVars, active, mutex, waiters,
                 evalThreadDone, callerVars, current, issued, latest, device,
                 skipped, direct>>

\* Re-lock to store the error, overwriting one that nobody has seen yet.
EvalStoreError ==
  /\ evalPc = "failing"
  /\ mutex = Nobody
  /\ evalErrorValid' = TRUE
  /\ evalPc' = "failed"
  /\ UNCHANGED <<cachedArgs, optionVars, active, mutex, waiters,
                 evalThreadDone, callerVars, current, historyVars>>

\* Faulty: any failed setting ends the evaluation thread.
FaultyFailNotify ==
  /\ evalPc = "failed"
  /\ NotifyOne
  /\ evalPc' = "exited"
  /\ current' = NoEntry
  /\ UNCHANGED <<queueVars, optionVars, active, mutex, evalThreadDone,
                 callerVars, historyVars>>

\* A block whose setupDevice failed has no evaluation thread any more.
EvalFailNotify ==
  /\ evalPc = "failed"
  /\ NotifyOne
  /\ evalPc' = IF current.name = "setupDevice" THEN "exited" ELSE "check"
  /\ current' = NoEntry
  /\ UNCHANGED <<queueVars, optionVars, active, mutex, evalThreadDone,
                 callerVars, historyVars>>

\* A condition variable may wake a thread for no reason.
Spurious(t) ==
  /\ t \in waiters
  /\ waiters' = waiters \ {t}
  /\ UNCHANGED <<queueVars, optionVars, active, mutex, evalThreadDone,
                 callerVars, evalVars, historyVars>>

-----------------------------------------------------------------------------
Requests == {SetOp(s) : s \in Setters}
            \cup {Op(k) : k \in {"get", "probe", "overlay"}}

Framework(c) ==
  \/ \E o \in Requests : Call(c, o)
  \/ Activate(c)
  \/ Deactivate(c)
  \/ Destroy(c)

CallerStep(c) ==
  \/ Bypass(c)
  \/ OpaqueCall(c)
  \/ IsReady(c)
  \/ Wake(c)
  \/ CallerNotify(c)
  \/ DirectReturns(c)
  \/ DirectThrows(c)
  \/ ActivateEnds(c)
  \/ StopEval(c)
  \/ StopNotify(c)
  \/ JoinEval(c)

EvalStep ==
  \/ EvalCheck
  \/ EvalLock
  \/ EvalWake
  \/ EvalNotify
  \/ EvalReturns
  \/ EvalThrows
  \/ EvalStoreError
  \/ EvalFailNotify

Next ==
  \/ \E c \in Callers : Framework(c) \/ CallerStep(c)
  \/ EvalStep
  \/ \E t \in waiters : Spurious(t)

Spec == Init /\ [][Next]_vars

\* Every thread keeps running and every device call returns; nothing is
\* assumed of the framework or of spurious wakeups.
Fairness ==
  /\ WF_vars(EvalStep)
  /\ \A c \in Callers : WF_vars(CallerStep(c))

FairSpec == Spec /\ Fairness

-----------------------------------------------------------------------------
(* Properties.                                                             *)

Kinds == {"none", "set", "get", "probe", "overlay", "activate", "destroy"}

CallerPlaces ==
  {"idle", "entry", "waiting", "notify", "direct", "activating", "stopping",
   "stopNotify", "joining", "destroyed"}

EvalPlaces ==
  {"check", "locking", "waiting", "popped", "skipping", "calling", "failing",
   "failed", "exited"}

Ops == {SetOp(s) : s \in Setters} \cup {Op(k) : k \in Kinds \ {"set"}}

Entries == {Entry(s, k) : s \in Setters, k \in 1..issued}

FlagsOK ==
  /\ backgrounding \in BOOLEAN
  /\ activateWaits \in BOOLEAN
  /\ eventSquash \in BOOLEAN
  /\ active \in BOOLEAN
  /\ evalErrorValid \in BOOLEAN
  /\ evalThreadDone \in BOOLEAN
  /\ setupFailed \in BOOLEAN

ThreadsOK ==
  /\ pc \in [Callers -> CallerPlaces]
  /\ op \in [Callers -> Ops]
  /\ evalPc \in EvalPlaces
  /\ mutex \in Callers \cup {Nobody}
  /\ \A t \in waiters : t \in Callers \cup {Eval}
  /\ \A c \in waiters \cap Callers : pc[c] = "waiting"
  /\ Eval \in waiters => evalPc = "waiting"

SettingsOK ==
  /\ cachedArgs \in Seq(Entries)
  /\ current \in Entries \cup {NoEntry}
  /\ evalPc \in {"popped", "calling", "failing", "failed"} => current # NoEntry
  /\ issued \in Nat
  /\ latest \in [Targets -> 0..issued]
  /\ device \in [Targets -> 0..issued]
  /\ failed \subseteq 1..issued
  /\ skipped \subseteq 1..issued
  /\ direct \subseteq 1..issued

\* The variables have the types the code gives them, and whoever is in the
\* wait set of _cond is at one of the three calls to wait().
TypeOK == FlagsOK /\ ThreadsOK /\ SettingsOK

\* The evaluation thread has popped a setting and not yet made its call.
InFlight == evalPc \in {"popped", "calling"}

Queued == {cachedArgs[i] : i \in DOMAIN cachedArgs}

\* The settings that were queued and neither made, refused nor skipped.
OnTheWay == Queued \cup (IF InFlight THEN {current} ELSE {})

Pending(k) == \E e \in OnTheWay : e.id = k
PendingFor(t) == \E e \in OnTheWay : Target(e) = t

\* Settings are made in the order they were accepted: what is queued is in
\* that order, and what is in flight is older than all of it ("preserve the
\* ordering of setters during initialization", Changelog.txt).
InOrder ==
  /\ \A i, j \in DOMAIN cachedArgs : i < j => cachedArgs[i].id < cachedArgs[j].id
  /\ InFlight => \A e \in Queued : current.id < e.id

Accounted(t) ==
  \/ latest[t] \in {0} \cup failed \cup skipped
  \/ Pending(latest[t])
  \/ device[t] = latest[t] /\ ~PendingFor(t)

\* The last setting accepted for a target is on its way, or in force with
\* nothing left on its way that could undo it, or the device refused it, or
\* squashing discarded it.
NewestSettingWins == \A t \in Targets : Accounted(t)

\* The same of the settings that were queued; a setting that its caller made
\* itself is exempt.  No queued setting is forgotten, made twice or made
\* after a later queued one, whatever the modes and the squashing do.
QueuedSettingWins == \A t \in Targets : latest[t] \in direct \/ Accounted(t)

\* Squashing discards intermediate settings only: the last setting accepted
\* for a target is never skipped (evalThreadLoop, "skip if there is a more
\* recent setting").
OnlyIntermediatesSkipped == \A t \in Targets : latest[t] \notin skipped

\* A call made in its caller's context is made with nothing queued, and while
\* it runs nothing is queued behind its back (opaqueCallHandler, "block on
\* cached args to become empty").
DrainedBeforeDirect == mutex \in Callers => cachedArgs = <<>>

\* Whoever sleeps in _cond.wait() on a condition that has come true is about
\* to be notified.  With one caller there is never a second sleeper that
\* could take the notify_one() meant for the first.
NoLostWakeup ==
  /\ Eval \in waiters /\ cachedArgs # <<>> => \E c \in Callers : pc[c] = "notify"
  /\ \A c \in waiters \cap Callers :
        cachedArgs = <<>> => evalPc \in {"popped", "skipping"}

\* The evaluation thread survives every failed setting but a setupDevice: it
\* is gone only because the block is being destroyed or because the call that
\* threw was setupDevice; and behind such a failure it makes nothing that is
\* still queued ("setup device failed, this thread is done evaluation",
\* evalThreadLoop).
EvalThreadLifetime ==
  /\ evalPc = "exited" => evalThreadDone \/ setupFailed
  /\ setupFailed => evalPc \in {"failing", "failed", "exited"}

\* A call that a thread is making returns, unless the evaluation thread is
\* gone: no wakeup is missed and no error is left behind the mutex.
CallReturns ==
  \A c \in Callers :
    (op[c].kind \notin {"none", "destroy"})
      ~> (op[c].kind = "none" \/ evalPc = "exited")

\* A queued setting is made, refused or skipped, unless the evaluation thread
\* is gone.
QueuedSettingSettles ==
  \A k \in 1..MaxSettings : Pending(k) ~> (~Pending(k) \/ evalPc = "exited")

\* The destructor returns: the evaluation thread it tells to stop does stop
\* (~SoapyBlock, "stop the eval thread before cleaning up").
DestructorReturns ==
  \A c \in Callers : (op[c].kind = "destroy") ~> (pc[c] = "destroyed")

-----------------------------------------------------------------------------
(* What the queue promises, without threads, mutex or wakeups.             *)

Log == INSTANCE SettingsLog WITH
         pending <- (IF InFlight THEN <<current>> ELSE <<>>) \o cachedArgs

ImplementsSettingsLog == Log!Spec
=============================================================================
