---------------------------- MODULE BgEnumerator ----------------------------
(***************************************************************************)
(* The cache of enumerated devices behind overlay() (EnumerateCache.cpp):  *)
(* the first caller of cachedEnumerate() constructs the singleton and      *)
(* enumerates synchronously; from then on a polling thread enumerates      *)
(* without the mutex and callers copy the cache under it; the singleton is *)
(* destroyed when the process exits.                                       *)
(*                                                                         *)
(* A list of devices is the number of the change that led to it.           *)
(* SoapySDR::Device::enumerate() takes any time and returns what was       *)
(* attached at one moment of the call.                                     *)
(***************************************************************************)
EXTENDS Naturals

CONSTANTS
  Readers,      \* the threads that call cachedEnumerate()
  MaxChanges    \* bound: how often a device is attached or removed

ASSUME MaxChangesAssumption == MaxChanges \in Nat

VARIABLES
  devices,      \* what is attached now
  instance,     \* the static local: "none", "constructing", "alive", ...
  cache,        \* _cache
  done,         \* _done
  locked,       \* the polling thread holds _mutex
  asleep,       \* the polling thread is in wait_for()
  poll,         \* where the polling thread is
  result,       \* the list it has enumerated
  reader,       \* where each reader is
  shown         \* history: the list that was last returned to a reader

vars == <<devices, instance, cache, done, locked, asleep, poll, result,
          reader, shown>>

Init ==
  /\ devices = 0
  /\ instance = "none"
  /\ cache = 0
  /\ done = FALSE
  /\ locked = FALSE
  /\ asleep = FALSE
  /\ poll = "none"
  /\ result = 0
  /\ reader = [r \in Readers |-> "idle"]
  /\ shown = 0

-----------------------------------------------------------------------------
\* A device is attached or removed.
DevicesChange ==
  /\ devices < MaxChanges
  /\ devices' = devices + 1
  /\ UNCHANGED <<instance, cache, done, locked, asleep, poll, result, reader,
                 shown>>

\* overlay() calls cachedEnumerate(); none does while the process exits.
Call(r) ==
  /\ reader[r] = "idle"
  /\ instance \in {"none", "constructing", "alive"}
  /\ reader' = [reader EXCEPT ![r] = "calling"]
  /\ UNCHANGED <<devices, instance, cache, done, locked, asleep, poll, result,
                 shown>>

\* Faulty: the thread polls, and others read, while the first list is still
\* being enumerated.
FaultyConstruct(r) ==
  /\ reader[r] = "calling"
  /\ instance = "none"
  /\ instance' = "alive"
  /\ reader' = [reader EXCEPT ![r] = "enumerating"]
  /\ poll' = "start"
  /\ UNCHANGED <<devices, cache, done, locked, asleep, result, shown>>

\* The first caller constructs the singleton, others wait for it: enumerate
\* first, start the polling thread afterwards.
Construct(r) ==
  /\ reader[r] = "calling"
  /\ instance = "none"
  /\ instance' = "constructing"
  /\ reader' = [reader EXCEPT ![r] = "enumerating"]
  /\ UNCHANGED <<devices, cache, done, locked, asleep, poll, result, shown>>

FirstEnumerate(r) ==
  /\ reader[r] = "enumerating"
  /\ cache' = devices
  /\ reader' = [reader EXCEPT ![r] = "constructed"]
  /\ UNCHANGED <<devices, instance, done, locked, asleep, poll, result, shown>>

\* The enumeration throws, and overlay() with it; the singleton is constructed
\* by the next caller, or by one that waits.
FirstEnumerateThrows(r) ==
  /\ reader[r] = "enumerating"
  /\ instance' = "none"
  /\ reader' = [reader EXCEPT ![r] = "idle"]
  /\ UNCHANGED <<devices, cache, done, locked, asleep, poll, result, shown>>

StartThread(r) ==
  /\ reader[r] = "constructed"
  /\ instance' = "alive"
  /\ poll' = "start"
  /\ reader' = [reader EXCEPT ![r] = "calling"]
  /\ UNCHANGED <<devices, cache, done, locked, asleep, result, shown>>

\* getCache(): a copy made under the mutex.
GetCache(r) ==
  /\ reader[r] = "calling"
  /\ instance = "alive"
  /\ ~locked
  /\ shown' = cache
  /\ reader' = [reader EXCEPT ![r] = "idle"]
  /\ UNCHANGED <<devices, instance, cache, done, locked, asleep, poll, result>>

-----------------------------------------------------------------------------
(* pollingLoop().                                                          *)

PollLock ==
  /\ poll = "start"
  /\ ~locked
  /\ locked' = TRUE
  /\ poll' = "testing"
  /\ UNCHANGED <<devices, instance, cache, done, asleep, result, reader, shown>>

\* while (not _done), with the mutex held; the destructor does not take it.
PollTest ==
  /\ poll = "testing"
  /\ locked' = ~done
  /\ poll' = IF done THEN "exited" ELSE "sleeping"
  /\ UNCHANGED <<devices, instance, cache, done, asleep, result, reader, shown>>

\* wait_for() releases the mutex and sleeps, in one step.
PollWait ==
  /\ poll = "sleeping"
  /\ locked' = FALSE
  /\ asleep' = TRUE
  /\ poll' = "waiting"
  /\ UNCHANGED <<devices, instance, cache, done, result, reader, shown>>

\* Faulty: wait() for wait_for().
FaultyTimeout == FALSE /\ UNCHANGED vars

\* Three seconds pass.
Timeout ==
  /\ poll = "waiting"
  /\ asleep
  /\ asleep' = FALSE
  /\ UNCHANGED <<devices, instance, cache, done, locked, poll, result, reader,
                 shown>>

\* Faulty: the mutex is kept while the devices are enumerated.
FaultyPollWake ==
  /\ poll = "waiting"
  /\ ~asleep
  /\ ~locked
  /\ poll' = IF done THEN "exited" ELSE "enumerating"
  /\ locked' = ~done
  /\ UNCHANGED <<devices, instance, cache, done, asleep, result, reader, shown>>

\* if (_done) break; the mutex is released in either case.
PollWake ==
  /\ poll = "waiting"
  /\ ~asleep
  /\ ~locked
  /\ poll' = IF done THEN "exited" ELSE "enumerating"
  /\ UNCHANGED <<devices, instance, cache, done, locked, asleep, result,
                 reader, shown>>

Enumerate ==
  /\ poll = "enumerating"
  /\ result' = devices
  /\ poll' = "enumerated"
  /\ UNCHANGED <<devices, instance, cache, done, locked, asleep, reader, shown>>

\* Faulty: the list is thrown away when the thread goes back to sleep.
FaultyPollStore ==
  /\ poll = "enumerated"
  /\ ~locked
  /\ locked' = TRUE
  /\ poll' = "testing"
  /\ UNCHANGED <<devices, instance, cache, done, asleep, result, reader, shown>>

PollStore ==
  /\ poll = "enumerated"
  /\ ~locked
  /\ locked' = TRUE
  /\ cache' = result
  /\ poll' = "testing"
  /\ UNCHANGED <<devices, instance, done, asleep, result, reader, shown>>

-----------------------------------------------------------------------------
(* ~SDRBlockBgEnumerator(), run by the exit of the process.                *)

SetDone ==
  /\ instance = "alive"
  /\ \A r \in Readers : reader[r] = "idle"
  /\ instance' = "destroying"
  /\ done' = TRUE
  /\ UNCHANGED <<devices, cache, locked, asleep, poll, result, reader, shown>>

Notify ==
  /\ instance = "destroying"
  /\ instance' = "joining"
  /\ asleep' = FALSE
  /\ UNCHANGED <<devices, cache, done, locked, poll, result, reader, shown>>

Join ==
  /\ instance = "joining"
  /\ poll = "exited"
  /\ instance' = "destroyed"
  /\ UNCHANGED <<devices, cache, done, locked, asleep, poll, result, reader,
                 shown>>

-----------------------------------------------------------------------------
ReaderStep(r) ==
  \/ Construct(r) \/ FirstEnumerate(r) \/ FirstEnumerateThrows(r)
  \/ StartThread(r) \/ GetCache(r)
PollStep == PollLock \/ PollTest \/ PollWait \/ Timeout \/ PollWake \/ PollStore
Destructor == Notify \/ Join

Next ==
  \/ DevicesChange
  \/ \E r \in Readers : Call(r) \/ ReaderStep(r)
  \/ PollStep
  \/ Enumerate
  \/ SetDone
  \/ Destructor

Spec == Init /\ [][Next]_vars

\* Threads run and time passes; GetCache is fair to each reader even though
\* the polling thread takes the mutex again and again, since it never keeps
\* it and a waiting reader is let in by the operating system.
Fairness ==
  /\ WF_vars(PollStep)
  /\ WF_vars(Destructor)
  /\ \A r \in Readers : SF_vars(ReaderStep(r))

\* The driver's enumeration in the background may hang: nothing is assumed
\* of Enumerate.
FairSpec == Spec /\ Fairness

-----------------------------------------------------------------------------
TypeOK ==
  /\ devices \in 0..MaxChanges
  /\ instance \in {"none", "constructing", "alive", "destroying", "joining",
                   "destroyed"}
  /\ cache \in 0..devices
  /\ done \in BOOLEAN
  /\ locked \in BOOLEAN /\ (locked <=> poll \in {"testing", "sleeping"})
  /\ asleep \in BOOLEAN
  /\ poll \in {"none", "start", "testing", "sleeping", "waiting",
               "enumerating", "enumerated", "exited"}
  /\ result \in 0..devices
  /\ reader \in [Readers -> {"idle", "calling", "enumerating", "constructed"}]
  /\ shown \in 0..devices

\* No reader is shown a list older than one that some reader was shown
\* before: a list is never stored over a later one, by whoever enumerated.
NeverBackwards == [][shown' >= shown]_shown

\* An overlay is answered, if only by an exception, even if the enumeration in
\* the background never returns ("so that the overlay operation does not block
\* for devices").
OverlayAnswers == \A r \in Readers : reader[r] = "calling" ~> reader[r] = "idle"

\* No enumeration in the background hangs.
EnumerationsReturn == []<>(poll # "enumerating")

\* Every change of the devices reaches the cache, although nobody announces
\* it: the polling thread wakes up by itself.
ChangesReachCache ==
  EnumerationsReturn =>
    \A v \in 0..MaxChanges :
      (instance = "alive" /\ devices = v) ~> (cache >= v \/ done)

\* The destructor returns although it sets _done and notifies without the
\* mutex, so that the polling thread may miss both before it sleeps.
DestructorReturns == EnumerationsReturn => (done ~> (instance = "destroyed"))
=============================================================================
