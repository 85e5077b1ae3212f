---------------------------- MODULE SettingsLog ----------------------------
(***************************************************************************)
(* What the delayed dispatch of setters promises to the framework and to   *)
(* the device: accepted settings form a log; the oldest pending one is     *)
(* made, refused by the device, or discarded in favour of a later call of  *)
(* the same name; a caller makes a setting itself only while at most one   *)
(* other is still on its way.                                              *)
(***************************************************************************)
EXTENDS Naturals, Sequences

CONSTANTS Setters     \* the setter calls: records [name, key, arg]

VARIABLES
  pending,     \* the accepted settings that are still to be made, oldest first
  issued,      \* the number of settings accepted
  latest,      \* the last setting accepted for each target
  device,      \* the setting in force for each target
  failed,      \* the settings that the device refused
  skipped      \* the settings that were discarded

logVars == <<pending, issued, latest, device, failed, skipped>>

LogTarget(s) == <<s.name, s.key>>
LogTargets == {LogTarget(s) : s \in Setters}
LogEntry(s, k) == [name |-> s.name, key |-> s.key, arg |-> s.arg, id |-> k]

LogInit ==
  /\ pending = <<>>
  /\ issued = 0
  /\ latest = [t \in LogTargets |-> 0]
  /\ device = [t \in LogTargets |-> 0]
  /\ failed = {}
  /\ skipped = {}

Issue(s) ==
  /\ issued' = issued + 1
  /\ latest' = [latest EXCEPT ![LogTarget(s)] = issued + 1]

Accept(s) ==
  /\ Issue(s)
  /\ pending' = Append(pending, LogEntry(s, issued + 1))
  /\ UNCHANGED <<device, failed, skipped>>

MakeNow(s) ==
  /\ Len(pending) <= 1
  /\ Issue(s)
  /\ device' = [device EXCEPT ![LogTarget(s)] = issued + 1]
  /\ UNCHANGED <<pending, failed, skipped>>

TakeOldest ==
  /\ pending # <<>>
  /\ pending' = Tail(pending)
  /\ UNCHANGED <<issued, latest>>

Apply ==
  /\ TakeOldest
  /\ device' = [device EXCEPT ![LogTarget(Head(pending))] = Head(pending).id]
  /\ UNCHANGED <<failed, skipped>>

Refuse ==
  /\ TakeOldest
  /\ failed' = failed \cup {Head(pending).id}
  /\ UNCHANGED <<device, skipped>>

Discard ==
  /\ TakeOldest
  /\ \E i \in DOMAIN Tail(pending) : Tail(pending)[i].name = Head(pending).name
  /\ skipped' = skipped \cup {Head(pending).id}
  /\ UNCHANGED <<device, failed>>

LogNext ==
  \/ \E s \in Setters : Accept(s) \/ MakeNow(s)
  \/ Apply
  \/ Refuse
  \/ Discard

Spec == LogInit /\ [][LogNext]_logVars
=============================================================================
