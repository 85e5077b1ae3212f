---------------------------- MODULE MCEvalQueue ----------------------------
(* Small sets of setter calls with which TLC checks EvalQueue.             *)
EXTENDS EvalQueue

Setter(n, k, a) == [name |-> n, key |-> k, arg |-> a]

Mode(m)   == Setter("setCallingMode", "none", m)
Squash(b) == Setter("setEventSquash", "none", b)
Frequency == Setter("setFrequency", "RF", "f")
Device    == Setter("setupDevice", "none", "args")
Gain(k)   == Setter("setGain0", k, "g")

\* Background modes and a misspelt mode; a queued call never leaves the
\* background modes, and nothing is squashed.
BackgroundSetters ==
  {Frequency, Device, Mode("ACTIVATE_WAITS"), Mode("ACTIVATE_THROWS"),
   Mode("UNKNOWN")}

\* Every mode and squashing; every name sets one thing only.
MixedSetters ==
  {Frequency, Gain("LNA"), Mode("SYNCHRONOUS"), Mode("ACTIVATE_WAITS"),
   Squash("true"), Squash("false")}

\* Squashing without a background mode.
SynchronousSetters == {Frequency, Squash("true")}

\* One name that sets two things.
KeyedSetters == {Gain("LNA"), Gain("PGA"), Squash("true")}
=============================================================================
