-------------------------- MODULE EvalQueueProofs --------------------------
(***************************************************************************)
(* Proofs about EvalQueue, for any set of callers and of setters.          *)
(***************************************************************************)
EXTENDS EvalQueue, TLAPS, SequenceTheorems

-----------------------------------------------------------------------------
(* The constant operators.                                                 *)

LEMMA ThreadsDistinct == Eval \notin Callers /\ Nobody \notin Callers
BY CallersAssumption

LEMMA OpIsOp ==
  ASSUME NEW k \in Kinds \ {"set"}
  PROVE  Op(k) \in Ops /\ Op(k).kind = k
BY DEF Op, Ops, Kinds

LEMMA RequestIsOp == Requests \subseteq Ops
BY DEF Requests, Ops, Kinds

LEMMA SetOpIsSetter ==
  ASSUME NEW o \in Ops, o.kind = "set"
  PROVE  \E s \in Setters : o = SetOp(s)
BY DEF Ops, Op, Kinds

LEMMA EntryOfOp ==
  ASSUME NEW o \in Ops, o.kind = "set", NEW k \in Nat
  PROVE  /\ \E s \in Setters : Entry(o, k) = Entry(s, k)
         /\ Entry(o, k).id = k
         /\ Entry(o, k).name = o.name
         /\ Target(Entry(o, k)) = Target(o)
         /\ Target(o) \in Targets
<1>1. PICK s \in Setters : o = SetOp(s)
  BY SetOpIsSetter
<1> QED
  BY <1>1 DEF SetOp, Entry, Target, Targets

LEMMA EntryTarget ==
  ASSUME NEW e \in Entries, issued \in Nat
  PROVE  /\ Target(e) \in Targets
         /\ e.id \in 1..issued
         /\ \E s \in Setters : Target(e) = Target(s) /\ e.name = s.name
BY DEF Entries, Entry, Target, Targets

LEMMA EffectType ==
  ASSUME NEW n, NEW a, Effect(n, a),
         backgrounding \in BOOLEAN, activateWaits \in BOOLEAN,
         eventSquash \in BOOLEAN
  PROVE  /\ backgrounding' \in BOOLEAN
         /\ activateWaits' \in BOOLEAN
         /\ eventSquash' \in BOOLEAN
<1>1. eventSquash' \in BOOLEAN
  <2>1. CASE n = "setEventSquash"
    BY <2>1, Zenon DEF Effect
  <2>2. CASE n # "setEventSquash"
    BY <2>2, Zenon DEF Effect
  <2> QED
    BY <2>1, <2>2, Zenon
<1>2. CASE n = "setCallingMode"
  <2>1. backgrounding' = (a \in BackgroundModes) /\ activateWaits' = (a \in WaitingModes)
    BY <1>2, Zenon DEF Effect
  <2>2. (a \in BackgroundModes) \in BOOLEAN /\ (a \in WaitingModes) \in BOOLEAN
    BY SMT
  <2> QED
    BY <1>1, <2>1, <2>2, Zenon
<1>3. CASE n # "setCallingMode"
  BY <1>1, <1>3, Zenon DEF Effect
<1> QED
  BY <1>2, <1>3, Zenon

\* What appending an entry does to a queue, and what popping one does.
LEMMA AppendEntry ==
  ASSUME NEW S, NEW q \in Seq(S), NEW e \in S
  PROVE  /\ Append(q, e) \in Seq(S)
         /\ DOMAIN q = 1..Len(q)
         /\ Len(q) \in Nat
         /\ DOMAIN Append(q, e) = 1..Len(q) + 1
         /\ \A i \in 1..Len(q) : Append(q, e)[i] = q[i]
         /\ Append(q, e)[Len(q) + 1] = e
BY AppendProperties, LenProperties

LEMMA PopEntry ==
  ASSUME NEW S, NEW q \in Seq(S), q # <<>>
  PROVE  /\ Head(q) \in S
         /\ Head(q) = q[1]
         /\ Tail(q) \in Seq(S)
         /\ Len(q) \in Nat \ {0}
         /\ DOMAIN q = 1..Len(q)
         /\ DOMAIN Tail(q) = 1..Len(q) - 1
         /\ \A i \in 1..Len(q) - 1 : Tail(q)[i] = q[i + 1]
<1>1. Len(q) \in Nat \ {0} /\ DOMAIN q = 1..Len(q)
  BY EmptySeq, LenProperties
<1>2. /\ Tail(q) \in Seq(S)
      /\ Len(Tail(q)) = Len(q) - 1
      /\ \A i \in 1..Len(Tail(q)) : Tail(q)[i] = q[i + 1]
      /\ Head(q) \in S
  BY HeadTailProperties
<1>3. Head(q) = q[1]
  OBVIOUS
<1>4. DOMAIN Tail(q) = 1..Len(Tail(q))
  BY <1>2, LenProperties
<1> QED
  BY <1>1, <1>2, <1>3, <1>4

-----------------------------------------------------------------------------
(* Types.                                                                  *)

LEMMA FlagsStep ==
  ASSUME FlagsOK, [Next]_vars
  PROVE  FlagsOK'
<1> USE DEF FlagsOK, queueVars, optionVars, historyVars
<1>1. ASSUME NEW c \in Callers, NEW o \in Requests, Call(c, o) PROVE FlagsOK'
  BY <1>1, EffectType DEF Call
<1>2. ASSUME NEW c \in Callers, Activate(c) PROVE FlagsOK'
  BY <1>2, EffectType DEF Activate
<1>3. ASSUME NEW c \in Callers, Deactivate(c) PROVE FlagsOK'
  BY <1>3, EffectType DEF Deactivate
<1>4. ASSUME NEW c \in Callers, Destroy(c) PROVE FlagsOK'
  BY <1>4, EffectType DEF Destroy
<1>5. ASSUME NEW c \in Callers, Bypass(c) PROVE FlagsOK'
  BY <1>5, EffectType DEF Bypass
<1>6. ASSUME NEW c \in Callers, OpaqueCall(c) PROVE FlagsOK'
  BY <1>6, EffectType DEF OpaqueCall, RethrowError, Enqueue, AwaitEmpty
<1>7. ASSUME NEW c \in Callers, IsReady(c) PROVE FlagsOK'
  BY <1>7, EffectType DEF IsReady, RethrowError, AwaitEmpty
<1>8. ASSUME NEW c \in Callers, Wake(c) PROVE FlagsOK'
  BY <1>8, EffectType DEF Wake, AwaitEmpty
<1>9. ASSUME NEW c \in Callers, CallerNotify(c) PROVE FlagsOK'
  BY <1>9, EffectType DEF CallerNotify
<1>10. ASSUME NEW c \in Callers, DirectReturns(c) PROVE FlagsOK'
  BY <1>10, EffectType DEF DirectReturns
<1>11. ASSUME NEW c \in Callers, DirectThrows(c) PROVE FlagsOK'
  BY <1>11, EffectType DEF DirectThrows
<1>12. ASSUME NEW c \in Callers, ActivateEnds(c) PROVE FlagsOK'
  BY <1>12, EffectType DEF ActivateEnds
<1>13. ASSUME NEW c \in Callers, StopEval(c) PROVE FlagsOK'
  BY <1>13, EffectType DEF StopEval
<1>14. ASSUME NEW c \in Callers, StopNotify(c) PROVE FlagsOK'
  BY <1>14, EffectType DEF StopNotify
<1>15. ASSUME NEW c \in Callers, JoinEval(c) PROVE FlagsOK'
  BY <1>15, EffectType DEF JoinEval
<1>16. ASSUME EvalCheck PROVE FlagsOK'
  BY <1>16, EffectType DEF EvalCheck
<1>17. ASSUME EvalLock PROVE FlagsOK'
  BY <1>17, EffectType DEF EvalLock, Pop
<1>18. ASSUME EvalWake PROVE FlagsOK'
  BY <1>18, EffectType DEF EvalWake, Pop
<1>19. ASSUME EvalNotify PROVE FlagsOK'
  BY <1>19, EffectType DEF EvalNotify
<1>20. ASSUME EvalReturns PROVE FlagsOK'
  BY <1>20, EffectType DEF EvalReturns
<1>21. ASSUME EvalThrows PROVE FlagsOK'
  BY <1>21, EffectType DEF EvalThrows
<1>22. ASSUME EvalStoreError PROVE FlagsOK'
  BY <1>22, EffectType DEF EvalStoreError
<1>23. ASSUME EvalFailNotify PROVE FlagsOK'
  BY <1>23, EffectType DEF EvalFailNotify
<1>24. ASSUME NEW t \in waiters, Spurious(t) PROVE FlagsOK'
  BY <1>24, EffectType DEF Spurious
<1>25. ASSUME UNCHANGED vars PROVE FlagsOK'
  BY <1>25, EffectType DEF vars, queueVars, optionVars, callerVars, evalVars, historyVars
<1> QED
  BY <1>1, <1>2, <1>3, <1>4, <1>5, <1>6, <1>7, <1>8, <1>9, <1>10, <1>11, <1>12, <1>13, <1>14, <1>15, <1>16, <1>17, <1>18, <1>19, <1>20, <1>21, <1>22, <1>23, <1>24, <1>25 DEF Next, Framework, CallerStep, EvalStep

LEMMA ThreadsStep ==
  ASSUME ThreadsOK, [Next]_vars
  PROVE  ThreadsOK'
<1> USE DEF ThreadsOK, CallerPlaces, EvalPlaces, callerVars, evalVars
<1>1. ASSUME NEW c \in Callers, NEW o \in Requests, Call(c, o) PROVE ThreadsOK'
  BY <1>1, ThreadsDistinct, OpIsOp, RequestIsOp DEF Call, Goto, Return, NotifyOne, NoOp, Kinds
<1>2. ASSUME NEW c \in Callers, Activate(c) PROVE ThreadsOK'
  BY <1>2, ThreadsDistinct, OpIsOp, RequestIsOp DEF Activate, Goto, Return, NotifyOne, NoOp, Kinds
<1>3. ASSUME NEW c \in Callers, Deactivate(c) PROVE ThreadsOK'
  BY <1>3, ThreadsDistinct, OpIsOp, RequestIsOp DEF Deactivate, Goto, Return, NotifyOne, NoOp, Kinds
<1>4. ASSUME NEW c \in Callers, Destroy(c) PROVE ThreadsOK'
  BY <1>4, ThreadsDistinct, OpIsOp, RequestIsOp DEF Destroy, Goto, Return, NotifyOne, NoOp, Kinds
<1>5. ASSUME NEW c \in Callers, Bypass(c) PROVE ThreadsOK'
  BY <1>5, ThreadsDistinct, OpIsOp, RequestIsOp DEF Bypass, Goto, Return, NotifyOne, NoOp, Kinds
<1>6. ASSUME NEW c \in Callers, OpaqueCall(c) PROVE ThreadsOK'
  BY <1>6, ThreadsDistinct, OpIsOp, RequestIsOp DEF OpaqueCall, RethrowError, Enqueue, AwaitEmpty, Goto, Return, NotifyOne, NoOp, Kinds
<1>7. ASSUME NEW c \in Callers, IsReady(c) PROVE ThreadsOK'
  BY <1>7, ThreadsDistinct, OpIsOp, RequestIsOp DEF IsReady, RethrowError, AwaitEmpty, Goto, Return, NotifyOne, NoOp, Kinds
<1>8. ASSUME NEW c \in Callers, Wake(c) PROVE ThreadsOK'
  BY <1>8, ThreadsDistinct, OpIsOp, RequestIsOp DEF Wake, AwaitEmpty, Goto, Return, NotifyOne, NoOp, Kinds
<1>9. ASSUME NEW c \in Callers, CallerNotify(c) PROVE ThreadsOK'
  BY <1>9, ThreadsDistinct, OpIsOp, RequestIsOp DEF CallerNotify, Goto, Return, NotifyOne, NoOp, Kinds
<1>10. ASSUME NEW c \in Callers, DirectReturns(c) PROVE ThreadsOK'
  BY <1>10, ThreadsDistinct, OpIsOp, RequestIsOp DEF DirectReturns, Goto, Return, NotifyOne, NoOp, Kinds
<1>11. ASSUME NEW c \in Callers, DirectThrows(c) PROVE ThreadsOK'
  BY <1>11, ThreadsDistinct, OpIsOp, RequestIsOp DEF DirectThrows, Goto, Return, NotifyOne, NoOp, Kinds
<1>12. ASSUME NEW c \in Callers, ActivateEnds(c) PROVE ThreadsOK'
  BY <1>12, ThreadsDistinct, OpIsOp, RequestIsOp DEF ActivateEnds, Goto, Return, NotifyOne, NoOp, Kinds
<1>13. ASSUME NEW c \in Callers, StopEval(c) PROVE ThreadsOK'
  BY <1>13, ThreadsDistinct, OpIsOp, RequestIsOp DEF StopEval, Goto, Return, NotifyOne, NoOp, Kinds
<1>14. ASSUME NEW c \in Callers, StopNotify(c) PROVE ThreadsOK'
  BY <1>14, ThreadsDistinct, OpIsOp, RequestIsOp DEF StopNotify, Goto, Return, NotifyOne, NoOp, Kinds
<1>15. ASSUME NEW c \in Callers, JoinEval(c) PROVE ThreadsOK'
  BY <1>15, ThreadsDistinct, OpIsOp, RequestIsOp DEF JoinEval, Goto, Return, NotifyOne, NoOp, Kinds
<1>16. ASSUME EvalCheck PROVE ThreadsOK'
  BY <1>16, ThreadsDistinct, OpIsOp, RequestIsOp DEF EvalCheck, Goto, Return, NotifyOne, NoOp, Kinds
<1>17. ASSUME EvalLock PROVE ThreadsOK'
  BY <1>17, ThreadsDistinct, OpIsOp, RequestIsOp DEF EvalLock, Pop, Goto, Return, NotifyOne, NoOp, Kinds
<1>18. ASSUME EvalWake PROVE ThreadsOK'
  BY <1>18, ThreadsDistinct, OpIsOp, RequestIsOp DEF EvalWake, Pop, Goto, Return, NotifyOne, NoOp, Kinds
<1>19. ASSUME EvalNotify PROVE ThreadsOK'
  BY <1>19, ThreadsDistinct, OpIsOp, RequestIsOp DEF EvalNotify, Goto, Return, NotifyOne, NoOp, Kinds
<1>20. ASSUME EvalReturns PROVE ThreadsOK'
  BY <1>20, ThreadsDistinct, OpIsOp, RequestIsOp DEF EvalReturns, Goto, Return, NotifyOne, NoOp, Kinds
<1>21. ASSUME EvalThrows PROVE ThreadsOK'
  BY <1>21, ThreadsDistinct, OpIsOp, RequestIsOp DEF EvalThrows, Goto, Return, NotifyOne, NoOp, Kinds
<1>22. ASSUME EvalStoreError PROVE ThreadsOK'
  BY <1>22, ThreadsDistinct, OpIsOp, RequestIsOp DEF EvalStoreError, Goto, Return, NotifyOne, NoOp, Kinds
<1>23. ASSUME EvalFailNotify PROVE ThreadsOK'
  BY <1>23, ThreadsDistinct, OpIsOp, RequestIsOp DEF EvalFailNotify, Goto, Return, NotifyOne, NoOp, Kinds
<1>24. ASSUME NEW t \in waiters, Spurious(t) PROVE ThreadsOK'
  BY <1>24, ThreadsDistinct, OpIsOp, RequestIsOp DEF Spurious, Goto, Return, NotifyOne, NoOp, Kinds
<1>25. ASSUME UNCHANGED vars PROVE ThreadsOK'
  BY <1>25, ThreadsDistinct, OpIsOp, RequestIsOp DEF vars, queueVars, optionVars, callerVars, evalVars, historyVars, Goto, Return, NotifyOne, NoOp, Kinds
<1> QED
  BY <1>1, <1>2, <1>3, <1>4, <1>5, <1>6, <1>7, <1>8, <1>9, <1>10, <1>11, <1>12, <1>13, <1>14, <1>15, <1>16, <1>17, <1>18, <1>19, <1>20, <1>21, <1>22, <1>23, <1>24, <1>25 DEF Next, Framework, CallerStep, EvalStep

LEMMA EntriesGrow ==
  ASSUME issued \in Nat, issued' = issued + 1
  PROVE  Entries \subseteq Entries'
BY DEF Entries

LEMMA NewestType ==
  ASSUME NEW n \in Nat, NEW f \in [Targets -> 0..n], NEW t
  PROVE  /\ f \in [Targets -> 0..n + 1]
         /\ [f EXCEPT ![t] = n + 1] \in [Targets -> 0..n + 1]
<1>1. 0..n \subseteq 0..n + 1 /\ n + 1 \in 0..n + 1
  OBVIOUS
<1>2. f \in [Targets -> 0..n + 1]
  BY <1>1
<1> QED
  BY <1>1, <1>2

LEMMA EnqueueSettings ==
  ASSUME SettingsOK, ThreadsOK, NEW c \in Callers, op[c].kind = "set", Enqueue(c)
  PROVE  SettingsOK'
<1> DEFINE e == Entry(op[c], issued + 1)
<1>1. /\ issued' = issued + 1 /\ issued' \in Nat
      /\ cachedArgs' = Append(cachedArgs, e)
      /\ latest' = [latest EXCEPT ![Target(op[c])] = issued + 1]
      /\ UNCHANGED <<current, device, failed, skipped, direct>>
      /\ pc' = [pc EXCEPT ![c] = "notify"]
      /\ evalPc' = evalPc
  BY DEF Enqueue, SettingsOK, Goto, evalVars
<1>2. Entries \subseteq Entries'
  BY <1>1, EntriesGrow DEF SettingsOK
<1>3. e \in Entries'
  BY <1>1, EntryOfOp DEF Entries, SettingsOK, ThreadsOK
<1>4. cachedArgs \in Seq(Entries')
  BY <1>2, SeqMonotonic DEF SettingsOK
<1>5. cachedArgs' \in Seq(Entries')
  BY <1>1, <1>3, <1>4, AppendEntry
<1>6. Seq(Entries') = Seq(Entries)'
  OBVIOUS
<1>7. latest' \in [Targets -> 0..issued'] /\ device' \in [Targets -> 0..issued']
  BY <1>1, NewestType DEF SettingsOK
<1>8. failed' \subseteq 1..issued' /\ skipped' \subseteq 1..issued' /\ direct' \subseteq 1..issued'
  BY <1>1 DEF SettingsOK
<1>9. current' \in Entries' \cup {NoEntry}
  BY <1>1, <1>2 DEF SettingsOK
<1>10. evalPc' \in {"popped", "calling", "failing", "failed"} => current' # NoEntry
  BY <1>1 DEF SettingsOK
<1> QED
  BY <1>1, <1>5, <1>6, <1>7, <1>8, <1>9, <1>10 DEF SettingsOK

LEMMA DirectSettings ==
  ASSUME SettingsOK, ThreadsOK, NEW c \in Callers, DirectReturns(c)
  PROVE  SettingsOK'
<1>1. UNCHANGED <<cachedArgs, current, evalPc>>
  BY DEF DirectReturns, queueVars, evalVars
<1>2. CASE op[c].kind = "get"
  <2>1. UNCHANGED <<issued, latest, device, failed, skipped, direct>>
    BY <1>2 DEF DirectReturns, historyVars
  <2> QED
    BY <1>1, <2>1 DEF SettingsOK, Entries
<1>3. CASE op[c].kind = "set"
  <2>1. /\ issued' = issued + 1
        /\ latest' = [latest EXCEPT ![Target(op[c])] = issued + 1]
        /\ device' = [device EXCEPT ![Target(op[c])] = issued + 1]
        /\ direct' = direct \cup {issued + 1}
        /\ UNCHANGED <<failed, skipped>>
    BY <1>3 DEF DirectReturns
  <2>2. Entries \subseteq Entries'
    BY <2>1, EntriesGrow DEF SettingsOK
  <2>3. cachedArgs' \in Seq(Entries')
    BY <1>1, <2>2, SeqMonotonic DEF SettingsOK
  <2>4. latest' \in [Targets -> 0..issued'] /\ device' \in [Targets -> 0..issued']
    BY <2>1, NewestType DEF SettingsOK
  <2>5. failed' \subseteq 1..issued' /\ skipped' \subseteq 1..issued' /\ direct' \subseteq 1..issued'
    BY <2>1 DEF SettingsOK
  <2>6. current' \in Entries' \cup {NoEntry}
    BY <1>1, <2>2 DEF SettingsOK
  <2> QED
    BY <1>1, <2>1, <2>3, <2>4, <2>5, <2>6 DEF SettingsOK
<1> QED
  BY <1>2, <1>3 DEF DirectReturns

LEMMA PopSettings ==
  ASSUME SettingsOK, Pop
  PROVE  SettingsOK'
<1>1. /\ cachedArgs # <<>> /\ cachedArgs \in Seq(Entries)
      /\ cachedArgs' = Tail(cachedArgs)
      /\ UNCHANGED <<issued, latest, device, failed, direct>>
  BY DEF Pop, SettingsOK
<1>2. Head(cachedArgs) \in Entries /\ Tail(cachedArgs) \in Seq(Entries)
  BY <1>1, PopEntry
<1>3. Head(cachedArgs).id \in 1..issued /\ Head(cachedArgs) # NoEntry
  BY <1>2, EntryTarget DEF SettingsOK, NoEntry
<1>4. Entries' = Entries
  BY <1>1 DEF Entries
<1>5. \/ current' = NoEntry /\ skipped' = skipped \cup {Head(cachedArgs).id} /\ evalPc' = "skipping"
      \/ current' = Head(cachedArgs) /\ skipped' = skipped /\ evalPc' = "popped"
  BY DEF Pop
<1> QED
  BY <1>1, <1>2, <1>3, <1>4, <1>5 DEF SettingsOK

LEMMA SettingsStep ==
  ASSUME SettingsOK, ThreadsOK, [Next]_vars
  PROVE  SettingsOK'
<1>1. ASSUME NEW c \in Callers, NEW o \in Requests, Call(c, o) PROVE SettingsOK'
  BY <1>1 DEF Call, SettingsOK, Entries, queueVars, evalVars, historyVars
<1>2. ASSUME NEW c \in Callers, Activate(c) PROVE SettingsOK'
  BY <1>2 DEF Activate, SettingsOK, Entries, queueVars, evalVars, historyVars
<1>3. ASSUME NEW c \in Callers, Deactivate(c) PROVE SettingsOK'
  BY <1>3 DEF Deactivate, SettingsOK, Entries, queueVars, evalVars, historyVars
<1>4. ASSUME NEW c \in Callers, Destroy(c) PROVE SettingsOK'
  BY <1>4 DEF Destroy, SettingsOK, Entries, queueVars, evalVars, historyVars
<1>5. ASSUME NEW c \in Callers, Bypass(c) PROVE SettingsOK'
  BY <1>5 DEF Bypass, SettingsOK, Entries, queueVars, evalVars, historyVars
<1>6. ASSUME NEW c \in Callers, OpaqueCall(c) PROVE SettingsOK'
  <2>1. CASE RethrowError(c)
    BY <2>1 DEF RethrowError, SettingsOK, Entries, queueVars, evalVars, historyVars
  <2>2. CASE op[c].kind = "set" /\ Enqueue(c)
    BY <2>2, EnqueueSettings
  <2>3. CASE AwaitEmpty(c)
    BY <2>3 DEF AwaitEmpty, SettingsOK, Entries, queueVars, evalVars, historyVars
  <2> QED
    BY <1>6, <2>1, <2>2, <2>3 DEF OpaqueCall
<1>7. ASSUME NEW c \in Callers, IsReady(c) PROVE SettingsOK'
  <2>1. UNCHANGED <<cachedArgs, evalVars, historyVars>>
    BY <1>7 DEF IsReady, RethrowError, AwaitEmpty, queueVars
  <2> QED
    BY <2>1 DEF SettingsOK, Entries, evalVars, historyVars
<1>8. ASSUME NEW c \in Callers, Wake(c) PROVE SettingsOK'
  BY <1>8 DEF Wake, AwaitEmpty, SettingsOK, Entries, queueVars, evalVars, historyVars
<1>9. ASSUME NEW c \in Callers, CallerNotify(c) PROVE SettingsOK'
  BY <1>9 DEF CallerNotify, SettingsOK, Entries, queueVars, evalVars, historyVars
<1>10. ASSUME NEW c \in Callers, DirectReturns(c) PROVE SettingsOK'
  BY <1>10, DirectSettings
<1>11. ASSUME NEW c \in Callers, DirectThrows(c) PROVE SettingsOK'
  BY <1>11 DEF DirectThrows, SettingsOK, Entries, queueVars, evalVars, historyVars
<1>12. ASSUME NEW c \in Callers, ActivateEnds(c) PROVE SettingsOK'
  BY <1>12 DEF ActivateEnds, SettingsOK, Entries, queueVars, evalVars, historyVars
<1>13. ASSUME NEW c \in Callers, StopEval(c) PROVE SettingsOK'
  BY <1>13 DEF StopEval, SettingsOK, Entries, queueVars, evalVars, historyVars
<1>14. ASSUME NEW c \in Callers, StopNotify(c) PROVE SettingsOK'
  BY <1>14 DEF StopNotify, SettingsOK, Entries, queueVars, evalVars, historyVars
<1>15. ASSUME NEW c \in Callers, JoinEval(c) PROVE SettingsOK'
  BY <1>15 DEF JoinEval, SettingsOK, Entries, queueVars, evalVars, historyVars
<1>16. ASSUME EvalCheck PROVE SettingsOK'
  BY <1>16 DEF EvalCheck, SettingsOK, Entries, queueVars, evalVars, historyVars
<1>17. ASSUME EvalLock PROVE SettingsOK'
  <2>1. CASE Pop
    BY <2>1, PopSettings
  <2>2. CASE cachedArgs = <<>>
    <3>1. /\ UNCHANGED <<cachedArgs, current, issued, latest, device, failed, skipped, direct>>
          /\ evalPc' = "waiting"
      BY <1>17, <2>2 DEF EvalLock, Pop, queueVars, historyVars
    <3> QED
      BY <3>1 DEF SettingsOK, Entries
  <2> QED
    BY <1>17, <2>1, <2>2 DEF EvalLock
<1>18. ASSUME EvalWake PROVE SettingsOK'
  <2>1. CASE Pop
    BY <2>1, PopSettings
  <2>2. CASE cachedArgs = <<>>
    <3>1. /\ UNCHANGED <<cachedArgs, current, issued, latest, device, failed, skipped, direct>>
          /\ evalPc' = "check"
      BY <1>18, <2>2 DEF EvalWake, Pop, queueVars, historyVars
    <3> QED
      BY <3>1 DEF SettingsOK, Entries
  <2> QED
    BY <1>18, <2>1, <2>2 DEF EvalWake
<1>19. ASSUME EvalNotify PROVE SettingsOK'
  BY <1>19 DEF EvalNotify, SettingsOK, Entries, queueVars, evalVars, historyVars
<1>20. ASSUME EvalReturns PROVE SettingsOK'
  <2>1. current \in Entries
    BY <1>20 DEF EvalReturns, SettingsOK
  <2>2. Target(current) \in Targets /\ current.id \in 0..issued
    BY <2>1, EntryTarget DEF SettingsOK
  <2>3. Entries' = Entries
    BY <1>20 DEF EvalReturns, Entries
  <2> QED
    BY <1>20, <2>2, <2>3 DEF EvalReturns, SettingsOK, queueVars
<1>21. ASSUME EvalThrows PROVE SettingsOK'
  <2>1. current \in Entries
    BY <1>21 DEF EvalThrows, SettingsOK
  <2>2. current.id \in 1..issued
    BY <2>1, EntryTarget DEF SettingsOK
  <2>3. Entries' = Entries
    BY <1>21 DEF EvalThrows, Entries
  <2> QED
    BY <1>21, <2>1, <2>2, <2>3 DEF EvalThrows, SettingsOK, queueVars
<1>22. ASSUME EvalStoreError PROVE SettingsOK'
  BY <1>22 DEF EvalStoreError, SettingsOK, Entries, queueVars, evalVars, historyVars
<1>23. ASSUME EvalFailNotify PROVE SettingsOK'
  BY <1>23 DEF EvalFailNotify, SettingsOK, Entries, queueVars, evalVars, historyVars
<1>24. ASSUME NEW t \in waiters, Spurious(t) PROVE SettingsOK'
  BY <1>24 DEF Spurious, SettingsOK, Entries, queueVars, evalVars, historyVars
<1>25. ASSUME UNCHANGED vars PROVE SettingsOK'
  BY <1>25 DEF vars, queueVars, optionVars, callerVars, evalVars, historyVars, SettingsOK, Entries, queueVars, evalVars, historyVars
<1> QED
  BY <1>1, <1>2, <1>3, <1>4, <1>5, <1>6, <1>7, <1>8, <1>9, <1>10, <1>11, <1>12, <1>13, <1>14, <1>15, <1>16, <1>17, <1>18, <1>19, <1>20, <1>21, <1>22, <1>23, <1>24, <1>25 DEF Next, Framework, CallerStep, EvalStep

LEMMA TypeInit == Init => TypeOK
<1> SUFFICES ASSUME Init PROVE TypeOK
  OBVIOUS
<1>1. FlagsOK
  BY DEF Init, FlagsOK
<1>2. ThreadsOK
  BY OpIsOp DEF Init, ThreadsOK, NoOp, Kinds, CallerPlaces, EvalPlaces
<1>3. SettingsOK
  BY EmptySeq DEF Init, SettingsOK
<1> QED
  BY <1>1, <1>2, <1>3 DEF TypeOK

\* The variables of the dispatch have the types the code gives them, and
\* whoever is in the wait set of _cond is in a call to wait().
THEOREM TypeCorrect == Spec => []TypeOK
<1>1. TypeOK /\ [Next]_vars => TypeOK'
  BY FlagsStep, ThreadsStep, SettingsStep DEF TypeOK
<1> QED
  BY <1>1, TypeInit, PTL DEF Spec

-----------------------------------------------------------------------------
(* What the steps do to the settings on their way.                         *)

\* A step that touches neither the queue nor the accounts of the settings.
Quiet ==
  /\ UNCHANGED <<cachedArgs, issued, latest, device, failed, skipped, direct>>
  /\ InFlight' = InFlight
  /\ InFlight => current' = current

Accepts(o) ==
  /\ issued' = issued + 1
  /\ latest' = [latest EXCEPT ![Target(o)] = issued + 1]
  /\ InFlight' = InFlight
  /\ InFlight => current' = current

\* A setter is queued.
Queues(o) ==
  /\ Accepts(o)
  /\ cachedArgs' = Append(cachedArgs, Entry(o, issued + 1))
  /\ UNCHANGED <<device, failed, skipped, direct>>

\* A setter is made by its caller.
Makes(o) ==
  /\ Accepts(o)
  /\ device' = [device EXCEPT ![Target(o)] = issued + 1]
  /\ direct' = direct \cup {issued + 1}
  /\ UNCHANGED <<cachedArgs, failed, skipped>>
  /\ \E c \in Callers : pc[c] = "direct" /\ op[c] = o

\* The oldest queued setting is taken, to be made or to be skipped.
Takes ==
  /\ ~InFlight
  /\ cachedArgs # <<>>
  /\ cachedArgs' = Tail(cachedArgs)
  /\ UNCHANGED <<issued, latest, device, failed, direct>>
  /\ \/ /\ Superseded(Head(cachedArgs), Tail(cachedArgs))
        /\ ~InFlight'
        /\ skipped' = skipped \cup {Head(cachedArgs).id}
     \/ InFlight' /\ current' = Head(cachedArgs) /\ skipped' = skipped

\* The setting in flight is made, or refused.
Settles ==
  /\ InFlight /\ ~InFlight'
  /\ UNCHANGED <<cachedArgs, issued, latest, skipped, direct>>
  /\ \/ device' = [device EXCEPT ![Target(current)] = current.id] /\ failed' = failed
     \/ failed' = failed \cup {current.id} /\ device' = device

SetOps == {o \in Ops : o.kind = "set"}

StepKind ==
  \/ Quiet
  \/ \E o \in SetOps : Queues(o) \/ Makes(o)
  \/ Takes
  \/ Settles

LEMMA PopTakes ==
  ASSUME Pop, ~InFlight
  PROVE  Takes
BY DEF Pop, Takes, Skip, InFlight

LEMMA StepKinds ==
  ASSUME ThreadsOK, [Next]_vars
  PROVE  StepKind
<1> USE DEF StepKind
<1>1. ASSUME NEW c \in Callers, NEW o \in Requests, Call(c, o) PROVE StepKind
  BY <1>1 DEF Call, Quiet, InFlight, queueVars, evalVars, historyVars
<1>2. ASSUME NEW c \in Callers, Activate(c) PROVE StepKind
  BY <1>2 DEF Activate, Quiet, InFlight, queueVars, evalVars, historyVars
<1>3. ASSUME NEW c \in Callers, Deactivate(c) PROVE StepKind
  BY <1>3 DEF Deactivate, Quiet, InFlight, queueVars, evalVars, historyVars
<1>4. ASSUME NEW c \in Callers, Destroy(c) PROVE StepKind
  BY <1>4 DEF Destroy, Quiet, InFlight, queueVars, evalVars, historyVars
<1>5. ASSUME NEW c \in Callers, Bypass(c) PROVE StepKind
  BY <1>5 DEF Bypass, Quiet, InFlight, queueVars, evalVars, historyVars
<1>6. ASSUME NEW c \in Callers, OpaqueCall(c) PROVE StepKind
  <2>1. CASE RethrowError(c) \/ AwaitEmpty(c)
    BY <2>1 DEF RethrowError, AwaitEmpty, Quiet, InFlight, queueVars, evalVars, historyVars
  <2>2. CASE op[c].kind = "set" /\ Enqueue(c)
    <3>1. op[c] \in SetOps
      BY <2>2 DEF SetOps, ThreadsOK
    <3>2. Queues(op[c])
      BY <2>2 DEF Enqueue, Queues, Accepts, InFlight, evalVars
    <3> QED
      BY <3>1, <3>2
  <2> QED
    BY <1>6, <2>1, <2>2 DEF OpaqueCall
<1>7. ASSUME NEW c \in Callers, IsReady(c) PROVE StepKind
  BY <1>7 DEF IsReady, RethrowError, AwaitEmpty, Quiet, InFlight, queueVars, evalVars, historyVars
<1>8. ASSUME NEW c \in Callers, Wake(c) PROVE StepKind
  BY <1>8 DEF Wake, AwaitEmpty, Quiet, InFlight, queueVars, evalVars, historyVars
<1>9. ASSUME NEW c \in Callers, CallerNotify(c) PROVE StepKind
  BY <1>9 DEF CallerNotify, Quiet, InFlight, queueVars, evalVars, historyVars
<1>10. ASSUME NEW c \in Callers, DirectReturns(c) PROVE StepKind
  <2>1. CASE op[c].kind = "get"
    BY <1>10, <2>1 DEF DirectReturns, Quiet, InFlight, queueVars, evalVars, historyVars
  <2>2. CASE op[c].kind = "set"
    <3>1. op[c] \in SetOps
      BY <2>2 DEF SetOps, ThreadsOK
    <3>2. Makes(op[c])
      BY <1>10, <2>2 DEF DirectReturns, Makes, Accepts, InFlight, queueVars, evalVars
    <3> QED
      BY <3>1, <3>2
  <2> QED
    BY <1>10, <2>1, <2>2 DEF DirectReturns
<1>11. ASSUME NEW c \in Callers, DirectThrows(c) PROVE StepKind
  BY <1>11 DEF DirectThrows, Quiet, InFlight, queueVars, evalVars, historyVars
<1>12. ASSUME NEW c \in Callers, ActivateEnds(c) PROVE StepKind
  BY <1>12 DEF ActivateEnds, Quiet, InFlight, queueVars, evalVars, historyVars
<1>13. ASSUME NEW c \in Callers, StopEval(c) PROVE StepKind
  BY <1>13 DEF StopEval, Quiet, InFlight, queueVars, evalVars, historyVars
<1>14. ASSUME NEW c \in Callers, StopNotify(c) PROVE StepKind
  BY <1>14 DEF StopNotify, Quiet, InFlight, queueVars, evalVars, historyVars
<1>15. ASSUME NEW c \in Callers, JoinEval(c) PROVE StepKind
  BY <1>15 DEF JoinEval, Quiet, InFlight, queueVars, evalVars, historyVars
<1>16. ASSUME EvalCheck PROVE StepKind
  BY <1>16 DEF EvalCheck, Quiet, InFlight, queueVars, evalVars, historyVars
<1>17. ASSUME EvalLock PROVE StepKind
  <2>1. CASE Pop
    BY <1>17, <2>1, PopTakes DEF EvalLock, InFlight
  <2>2. CASE cachedArgs = <<>>
    BY <1>17, <2>2 DEF EvalLock, Pop, Quiet, InFlight, queueVars, evalVars, historyVars
  <2> QED
    BY <1>17, <2>1, <2>2 DEF EvalLock
<1>18. ASSUME EvalWake PROVE StepKind
  <2>1. CASE Pop
    BY <1>18, <2>1, PopTakes DEF EvalWake, InFlight
  <2>2. CASE cachedArgs = <<>>
    BY <1>18, <2>2 DEF EvalWake, Pop, Quiet, InFlight, queueVars, evalVars, historyVars
  <2> QED
    BY <1>18, <2>1, <2>2 DEF EvalWake
<1>19. ASSUME EvalNotify PROVE StepKind
  BY <1>19 DEF EvalNotify, Quiet, InFlight, queueVars, evalVars, historyVars
<1>20. ASSUME EvalReturns PROVE StepKind
  BY <1>20 DEF EvalReturns, Settles, InFlight, queueVars
<1>21. ASSUME EvalThrows PROVE StepKind
  BY <1>21 DEF EvalThrows, Settles, InFlight, queueVars
<1>22. ASSUME EvalStoreError PROVE StepKind
  BY <1>22 DEF EvalStoreError, Quiet, InFlight, queueVars, evalVars, historyVars
<1>23. ASSUME EvalFailNotify PROVE StepKind
  BY <1>23 DEF EvalFailNotify, Quiet, InFlight, queueVars, evalVars, historyVars
<1>24. ASSUME NEW t \in waiters, Spurious(t) PROVE StepKind
  BY <1>24 DEF Spurious, Quiet, InFlight, queueVars, evalVars, historyVars
<1>25. ASSUME UNCHANGED vars PROVE StepKind
  BY <1>25 DEF vars, queueVars, optionVars, callerVars, evalVars, historyVars, Quiet, InFlight, queueVars, evalVars, historyVars
<1> QED
  BY <1>1, <1>2, <1>3, <1>4, <1>5, <1>6, <1>7, <1>8, <1>9, <1>10, <1>11, <1>12, <1>13, <1>14, <1>15, <1>16, <1>17, <1>18, <1>19, <1>20, <1>21, <1>22, <1>23, <1>24, <1>25 DEF Next, Framework, CallerStep, EvalStep

-----------------------------------------------------------------------------
(* The account of the queued settings.                                     *)

\* A number identifies a setting: it is the latest of no other target, and
\* the latest of its own target is not older.
OwnNumbers ==
  \A e \in OnTheWay :
    /\ e.id <= latest[Target(e)]
    /\ \A t \in Targets : latest[t] = e.id => t = Target(e)

LEMMA OnTheWayType ==
  ASSUME SettingsOK
  PROVE  /\ Queued \subseteq Entries
         /\ OnTheWay \subseteq Entries
         /\ \A e \in OnTheWay : Target(e) \in Targets /\ e.id \in 1..issued
<1>1. Queued \subseteq Entries
  BY ElementOfSeq, LenProperties DEF Queued, SettingsOK
<1>2. OnTheWay \subseteq Entries
  BY <1>1 DEF OnTheWay, InFlight, SettingsOK
<1> QED
  BY <1>1, <1>2, EntryTarget DEF SettingsOK

LEMMA QueuesAdds ==
  ASSUME SettingsOK, NEW o \in SetOps, Queues(o)
  PROVE  /\ Queued' = Queued \cup {Entry(o, issued + 1)}
         /\ OnTheWay' = OnTheWay \cup {Entry(o, issued + 1)}
<1> DEFINE e == Entry(o, issued + 1)
           S == Entries \cup {e}
<1>1. cachedArgs \in Seq(S)
  BY SeqMonotonic DEF SettingsOK
<1>2. cachedArgs' = Append(cachedArgs, e)
  BY DEF Queues
<1> HIDE DEF e
<1>3. Queued' = Queued \cup {e}
  BY <1>1, <1>2, AppendEntry DEF Queued
<1>4. InFlight' = InFlight /\ (InFlight => current' = current)
  BY DEF Queues, Accepts
<1>5. OnTheWay' = OnTheWay \cup {e}
  BY <1>3, <1>4 DEF OnTheWay
<1> QED
  BY <1>3, <1>5 DEF e

LEMMA TakesRemoves ==
  ASSUME SettingsOK, Takes
  PROVE  /\ Head(cachedArgs) \in Queued
         /\ Queued = Queued' \cup {Head(cachedArgs)}
         /\ OnTheWay = Queued
<1>1. cachedArgs \in Seq(Entries) /\ cachedArgs # <<>> /\ cachedArgs' = Tail(cachedArgs)
  BY DEF SettingsOK, Takes
<1>2. /\ Head(cachedArgs) = cachedArgs[1]
      /\ DOMAIN cachedArgs = 1..Len(cachedArgs)
      /\ Len(cachedArgs) \in Nat \ {0}
      /\ DOMAIN cachedArgs' = 1..Len(cachedArgs) - 1
      /\ \A i \in 1..Len(cachedArgs) - 1 : cachedArgs'[i] = cachedArgs[i + 1]
  BY <1>1, PopEntry
<1>3. Queued \subseteq Queued' \cup {Head(cachedArgs)}
  <2> SUFFICES ASSUME NEW i \in 1..Len(cachedArgs), i # 1
               PROVE  cachedArgs[i] \in Queued'
    BY <1>2 DEF Queued
  <2>1. i - 1 \in 1..Len(cachedArgs) - 1 /\ cachedArgs'[i - 1] = cachedArgs[i]
    BY <1>2
  <2> QED
    BY <2>1, <1>2 DEF Queued
<1>4. Queued' \subseteq Queued /\ Head(cachedArgs) \in Queued
  BY <1>2 DEF Queued
<1>5. OnTheWay = Queued
  BY DEF OnTheWay, Takes
<1> QED
  BY <1>3, <1>4, <1>5

LEMMA OrderStep ==
  ASSUME SettingsOK, InOrder, StepKind
  PROVE  InOrder'
<1>1. CASE cachedArgs' = cachedArgs /\ (InFlight' => InFlight /\ current' = current)
  BY <1>1 DEF InOrder, Queued
<1>2. ASSUME NEW o \in SetOps, Queues(o) PROVE InOrder'
  <2> DEFINE e == Entry(o, issued + 1)
             S == Entries \cup {e}
  <2>1. cachedArgs \in Seq(S) /\ cachedArgs' = Append(cachedArgs, e)
    BY <1>2, SeqMonotonic DEF SettingsOK, Queues
  <2>2. e.id = issued + 1
    BY EntryOfOp DEF SetOps, SettingsOK
  <2>3. \A x \in OnTheWay : x.id \in 1..issued
    BY OnTheWayType
  <2> HIDE DEF e
  <2>4. /\ DOMAIN cachedArgs = 1..Len(cachedArgs) /\ Len(cachedArgs) \in Nat
        /\ DOMAIN cachedArgs' = 1..Len(cachedArgs) + 1
        /\ \A i \in 1..Len(cachedArgs) : cachedArgs'[i] = cachedArgs[i]
        /\ cachedArgs'[Len(cachedArgs) + 1] = e
    BY <2>1, AppendEntry
  <2>5. \A i \in 1..Len(cachedArgs) : cachedArgs[i].id < e.id /\ cachedArgs[i].id \in Nat
    <3> TAKE i \in 1..Len(cachedArgs)
    <3>1. cachedArgs[i] \in OnTheWay
      BY <2>4 DEF OnTheWay, Queued
    <3> QED
      BY <3>1, <2>2, <2>3 DEF SettingsOK
  <2>6. \A i, j \in DOMAIN cachedArgs' : i < j => cachedArgs'[i].id < cachedArgs'[j].id
    <3> TAKE i, j \in DOMAIN cachedArgs'
    <3> HAVE i < j
    <3>1. i \in 1..Len(cachedArgs) /\ cachedArgs'[i] = cachedArgs[i]
      BY <2>4
    <3>2. CASE j \in 1..Len(cachedArgs)
      BY <3>1, <3>2, <2>4 DEF InOrder
    <3>3. CASE j = Len(cachedArgs) + 1
      BY <3>1, <3>3, <2>4, <2>5
    <3> QED
      BY <3>2, <3>3, <2>4
  <2>7. InFlight' => \A x \in Queued' : current'.id < x.id
    <3> SUFFICES ASSUME InFlight, NEW x \in Queued' PROVE current.id < x.id
      BY <1>2 DEF Queues, Accepts
    <3>1. Queued' = Queued \cup {e}
      BY <1>2, QueuesAdds DEF e
    <3>2. current \in OnTheWay
      BY DEF OnTheWay
    <3> QED
      BY <3>1, <3>2, <2>2, <2>3 DEF InOrder, SettingsOK
  <2> QED
    BY <2>6, <2>7 DEF InOrder
<1>3. CASE Takes
  <2>1. cachedArgs \in Seq(Entries) /\ cachedArgs # <<>> /\ cachedArgs' = Tail(cachedArgs)
    BY <1>3 DEF SettingsOK, Takes
  <2>2. /\ Head(cachedArgs) = cachedArgs[1]
        /\ DOMAIN cachedArgs = 1..Len(cachedArgs)
        /\ Len(cachedArgs) \in Nat \ {0}
        /\ DOMAIN cachedArgs' = 1..Len(cachedArgs) - 1
        /\ \A i \in 1..Len(cachedArgs) - 1 : cachedArgs'[i] = cachedArgs[i + 1]
    BY <2>1, PopEntry
  <2>3. \A i, j \in DOMAIN cachedArgs' : i < j => cachedArgs'[i].id < cachedArgs'[j].id
    BY <2>2 DEF InOrder
  <2>4. \A x \in Queued' : Head(cachedArgs).id < x.id
    <3> SUFFICES ASSUME NEW i \in 1..Len(cachedArgs) - 1
                 PROVE  cachedArgs[1].id < cachedArgs[i + 1].id
      BY <2>2 DEF Queued
    <3> QED
      BY <2>2 DEF InOrder
  <2>5. InFlight' => current' = Head(cachedArgs)
    BY <1>3 DEF Takes
  <2> QED
    BY <2>3, <2>4, <2>5 DEF InOrder
<1> QED
  BY <1>1, <1>2, <1>3 DEF StepKind, Quiet, Makes, Accepts, Settles

LEMMA OwnNumbersStep ==
  ASSUME SettingsOK, OwnNumbers, StepKind
  PROVE  OwnNumbers'
<1>1. \A e \in OnTheWay : Target(e) \in Targets /\ e.id \in 1..issued
  BY OnTheWayType
<1>2. ASSUME OnTheWay' \subseteq OnTheWay, latest' = latest PROVE OwnNumbers'
  BY <1>2 DEF OwnNumbers
<1>3. CASE Quiet
  BY <1>2, <1>3 DEF Quiet, OnTheWay, Queued
<1>4. CASE Takes
  BY <1>2, <1>4, TakesRemoves DEF Takes, OnTheWay
<1>5. CASE Settles
  BY <1>2, <1>5 DEF Settles, OnTheWay, Queued
<1>6. ASSUME NEW o \in SetOps, Accepts(o), OnTheWay' \subseteq OnTheWay \cup {Entry(o, issued + 1)}
      PROVE  OwnNumbers'
  <2>1. issued \in Nat /\ latest \in [Targets -> 0..issued]
    BY DEF SettingsOK
  <2>2. /\ Entry(o, issued + 1).id = issued + 1
        /\ Target(Entry(o, issued + 1)) = Target(o)
        /\ Target(o) \in Targets
    BY <2>1, EntryOfOp DEF SetOps
  <2>3. latest' = [latest EXCEPT ![Target(o)] = issued + 1]
    BY <1>6 DEF Accepts
  <2>4. ASSUME NEW e \in OnTheWay' PROVE e.id <= latest'[Target(e)]
    <3>1. CASE e \in OnTheWay
      BY <3>1, <1>1, <2>1, <2>2, <2>3 DEF OwnNumbers
    <3>2. CASE e = Entry(o, issued + 1)
      BY <3>2, <2>1, <2>2, <2>3
    <3> QED
      BY <3>1, <3>2, <1>6
  <2>5. ASSUME NEW e \in OnTheWay', NEW t \in Targets, latest'[t] = e.id
        PROVE  t = Target(e)
    <3>1. CASE e \in OnTheWay
      BY <3>1, <1>1, <2>1, <2>2, <2>3, <2>5 DEF OwnNumbers
    <3>2. CASE e = Entry(o, issued + 1)
      BY <3>2, <2>1, <2>2, <2>3, <2>5
    <3> QED
      BY <3>1, <3>2, <1>6
  <2> QED
    BY <2>4, <2>5 DEF OwnNumbers
<1>7. ASSUME NEW o \in SetOps, Queues(o) PROVE OwnNumbers'
  BY <1>6, <1>7, QueuesAdds DEF Queues
<1>8. ASSUME NEW o \in SetOps, Makes(o) PROVE OwnNumbers'
  BY <1>6, <1>8 DEF Makes, Accepts, OnTheWay, Queued
<1> QED
  BY <1>3, <1>4, <1>5, <1>7, <1>8 DEF StepKind

LEMMA TakesAccount ==
  ASSUME SettingsOK, OwnNumbers, Takes, NEW t \in Targets, Accounted(t)
  PROVE  Accounted(t)'
<1>1. /\ latest' = latest /\ device' = device /\ failed' = failed
      /\ skipped \subseteq skipped'
      /\ \/ ~InFlight' /\ Head(cachedArgs).id \in skipped'
         \/ InFlight' /\ current' = Head(cachedArgs)
  BY DEF Takes
<1>2. OnTheWay = Queued' \cup {Head(cachedArgs)}
  BY TakesRemoves
<1>3. OnTheWay' \subseteq OnTheWay
  BY <1>1, <1>2 DEF OnTheWay
<1>4. CASE latest[t] \in {0} \cup failed \cup skipped
  BY <1>1, <1>4 DEF Accounted
<1>5. CASE Pending(latest[t])
  <2>1. PICK e \in OnTheWay : e.id = latest[t]
    BY <1>5 DEF Pending
  <2>2. e \in OnTheWay' \/ e.id \in skipped'
    BY <1>1, <1>2 DEF OnTheWay
  <2> QED
    BY <1>1, <2>1, <2>2 DEF Accounted, Pending
<1>6. CASE device[t] = latest[t] /\ ~PendingFor(t)
  BY <1>1, <1>3, <1>6 DEF Accounted, PendingFor
<1> QED
  BY <1>4, <1>5, <1>6 DEF Accounted

LEMMA SettlesAccount ==
  ASSUME SettingsOK, OwnNumbers, InOrder, Settles, NEW t \in Targets, Accounted(t)
  PROVE  Accounted(t)'
<1>1. /\ latest' = latest /\ skipped' = skipped /\ cachedArgs' = cachedArgs
      /\ InFlight /\ ~InFlight'
      /\ \/ device' = [device EXCEPT ![Target(current)] = current.id] /\ failed' = failed
         \/ failed' = failed \cup {current.id} /\ device' = device
  BY DEF Settles
<1>2. OnTheWay = OnTheWay' \cup {current} /\ OnTheWay' = Queued
  BY <1>1 DEF OnTheWay, Queued
<1>3. Target(current) \in Targets /\ current.id \in 1..issued /\ current \in OnTheWay
  BY <1>2, OnTheWayType
<1>4. CASE latest[t] \in {0} \cup failed \cup skipped
  BY <1>1, <1>4 DEF Accounted
<1>5. CASE device[t] = latest[t] /\ ~PendingFor(t)
  <2>1. t # Target(current)
    BY <1>3, <1>5 DEF PendingFor
  <2> QED
    BY <1>1, <1>2, <1>5, <2>1 DEF Accounted, PendingFor, SettingsOK
<1>6. CASE Pending(latest[t])
  <2>1. PICK e \in OnTheWay : e.id = latest[t]
    BY <1>6 DEF Pending
  <2>2. CASE e \in OnTheWay'
    BY <1>1, <2>1, <2>2 DEF Accounted, Pending
  <2>3. CASE e = current /\ failed' = failed \cup {current.id}
    BY <1>1, <2>1, <2>3 DEF Accounted
  <2>4. CASE e = current /\ device' = [device EXCEPT ![Target(current)] = current.id]
    <3>1. t = Target(current)
      BY <1>3, <2>1, <2>4 DEF OwnNumbers
    <3>2. device'[t] = latest'[t]
      BY <1>1, <1>3, <2>1, <2>4, <3>1 DEF SettingsOK
    <3>3. \A x \in OnTheWay' : Target(x) # t
      <4> SUFFICES ASSUME NEW x \in Queued, Target(x) = t PROVE FALSE
        BY <1>2
      <4>1. x.id <= latest[t] /\ x.id \in Nat
        BY <1>2, OnTheWayType DEF OwnNumbers, SettingsOK
      <4>2. current.id < x.id
        BY <1>1 DEF InOrder
      <4> QED
        BY <2>1, <2>4, <4>1, <4>2, <1>3 DEF SettingsOK
    <3> QED
      BY <3>2, <3>3 DEF Accounted, PendingFor
  <2> QED
    BY <1>1, <1>2, <2>2, <2>3, <2>4
<1> QED
  BY <1>4, <1>5, <1>6 DEF Accounted

LEMMA QueuesAccount ==
  ASSUME SettingsOK, NEW o \in SetOps, Queues(o), NEW t \in Targets,
         t = Target(o) \/ Accounted(t)
  PROVE  Accounted(t)'
<1> DEFINE e == Entry(o, issued + 1)
<1>1. e.id = issued + 1 /\ Target(e) = Target(o) /\ Target(o) \in Targets
  BY EntryOfOp DEF SetOps, SettingsOK
<1>2. OnTheWay' = OnTheWay \cup {e}
  BY QueuesAdds
<1> HIDE DEF e
<1>3. /\ latest' = [latest EXCEPT ![Target(o)] = issued + 1]
      /\ device' = device /\ failed' = failed /\ skipped' = skipped
  BY DEF Queues, Accepts
<1>4. CASE t = Target(o)
  <2>1. latest'[t] = e.id
    BY <1>1, <1>3, <1>4 DEF SettingsOK
  <2> QED
    BY <1>2, <2>1 DEF Accounted, Pending
<1>5. CASE t # Target(o)
  <2>1. latest'[t] = latest[t]
    BY <1>3, <1>5 DEF SettingsOK
  <2>2. Pending(latest[t]) => Pending(latest[t])'
    BY <1>2, <2>1 DEF Pending
  <2>3. PendingFor(t)' => PendingFor(t)
    BY <1>1, <1>2, <1>5 DEF PendingFor
  <2> QED
    BY <1>3, <1>5, <2>1, <2>2, <2>3 DEF Accounted
<1> QED
  BY <1>4, <1>5

LEMMA MakesAccount ==
  ASSUME SettingsOK, NEW o \in SetOps, Makes(o), NEW t \in Targets,
         t # Target(o), Accounted(t)
  PROVE  Accounted(t)'
<1>1. latest'[t] = latest[t] /\ device'[t] = device[t] /\ failed' = failed /\ skipped' = skipped
  BY DEF Makes, Accepts, SettingsOK
<1>2. OnTheWay' = OnTheWay
  BY DEF Makes, Accepts, OnTheWay, Queued
<1> QED
  BY <1>1, <1>2 DEF Accounted, Pending, PendingFor

LEMMA QuietAccount ==
  ASSUME Quiet, NEW t \in Targets, Accounted(t)
  PROVE  Accounted(t)'
<1>1. OnTheWay' = OnTheWay
  BY DEF Quiet, OnTheWay, Queued
<1> QED
  BY <1>1 DEF Quiet, Accounted, Pending, PendingFor

\* The inductive invariant: an account is kept only because the numbers of
\* the settings on their way are in order and belong to their targets.
QueueInv == TypeOK /\ InOrder /\ OwnNumbers /\ QueuedSettingWins

LEMMA QueueInvStep ==
  ASSUME QueueInv, [Next]_vars
  PROVE  QueueInv'
<1>1. SettingsOK /\ ThreadsOK /\ InOrder /\ OwnNumbers /\ QueuedSettingWins
  BY DEF QueueInv, TypeOK
<1>2. StepKind
  BY <1>1, StepKinds
<1>3. TypeOK'
  BY FlagsStep, ThreadsStep, SettingsStep DEF QueueInv, TypeOK
<1>4. InOrder' /\ OwnNumbers'
  BY <1>1, <1>2, OrderStep, OwnNumbersStep
<1>5. QueuedSettingWins'
  <2> SUFFICES ASSUME NEW t \in Targets PROVE (latest[t] \in direct)' \/ Accounted(t)'
    BY DEF QueuedSettingWins
  <2>1. latest[t] \in direct \/ Accounted(t)
    BY <1>1 DEF QueuedSettingWins
  <2>2. ASSUME latest'[t] = latest[t], direct \subseteq direct',
               Accounted(t) => Accounted(t)'
        PROVE  (latest[t] \in direct)' \/ Accounted(t)'
    BY <2>1, <2>2
  <2>3. CASE Quiet
    BY <2>2, <2>3, QuietAccount DEF Quiet
  <2>4. CASE Takes
    BY <1>1, <2>2, <2>4, TakesAccount DEF Takes
  <2>5. CASE Settles
    BY <1>1, <2>2, <2>5, SettlesAccount DEF Settles
  <2>6. ASSUME NEW o \in SetOps, Queues(o) PROVE (latest[t] \in direct)' \/ Accounted(t)'
    <3>1. CASE t = Target(o)
      BY <1>1, <2>6, <3>1, QueuesAccount
    <3>2. CASE t # Target(o)
      <4>1. latest'[t] = latest[t] /\ direct' = direct
        BY <1>1, <2>6, <3>2 DEF Queues, Accepts, SettingsOK
      <4> QED
        BY <1>1, <2>2, <2>6, <4>1, QueuesAccount
    <3> QED
      BY <3>1, <3>2
  <2>7. ASSUME NEW o \in SetOps, Makes(o) PROVE (latest[t] \in direct)' \/ Accounted(t)'
    <3>1. direct' = direct \cup {issued + 1}
      BY <2>7 DEF Makes
    <3>2. CASE t = Target(o)
      BY <1>1, <2>7, <3>1, <3>2 DEF Makes, Accepts, SettingsOK
    <3>3. CASE t # Target(o)
      <4>1. latest'[t] = latest[t]
        BY <1>1, <2>7, <3>3 DEF Makes, Accepts, SettingsOK
      <4> QED
        BY <1>1, <2>2, <2>7, <3>1, <3>3, <4>1, MakesAccount
    <3> QED
      BY <3>2, <3>3
  <2> QED
    BY <1>2, <2>3, <2>4, <2>5, <2>6, <2>7 DEF StepKind
<1> QED
  BY <1>3, <1>4, <1>5 DEF QueueInv

LEMMA QueueInvInit == Init => QueueInv
<1> SUFFICES ASSUME Init PROVE QueueInv
  OBVIOUS
<1>1. TypeOK
  BY TypeInit
<1>2. Queued = {} /\ OnTheWay = {} /\ InOrder
  BY DEF Init, InFlight, Queued, OnTheWay, InOrder
<1>3. \A t \in Targets : latest[t] = 0
  BY DEF Init
<1> QED
  BY <1>1, <1>2, <1>3 DEF QueueInv, OwnNumbers, QueuedSettingWins, Accounted

LEMMA QueueInvariant == Spec => []QueueInv
BY QueueInvInit, QueueInvStep, PTL DEF Spec

\* Queued settings are made in the order in which they were accepted.
THEOREM MadeInOrder == Spec => []InOrder
<1>1. QueueInv => InOrder
  BY DEF QueueInv
<1> QED
  BY <1>1, QueueInvariant, PTL

\* No queued setting is forgotten, made twice or undone by an older one, for
\* any number of callers, in every calling mode and with squashing.
THEOREM NothingQueuedIsLost == Spec => []QueuedSettingWins
<1>1. QueueInv => QueuedSettingWins
  BY DEF QueueInv
<1> QED
  BY <1>1, QueueInvariant, PTL

-----------------------------------------------------------------------------
(* Squashing.                                                              *)

\* No setter has a second thing that calls of its name could set.
OneKeyPerName == \A s, r \in Setters : s.name = r.name => s.key = r.key

LEMMA SkippedStep ==
  ASSUME OneKeyPerName, QueueInv, OnlyIntermediatesSkipped, StepKind
  PROVE  OnlyIntermediatesSkipped'
<1>1. SettingsOK /\ InOrder /\ OwnNumbers
  BY DEF QueueInv, TypeOK
<1>2. CASE latest' = latest /\ skipped' = skipped
  BY <1>2 DEF OnlyIntermediatesSkipped
<1>3. ASSUME NEW o \in SetOps, Accepts(o), skipped' = skipped
      PROVE  OnlyIntermediatesSkipped'
  BY <1>1, <1>3 DEF OnlyIntermediatesSkipped, Accepts, SettingsOK
<1>4. ASSUME Takes, Superseded(Head(cachedArgs), Tail(cachedArgs)),
             skipped' = skipped \cup {Head(cachedArgs).id}
      PROVE  OnlyIntermediatesSkipped'
  <2> DEFINE h == Head(cachedArgs)
  <2>1. cachedArgs \in Seq(Entries) /\ cachedArgs # <<>>
    BY <1>1, <1>4 DEF SettingsOK, Takes
  <2>2. PICK i \in DOMAIN Tail(cachedArgs) : Tail(cachedArgs)[i].name = h.name
    BY <1>4 DEF Superseded
  <2> DEFINE x == Tail(cachedArgs)[i]
  <2>3. i \in 1..Len(cachedArgs) - 1 /\ x = cachedArgs[i + 1] /\ h = cachedArgs[1]
    BY <2>1, PopEntry
  <2>4. DOMAIN cachedArgs = 1..Len(cachedArgs) /\ Len(cachedArgs) \in Nat
    BY <2>1, LenProperties
  <2>5. h \in OnTheWay /\ x \in OnTheWay
    BY <2>3, <2>4 DEF OnTheWay, Queued
  <2>6. h.id < x.id
    BY <1>1, <2>3, <2>4 DEF InOrder
  <2>7. Target(h) = Target(x)
    <3>1. h \in Entries /\ x \in Entries
      BY <1>1, <2>5, OnTheWayType
    <3>2. PICK r \in Setters : Target(h) = Target(r) /\ h.name = r.name
      BY <1>1, <3>1, EntryTarget DEF SettingsOK
    <3>3. PICK s \in Setters : Target(x) = Target(s) /\ x.name = s.name
      BY <1>1, <3>1, EntryTarget DEF SettingsOK
    <3> QED
      BY <2>2, <3>2, <3>3 DEF OneKeyPerName, Target
  <2>8. /\ x.id <= latest[Target(x)] /\ x.id \in Nat /\ h.id \in Nat
        /\ Target(x) \in Targets /\ latest[Target(x)] \in Nat
    BY <1>1, <2>5, OnTheWayType DEF OwnNumbers, SettingsOK
  <2>9. \A t \in Targets : latest[t] # h.id
    BY <1>1, <2>5, <2>6, <2>7, <2>8 DEF OwnNumbers
  <2>10. latest' = latest /\ skipped' = skipped \cup {h.id}
    BY <1>4 DEF Takes
  <2> HIDE DEF h, x
  <2> QED
    BY <2>9, <2>10 DEF OnlyIntermediatesSkipped
<1> QED
  BY <1>2, <1>3, <1>4 DEF StepKind, Quiet, Queues, Makes, Takes, Settles

\* When every setter sets one thing, squashing discards intermediate settings
\* only: the last one accepted for a target is never skipped.
THEOREM NewestIsNotSkipped ==
  ASSUME OneKeyPerName
  PROVE  Spec => []OnlyIntermediatesSkipped
<1>1. Init => OnlyIntermediatesSkipped
  BY DEF Init, OnlyIntermediatesSkipped
<1>2. QueueInv /\ OnlyIntermediatesSkipped /\ [Next]_vars => OnlyIntermediatesSkipped'
  BY SkippedStep, StepKinds DEF QueueInv, TypeOK
<1> QED
  BY <1>1, <1>2, QueueInvariant, PTL DEF Spec

-----------------------------------------------------------------------------
(***************************************************************************)
(* The threads: the mutex, the wait set, the life of the evaluation        *)
(* thread, and what background calling alone guarantees.                   *)
(***************************************************************************)

(* The mutex.                                                              *)

\* _argsMutex is held across steps by a caller in its direct call only.
MutexInv ==
  /\ \A c \in Callers : pc[c] = "direct" => mutex = c
  /\ mutex \in Callers => pc[mutex] = "direct" /\ cachedArgs = <<>>

LEMMA MutexStep ==
  ASSUME ThreadsOK, MutexInv, [Next]_vars
  PROVE  MutexInv'
<1> USE DEF ThreadsOK, MutexInv, queueVars, callerVars, evalVars
<1>1. ASSUME NEW c \in Callers, NEW o \in Requests, Call(c, o) PROVE MutexInv'
  BY <1>1, ThreadsDistinct DEF Call, Goto, Return
<1>2. ASSUME NEW c \in Callers, Activate(c) PROVE MutexInv'
  BY <1>2, ThreadsDistinct DEF Activate, Goto, Return
<1>3. ASSUME NEW c \in Callers, Deactivate(c) PROVE MutexInv'
  BY <1>3, ThreadsDistinct DEF Deactivate, Goto, Return
<1>4. ASSUME NEW c \in Callers, Destroy(c) PROVE MutexInv'
  BY <1>4, ThreadsDistinct DEF Destroy, Goto, Return
<1>5. ASSUME NEW c \in Callers, Bypass(c) PROVE MutexInv'
  BY <1>5, ThreadsDistinct DEF Bypass, Goto, Return
<1>6. ASSUME NEW c \in Callers, OpaqueCall(c) PROVE MutexInv'
  BY <1>6, ThreadsDistinct DEF OpaqueCall, RethrowError, Enqueue, AwaitEmpty, Goto, Return
<1>7. ASSUME NEW c \in Callers, IsReady(c) PROVE MutexInv'
  BY <1>7, ThreadsDistinct DEF IsReady, RethrowError, AwaitEmpty, Goto, Return
<1>8. ASSUME NEW c \in Callers, Wake(c) PROVE MutexInv'
  BY <1>8, ThreadsDistinct DEF Wake, AwaitEmpty, Goto, Return
<1>9. ASSUME NEW c \in Callers, CallerNotify(c) PROVE MutexInv'
  BY <1>9, ThreadsDistinct DEF CallerNotify, Goto, Return
<1>10. ASSUME NEW c \in Callers, DirectReturns(c) PROVE MutexInv'
  BY <1>10, ThreadsDistinct DEF DirectReturns, Goto, Return
<1>11. ASSUME NEW c \in Callers, DirectThrows(c) PROVE MutexInv'
  BY <1>11, ThreadsDistinct DEF DirectThrows, Goto, Return
<1>12. ASSUME NEW c \in Callers, ActivateEnds(c) PROVE MutexInv'
  BY <1>12, ThreadsDistinct DEF ActivateEnds, Goto, Return
<1>13. ASSUME NEW c \in Callers, StopEval(c) PROVE MutexInv'
  BY <1>13, ThreadsDistinct DEF StopEval, Goto, Return
<1>14. ASSUME NEW c \in Callers, StopNotify(c) PROVE MutexInv'
  BY <1>14, ThreadsDistinct DEF StopNotify, Goto, Return
<1>15. ASSUME NEW c \in Callers, JoinEval(c) PROVE MutexInv'
  BY <1>15, ThreadsDistinct DEF JoinEval, Goto, Return
<1>16. ASSUME EvalCheck PROVE MutexInv'
  BY <1>16, ThreadsDistinct DEF EvalCheck, Goto, Return
<1>17. ASSUME EvalLock PROVE MutexInv'
  BY <1>17, ThreadsDistinct DEF EvalLock, Pop, Goto, Return
<1>18. ASSUME EvalWake PROVE MutexInv'
  BY <1>18, ThreadsDistinct DEF EvalWake, Pop, Goto, Return
<1>19. ASSUME EvalNotify PROVE MutexInv'
  BY <1>19, ThreadsDistinct DEF EvalNotify, Goto, Return
<1>20. ASSUME EvalReturns PROVE MutexInv'
  BY <1>20, ThreadsDistinct DEF EvalReturns, Goto, Return
<1>21. ASSUME EvalThrows PROVE MutexInv'
  BY <1>21, ThreadsDistinct DEF EvalThrows, Goto, Return
<1>22. ASSUME EvalStoreError PROVE MutexInv'
  BY <1>22, ThreadsDistinct DEF EvalStoreError, Goto, Return
<1>23. ASSUME EvalFailNotify PROVE MutexInv'
  BY <1>23, ThreadsDistinct DEF EvalFailNotify, Goto, Return
<1>24. ASSUME NEW t \in waiters, Spurious(t) PROVE MutexInv'
  BY <1>24, ThreadsDistinct DEF Spurious, Goto, Return
<1>25. ASSUME UNCHANGED vars PROVE MutexInv'
  BY <1>25, ThreadsDistinct DEF vars, queueVars, optionVars, callerVars, evalVars, historyVars, Goto, Return
<1> QED
  BY <1>1, <1>2, <1>3, <1>4, <1>5, <1>6, <1>7, <1>8, <1>9, <1>10, <1>11, <1>12, <1>13, <1>14, <1>15, <1>16, <1>17, <1>18, <1>19, <1>20, <1>21, <1>22, <1>23, <1>24, <1>25 DEF Next, Framework, CallerStep, EvalStep

\* A call is made in its caller's context with nothing queued, for any number
\* of callers.
THEOREM DirectCallsAreDrained == Spec => []DrainedBeforeDirect
<1>1. Init => ThreadsOK /\ MutexInv
  BY TypeInit, ThreadsDistinct DEF Init, TypeOK, MutexInv
<1>2. ThreadsOK /\ MutexInv /\ [Next]_vars => ThreadsOK' /\ MutexInv'
  BY ThreadsStep, MutexStep
<1>3. MutexInv => DrainedBeforeDirect
  BY DEF MutexInv, DrainedBeforeDirect
<1> QED
  BY <1>1, <1>2, <1>3, PTL DEF Spec

-----------------------------------------------------------------------------
(* Wakeups.                                                                *)

\* The framework serialises the calls into a block.
SingleCaller == \A c, d \in Callers : c = d

LEMMA WakeupStep ==
  ASSUME SingleCaller, ThreadsOK, NoLostWakeup, [Next]_vars
  PROVE  NoLostWakeup'
<1> USE DEF ThreadsOK, NoLostWakeup, SingleCaller, queueVars, callerVars, evalVars
<1>1. ASSUME NEW c \in Callers, NEW o \in Requests, Call(c, o) PROVE NoLostWakeup'
  BY <1>1, ThreadsDistinct DEF Call, Goto, Return, NotifyOne
<1>2. ASSUME NEW c \in Callers, Activate(c) PROVE NoLostWakeup'
  BY <1>2, ThreadsDistinct DEF Activate, Goto, Return, NotifyOne
<1>3. ASSUME NEW c \in Callers, Deactivate(c) PROVE NoLostWakeup'
  BY <1>3, ThreadsDistinct DEF Deactivate, Goto, Return, NotifyOne
<1>4. ASSUME NEW c \in Callers, Destroy(c) PROVE NoLostWakeup'
  BY <1>4, ThreadsDistinct DEF Destroy, Goto, Return, NotifyOne
<1>5. ASSUME NEW c \in Callers, Bypass(c) PROVE NoLostWakeup'
  BY <1>5, ThreadsDistinct DEF Bypass, Goto, Return, NotifyOne
<1>6. ASSUME NEW c \in Callers, OpaqueCall(c) PROVE NoLostWakeup'
  BY <1>6, ThreadsDistinct DEF OpaqueCall, RethrowError, Enqueue, AwaitEmpty, Goto, Return, NotifyOne
<1>7. ASSUME NEW c \in Callers, IsReady(c) PROVE NoLostWakeup'
  BY <1>7, ThreadsDistinct DEF IsReady, RethrowError, AwaitEmpty, Goto, Return, NotifyOne
<1>8. ASSUME NEW c \in Callers, Wake(c) PROVE NoLostWakeup'
  BY <1>8, ThreadsDistinct DEF Wake, AwaitEmpty, Goto, Return, NotifyOne
<1>9. ASSUME NEW c \in Callers, CallerNotify(c) PROVE NoLostWakeup'
  BY <1>9, ThreadsDistinct DEF CallerNotify, Goto, Return, NotifyOne
<1>10. ASSUME NEW c \in Callers, DirectReturns(c) PROVE NoLostWakeup'
  BY <1>10, ThreadsDistinct DEF DirectReturns, Goto, Return, NotifyOne
<1>11. ASSUME NEW c \in Callers, DirectThrows(c) PROVE NoLostWakeup'
  BY <1>11, ThreadsDistinct DEF DirectThrows, Goto, Return, NotifyOne
<1>12. ASSUME NEW c \in Callers, ActivateEnds(c) PROVE NoLostWakeup'
  BY <1>12, ThreadsDistinct DEF ActivateEnds, Goto, Return, NotifyOne
<1>13. ASSUME NEW c \in Callers, StopEval(c) PROVE NoLostWakeup'
  BY <1>13, ThreadsDistinct DEF StopEval, Goto, Return, NotifyOne
<1>14. ASSUME NEW c \in Callers, StopNotify(c) PROVE NoLostWakeup'
  BY <1>14, ThreadsDistinct DEF StopNotify, Goto, Return, NotifyOne
<1>15. ASSUME NEW c \in Callers, JoinEval(c) PROVE NoLostWakeup'
  BY <1>15, ThreadsDistinct DEF JoinEval, Goto, Return, NotifyOne
<1>16. ASSUME EvalCheck PROVE NoLostWakeup'
  BY <1>16, ThreadsDistinct DEF EvalCheck, Goto, Return, NotifyOne
<1>17. ASSUME EvalLock PROVE NoLostWakeup'
  BY <1>17, ThreadsDistinct DEF EvalLock, Pop, Goto, Return, NotifyOne
<1>18. ASSUME EvalWake PROVE NoLostWakeup'
  BY <1>18, ThreadsDistinct DEF EvalWake, Pop, Goto, Return, NotifyOne
<1>19. ASSUME EvalNotify PROVE NoLostWakeup'
  BY <1>19, ThreadsDistinct DEF EvalNotify, Goto, Return, NotifyOne
<1>20. ASSUME EvalReturns PROVE NoLostWakeup'
  BY <1>20, ThreadsDistinct DEF EvalReturns, Goto, Return, NotifyOne
<1>21. ASSUME EvalThrows PROVE NoLostWakeup'
  BY <1>21, ThreadsDistinct DEF EvalThrows, Goto, Return, NotifyOne
<1>22. ASSUME EvalStoreError PROVE NoLostWakeup'
  BY <1>22, ThreadsDistinct DEF EvalStoreError, Goto, Return, NotifyOne
<1>23. ASSUME EvalFailNotify PROVE NoLostWakeup'
  BY <1>23, ThreadsDistinct DEF EvalFailNotify, Goto, Return, NotifyOne
<1>24. ASSUME NEW t \in waiters, Spurious(t) PROVE NoLostWakeup'
  BY <1>24, ThreadsDistinct DEF Spurious, Goto, Return, NotifyOne
<1>25. ASSUME UNCHANGED vars PROVE NoLostWakeup'
  BY <1>25, ThreadsDistinct DEF vars, queueVars, optionVars, callerVars, evalVars, historyVars, Goto, Return, NotifyOne
<1> QED
  BY <1>1, <1>2, <1>3, <1>4, <1>5, <1>6, <1>7, <1>8, <1>9, <1>10, <1>11, <1>12, <1>13, <1>14, <1>15, <1>16, <1>17, <1>18, <1>19, <1>20, <1>21, <1>22, <1>23, <1>24, <1>25 DEF Next, Framework, CallerStep, EvalStep

\* With one caller, whoever sleeps although its condition has come true is
\* about to be notified.
THEOREM SingleCallerWakes ==
  ASSUME SingleCaller
  PROVE  Spec => []NoLostWakeup
<1>1. Init => ThreadsOK /\ NoLostWakeup
  BY TypeInit DEF Init, TypeOK, NoLostWakeup
<1>2. ThreadsOK /\ NoLostWakeup /\ [Next]_vars => ThreadsOK' /\ NoLostWakeup'
  BY ThreadsStep, WakeupStep
<1> QED
  BY <1>1, <1>2, PTL DEF Spec

-----------------------------------------------------------------------------
(* The life of the evaluation thread.                                      *)

\* What has just failed is what the thread is about to report.
LifetimeInv ==
  /\ EvalThreadLifetime
  /\ setupFailed /\ evalPc \in {"failing", "failed"} => current.name = "setupDevice"
  /\ evalPc \in {"failing", "failed"} /\ current.name = "setupDevice" => setupFailed

LEMMA LifetimeStep ==
  ASSUME ThreadsOK, LifetimeInv, [Next]_vars
  PROVE  LifetimeInv'
<1> USE DEF ThreadsOK, LifetimeInv, EvalThreadLifetime, callerVars, evalVars, historyVars
<1>1. ASSUME NEW c \in Callers, NEW o \in Requests, Call(c, o) PROVE LifetimeInv'
  BY <1>1 DEF Call
<1>2. ASSUME NEW c \in Callers, Activate(c) PROVE LifetimeInv'
  BY <1>2 DEF Activate
<1>3. ASSUME NEW c \in Callers, Deactivate(c) PROVE LifetimeInv'
  BY <1>3 DEF Deactivate
<1>4. ASSUME NEW c \in Callers, Destroy(c) PROVE LifetimeInv'
  BY <1>4 DEF Destroy
<1>5. ASSUME NEW c \in Callers, Bypass(c) PROVE LifetimeInv'
  BY <1>5 DEF Bypass
<1>6. ASSUME NEW c \in Callers, OpaqueCall(c) PROVE LifetimeInv'
  BY <1>6 DEF OpaqueCall, RethrowError, Enqueue, AwaitEmpty
<1>7. ASSUME NEW c \in Callers, IsReady(c) PROVE LifetimeInv'
  BY <1>7 DEF IsReady, RethrowError, AwaitEmpty
<1>8. ASSUME NEW c \in Callers, Wake(c) PROVE LifetimeInv'
  BY <1>8 DEF Wake, AwaitEmpty
<1>9. ASSUME NEW c \in Callers, CallerNotify(c) PROVE LifetimeInv'
  BY <1>9 DEF CallerNotify
<1>10. ASSUME NEW c \in Callers, DirectReturns(c) PROVE LifetimeInv'
  BY <1>10 DEF DirectReturns
<1>11. ASSUME NEW c \in Callers, DirectThrows(c) PROVE LifetimeInv'
  BY <1>11 DEF DirectThrows
<1>12. ASSUME NEW c \in Callers, ActivateEnds(c) PROVE LifetimeInv'
  BY <1>12 DEF ActivateEnds
<1>13. ASSUME NEW c \in Callers, StopEval(c) PROVE LifetimeInv'
  BY <1>13 DEF StopEval
<1>14. ASSUME NEW c \in Callers, StopNotify(c) PROVE LifetimeInv'
  BY <1>14 DEF StopNotify
<1>15. ASSUME NEW c \in Callers, JoinEval(c) PROVE LifetimeInv'
  BY <1>15 DEF JoinEval
<1>16. ASSUME EvalCheck PROVE LifetimeInv'
  BY <1>16 DEF EvalCheck
<1>17. ASSUME EvalLock PROVE LifetimeInv'
  BY <1>17 DEF EvalLock, Pop
<1>18. ASSUME EvalWake PROVE LifetimeInv'
  BY <1>18 DEF EvalWake, Pop
<1>19. ASSUME EvalNotify PROVE LifetimeInv'
  BY <1>19 DEF EvalNotify
<1>20. ASSUME EvalReturns PROVE LifetimeInv'
  BY <1>20 DEF EvalReturns
<1>21. ASSUME EvalThrows PROVE LifetimeInv'
  BY <1>21 DEF EvalThrows
<1>22. ASSUME EvalStoreError PROVE LifetimeInv'
  BY <1>22 DEF EvalStoreError
<1>23. ASSUME EvalFailNotify PROVE LifetimeInv'
  BY <1>23 DEF EvalFailNotify
<1>24. ASSUME NEW t \in waiters, Spurious(t) PROVE LifetimeInv'
  BY <1>24 DEF Spurious
<1>25. ASSUME UNCHANGED vars PROVE LifetimeInv'
  BY <1>25 DEF vars
<1> QED
  BY <1>1, <1>2, <1>3, <1>4, <1>5, <1>6, <1>7, <1>8, <1>9, <1>10, <1>11, <1>12, <1>13, <1>14, <1>15, <1>16, <1>17, <1>18, <1>19, <1>20, <1>21, <1>22, <1>23, <1>24, <1>25 DEF Next, Framework, CallerStep, EvalStep

\* The evaluation thread survives every failed setting but a setupDevice, and
\* makes nothing behind one that failed.
THEOREM EvalThreadLives == Spec => []EvalThreadLifetime
<1>1. Init => LifetimeInv
  BY DEF Init, LifetimeInv, EvalThreadLifetime
<1>2. TypeOK /\ LifetimeInv /\ [Next]_vars => LifetimeInv'
  BY LifetimeStep DEF TypeOK
<1>3. LifetimeInv => EvalThreadLifetime
  BY DEF LifetimeInv
<1> QED
  BY <1>1, <1>2, <1>3, TypeCorrect, PTL DEF Spec

-----------------------------------------------------------------------------
(* Background calling without squashing.                                   *)

\* Nobody enables squashing or goes back to synchronous calls.
BackgroundOnly ==
  \A s \in Setters :
    s.name # "setEventSquash" /\ (s.name = "setCallingMode" => s.arg # "SYNCHRONOUS")

\* Settings are on their way in the background modes only, in which a setter
\* neither waits nor is made by its caller.
BackgroundInv ==
  /\ eventSquash = FALSE
  /\ ~backgrounding => cachedArgs = <<>> /\ ~InFlight
  /\ \A c \in Callers :
        op[c].kind = "set" => pc[c] # "waiting" /\ (pc[c] = "direct" => ~backgrounding)

LEMMA BackgroundOps ==
  ASSUME BackgroundOnly
  PROVE  /\ \A o \in SetOps : /\ o.name # "setEventSquash"
                              /\ o.name = "setCallingMode" => o.arg # "SYNCHRONOUS"
         /\ \A e \in Entries : /\ e.name # "setEventSquash"
                               /\ e.name = "setCallingMode" => e.arg # "SYNCHRONOUS"
<1>1. \A o \in SetOps : \E s \in Setters : o.name = s.name /\ o.arg = s.arg
  <2> TAKE o \in SetOps
  <2>1. PICK s \in Setters : o = SetOp(s)
    BY SetOpIsSetter DEF SetOps
  <2> QED
    BY <2>1 DEF SetOp
<1>2. \A e \in Entries : \E s \in Setters : e.name = s.name /\ e.arg = s.arg
  BY DEF Entries, Entry
<1> QED
  BY <1>1, <1>2 DEF BackgroundOnly

LEMMA BackgroundEffect ==
  ASSUME NEW n, NEW a, Effect(n, a), ~UnknownMode(n, a), eventSquash = FALSE,
         n # "setEventSquash", n = "setCallingMode" => a # "SYNCHRONOUS"
  PROVE  /\ eventSquash' = FALSE
         /\ backgrounding' = backgrounding \/ backgrounding'
<1>1. eventSquash' = FALSE
  BY DEF Effect
<1>2. CASE n # "setCallingMode"
  BY <1>1, <1>2 DEF Effect
<1>3. CASE n = "setCallingMode"
  <2>1. a \in BackgroundModes
    BY <1>3 DEF UnknownMode, CallingModes, WaitingModes, BackgroundModes
  <2> QED
    BY <1>1, <1>3, <2>1 DEF Effect
<1> QED
  BY <1>2, <1>3

LEMMA BackgroundStep ==
  ASSUME BackgroundOnly, ThreadsOK, SettingsOK, FlagsOK, MutexInv, BackgroundInv,
         [Next]_vars
  PROVE  BackgroundInv'
<1> USE DEF ThreadsOK, FlagsOK, BackgroundInv, InFlight, queueVars, optionVars, callerVars, evalVars
<1>1. ASSUME NEW c \in Callers, NEW o \in Requests, Call(c, o) PROVE BackgroundInv'
  BY <1>1 DEF Call, Goto, Return, Op, NoOp, Background
<1>2. ASSUME NEW c \in Callers, Activate(c) PROVE BackgroundInv'
  BY <1>2 DEF Activate, Goto, Return, Op, NoOp, Background
<1>3. ASSUME NEW c \in Callers, Deactivate(c) PROVE BackgroundInv'
  BY <1>3 DEF Deactivate, Goto, Return, Op, NoOp, Background
<1>4. ASSUME NEW c \in Callers, Destroy(c) PROVE BackgroundInv'
  BY <1>4 DEF Destroy, Goto, Return, Op, NoOp, Background
<1>5. ASSUME NEW c \in Callers, Bypass(c) PROVE BackgroundInv'
  BY <1>5 DEF Bypass, Goto, Return, Op, NoOp, Background
<1>6. ASSUME NEW c \in Callers, OpaqueCall(c) PROVE BackgroundInv'
  BY <1>6 DEF OpaqueCall, RethrowError, Enqueue, AwaitEmpty, Goto, Return, Op, NoOp, Background
<1>7. ASSUME NEW c \in Callers, IsReady(c) PROVE BackgroundInv'
  BY <1>7 DEF IsReady, RethrowError, AwaitEmpty, Goto, Return, Op, NoOp, Background
<1>8. ASSUME NEW c \in Callers, Wake(c) PROVE BackgroundInv'
  BY <1>8 DEF Wake, AwaitEmpty, Goto, Return, Op, NoOp, Background
<1>9. ASSUME NEW c \in Callers, CallerNotify(c) PROVE BackgroundInv'
  BY <1>9 DEF CallerNotify, Goto, Return, Op, NoOp, Background
<1>10. ASSUME NEW c \in Callers, DirectReturns(c) PROVE BackgroundInv'
  <2>1. mutex = c /\ cachedArgs = <<>> /\ \A d \in Callers \ {c} : pc[d] # "direct"
    BY <1>10 DEF DirectReturns, MutexInv
  <2>2. CASE op[c].kind = "get"
    BY <1>10, <2>2 DEF DirectReturns, Return, NoOp, Op
  <2>3. CASE op[c].kind = "set"
    <3>1. op[c] \in SetOps /\ ~InFlight
      BY <1>10, <2>3 DEF SetOps, DirectReturns
    <3>2. eventSquash' = FALSE
      BY <1>10, <2>3, <3>1, BackgroundOps, BackgroundEffect DEF DirectReturns
    <3> QED
      BY <1>10, <2>1, <3>1, <3>2 DEF DirectReturns, Return, NoOp, Op
  <2> QED
    BY <1>10, <2>2, <2>3 DEF DirectReturns
<1>11. ASSUME NEW c \in Callers, DirectThrows(c) PROVE BackgroundInv'
  BY <1>11 DEF DirectThrows, Goto, Return, Op, NoOp, Background
<1>12. ASSUME NEW c \in Callers, ActivateEnds(c) PROVE BackgroundInv'
  BY <1>12 DEF ActivateEnds, Goto, Return, Op, NoOp, Background
<1>13. ASSUME NEW c \in Callers, StopEval(c) PROVE BackgroundInv'
  BY <1>13 DEF StopEval, Goto, Return, Op, NoOp, Background
<1>14. ASSUME NEW c \in Callers, StopNotify(c) PROVE BackgroundInv'
  BY <1>14 DEF StopNotify, Goto, Return, Op, NoOp, Background
<1>15. ASSUME NEW c \in Callers, JoinEval(c) PROVE BackgroundInv'
  BY <1>15 DEF JoinEval, Goto, Return, Op, NoOp, Background
<1>16. ASSUME EvalCheck PROVE BackgroundInv'
  BY <1>16 DEF EvalCheck, Goto, Return, Op, NoOp, Background
<1>17. ASSUME EvalLock PROVE BackgroundInv'
  BY <1>17 DEF EvalLock, Pop, Goto, Return, Op, NoOp, Background
<1>18. ASSUME EvalWake PROVE BackgroundInv'
  BY <1>18 DEF EvalWake, Pop, Goto, Return, Op, NoOp, Background
<1>19. ASSUME EvalNotify PROVE BackgroundInv'
  BY <1>19 DEF EvalNotify, Goto, Return, Op, NoOp, Background
<1>20. ASSUME EvalReturns PROVE BackgroundInv'
  <2>1. current \in Entries /\ backgrounding
    BY <1>20 DEF EvalReturns, SettingsOK
  <2>2. eventSquash' = FALSE /\ (backgrounding' = backgrounding \/ backgrounding')
    BY <1>20, <2>1, BackgroundOps, BackgroundEffect DEF EvalReturns
  <2> QED
    BY <1>20, <2>1, <2>2 DEF EvalReturns
<1>21. ASSUME EvalThrows PROVE BackgroundInv'
  BY <1>21 DEF EvalThrows, Goto, Return, Op, NoOp, Background
<1>22. ASSUME EvalStoreError PROVE BackgroundInv'
  BY <1>22 DEF EvalStoreError, Goto, Return, Op, NoOp, Background
<1>23. ASSUME EvalFailNotify PROVE BackgroundInv'
  BY <1>23 DEF EvalFailNotify, Goto, Return, Op, NoOp, Background
<1>24. ASSUME NEW t \in waiters, Spurious(t) PROVE BackgroundInv'
  BY <1>24 DEF Spurious, Goto, Return, Op, NoOp, Background
<1>25. ASSUME UNCHANGED vars PROVE BackgroundInv'
  BY <1>25 DEF vars, queueVars, optionVars, callerVars, evalVars, historyVars, Goto, Return, Op, NoOp, Background
<1> QED
  BY <1>1, <1>2, <1>3, <1>4, <1>5, <1>6, <1>7, <1>8, <1>9, <1>10, <1>11, <1>12, <1>13, <1>14, <1>15, <1>16, <1>17, <1>18, <1>19, <1>20, <1>21, <1>22, <1>23, <1>24, <1>25 DEF Next, Framework, CallerStep, EvalStep

\* In the background modes, without squashing, the last setting accepted for
\* a target is the one that ends up in force, unless the device refuses it;
\* for any number of callers, and whoever made the setting.
THEOREM NewestWinsInBackground ==
  ASSUME BackgroundOnly
  PROVE  Spec => []NewestSettingWins
<1> DEFINE Inv == QueueInv /\ MutexInv /\ BackgroundInv /\ NewestSettingWins
<1>1. Init => Inv
  <2> SUFFICES ASSUME Init PROVE Inv
    OBVIOUS
  <2>1. QueueInv
    BY QueueInvInit
  <2>2. MutexInv
    BY ThreadsDistinct DEF Init, MutexInv
  <2>3. BackgroundInv
    BY DEF Init, BackgroundInv, InFlight
  <2>4. NewestSettingWins
    BY DEF Init, NewestSettingWins, Accounted
  <2> QED
    BY <2>1, <2>2, <2>3, <2>4
<1>2. Inv /\ [Next]_vars => Inv'
  <2> SUFFICES ASSUME Inv, [Next]_vars PROVE Inv'
    OBVIOUS
  <2>1. /\ FlagsOK /\ SettingsOK /\ ThreadsOK /\ InOrder /\ OwnNumbers
        /\ BackgroundInv /\ MutexInv /\ NewestSettingWins
    BY DEF QueueInv, TypeOK
  <2>2. QueueInv' /\ MutexInv' /\ BackgroundInv'
    BY <2>1, QueueInvStep, MutexStep, BackgroundStep
  <2>3. StepKind
    BY <2>1, StepKinds
  <2>4. ASSUME NEW t \in Targets PROVE Accounted(t)'
    <3>1. Accounted(t)
      BY <2>1 DEF NewestSettingWins
    <3>2. CASE Quiet
      BY <3>1, <3>2, QuietAccount
    <3>3. CASE Takes
      BY <2>1, <3>1, <3>3, TakesAccount
    <3>4. CASE Settles
      BY <2>1, <3>1, <3>4, SettlesAccount
    <3>5. ASSUME NEW o \in SetOps, Queues(o) PROVE Accounted(t)'
      BY <2>1, <3>1, <3>5, QueuesAccount
    <3>6. ASSUME NEW o \in SetOps, Makes(o) PROVE Accounted(t)'
      <4>1. CASE t # Target(o)
        BY <2>1, <3>1, <3>6, <4>1, MakesAccount
      <4>2. CASE t = Target(o)
        <5>1. PICK c \in Callers : pc[c] = "direct" /\ op[c] = o
          BY <3>6 DEF Makes
        <5>2. cachedArgs = <<>> /\ ~InFlight
          BY <2>1, <5>1 DEF BackgroundInv, SetOps
        <5>3. OnTheWay' = {}
          BY <3>6, <5>2 DEF Makes, Accepts, OnTheWay, Queued
        <5>4. latest'[t] = issued + 1 /\ device'[t] = issued + 1
          BY <2>1, <3>6, <4>2 DEF Makes, Accepts, SettingsOK
        <5> QED
          BY <5>3, <5>4 DEF Accounted, PendingFor
      <4> QED
        BY <4>1, <4>2
    <3> QED
      BY <2>3, <3>2, <3>3, <3>4, <3>5, <3>6 DEF StepKind
  <2> QED
    BY <2>2, <2>4 DEF NewestSettingWins
<1> QED
  BY <1>1, <1>2, PTL DEF Spec

-----------------------------------------------------------------------------
(***************************************************************************)
(* EvalQueue implements SettingsLog: seen from outside, the threads, the   *)
(* mutex and the wakeups are a log of settings made in order.              *)
(***************************************************************************)

\* The log: what is in flight, then what is queued.
LogPending == (IF InFlight THEN <<current>> ELSE <<>>) \o cachedArgs

USE DEF Log!LogTarget, Log!LogTargets, Log!LogEntry, Target, Targets, Entry

LEMMA LogQuiet ==
  ASSUME Quiet
  PROVE  UNCHANGED Log!logVars
BY DEF Quiet, Log!logVars

LEMMA SetOpSetter ==
  ASSUME NEW o \in SetOps
  PROVE  \E s \in Setters : o.name = s.name /\ o.key = s.key /\ o.arg = s.arg
<1>1. PICK s \in Setters : o = SetOp(s)
  BY SetOpIsSetter DEF SetOps
<1> QED
  BY <1>1 DEF SetOp

LEMMA LogQueues ==
  ASSUME SettingsOK, NEW o \in SetOps, Queues(o)
  PROVE  \E s \in Setters : Log!Accept(s)
<1>1. PICK s \in Setters : o.name = s.name /\ o.key = s.key /\ o.arg = s.arg
  BY SetOpSetter
<1> DEFINE e == Entry(s, issued + 1)
           S == Entries \cup {e}
           front == IF InFlight THEN <<current>> ELSE <<>>
<1>2. Entry(o, issued + 1) = e /\ Target(o) = Target(s)
  BY <1>1
<1>3. front' = front /\ front \in Seq(S)
  <2>1. front' = front
    BY DEF Queues, Accepts
  <2>2. InFlight => current \in S
    BY DEF SettingsOK, InFlight
  <2> HIDE DEF S
  <2>3. CASE InFlight
    BY <2>1, <2>2, <2>3
  <2>4. CASE ~InFlight
    BY <2>1, <2>4, EmptySeq
  <2> QED
    BY <2>3, <2>4
<1>4. cachedArgs \in Seq(S) /\ <<e>> \in Seq(S) /\ e \in S
  BY SeqMonotonic DEF SettingsOK
<1>5. cachedArgs' = Append(cachedArgs, e)
  BY <1>2 DEF Queues
<1> HIDE DEF e, front
<1>6. front \o Append(cachedArgs, e) = Append(front \o cachedArgs, e)
  <2>1. Append(cachedArgs, e) = cachedArgs \o <<e>>
    BY <1>4, AppendIsConcat
  <2>2. front \o cachedArgs \in Seq(S)
    BY <1>3, <1>4, ConcatProperties
  <2>3. Append(front \o cachedArgs, e) = (front \o cachedArgs) \o <<e>>
    BY <1>4, <2>2, AppendIsConcat
  <2> QED
    BY <1>3, <1>4, <2>1, <2>3, ConcatAssociative
<1>7. (front \o cachedArgs)' = Append(front \o cachedArgs, e)
  BY <1>3, <1>5, <1>6
<1> QED
  BY <1>1, <1>2, <1>7 DEF e, front, Queues, Accepts, Log!Accept, Log!Issue

LEMMA LogMakes ==
  ASSUME SettingsOK, MutexInv, NEW o \in SetOps, Makes(o)
  PROVE  \E s \in Setters : Log!MakeNow(s)
<1>1. PICK s \in Setters : o.name = s.name /\ o.key = s.key /\ o.arg = s.arg
  BY SetOpSetter
<1>2. cachedArgs = <<>> /\ cachedArgs' = <<>>
  BY DEF Makes, MutexInv
<1>3. /\ LogPending' = LogPending
      /\ Len(LogPending) <= 1
  <2>1. LogPending = IF InFlight THEN <<current>> ELSE <<>>
    BY <1>2, ConcatEmptySeq DEF LogPending, SettingsOK, InFlight
  <2>2. LogPending' = LogPending
    BY <1>2 DEF Makes, Accepts, LogPending
  <2> QED
    BY <2>1, <2>2
<1> QED
  BY <1>1, <1>3 DEF LogPending, Makes, Accepts, Log!MakeNow, Log!Issue

\* What is in flight, or what is skipped, leaves the front of the log.
LEMMA ConsHeadTail ==
  ASSUME NEW S, NEW q \in Seq(S), NEW e \in S
  PROVE  /\ <<e>> \o q # <<>>
         /\ Head(<<e>> \o q) = e
         /\ Tail(<<e>> \o q) = q
<1>1. /\ <<e>> \o q \in Seq(S)
      /\ Len(<<e>> \o q) = 1 + Len(q)
      /\ \A i \in 1..1 + Len(q) : (<<e>> \o q)[i] = IF i <= 1 THEN <<e>>[i] ELSE q[i - 1]
  BY ConcatProperties
<1>2. Len(q) \in Nat
  BY LenProperties
<1> DEFINE c == <<e>> \o q
<1>3. Len(c) # 0 /\ c # <<>>
  BY <1>1, <1>2, EmptySeq
<1>4. c[1] = e
  BY <1>1, <1>2
<1>5. Head(c) = e
  BY <1>1, <1>3, <1>4, PopEntry
<1>6. Tail(c) = q
  <2>1. /\ Tail(c) \in Seq(S)
        /\ Len(Tail(c)) = Len(c) - 1
        /\ \A i \in 1..Len(Tail(c)) : Tail(c)[i] = c[i + 1]
    BY <1>1, <1>3, HeadTailProperties
  <2>2. \A i \in 1..Len(q) : Tail(c)[i] = q[i]
    BY <1>1, <1>2, <2>1
  <2> QED
    BY <1>1, <1>2, <2>1, <2>2, SeqEqual
<1> QED
  BY <1>3, <1>5, <1>6

LEMMA HeadCons ==
  ASSUME NEW S, NEW q \in Seq(S), q # <<>>
  PROVE  <<Head(q)>> \o Tail(q) = q
<1> DEFINE c == <<Head(q)>> \o Tail(q)
<1>1. /\ Head(q) = q[1] /\ Head(q) \in S /\ Tail(q) \in Seq(S)
      /\ Len(q) \in Nat \ {0}
      /\ \A i \in 1..Len(q) - 1 : Tail(q)[i] = q[i + 1]
  BY PopEntry
<1>2. Len(Tail(q)) = Len(q) - 1
  BY HeadTailProperties
<1>3. <<Head(q)>> \in Seq(S) /\ Len(<<Head(q)>>) = 1 /\ <<Head(q)>>[1] = Head(q)
  BY <1>1
<1>4. /\ c \in Seq(S)
      /\ Len(c) = Len(q)
      /\ \A i \in 1..Len(q) : c[i] = IF i <= 1 THEN <<Head(q)>>[i] ELSE Tail(q)[i - 1]
  BY <1>1, <1>2, <1>3, ConcatProperties
<1>5. \A i \in 1..Len(q) : c[i] = q[i]
  <2> TAKE i \in 1..Len(q)
  <2>1. CASE i = 1
    BY <1>1, <1>3, <1>4, <2>1
  <2>2. CASE i # 1
    <3>1. i - 1 \in 1..Len(q) - 1 /\ ~(i <= 1)
      BY <1>1, <2>2
    <3> QED
      BY <1>1, <1>4, <3>1
  <2> QED
    BY <2>1, <2>2
<1> QED
  BY <1>4, <1>5, SeqEqual

LEMMA LogTakes ==
  ASSUME SettingsOK, Takes
  PROVE  Log!Discard \/ UNCHANGED Log!logVars
<1>1. cachedArgs \in Seq(Entries) /\ cachedArgs # <<>>
  BY DEF SettingsOK, Takes
<1>2. LogPending = cachedArgs
  BY <1>1, ConcatEmptySeq DEF LogPending, Takes
<1>3. CASE InFlight'
  <2>1. current' = Head(cachedArgs) /\ cachedArgs' = Tail(cachedArgs) /\ skipped' = skipped
    BY <1>3 DEF Takes
  <2>2. LogPending' = <<Head(cachedArgs)>> \o Tail(cachedArgs)
    BY <1>3, <2>1 DEF LogPending
  <2>3. LogPending' = LogPending
    BY <1>1, <1>2, <2>2, HeadCons
  <2> QED
    BY <2>1, <2>3 DEF LogPending, Takes, Log!logVars
<1>4. CASE ~InFlight'
  <2>1. /\ cachedArgs' = Tail(cachedArgs)
        /\ Superseded(Head(cachedArgs), Tail(cachedArgs))
        /\ skipped' = skipped \cup {Head(cachedArgs).id}
    BY <1>4 DEF Takes
  <2>2. Tail(cachedArgs) \in Seq(Entries)
    BY <1>1, PopEntry
  <2>3. LogPending' = Tail(LogPending)
    BY <1>2, <1>4, <2>1, <2>2, ConcatEmptySeq DEF LogPending
  <2>4. Log!Discard
    BY <1>1, <1>2, <2>1, <2>3 DEF LogPending, Takes, Superseded, Log!Discard, Log!TakeOldest
  <2> QED
    BY <2>4
<1> QED
  BY <1>3, <1>4

LEMMA LogSettles ==
  ASSUME SettingsOK, Settles
  PROVE  Log!Apply \/ Log!Refuse
<1>1. current \in Entries /\ cachedArgs \in Seq(Entries)
  BY DEF SettingsOK, Settles, InFlight
<1>2. LogPending = <<current>> \o cachedArgs
  BY DEF LogPending, Settles
<1>3. LogPending' = cachedArgs
  BY <1>1, ConcatEmptySeq DEF LogPending, Settles
<1>4. LogPending # <<>> /\ Head(LogPending) = current /\ Tail(LogPending) = cachedArgs
  BY <1>1, <1>2, ConsHeadTail
<1>5. CASE device' = [device EXCEPT ![Target(current)] = current.id] /\ failed' = failed
  BY <1>3, <1>4, <1>5 DEF LogPending, Settles, Log!Apply, Log!TakeOldest
<1>6. CASE failed' = failed \cup {current.id} /\ device' = device
  BY <1>3, <1>4, <1>6 DEF LogPending, Settles, Log!Refuse, Log!TakeOldest
<1> QED
  BY <1>5, <1>6 DEF Settles

\* The dispatch implements the log, for any number of callers and in every
\* calling mode: each step of a thread is a step of the log or invisible.
THEOREM QueueImplementsLog == Spec => ImplementsSettingsLog
<1>1. Init => Log!LogInit
  <2> SUFFICES ASSUME Init PROVE Log!LogInit
    OBVIOUS
  <2>1. LogPending = <<>>
    BY EmptySeq, ConcatEmptySeq DEF Init, InFlight, LogPending
  <2> QED
    BY <2>1 DEF Init, LogPending, Log!LogInit
<1>2. ThreadsOK /\ SettingsOK /\ MutexInv /\ [Next]_vars => [Log!LogNext]_(Log!logVars)
  <2> SUFFICES ASSUME ThreadsOK, SettingsOK, MutexInv, [Next]_vars
               PROVE  Log!LogNext \/ UNCHANGED Log!logVars
    OBVIOUS
  <2>1. StepKind
    BY StepKinds
  <2> QED
    BY <2>1, LogQuiet, LogQueues, LogMakes, LogTakes, LogSettles
    DEF StepKind, Log!LogNext
<1>3. ThreadsOK /\ SettingsOK /\ MutexInv /\ [Next]_vars
        => (ThreadsOK /\ SettingsOK /\ MutexInv)'
  BY ThreadsStep, SettingsStep, MutexStep
<1>4. Init => ThreadsOK /\ SettingsOK /\ MutexInv
  BY TypeInit, ThreadsDistinct DEF Init, TypeOK, MutexInv
<1> QED
  BY <1>1, <1>2, <1>3, <1>4, PTL DEF Spec, ImplementsSettingsLog, Log!Spec
=============================================================================
