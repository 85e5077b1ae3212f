------------------------- MODULE BgEnumeratorProofs -------------------------
(***************************************************************************)
(* Proofs about BgEnumerator, for any number of readers and of changes.    *)
(***************************************************************************)
EXTENDS BgEnumerator, TLAPS

-----------------------------------------------------------------------------
\* Until the singleton is alive there is no polling thread.
Started == instance \in {"none", "constructing"} => poll = "none"

\* Whoever constructs the singleton is the only one to do so.
Constructing == {"enumerating", "constructed"}
OneConstructs ==
  /\ \A r \in Readers : reader[r] \in Constructing => instance = "constructing"
  /\ \A r, s \in Readers : reader[r] \in Constructing /\ reader[s] \in Constructing => r = s

\* The cache has never been newer than the devices, nor older than what was
\* shown; and the list that the polling thread brings is no older than both.
Newer ==
  /\ shown <= cache /\ cache <= devices /\ result <= devices
  /\ poll = "enumerated" => cache <= result

IInv == TypeOK /\ Started /\ OneConstructs /\ Newer

LEMMA InitInv == Init => IInv
<1> SUFFICES ASSUME Init PROVE IInv
  OBVIOUS
<1>1. TypeOK
  <2>1. 0 \in 0..MaxChanges /\ 0 \in 0..0
    BY MaxChangesAssumption
  <2>2. reader \in [Readers -> {"idle", "calling", "enumerating", "constructed"}]
    BY DEF Init
  <2> QED
    BY <2>1, <2>2 DEF Init, TypeOK
<1>2. Started /\ OneConstructs /\ Newer
  BY DEF Init, Started, OneConstructs, Constructing, Newer
<1> QED
  BY <1>1, <1>2 DEF IInv

LEMMA Preserved == IInv /\ [Next]_vars => IInv' /\ shown' >= shown
<1> SUFFICES ASSUME IInv, [Next]_vars PROVE IInv' /\ shown' >= shown
  OBVIOUS
<1> USE DEF IInv
<1>1. /\ {devices, cache, result, shown} \subseteq Nat
      /\ \A n \in 0..MaxChanges : n \in Nat
  BY MaxChangesAssumption DEF TypeOK
<1>2. ASSUME DevicesChange PROVE IInv' /\ shown' >= shown
  <2>1. TypeOK'
    BY <1>1, <1>2, MaxChangesAssumption DEF DevicesChange, TypeOK, OneConstructs, Constructing
  <2>2. Newer' /\ shown' >= shown
    BY <1>1, <1>2 DEF DevicesChange, Newer, Started, OneConstructs, Constructing
  <2>3. Started' /\ OneConstructs'
    BY <1>2 DEF DevicesChange, TypeOK, Started, OneConstructs, Constructing
  <2> QED
    BY <2>1, <2>2, <2>3
<1>3. ASSUME NEW r \in Readers, Call(r) PROVE IInv' /\ shown' >= shown
  <2>1. TypeOK'
    BY <1>1, <1>3, MaxChangesAssumption DEF Call, TypeOK, OneConstructs, Constructing
  <2>2. Newer' /\ shown' >= shown
    BY <1>1, <1>3 DEF Call, Newer, Started, OneConstructs, Constructing
  <2>3. Started' /\ OneConstructs'
    BY <1>3 DEF Call, TypeOK, Started, OneConstructs, Constructing
  <2> QED
    BY <2>1, <2>2, <2>3
<1>4. ASSUME NEW r \in Readers, Construct(r) PROVE IInv' /\ shown' >= shown
  <2>1. TypeOK'
    BY <1>1, <1>4, MaxChangesAssumption DEF Construct, TypeOK, OneConstructs, Constructing
  <2>2. Newer' /\ shown' >= shown
    BY <1>1, <1>4 DEF Construct, Newer, Started, OneConstructs, Constructing
  <2>3. Started' /\ OneConstructs'
    BY <1>4 DEF Construct, TypeOK, Started, OneConstructs, Constructing
  <2> QED
    BY <2>1, <2>2, <2>3
<1>5. ASSUME NEW r \in Readers, FirstEnumerate(r) PROVE IInv' /\ shown' >= shown
  <2>1. TypeOK'
    BY <1>1, <1>5, MaxChangesAssumption DEF FirstEnumerate, TypeOK, OneConstructs, Constructing
  <2>2. Newer' /\ shown' >= shown
    BY <1>1, <1>5 DEF FirstEnumerate, Newer, Started, OneConstructs, Constructing
  <2>3. Started' /\ OneConstructs'
    BY <1>5 DEF FirstEnumerate, TypeOK, Started, OneConstructs, Constructing
  <2> QED
    BY <2>1, <2>2, <2>3
<1>6. ASSUME NEW r \in Readers, FirstEnumerateThrows(r) PROVE IInv' /\ shown' >= shown
  <2>1. TypeOK'
    BY <1>1, <1>6, MaxChangesAssumption DEF FirstEnumerateThrows, TypeOK, OneConstructs, Constructing
  <2>2. Newer' /\ shown' >= shown
    BY <1>1, <1>6 DEF FirstEnumerateThrows, Newer, Started, OneConstructs, Constructing
  <2>3. Started' /\ OneConstructs'
    BY <1>6 DEF FirstEnumerateThrows, TypeOK, Started, OneConstructs, Constructing
  <2> QED
    BY <2>1, <2>2, <2>3
<1>7. ASSUME NEW r \in Readers, StartThread(r) PROVE IInv' /\ shown' >= shown
  <2>1. TypeOK'
    BY <1>1, <1>7, MaxChangesAssumption DEF StartThread, TypeOK, Started, OneConstructs, Constructing
  <2>2. Newer' /\ shown' >= shown
    BY <1>1, <1>7 DEF StartThread, Newer, Started, OneConstructs, Constructing
  <2>3. Started' /\ OneConstructs'
    BY <1>7 DEF StartThread, TypeOK, Started, OneConstructs, Constructing
  <2> QED
    BY <2>1, <2>2, <2>3
<1>8. ASSUME NEW r \in Readers, GetCache(r) PROVE IInv' /\ shown' >= shown
  <2>1. TypeOK'
    BY <1>1, <1>8, MaxChangesAssumption DEF GetCache, TypeOK, OneConstructs, Constructing
  <2>2. Newer' /\ shown' >= shown
    BY <1>1, <1>8 DEF GetCache, Newer, Started, OneConstructs, Constructing
  <2>3. Started' /\ OneConstructs'
    BY <1>8 DEF GetCache, TypeOK, Started, OneConstructs, Constructing
  <2> QED
    BY <2>1, <2>2, <2>3
<1>9. ASSUME PollLock PROVE IInv' /\ shown' >= shown
  <2>1. TypeOK'
    BY <1>1, <1>9, MaxChangesAssumption DEF PollLock, TypeOK, OneConstructs, Constructing
  <2>2. Newer' /\ shown' >= shown
    BY <1>1, <1>9 DEF PollLock, Newer, Started, OneConstructs, Constructing
  <2>3. Started' /\ OneConstructs'
    BY <1>9 DEF PollLock, TypeOK, Started, OneConstructs, Constructing
  <2> QED
    BY <2>1, <2>2, <2>3
<1>10. ASSUME PollTest PROVE IInv' /\ shown' >= shown
  <2>1. TypeOK'
    BY <1>1, <1>10, MaxChangesAssumption DEF PollTest, TypeOK, OneConstructs, Constructing
  <2>2. Newer' /\ shown' >= shown
    BY <1>1, <1>10 DEF PollTest, Newer, Started, OneConstructs, Constructing
  <2>3. Started' /\ OneConstructs'
    BY <1>10 DEF PollTest, TypeOK, Started, OneConstructs, Constructing
  <2> QED
    BY <2>1, <2>2, <2>3
<1>11. ASSUME PollWait PROVE IInv' /\ shown' >= shown
  <2>1. TypeOK'
    BY <1>1, <1>11, MaxChangesAssumption DEF PollWait, TypeOK, OneConstructs, Constructing
  <2>2. Newer' /\ shown' >= shown
    BY <1>1, <1>11 DEF PollWait, Newer, Started, OneConstructs, Constructing
  <2>3. Started' /\ OneConstructs'
    BY <1>11 DEF PollWait, TypeOK, Started, OneConstructs, Constructing
  <2> QED
    BY <2>1, <2>2, <2>3
<1>12. ASSUME Timeout PROVE IInv' /\ shown' >= shown
  <2>1. TypeOK'
    BY <1>1, <1>12, MaxChangesAssumption DEF Timeout, TypeOK, OneConstructs, Constructing
  <2>2. Newer' /\ shown' >= shown
    BY <1>1, <1>12 DEF Timeout, Newer, Started, OneConstructs, Constructing
  <2>3. Started' /\ OneConstructs'
    BY <1>12 DEF Timeout, TypeOK, Started, OneConstructs, Constructing
  <2> QED
    BY <2>1, <2>2, <2>3
<1>13. ASSUME PollWake PROVE IInv' /\ shown' >= shown
  <2>1. TypeOK'
    BY <1>1, <1>13, MaxChangesAssumption DEF PollWake, TypeOK, OneConstructs, Constructing
  <2>2. Newer' /\ shown' >= shown
    BY <1>1, <1>13 DEF PollWake, Newer, Started, OneConstructs, Constructing
  <2>3. Started' /\ OneConstructs'
    BY <1>13 DEF PollWake, TypeOK, Started, OneConstructs, Constructing
  <2> QED
    BY <2>1, <2>2, <2>3
<1>14. ASSUME Enumerate PROVE IInv' /\ shown' >= shown
  <2>1. TypeOK'
    BY <1>1, <1>14, MaxChangesAssumption DEF Enumerate, TypeOK, OneConstructs, Constructing
  <2>2. Newer' /\ shown' >= shown
    BY <1>1, <1>14 DEF Enumerate, Newer, Started, OneConstructs, Constructing
  <2>3. Started' /\ OneConstructs'
    BY <1>14 DEF Enumerate, TypeOK, Started, OneConstructs, Constructing
  <2> QED
    BY <2>1, <2>2, <2>3
<1>15. ASSUME PollStore PROVE IInv' /\ shown' >= shown
  <2>1. TypeOK'
    BY <1>1, <1>15, MaxChangesAssumption DEF PollStore, TypeOK, OneConstructs, Constructing
  <2>2. Newer' /\ shown' >= shown
    BY <1>1, <1>15 DEF PollStore, Newer, Started, OneConstructs, Constructing
  <2>3. Started' /\ OneConstructs'
    BY <1>15 DEF PollStore, TypeOK, Started, OneConstructs, Constructing
  <2> QED
    BY <2>1, <2>2, <2>3
<1>16. ASSUME SetDone PROVE IInv' /\ shown' >= shown
  <2>1. TypeOK'
    BY <1>1, <1>16, MaxChangesAssumption DEF SetDone, TypeOK, OneConstructs, Constructing
  <2>2. Newer' /\ shown' >= shown
    BY <1>1, <1>16 DEF SetDone, Newer, Started, OneConstructs, Constructing
  <2>3. Started' /\ OneConstructs'
    BY <1>16 DEF SetDone, TypeOK, Started, OneConstructs, Constructing
  <2> QED
    BY <2>1, <2>2, <2>3
<1>17. ASSUME Notify PROVE IInv' /\ shown' >= shown
  <2>1. TypeOK'
    BY <1>1, <1>17, MaxChangesAssumption DEF Notify, TypeOK, OneConstructs, Constructing
  <2>2. Newer' /\ shown' >= shown
    BY <1>1, <1>17 DEF Notify, Newer, Started, OneConstructs, Constructing
  <2>3. Started' /\ OneConstructs'
    BY <1>17 DEF Notify, TypeOK, Started, OneConstructs, Constructing
  <2> QED
    BY <2>1, <2>2, <2>3
<1>18. ASSUME Join PROVE IInv' /\ shown' >= shown
  <2>1. TypeOK'
    BY <1>1, <1>18, MaxChangesAssumption DEF Join, TypeOK, OneConstructs, Constructing
  <2>2. Newer' /\ shown' >= shown
    BY <1>1, <1>18 DEF Join, Newer, Started, OneConstructs, Constructing
  <2>3. Started' /\ OneConstructs'
    BY <1>18 DEF Join, TypeOK, Started, OneConstructs, Constructing
  <2> QED
    BY <2>1, <2>2, <2>3
<1>19. ASSUME UNCHANGED vars PROVE IInv' /\ shown' >= shown
  BY <1>1, <1>19 DEF vars, TypeOK, Started, OneConstructs, Constructing, Newer
<1> QED
  BY <1>2, <1>3, <1>4, <1>5, <1>6, <1>7, <1>8, <1>9, <1>10, <1>11, <1>12, <1>13, <1>14, <1>15, <1>16, <1>17, <1>18, <1>19
     DEF Next, ReaderStep, PollStep, Destructor

LEMMA Inductive == Spec => []IInv
<1>1. IInv /\ [Next]_vars => IInv'
  BY Preserved
<1> QED
  BY InitInv, <1>1, PTL DEF Spec

\* The mutex is held just between the polling thread's lock and its wait, no
\* list is newer than the devices, and everything is where it can be.
THEOREM TypeCorrect == Spec => []TypeOK
<1>1. IInv => TypeOK
  BY DEF IInv
<1> QED
  BY Inductive, <1>1, PTL

\* No reader of the cache is shown an older list than another before it, however
\* the first enumeration, which may throw and be made again, and those of the
\* polling thread interleave with the readers.
THEOREM CacheNeverGoesBack == Spec => NeverBackwards
<1>1. IInv /\ [Next]_vars => [shown' >= shown]_shown
  BY Preserved
<1> QED
  BY Inductive, <1>1, PTL DEF Spec, NeverBackwards
=============================================================================
