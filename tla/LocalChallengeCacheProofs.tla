----------------------- MODULE LocalChallengeCacheProofs -----------------------
(***************************************************************************)
(* Theorems about LocalChallengeCache, for every set of keys, time to live *)
(* and number of calls.                                                    *)
(***************************************************************************)
EXTENDS LocalChallengeCache, TLAPS

(* What is stored or timed was set before.                                 *)
OnlyPastSets ==
    /\ \A k \in Keys : challengeMap[k] # None => challengeMap[k] <= setCalls
    /\ \A t \in timers : t.id <= setCalls

(* The inductive invariant.  TypeOK needs OnlyPastSets, as get adds a      *)
(* stored challenge to those returned.                                     *)
CacheInv == TypeOK /\ EntriesAreTimed /\ OnlyPastSets

-------------------------------------------------------------------------------
(* The invariant holds before the first call.                              *)
LEMMA CacheInvInit == Init => CacheInv
BY ConstantsAssumption DEF Init, CacheInv, TypeOK, EntriesAreTimed, OnlyPastSets, Ids

(* The timers the clock leaves are those it found, closer to their time.   *)
LEMMA TickedTimers ==
    ASSUME TypeOK, Tick
    PROVE  /\ \A t \in timers : \E u \in timers' : u.id = t.id /\ u.key = t.key
           /\ \A u \in timers' : /\ u \in Timers
                                 /\ \E t \in timers : /\ u.id = t.id /\ u.key = t.key
                                                      /\ u.left = CountDown(t.left)
<1>1. timers' = {[t EXCEPT !.left = CountDown(@)] : t \in timers}
  BY DEF Tick
<1>2. \A t \in timers : t \in Timers
  BY DEF TypeOK
<1>3. ASSUME NEW t \in timers
      PROVE  LET u == [t EXCEPT !.left = CountDown(@)] IN
             /\ u \in Timers /\ u.id = t.id /\ u.key = t.key /\ u.left = CountDown(t.left)
  BY <1>2 DEF Timers, CountDown
<1> QED
  BY <1>1, <1>3

(* Every step preserves the invariant.                                     *)
LEMMA CacheInvStep == CacheInv /\ [Next]_vars => CacheInv'
<1> SUFFICES ASSUME CacheInv, [Next]_vars
             PROVE  CacheInv'
  OBVIOUS
<1> USE ConstantsAssumption DEF CacheInv
<1>1. ASSUME NEW k \in Keys, Get(k)
      PROVE  CacheInv'
  <2>1. TypeOK'
    <3>1. CASE UNCHANGED vars
      BY <3>1 DEF TypeOK, vars
    <3>2. CASE challengeMap[k] # None /\ ~UNCHANGED vars
      <4>1. challengeMap[k] \in 1 .. setCalls
        BY <3>2 DEF TypeOK, OnlyPastSets, Ids
      <4>2. returned' \subseteq 1 .. setCalls
        BY <1>1, <3>2, <4>1 DEF Get, TypeOK
      <4> QED BY <1>1, <3>2, <4>2 DEF Get, TypeOK
    <3> QED BY <1>1, <3>1, <3>2 DEF Get
  <2>2. EntriesAreTimed'
    BY <1>1 DEF Get, TypeOK, EntriesAreTimed, vars
  <2>3. OnlyPastSets'
    BY <1>1 DEF Get, TypeOK, OnlyPastSets, vars
  <2> QED BY <2>1, <2>2, <2>3
<1>2. ASSUME NEW k \in Keys, NEW a \in 0 .. TtlMs + 1, Set(k, a)
      PROVE  CacheInv'
  <2> DEFINE c == setCalls + 1
             t == [id |-> c, key |-> k, left |-> Delay]
  <2>1. c \in Ids /\ Delay \in Nat /\ c # None
    BY <1>2 DEF Set, TypeOK, Ids, Delay
  <2>2. t \in Timers /\ timers' = timers \cup {t}
    BY <1>2, <2>1 DEF Set, ArmTimer, Timers
  <2>3. /\ challengeMap' = [challengeMap EXCEPT ![k] = c]
        /\ clearTimeouts' = [clearTimeouts EXCEPT ![k] = c]
        /\ requestAge' = [requestAge EXCEPT ![c] = a]
        /\ setCalls' = c /\ c \in 0 .. MaxSets /\ returned' = returned
    BY <1>2 DEF Set, TypeOK
  <2> HIDE DEF c, t
  <2>4. c = setCalls + 1 /\ setCalls \in Nat
    BY DEF c, TypeOK
  <2>5. t.id = c /\ t.key = k
    BY DEF t
  <2>6. TypeOK'
    BY <2>1, <2>2, <2>3, <2>4 DEF TypeOK, Ids
  <2>7. EntriesAreTimed'
    BY <2>1, <2>2, <2>3, <2>5 DEF TypeOK, EntriesAreTimed
  <2>8. OnlyPastSets'
    <3>1. ASSUME NEW j \in Keys, challengeMap'[j] # None
          PROVE  challengeMap'[j] <= setCalls'
      BY <3>1, <2>1, <2>3, <2>4 DEF TypeOK, OnlyPastSets, Ids
    <3>2. ASSUME NEW u \in timers'
          PROVE  u.id <= setCalls'
      BY <2>1, <2>2, <2>3, <2>4, <2>5 DEF TypeOK, OnlyPastSets, Timers, Ids
    <3> QED BY <3>1, <3>2 DEF OnlyPastSets
  <2> QED BY <2>6, <2>7, <2>8
<1>3. ASSUME NEW t \in timers, TimerFires(t)
      PROVE  CacheInv'
  <2>1. t.key \in Keys
    BY DEF TypeOK, Timers
  <2>2. TypeOK'
    BY <1>3, <2>1 DEF TimerFires, TypeOK
  <2>3. EntriesAreTimed'
    BY <1>3, <2>1 DEF TimerFires, TypeOK, EntriesAreTimed
  <2>4. OnlyPastSets'
    BY <1>3, <2>1 DEF TimerFires, TypeOK, OnlyPastSets
  <2> QED BY <2>2, <2>3, <2>4
<1>4. ASSUME Tick
      PROVE  CacheInv'
  <2>1. /\ \A t \in timers : \E u \in timers' : u.id = t.id /\ u.key = t.key
        /\ \A u \in timers' : u \in Timers /\ \E t \in timers : u.id = t.id
    BY <1>4, TickedTimers
  <2>2. requestAge' \in [Ids -> 0 .. TtlMs + 1]
    BY <1>4 DEF Tick, SmallerOf, TypeOK
  <2>3. UNCHANGED <<challengeMap, clearTimeouts, setCalls, returned>>
    BY <1>4 DEF Tick
  <2>4. TypeOK'
    BY <2>1, <2>2, <2>3 DEF TypeOK
  <2>5. EntriesAreTimed'
    BY <2>1, <2>3 DEF EntriesAreTimed
  <2>6. OnlyPastSets'
    BY <2>1, <2>3 DEF OnlyPastSets
  <2> QED BY <2>4, <2>5, <2>6
<1>5. CASE UNCHANGED vars
  BY <1>5 DEF vars, TypeOK, EntriesAreTimed, OnlyPastSets
<1> QED
  BY <1>1, <1>2, <1>3, <1>4, <1>5 DEF Next, SetAny, FireAny

(* The invariant holds throughout.                                         *)
THEOREM CacheInvariant == Spec => []CacheInv
BY CacheInvInit, CacheInvStep, PTL DEF Spec

(* Type correctness.                                                       *)
THEOREM TypeCorrect == Spec => []TypeOK
<1>1. CacheInv => TypeOK
  BY DEF CacheInv
<1> QED BY <1>1, CacheInvariant, PTL

(* No stored challenge is without its timer, and clearTimeouts names it.   *)
THEOREM EntriesTimed == Spec => []EntriesAreTimed
<1>1. CacheInv => EntriesAreTimed
  BY DEF CacheInv
<1> QED BY <1>1, CacheInvariant, PTL
-------------------------------------------------------------------------------
(* AgeOf tells the four ages apart.                                        *)
LEMMA AgeOfIs ==
    ASSUME TypeOK, NEW c \in Ids
    PROVE  /\ AgeOf(c) \in {"unset", "fresh", "due", "expired"}
           /\ AgeOf(c) = "unset" <=> c > setCalls
           /\ AgeOf(c) = "fresh" <=> c <= setCalls /\ requestAge[c] < TtlMs
           /\ AgeOf(c) = "expired" <=> c <= setCalls /\ requestAge[c] > TtlMs
<1>1. c \in Nat /\ setCalls \in Nat /\ requestAge[c] \in Nat /\ TtlMs \in Nat
  BY ConstantsAssumption DEF TypeOK, Ids
<1> QED BY <1>1 DEF AgeOf

(* The cache starts as the contract's does: empty, no challenge set.       *)
LEMMA ContractInit == Init => Contract!Init
<1> SUFFICES ASSUME Init PROVE Contract!Init
  OBVIOUS
<1>1. ASSUME NEW c \in Ids PROVE AgeOf(c) = "unset"
  BY ConstantsAssumption DEF Init, AgeOf, Ids
<1> QED BY <1>1 DEF Init, Contract!Init

(* get is the contract's get.                                              *)
LEMMA ContractGet ==
    ASSUME CacheInv, NEW k \in Keys, Get(k)
    PROVE  Contract!Get(k) \/ UNCHANGED vars
<1>1. CASE challengeMap[k] = None
  BY <1>1 DEF Get
<1>2. CASE challengeMap[k] # None
  <2> DEFINE c == challengeMap[k]
  <2>1. c \in Ids /\ c <= setCalls
    BY <1>2 DEF CacheInv, TypeOK, OnlyPastSets
  <2>2. setCalls \in Nat /\ c \in Nat /\ requestAge[c] \in Nat /\ TtlMs \in Nat
    BY <2>1, ConstantsAssumption DEF CacheInv, TypeOK, Ids
  <2>3. AgeOf(c) # "expired" <=> ~IsExpired(c)
    BY <2>1, <2>2, AgeOfIs DEF CacheInv, IsExpired
  <2>4. {d \in {c} : ~IsExpired(d)} = {Contract!ValueOf(k)} \ {None}
    BY <1>2, <2>1, <2>3 DEF Contract!ValueOf
  <2>5. UNCHANGED <<requestAge, setCalls>>
    BY <1>1, <1>2 DEF Get
  <2>6. UNCHANGED [d \in Ids |-> AgeOf(d)]
    BY <2>5 DEF AgeOf
  <2> QED BY <1>2, <2>4, <2>6 DEF Get, Contract!Get
<1> QED BY <1>1, <1>2

(* set is the contract's set of a challenge that was not set before.       *)
LEMMA ContractSet ==
    ASSUME CacheInv, NEW k \in Keys, NEW a \in 0 .. TtlMs + 1, Set(k, a)
    PROVE  \E c \in Ids : Contract!Set(k, c)
<1>0. setCalls + 1 \in Ids
  BY ConstantsAssumption DEF Set, CacheInv, TypeOK, Ids
<1> PICK c \in Ids : c = setCalls + 1
  BY <1>0
<1>1. setCalls \in Nat /\ TtlMs \in Nat /\ c \in Nat
  BY ConstantsAssumption DEF CacheInv, TypeOK, Ids
<1>2. AgeOf(c) = "unset"
  BY <1>1, AgeOfIs DEF CacheInv, Ids
<1>3. setCalls' = c /\ requestAge' = [requestAge EXCEPT ![c] = a] /\ returned' = returned
  BY DEF Set
<1>4. AgeOf(c)' \in {"fresh", "due", "expired"}
  BY <1>1, <1>3 DEF AgeOf, CacheInv, TypeOK, Ids
<1>5. ASSUME NEW d \in Ids, d # c
      PROVE  AgeOf(d)' = AgeOf(d)
  BY <1>1, <1>3, <1>5 DEF AgeOf, CacheInv, TypeOK, Ids
<1>6. [d \in Ids |-> AgeOf(d)]' = [[d \in Ids |-> AgeOf(d)] EXCEPT ![c] = AgeOf(c)']
  BY <1>1, <1>5
<1>7. Contract!Set(k, c)
  BY <1>1, <1>2, <1>3, <1>4, <1>6 DEF Set, Contract!Set, Contract!Ages
<1> QED BY <1>1, <1>7

(* The clock makes challenges older one age at a time.                     *)
LEMMA ContractTick ==
    ASSUME CacheInv, Tick
    PROVE  \E S \in SUBSET Ids : Contract!GrowOlder(S)
<1> DEFINE S == {c \in Ids : AgeOf(c)' # AgeOf(c)}
<1>1. ASSUME NEW c \in Ids, AgeOf(c)' # AgeOf(c)
      PROVE  AgeOf(c)' = Contract!Older(AgeOf(c))
  <2>1. /\ c \in Nat /\ setCalls \in Nat /\ TtlMs \in Nat
        /\ requestAge[c] \in 0 .. TtlMs + 1 /\ setCalls' = setCalls
    BY ConstantsAssumption DEF CacheInv, TypeOK, Ids, Tick
  <2>2. requestAge'[c] =
            IF c <= setCalls THEN SmallerOf(requestAge[c] + 1, TtlMs + 1) ELSE 0
    BY DEF Tick
  <2>3. c <= setCalls
    BY <1>1, <2>1 DEF AgeOf
  <2>4. CASE requestAge[c] < TtlMs
    BY <1>1, <2>1, <2>2, <2>3, <2>4 DEF AgeOf, SmallerOf, Contract!Older
  <2>5. CASE requestAge[c] = TtlMs
    BY <2>1, <2>2, <2>3, <2>5 DEF AgeOf, SmallerOf, Contract!Older
  <2>6. CASE requestAge[c] > TtlMs
    BY <1>1, <2>1, <2>2, <2>3, <2>6 DEF AgeOf, SmallerOf
  <2> QED BY <2>1, <2>4, <2>5, <2>6
<1>2. UNCHANGED <<challengeMap, returned>>
  BY DEF Tick
<1>3. [c \in Ids |-> AgeOf(c)]' =
          [c \in Ids |-> IF c \in S THEN Contract!Older([d \in Ids |-> AgeOf(d)][c])
                                     ELSE [d \in Ids |-> AgeOf(d)][c]]
  BY <1>1
<1>4. Contract!GrowOlder(S)
  BY <1>2, <1>3 DEF Contract!GrowOlder
<1> QED BY <1>4

(* A timer loses the contract's entry of its key, if there is one.         *)
LEMMA ContractTimer ==
    ASSUME CacheInv, NEW t \in timers, TimerFires(t)
    PROVE  Contract!Lose({t.key})
<1>1. challengeMap' = [challengeMap EXCEPT ![t.key] = None]
  BY DEF TimerFires
<1>2. challengeMap' = [k \in Keys |-> IF k \in {t.key} THEN None ELSE challengeMap[k]]
  BY <1>1 DEF CacheInv, TypeOK
<1>3. UNCHANGED [c \in Ids |-> AgeOf(c)] /\ UNCHANGED returned
  BY DEF TimerFires, AgeOf
<1> QED BY <1>2, <1>3 DEF Contract!Lose

(* A step that changes nothing here changes nothing there.                 *)
LEMMA ContractStutter == UNCHANGED vars => UNCHANGED Contract!vars
BY DEF vars, Contract!vars, AgeOf

(* Whatever the timers do, the local cache is a ChallengeCache             *)
(* (Types/ChallengeCache.ts:19-33).                                        *)
THEOREM LocalCacheIsACache == Spec => CacheContract
<1>1. CacheInv /\ [Next]_vars => [Contract!Next]_(Contract!vars)
  <2> SUFFICES ASSUME CacheInv, [Next]_vars
               PROVE  Contract!Next \/ UNCHANGED Contract!vars
    OBVIOUS
  <2>1. ASSUME NEW k \in Keys, Get(k)
        PROVE  Contract!Next \/ UNCHANGED Contract!vars
    BY <2>1, ContractGet, ContractStutter DEF Contract!Next, Contract!DocumentedNext
  <2>2. ASSUME NEW k \in Keys, NEW a \in 0 .. TtlMs + 1, Set(k, a)
        PROVE  Contract!Next
    BY <2>2, ContractSet DEF Contract!Next, Contract!DocumentedNext
  <2>3. ASSUME NEW t \in timers, TimerFires(t)
        PROVE  Contract!Next
    <3>1. t.key \in Keys
      BY DEF CacheInv, TypeOK, Timers
    <3> QED BY <2>3, <3>1, ContractTimer DEF Contract!Next
  <2>4. ASSUME Tick
        PROVE  Contract!Next
    BY <2>4, ContractTick DEF Contract!Next, Contract!DocumentedNext
  <2>5. CASE UNCHANGED vars
    BY <2>5, ContractStutter
  <2> QED BY <2>1, <2>2, <2>3, <2>4, <2>5 DEF Next, SetAny, FireAny
<1> QED
  BY <1>1, ContractInit, CacheInvariant, PTL DEF Spec, CacheContract, Contract!Spec
-------------------------------------------------------------------------------
(* From here on setTimeout accepts ttlMs as a delay.                       *)
DelayAccepted == TtlMs \in 1 .. TimeoutMax

(* No timer is due before its challenge has been kept for ttlMs.           *)
TimersNotEarly == \A t \in timers : requestAge[t.id] + t.left >= TtlMs

TimedInv == CacheInv /\ TimersNotEarly

LEMMA TimedInvInit == Init => TimedInv
BY CacheInvInit DEF Init, TimedInv, TimersNotEarly

(* A timer counts down no faster than its challenge grows older.           *)
LEMMA TimedInvStep ==
    ASSUME DelayAccepted
    PROVE  TimedInv /\ [Next]_vars => TimedInv'
<1> SUFFICES ASSUME TimedInv, [Next]_vars
             PROVE  TimersNotEarly'
  BY CacheInvStep DEF TimedInv
<1> USE ConstantsAssumption DEF TimedInv, TimersNotEarly
<1>0. /\ TtlMs \in Nat /\ setCalls \in Nat
      /\ \A t \in timers : /\ t.id \in Ids /\ t.left \in Nat /\ t.id <= setCalls
                           /\ requestAge[t.id] \in 0 .. TtlMs + 1
  BY DEF CacheInv, TypeOK, Timers, OnlyPastSets, Ids
<1>1. ASSUME NEW k \in Keys, Get(k)
      PROVE  TimersNotEarly'
  BY <1>1 DEF Get, vars
<1>2. ASSUME NEW k \in Keys, NEW a \in 0 .. TtlMs + 1, Set(k, a)
      PROVE  TimersNotEarly'
  <2>1. PICK c \in Ids : c = setCalls + 1
    BY <1>0, <1>2 DEF Set, Ids
  <2>2. /\ requestAge' = [requestAge EXCEPT ![c] = a]
        /\ timers' = timers \cup {[id |-> c, key |-> k, left |-> TtlMs]}
    BY <1>2, <2>1 DEF Set, ArmTimer, Delay, DelayAccepted
  <2>3. requestAge'[c] = a /\ a + TtlMs >= TtlMs
    BY <1>0, <2>2 DEF CacheInv, TypeOK
  <2>4. ASSUME NEW t \in timers
        PROVE  requestAge'[t.id] + t.left >= TtlMs
    BY <1>0, <2>1, <2>2 DEF CacheInv, TypeOK, Ids
  <2> QED BY <2>2, <2>3, <2>4
<1>3. ASSUME NEW t \in timers, TimerFires(t)
      PROVE  TimersNotEarly'
  BY <1>3 DEF TimerFires
<1>4. ASSUME Tick
      PROVE  TimersNotEarly'
  <2>1. ASSUME NEW u \in timers'
        PROVE  requestAge'[u.id] + u.left >= TtlMs
    <3>1. PICK t \in timers : u.id = t.id /\ u.left = CountDown(t.left)
      BY <1>4, TickedTimers DEF CacheInv
    <3>2. requestAge'[t.id] = SmallerOf(requestAge[t.id] + 1, TtlMs + 1)
      BY <1>0, <1>4 DEF Tick
    <3> QED BY <1>0, <3>1, <3>2 DEF CountDown, SmallerOf
  <2> QED BY <2>1
<1>5. CASE UNCHANGED vars
  BY <1>5 DEF vars
<1> QED
  BY <1>1, <1>2, <1>3, <1>4, <1>5 DEF Next, SetAny, FireAny

(* When setTimeout accepts ttlMs, a challenge younger than ttlMs that no   *)
(* one takes or replaces is dropped only by a timer that an earlier set of *)
(* the same key left armed (LocalChallengeCache.ts:28, 43).                *)
THEOREM OnlyStaleTimersDrop ==
    ASSUME DelayAccepted
    PROVE  Spec => OnlyStaleTimersDropFreshChallenges
<1> DEFINE Dropped(k) ==
        /\ challengeMap[k] # None /\ challengeMap'[k] = None
        /\ requestAge[challengeMap[k]] < TtlMs /\ challengeMap[k] \notin returned'
           Stale(k) == \E t \in timers : t.key = k /\ t.id < challengeMap[k] /\ t.left = 0
<1>1. TimedInv /\ [Next]_vars => [\A k \in Keys : Dropped(k) => Stale(k)]_vars
  <2> SUFFICES ASSUME TimedInv, Next, NEW k \in Keys, Dropped(k)
               PROVE  Stale(k)
    OBVIOUS
  <2>0. /\ challengeMap[k] \in Ids /\ challengeMap[k] \in Nat
        /\ requestAge[challengeMap[k]] \in Nat /\ TtlMs \in Nat
        /\ challengeMap \in [Keys -> Ids \cup {None}]
    BY ConstantsAssumption DEF TimedInv, CacheInv, TypeOK, Ids
  <2>1. ASSUME NEW j \in Keys, Get(j)
        PROVE  FALSE
    <3>1. challengeMap[k] \in returned'
      BY <2>0, <2>1 DEF Get, IsExpired, vars
    <3> QED BY <3>1
  <2>2. ASSUME NEW j \in Keys, NEW a \in 0 .. TtlMs + 1, Set(j, a)
        PROVE  FALSE
    <3>1. challengeMap' = [challengeMap EXCEPT ![j] = setCalls + 1] /\ setCalls + 1 \in Ids
      BY <2>2, ConstantsAssumption DEF Set, TimedInv, CacheInv, TypeOK, Ids
    <3> QED BY <2>0, <3>1, ConstantsAssumption
  <2>3. ASSUME NEW t \in timers, TimerFires(t)
        PROVE  Stale(k)
    <3>1. t.key = k /\ t.left = 0 /\ t.id \in Nat
      BY <2>0, <2>3 DEF TimerFires, TimedInv, CacheInv, TypeOK, Timers, Ids
    <3>2. t.id # challengeMap[k]
      BY <2>0, <3>1 DEF TimedInv, TimersNotEarly
    <3>3. t.id <= challengeMap[k]
      BY <2>3 DEF TimerFires, TimedInv, CacheInv, EntriesAreTimed
    <3> QED BY <2>0, <3>1, <3>2, <3>3
  <2>4. ASSUME Tick
        PROVE  FALSE
    BY <2>4 DEF Tick
  <2> QED BY <2>1, <2>2, <2>3, <2>4 DEF Next, SetAny, FireAny
<1>2. [\A k \in Keys : Dropped(k) => Stale(k)]_vars
          => [\A k \in Keys :
                 LET c == challengeMap[k] IN
                 /\ c # None /\ challengeMap'[k] = None
                 /\ requestAge[c] < TtlMs /\ c \notin returned'
                 => \E t \in timers : t.key = k /\ t.id < c /\ t.left = 0]_vars
  OBVIOUS
<1> QED
  BY <1>1, <1>2, TimedInvInit, TimedInvStep, PTL
  DEF Spec, OnlyStaleTimersDropFreshChallenges
-------------------------------------------------------------------------------
(* When a key is not set while a timer of it is armed, it has one timer at *)
(* most, and that is the one of the challenge stored.                      *)
OneTimerPerKey == \A t, u \in timers : t.key = u.key => t = u

LEMMA OneTimerPerKeyStep ==
    ASSUME TimedInv, OneTimerPerKey, [SpacedNext]_vars
    PROVE  OneTimerPerKey'
<1>1. ASSUME NEW k \in Keys, Get(k)
      PROVE  OneTimerPerKey'
  BY <1>1 DEF Get, OneTimerPerKey, vars
<1>2. ASSUME NEW k \in Keys, NEW a \in 0 .. TtlMs + 1, Set(k, a), \A t \in timers : t.key # k
      PROVE  OneTimerPerKey'
  BY <1>2 DEF Set, ArmTimer, OneTimerPerKey
<1>3. ASSUME NEW t \in timers, TimerFires(t)
      PROVE  OneTimerPerKey'
  BY <1>3 DEF TimerFires, OneTimerPerKey
<1>4. ASSUME Tick
      PROVE  OneTimerPerKey'
  <2> DEFINE Ticked(t) == [t EXCEPT !.left = CountDown(@)]
  <2>1. timers' = {Ticked(t) : t \in timers}
    BY <1>4 DEF Tick
  <2>2. \A t \in timers : Ticked(t).key = t.key
    BY DEF TimedInv, CacheInv, TypeOK, Timers
  <2> HIDE DEF Ticked
  <2>3. ASSUME NEW v \in timers', NEW w \in timers', v.key = w.key
        PROVE  v = w
    <3>1. PICK t \in timers : v = Ticked(t)
      BY <2>1
    <3>2. PICK u \in timers : w = Ticked(u)
      BY <2>1
    <3> QED BY <2>2, <2>3, <3>1, <3>2 DEF OneTimerPerKey
  <2> QED BY <2>3 DEF OneTimerPerKey
<1>5. CASE UNCHANGED vars
  BY <1>5 DEF vars, OneTimerPerKey
<1> QED
  BY <1>1, <1>2, <1>3, <1>4, <1>5 DEF SpacedNext, SetAny, FireAny

(* With the callers spaced out and a delay setTimeout accepts, the cache   *)
(* keeps the documented contract to the letter: get returns null only "if  *)
(* the key is expired or does not exist" (Types/ChallengeCache.ts:25).     *)
THEOREM SpacedCallersGetTheDocumentedCache ==
    ASSUME DelayAccepted
    PROVE  SpacedSpec => DocumentedContract
<1> DEFINE SInv == TimedInv /\ OneTimerPerKey
<1>1. Init => SInv
  BY TimedInvInit DEF Init, OneTimerPerKey
<1>2. [SpacedNext]_vars => [Next]_vars
  BY DEF SpacedNext, Next
<1>3. SInv /\ [SpacedNext]_vars => SInv'
  BY <1>2, TimedInvStep, OneTimerPerKeyStep
<1>4. SInv /\ [SpacedNext]_vars => [Contract!DocumentedNext]_(Contract!vars)
  <2> SUFFICES ASSUME SInv, [SpacedNext]_vars
               PROVE  Contract!DocumentedNext \/ UNCHANGED Contract!vars
    OBVIOUS
  <2>0. CacheInv
    BY DEF TimedInv
  <2>1. ASSUME NEW k \in Keys, Get(k)
        PROVE  Contract!DocumentedNext \/ UNCHANGED Contract!vars
    BY <2>0, <2>1, ContractGet, ContractStutter DEF Contract!DocumentedNext
  <2>2. ASSUME NEW k \in Keys, NEW a \in 0 .. TtlMs + 1, Set(k, a)
        PROVE  Contract!DocumentedNext
    BY <2>0, <2>2, ContractSet DEF Contract!DocumentedNext
  <2>3. ASSUME NEW t \in timers, TimerFires(t)
        PROVE  Contract!DocumentedNext \/ UNCHANGED Contract!vars
    <3>1. t.key \in Keys /\ t.left = 0 /\ challengeMap \in [Keys -> Ids \cup {None}]
      BY <2>0, <2>3 DEF TimerFires, CacheInv, TypeOK, Timers
    <3>2. /\ challengeMap' = [challengeMap EXCEPT ![t.key] = None]
          /\ UNCHANGED returned /\ UNCHANGED [c \in Ids |-> AgeOf(c)]
      BY <2>3 DEF TimerFires, AgeOf
    <3>3. CASE challengeMap[t.key] = None
      BY <3>1, <3>2, <3>3 DEF Contract!vars
    <3>4. CASE challengeMap[t.key] # None
      <4>1. t.id = challengeMap[t.key]
        BY <2>0, <3>1, <3>4 DEF OneTimerPerKey, CacheInv, EntriesAreTimed
      <4>2. t.id \in Ids /\ requestAge[t.id] \in Nat /\ TtlMs \in Nat
        BY <2>0, <3>1, <3>4, <4>1, ConstantsAssumption DEF CacheInv, TypeOK
      <4>3. requestAge[t.id] >= TtlMs
        BY <3>1, <4>2 DEF TimedInv, TimersNotEarly
      <4>4. AgeOf(t.id) # "fresh"
        BY <2>0, <4>2, <4>3, AgeOfIs DEF CacheInv
      <4>5. Contract!Forget(t.key)
        BY <3>2, <3>4, <4>1, <4>2, <4>4 DEF Contract!Forget
      <4> QED BY <3>1, <4>5 DEF Contract!DocumentedNext
    <3> QED BY <3>3, <3>4
  <2>4. ASSUME Tick
        PROVE  Contract!DocumentedNext
    BY <2>0, <2>4, ContractTick DEF Contract!DocumentedNext
  <2>5. CASE UNCHANGED vars
    BY <2>5, ContractStutter
  <2> QED BY <2>1, <2>2, <2>3, <2>4, <2>5 DEF SpacedNext, SetAny, FireAny
<1> QED
  BY <1>1, <1>3, <1>4, ContractInit, PTL
  DEF SpacedSpec, DocumentedContract, Contract!DocumentedSpec
===============================================================================
