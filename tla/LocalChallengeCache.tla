-------------------------- MODULE LocalChallengeCache --------------------------
(***************************************************************************)
(* lib/server/src/LocalChallengeCache.ts: the in-memory cache with its two *)
(* maps and the event loop's timers.  Each operation runs to completion    *)
(* between two turns of the event loop, so each is one action.             *)
(*                                                                         *)
(* A call of set is numbered, and the number stands for the challenge it   *)
(* stores and for the Timeout it arms.  Time is relative: requestAge is    *)
(* Date.now() - requestDateTime, the only use the code makes of the clock, *)
(* and a timer counts down to 0.  A timer whose time has come may fire     *)
(* late: the event loop may be busy.                                       *)
(***************************************************************************)
EXTENDS Naturals

CONSTANTS
    Keys,        \* the user ids used as keys
    TtlMs,       \* ttlMs, in ticks of the clock
    TimeoutMax,  \* the longest delay setTimeout accepts (Node: 2^31 - 1 ms)
    MaxSets,     \* bound: the number of calls of set
    None         \* undefined or null

Ids == 1 .. MaxSets

ASSUME ConstantsAssumption ==
    /\ TtlMs \in Nat
    /\ TimeoutMax \in Nat \ {0}
    /\ MaxSets \in Nat
    /\ None \notin Ids

VARIABLES
    challengeMap,   \* challengeMap[k]: the challenge stored under k, or None
    requestAge,     \* requestAge[c]: Date.now() - requestDateTime of challenge c
    clearTimeouts,  \* clearTimeouts[k]: the Timeout kept for k, or None
    timers,         \* the armed timers of the event loop
    setCalls,       \* the number of calls of set so far
    returned        \* history: the challenges get has returned

vars == <<challengeMap, requestAge, clearTimeouts, timers, setCalls, returned>>

Timers == [id : Ids, key : Keys, left : Nat]

(* setTimeout replaces a delay outside 1 .. TimeoutMax by 1.  Fault: the   *)
(* time to live handed over in a coarser unit.                             *)
DelayTooShort == 1
Delay == IF TtlMs \in 1 .. TimeoutMax THEN TtlMs ELSE 1

SmallerOf(a, b) == IF a <= b THEN a ELSE b

(* A timer that has come due waits at 0.                                   *)
CountDown(n) == IF n = 0 THEN 0 ELSE n - 1

(* Fault: the subtraction the wrong way round.                             *)
NeverExpired(c) == FALSE
IsExpired(c) == requestAge[c] > TtlMs

-------------------------------------------------------------------------------
Init ==
    /\ challengeMap = [k \in Keys |-> None]
    /\ requestAge = [c \in Ids |-> 0]
    /\ clearTimeouts = [k \in Keys |-> None]
    /\ timers = {}
    /\ setCalls = 0
    /\ returned = {}

(* get(k) takes the challenge out, and the Timeout out of clearTimeouts,   *)
(* without a call of clearTimeout: the timer stays armed.  Faults: the     *)
(* entry is left in the map; what is missing is not told from what is      *)
(* there, and undefined is returned.                                       *)
GetLeavesEntry(k) ==
    /\ challengeMap[k] # None
    /\ clearTimeouts' = [clearTimeouts EXCEPT ![k] = None]
    /\ returned' = returned \cup {c \in {challengeMap[k]} : ~IsExpired(c)}
    /\ UNCHANGED <<challengeMap, requestAge, timers, setCalls>>
GetUnchecked(k) ==
    /\ challengeMap' = [challengeMap EXCEPT ![k] = None]
    /\ clearTimeouts' = [clearTimeouts EXCEPT ![k] = None]
    /\ returned' = returned \cup {c \in {challengeMap[k]} : c = None \/ ~IsExpired(c)}
    /\ UNCHANGED <<requestAge, timers, setCalls>>
Get(k) ==
    \/ challengeMap[k] = None /\ UNCHANGED vars
    \/ /\ challengeMap[k] # None
       /\ challengeMap' = [challengeMap EXCEPT ![k] = None]
       /\ clearTimeouts' = [clearTimeouts EXCEPT ![k] = None]
       /\ returned' = returned \cup {c \in {challengeMap[k]} : ~IsExpired(c)}
       /\ UNCHANGED <<requestAge, timers, setCalls>>

(* The timers once set has armed its own, due after Delay.  Fault: set     *)
(* cancels the new Timeout in place of the one it replaces.                *)
ArmNoTimer(k, c) == timers
ArmTimer(k, c) == timers \cup {[id |-> c, key |-> k, left |-> Delay]}

(* set(k, value) for a request that came in a ticks ago.  The Timeout that *)
(* clearTimeouts held is forgotten, not cancelled.                         *)
Set(k, a) ==
    /\ setCalls < MaxSets
    /\ LET c == setCalls + 1 IN
       /\ challengeMap' = [challengeMap EXCEPT ![k] = c]
       /\ requestAge' = [requestAge EXCEPT ![c] = a]
       /\ timers' = ArmTimer(k, c)
       /\ clearTimeouts' = [clearTimeouts EXCEPT ![k] = c]
       /\ setCalls' = c
    /\ UNCHANGED returned

(* The callback set gave to setTimeout.  All timers have the same delay,   *)
(* so the event loop runs them in the order in which they were armed.      *)
TimerFires(t) ==
    /\ t.left = 0
    /\ \A u \in timers : t.id <= u.id
    /\ timers' = timers \ {t}
    /\ challengeMap' = [challengeMap EXCEPT ![t.key] = None]
    /\ clearTimeouts' = [clearTimeouts EXCEPT ![t.key] = None]
    /\ UNCHANGED <<requestAge, setCalls, returned>>

(* The clock advances.  An age beyond TtlMs is not told from another.      *)
Tick ==
    /\ requestAge' = [c \in Ids |->
           IF c <= setCalls THEN SmallerOf(requestAge[c] + 1, TtlMs + 1) ELSE 0]
    /\ timers' = {[t EXCEPT !.left = CountDown(@)] : t \in timers}
    /\ UNCHANGED <<challengeMap, clearTimeouts, setCalls, returned>>

SetAny(k) == \E a \in 0 .. TtlMs + 1 : Set(k, a)
FireAny == \E t \in timers : TimerFires(t)

Next ==
    \/ \E k \in Keys : Get(k) \/ SetAny(k)
    \/ FireAny
    \/ Tick

Spec == Init /\ [][Next]_vars

(* The clock does not stop, and the event loop runs the timers that are    *)
(* due.  Nothing obliges a caller to call get or set.                      *)
FairSpec == Spec /\ WF_vars(Tick) /\ WF_vars(FireAny)

(* The callers for which the cache keeps its word: no key is set again     *)
(* while a timer of an earlier set of it is armed.                         *)
SpacedNext ==
    \/ \E k \in Keys : Get(k) \/ ((\A t \in timers : t.key # k) /\ SetAny(k))
    \/ FireAny
    \/ Tick

SpacedSpec == Init /\ [][SpacedNext]_vars

-------------------------------------------------------------------------------
(* What get returns is a challenge that was set.                           *)
TypeOK ==
    /\ challengeMap \in [Keys -> Ids \cup {None}]
    /\ requestAge \in [Ids -> 0 .. TtlMs + 1]
    /\ clearTimeouts \in [Keys -> Ids \cup {None}]
    /\ timers \subseteq Timers
    /\ setCalls \in 0 .. MaxSets
    /\ returned \subseteq 1 .. setCalls

(* Nothing stays in memory unattended: every stored challenge has its own  *)
(* timer armed, which will remove it if no get does, and clearTimeouts     *)
(* holds that very Timeout, through every interleaving of get, set and     *)
(* late timers (LocalChallengeCache.ts:27-28, 42-53).                      *)
EntriesAreTimed ==
    \A k \in Keys :
        /\ clearTimeouts[k] = challengeMap[k]
        /\ challengeMap[k] # None =>
               \E t \in timers : t.id = challengeMap[k] /\ t.key = k

(* The only thing that makes the cache drop a challenge whose request is   *)
(* younger than ttlMs, when no one takes or replaces it, is the timer of   *)
(* an earlier set that was not cancelled (LocalChallengeCache.ts:28, 43).  *)
(* Stated for a delay that setTimeout accepts.                             *)
OnlyStaleTimersDropFreshChallenges ==
    [][\A k \in Keys :
           LET c == challengeMap[k] IN
           /\ c # None /\ challengeMap'[k] = None
           /\ requestAge[c] < TtlMs /\ c \notin returned'
           => \E t \in timers : t.key = k /\ t.id < c /\ t.left = 0]_vars

(* Every challenge that is stored leaves the cache again, taken, replaced  *)
(* or removed by a timer (LocalChallengeCache.ts:48-51).                   *)
EveryChallengeLeaves ==
    \A c \in Ids : c <= setCalls ~> \A k \in Keys : challengeMap[k] # c

(* The abstract age of a challenge.                                        *)
AgeOf(c) ==
    CASE c > setCalls -> "unset"
      [] c <= setCalls /\ requestAge[c] < TtlMs -> "fresh"
      [] c <= setCalls /\ requestAge[c] = TtlMs -> "due"
      [] OTHER -> "expired"

Contract == INSTANCE ChallengeCache WITH
    Challenges <- Ids,
    store <- challengeMap,
    age <- [c \in Ids |-> AgeOf(c)]

(* The local cache is a ChallengeCache: what get returns was set under     *)
(* that key, is returned once per set and is not expired, whatever the     *)
(* timers do (Types/ChallengeCache.ts:19-33).                              *)
CacheContract == Contract!Spec

(* The documented contract to the letter: get returns null only "if the    *)
(* key is expired or does not exist" (Types/ChallengeCache.ts:25).         *)
DocumentedContract == Contract!DocumentedSpec
===============================================================================
