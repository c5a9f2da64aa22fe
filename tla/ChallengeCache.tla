---------------------------- MODULE ChallengeCache ----------------------------
(***************************************************************************)
(* What lib/server/src/Types/ChallengeCache.ts promises of every cache the *)
(* strategy may be given: "a cache of challenges that allows only getting  *)
(* the key once per set()", whose get returns "the cached challenge or     *)
(* null if the key is expired or does not exist".                          *)
(*                                                                         *)
(* A challenge stands for one call of set: no two calls store the same     *)
(* one, the nonce in it being random.  Its age is all that is kept of      *)
(* requestDateTime: below the time to live ("fresh"), equal to it ("due")  *)
(* or beyond it ("expired").                                               *)
(***************************************************************************)
CONSTANTS
    Keys,        \* the keys of get and set
    Challenges,  \* the challenges a set may store
    None         \* null

VARIABLES
    store,       \* store[k]: the challenge kept for k, or None
    age,         \* age[c]: how old the request behind c is
    returned     \* history: the challenges a get has returned

vars == <<store, age, returned>>

Ages == {"unset", "fresh", "due", "expired"}

Older(a) == CASE a = "fresh" -> "due" [] a = "due" -> "expired" [] OTHER -> a

(* What get(k) returns.                                                    *)
ValueOf(k) ==
    IF store[k] # None /\ age[store[k]] # "expired" THEN store[k] ELSE None

Init ==
    /\ store = [k \in Keys |-> None]
    /\ age = [c \in Challenges |-> "unset"]
    /\ returned = {}

(* get(k): whatever is stored leaves the cache, returned or not.  Fault:   *)
(* it stays.                                                               *)
GetLeavesEntry(k) ==
    /\ returned' = returned \cup ({ValueOf(k)} \ {None})
    /\ UNCHANGED <<store, age>>
Get(k) ==
    /\ store' = [store EXCEPT ![k] = None]
    /\ returned' = returned \cup ({ValueOf(k)} \ {None})
    /\ UNCHANGED age

(* set(k, c): replaces what is stored; the request may be of any age.      *)
Set(k, c) ==
    /\ age[c] = "unset"
    /\ store' = [store EXCEPT ![k] = c]
    /\ \E a \in Ages \ {"unset"} : age' = [age EXCEPT ![c] = a]
    /\ UNCHANGED returned

(* Time passes for the challenges in S.                                    *)
GrowOlder(S) ==
    /\ age' = [c \in Challenges |-> IF c \in S THEN Older(age[c]) ELSE age[c]]
    /\ UNCHANGED <<store, returned>>

(* The cache drops a challenge that has had its time.                      *)
Forget(k) ==
    /\ store[k] # None
    /\ age[store[k]] # "fresh"
    /\ store' = [store EXCEPT ![k] = None]
    /\ UNCHANGED <<age, returned>>

(* The cache drops the entries of S whatever their age: an eviction, or    *)
(* the loss of the memory they are in.  The documentation has no such      *)
(* step.                                                                   *)
Lose(S) ==
    /\ store' = [k \in Keys |-> IF k \in S THEN None ELSE store[k]]
    /\ UNCHANGED <<age, returned>>

DocumentedNext ==
    \/ \E k \in Keys : Get(k) \/ Forget(k)
    \/ \E k \in Keys, c \in Challenges : Set(k, c)
    \/ \E S \in SUBSET Challenges : GrowOlder(S)

Next == DocumentedNext \/ \E S \in SUBSET Keys : Lose(S)

(* The contract to the letter: a challenge leaves by get, by a later set,  *)
(* or once it is as old as the time to live.                               *)
DocumentedSpec == Init /\ [][DocumentedNext]_vars

(* The part of it a caller can build on whatever cache it is given: only   *)
(* what was set is returned, at most once, and never expired.              *)
Spec == Init /\ [][Next]_vars
===============================================================================
