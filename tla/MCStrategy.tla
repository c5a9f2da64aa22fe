------------------------------ MODULE MCStrategy ------------------------------
(* MutualKeyChallengeStrategy for TLC: alice is registered with her key,   *)
(* ghost is not a user, other is a key of a client that is not registered. *)
EXTENDS MutualKeyChallengeStrategy, TLC

CONSTANTS alice, ghost, aliceKey, otherKey, oldKey, newKey

MCUserIds == {alice, ghost}
MCClientKeys == {aliceKey, otherKey}
MCServerKeys == {oldKey, newKey}
OneServerKey == {oldKey}
MCPublicKeyOf == [u \in MCUserIds |-> IF u = alice THEN aliceKey ELSE None]

(* Alice may be given another key.                                         *)
AliceChanges == {<<alice, otherKey>>}

Input(kind, userId, signer, encryptedFor) ==
    [kind |-> kind, userId |-> userId, signer |-> signer, encryptedFor |-> encryptedFor]

(* Every kind of request, each with and without each of its flaws; once    *)
(* alice has been given otherKey, it is aliceKey that is the wrong one.     *)
AllInputs ==
    {Input("challenge", alice, aliceKey, oldKey),
     Input("challenge", ghost, otherKey, oldKey),
     Input("response", alice, aliceKey, None),
     Input("response", alice, otherKey, None),
     Input("malformed", None, None, None)}

(* Only what reaches the cache, for the runs with more than one process.   *)
AlicesInputs ==
    {Input("challenge", alice, aliceKey, oldKey), Input("response", alice, aliceKey, None)}

RequestSymmetry == Permutations(Requests)
RequestAndInstanceSymmetry == RequestSymmetry \cup Permutations(Instances)
===============================================================================
