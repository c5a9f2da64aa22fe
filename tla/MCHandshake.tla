------------------------------ MODULE MCHandshake ------------------------------
(* Handshake for TLC: overlapping calls of alice, made by one process that *)
(* knows the key her server has at first.                                  *)
EXTENDS Handshake, TLC

CONSTANTS alice, bob, aliceKey, bobKey, oldKey, newKey, host

MCRequests == Sessions \X {"challenge", "response"}
MCUserIds == {alice, bob}
MCClientKeys == {aliceKey, bobKey}
MCPublicKeyOf == [u \in MCUserIds |-> IF u = alice THEN aliceKey ELSE bobKey]
BothServerKeys == {oldKey, newKey}

(* The account of alice may be closed.                                     *)
AliceRemoved == {<<alice, None>>}

TwoOfAlice == [s \in Sessions |-> alice]
OneHost == [s \in Sessions |-> host]
OldKeyTrusted == [s \in Sessions |-> oldKey]
AlicesKey == [s \in Sessions |-> aliceKey]

(* The calls are alike.                                                    *)
SessionSymmetry == Permutations(Sessions)
===============================================================================
