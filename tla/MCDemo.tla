--------------------------------- MODULE MCDemo ---------------------------------
(* Demo for TLC: two runs of Client.ts, for alice and for bob.             *)
EXTENDS Demo, TLC

CONSTANTS alice, bob, demoKey, serverKeyFile, s1, s2

MCRequests == Sessions \X {"challenge", "response"}
MCUserIds == {alice, bob}
MCPublicKeyOf == DemoKeys(demoKey)
MCClientKeys == {demoKey}
MCServerKeys == {serverKeyFile}
MCHostOf == [s \in Sessions |-> s]
MCClientKeyOf == [s \in Sessions |-> demoKey]
MCServerKeyOf == [s \in Sessions |-> serverKeyFile]
MCUserOf == [s \in Sessions |-> IF s = s1 THEN alice ELSE bob]
=================================================================================
