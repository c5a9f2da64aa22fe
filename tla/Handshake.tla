------------------------------- MODULE Handshake -------------------------------
(***************************************************************************)
(* The whole handshake: the calls of HandshakeClient, the strategy behind  *)
(* the demo's AuthenticateRouter, and the network between them.            *)
(*                                                                         *)
(* Call s makes the requests <<s, "challenge">> and <<s, "response">>.  A  *)
(* request and its answer share a connection: an answer is read by the     *)
(* call that asked, unless an intermediary mixes answers up.               *)
(***************************************************************************)
EXTENDS MutualKeyChallengeStrategy

CONSTANTS
    Sessions, HostOf, ClientKeyOf, ServerKeyOf,  \* see HandshakeClient
    UserOf                                       \* the argument userId of a call

VARIABLES
    stage, reply, result,   \* see HandshakeClient
    disturbed               \* history: something has gone wrong, or a challenge has expired

Client == INSTANCE HandshakeClient WITH Challenges <- Requests

clientVars == <<stage, reply, result>>
allVars == <<vars, clientVars, disturbed>>

First(s) == <<s, "challenge">>
Second(s) == <<s, "response">>

ASSUME HandshakeAssumption ==
    /\ Requests = Sessions \X {"challenge", "response"}
    /\ UserOf \in [Sessions -> UserIds]
    /\ ClientKeyOf \in [Sessions -> ClientKeys]
    /\ ServerKeyOf \in [Sessions -> ServerKeys]

(* What the two format functions send, as the strategy parses it.          *)
ChallengeRequest(s) ==
    [kind |-> "challenge", userId |-> UserOf[s], signer |-> ClientKeyOf[s],
     encryptedFor |-> ServerKeyOf[s], nonce |-> First(s)]
ResponseRequest(s) ==
    [kind |-> "response", userId |-> UserOf[s], signer |-> ClientKeyOf[s],
     encryptedFor |-> None, nonce |-> reply[s]]

(* The body the router sends in answer to r: a token for a success, the    *)
(* JSON of the challenge for a fail(), and a text for an error().          *)
Body(r) ==
    CASE handler[r] = "success" -> [kind |-> "token", of |-> r]
      [] handler[r] \in Errors -> [kind |-> "text"]
      [] handler[r] = "challenged" ->
             [kind |-> "challenge", nonce |-> msg[r].nonce[1], signers |-> signers[r],
              encryptedFor |-> publicKey[r], challenge |-> r]

Asked(s) == IF stage[s] = "challenging" THEN First(s) ELSE Second(s)

-------------------------------------------------------------------------------
HandshakeInit == Init /\ Client!Init /\ disturbed = FALSE

(* A step in which nothing goes wrong.  It may take the time of a          *)
(* challenge beyond the time to live all the same.                         *)
Calmly == disturbed' = (disturbed \/ \E c \in Requests : age'[c] = "expired")

StartCall(s) == Client!Start(s) /\ UNCHANGED vars

(* A request reaches a server, even when its sender no longer waits.       *)
Deliver(s) ==
    /\ \E i \in Instances :
           \/ stage[s] # "idle" /\ Receive(First(s), i, ChallengeRequest(s))
           \/ reply[s] # None /\ Receive(Second(s), i, ResponseRequest(s))
    /\ UNCHANGED clientVars

Serve(r) == Handle(r) /\ UNCHANGED clientVars

Reads(s, r) ==
    /\ handler[r] \in Answers
    /\ Client!ReceiveChallenge(s, Body(r)) \/ Client!ReceiveResult(s, Body(r))
    /\ UNCHANGED vars

(* The answer comes, or the connection goes with the server's process.     *)
Answered(s) ==
    /\ stage[s] \in Client!Pending
    /\ \/ Reads(s, Asked(s))
       \/ handler[Asked(s)] = "lost" /\ Client!RequestError(s) /\ UNCHANGED vars

AllEnded ==
    /\ \A s \in Sessions : stage[s] \in Client!Ended
    /\ UNCHANGED allVars

(* What may go wrong in a server, its callbacks and its cache.             *)
ServerTrouble ==
    /\ \/ \E r \in Requests : AwaitRejects(r)
       \/ \E i \in Instances : ProcessExits(i)
       \/ RotateServerKey
       \/ \E c \in KeyChanges : UserChanges(c[1], c[2])
       \/ CacheStep
    /\ UNCHANGED clientVars

(* What may go wrong on the way.  An answer may be handed to a call that   *)
(* did not ask for it.                                                     *)
NetworkTrouble(s) ==
    \/ \E r \in Requests \ {Asked(s)} : Reads(s, r)
    \/ Client!RequestError(s) /\ UNCHANGED vars
    \/ handler[Asked(s)] \in Answers /\ Client!ResponseCut(s) /\ UNCHANGED vars
    \/ Client!ConnectionStalls(s) /\ UNCHANGED vars

Calm ==
    \/ \E s \in Sessions : StartCall(s) \/ Deliver(s) \/ Answered(s)
    \/ \E r \in Requests : Serve(r)

Trouble == ServerTrouble \/ \E s \in Sessions : NetworkTrouble(s)

HandshakeNext ==
    \/ Calm /\ Calmly
    \/ Trouble /\ disturbed' = TRUE
    \/ AllEnded

HandshakeSpec == HandshakeInit /\ [][HandshakeNext]_allVars

(* Requests and answers are delivered as long as the connection has not    *)
(* stalled, promises settle and a process with an unhandled rejection      *)
(* exits.                                                                  *)
Progress ==
    /\ \A s \in Sessions :
           /\ WF_allVars(stage[s] \in Client!Pending /\ Deliver(s) /\ Calmly)
           /\ WF_allVars(Answered(s) /\ Calmly)
    /\ \A r \in Requests : WF_allVars(Serve(r) /\ Calmly)
    /\ \A i \in Instances :
           WF_allVars(ProcessExits(i) /\ UNCHANGED clientVars /\ disturbed' = TRUE)

-------------------------------------------------------------------------------
HandshakeTypeOK == TypeOK /\ Client!TypeOK /\ disturbed \in BOOLEAN

(* Both sides are in the same handshake: a client answers only the         *)
(* challenge that was issued for its own nonce, with both parts signed by  *)
(* the key it trusts, although the server's key may change between them;   *)
(* and when the server reports success for its response, what it took out  *)
(* of the cache is that challenge, however the calls and their answers are *)
(* mixed (HandshakeClient.ts:58-82, MutualKeyChallengeStrategy.ts:54-68,   *)
(* MessageVerifier.ts:86-93).                                              *)
SidesAgree ==
    \A s \in Sessions :
        /\ reply[s] # None =>
               /\ reply[s] = First(s)
               /\ handler[First(s)] = "challenged"
               /\ signers[First(s)] = <<ServerKeyOf[s], ServerKeyOf[s]>>
               /\ publicKey[First(s)] = ClientKeyOf[s]
        /\ handler[Second(s)] = "success" => got[Second(s)] = First(s)

(* The handshake as the README describes it, seen in what the two sides    *)
(* keep: a client trusts the server once it answers, and the server claims *)
(* a challenge with challengeCache.get and accepts with success().         *)
pending == [k \in Caches \X UserIds |-> IF store[k] = None THEN None ELSE store[k][1]]
offered == {s \in Sessions : age[First(s)] # "unset"}
trusted == {s \in Sessions : reply[s] # None}
claimed == {s \in Sessions : got[Second(s)] = First(s)}
accepted == {s \in Sessions : handler[Second(s)] = "success"}

Promise == INSTANCE MutualAuthentication WITH Users <- UserIds, Places <- Caches

(* Through retries, overlaps, crashes and mixed-up answers the code keeps  *)
(* to that order: trust before claim before acceptance, each session with  *)
(* a challenge of its own (HandshakeClient.ts:45-95 with                   *)
(* MutualKeyChallengeStrategy.ts:41-93).                                   *)
IsMutualAuthentication == Promise!Spec

(* When nothing goes wrong, the only thing that keeps the server from      *)
(* accepting the response of a client it has challenged is another         *)
(* handshake of the same user: its challenge has replaced this one, or its *)
(* response has used this one up (MutualKeyChallengeStrategy.ts:43-66,     *)
(* 89).  This takes one cache behind all instances.                        *)
RefusedOnlyForAnOverlap ==
    \A s \in Sessions :
        ~disturbed /\ handler[Second(s)] \in Errors \cup {"threw", "lost"} =>
            \E t \in Sessions \ {s} :
                /\ UserOf[t] = UserOf[s]
                /\ age[First(t)] # "unset"
                /\ First(s) \in returned => got[Second(t)] = First(s)

(* An answer that is not a challenge ends the client's process with all    *)
(* its calls, but the overlap of handshakes never brings one about: when   *)
(* nothing goes wrong, it takes a call in that process with a key its user *)
(* has not registered (HandshakeClient.ts:117-120,                         *)
(* MutualKeyChallengeStrategy.ts:71-104).                                  *)
OnlyAWrongKeyCrashesTheClient ==
    \A s \in Sessions :
        ~disturbed /\ stage[s] = "crashed" =>
            \E t \in Sessions : HostOf[t] = HostOf[s] /\ PublicKeyOf[UserOf[t]] # ClientKeyOf[t]
===============================================================================
