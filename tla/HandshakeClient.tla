---------------------------- MODULE HandshakeClient ----------------------------
(***************************************************************************)
(* lib/client/src/HandshakeClient.ts: calls of request(), the client's     *)
(* half of the handshake.  The actions are the turns of the event loop a   *)
(* call takes part in; what it is sent comes from outside, see Handshake.  *)
(*                                                                         *)
(* A call is known by its nonce.  The body of an answer is a record: a     *)
(* server challenge, or something else that is not one.                    *)
(***************************************************************************)
CONSTANTS
    Sessions,     \* bound: the calls of request(), each with its own nonce
    HostOf,       \* the process that makes a call
    ClientKeyOf,  \* the argument clientKey of a call
    ServerKeyOf,  \* the argument serverKey of a call: the key it trusts
    Challenges,   \* the server's nonces
    None

VARIABLES
    stage,   \* stage[s]: how far the call is
    reply,   \* reply[s]: the server's nonce the call has accepted to answer
    result   \* result[s]: the body the promise is resolved with

clientVars == <<stage, reply, result>>

Pending == {"challenging", "responding"}

(* "crashed": the process has ended with an uncaught exception; "hung":    *)
(* the connection is gone, and no event will settle the promise;           *)
(* "stalled": the connection is open, and nothing will come in any more.   *)
Ended == {"resolved", "rejected", "crashed", "hung", "stalled"}

BodyKinds == {"challenge", "text", "token"}

Reach(s, st) == stage' = [stage EXCEPT ![s] = st]

(* The nonce comes back as it was sent.  Fault: not compared.              *)
AnyNonce(s, body) == TRUE
EchoesNonce(s, body) == body.nonce = s

(* The checks before the response is sent: both signatures are by the key  *)
(* the caller gave, and privateDecrypt succeeds.  Each throws otherwise.   *)
(* Fault: the signature of the server's own nonce is not verified.         *)
FirstSignatureOnly(s, body) ==
    /\ EchoesNonce(s, body)
    /\ body.signers[1] = ServerKeyOf[s]
    /\ body.encryptedFor = ClientKeyOf[s]
Genuine(s, body) ==
    /\ EchoesNonce(s, body)
    /\ body.signers = <<ServerKeyOf[s], ServerKeyOf[s]>>
    /\ body.encryptedFor = ClientKeyOf[s]

(* What the response repeats.  Fault: the wrong one of the two messages.   *)
ClientRequested(body) == body.nonce
ServerRequested(body) == body.challenge

-------------------------------------------------------------------------------
Init ==
    /\ stage = [s \in Sessions |-> "idle"]
    /\ reply = [s \in Sessions |-> None]
    /\ result = [s \in Sessions |-> None]

(* request() up to the first await.                                        *)
Start(s) ==
    /\ stage[s] = "idle"
    /\ Reach(s, "challenging")
    /\ UNCHANGED <<reply, result>>

(* The first response has ended.  Its status is not looked at.  When the   *)
(* body is not a server challenge extractResponseFunc throws inside the    *)
(* 'end' listener, where nothing catches it: the process ends and every    *)
(* call it was making with it.                                             *)
ReceiveChallenge(s, body) ==
    /\ stage[s] = "challenging"
    /\ \/ /\ body.kind # "challenge"
          /\ stage' = [t \in Sessions |->
                 IF HostOf[t] = HostOf[s] /\ stage[t] \in Pending \cup {"stalled"}
                 THEN "crashed" ELSE stage[t]]
          /\ UNCHANGED reply
       \/ /\ body.kind = "challenge" /\ ~Genuine(s, body)
          /\ Reach(s, "rejected")
          /\ UNCHANGED reply
       \/ /\ body.kind = "challenge" /\ Genuine(s, body)
          /\ Reach(s, "responding")
          /\ reply' = [reply EXCEPT ![s] = ServerRequested(body)]
    /\ UNCHANGED result

(* The second response has ended: the promise is resolved with its body,   *)
(* whatever it says.                                                       *)
ReceiveResult(s, body) ==
    /\ stage[s] = "responding"
    /\ Reach(s, "resolved")
    /\ result' = [result EXCEPT ![s] = body]
    /\ UNCHANGED reply

(* The request's 'error' event: no connection, or one that was reset       *)
(* before a response came.  Fault: the listener does not reject.           *)
ErrorNotPassedOn(s) ==
    /\ stage[s] \in Pending
    /\ Reach(s, "hung")
    /\ UNCHANGED <<reply, result>>
RequestError(s) ==
    /\ stage[s] \in Pending
    /\ Reach(s, "rejected")
    /\ UNCHANGED <<reply, result>>

(* The connection is closed while the response comes in: 'end' is not      *)
(* emitted, and no listener is there for what is.                          *)
ResponseCut(s) ==
    /\ stage[s] \in Pending
    /\ Reach(s, "hung")
    /\ UNCHANGED <<reply, result>>

(* The peer goes silent, or the way to it, and the connection stays open.  *)
(* There is no timeout.                                                    *)
ConnectionStalls(s) ==
    /\ stage[s] \in Pending
    /\ Reach(s, "stalled")
    /\ UNCHANGED <<reply, result>>

-------------------------------------------------------------------------------
TypeOK ==
    /\ stage \in [Sessions -> {"idle"} \cup Pending \cup Ended]
    /\ reply \in [Sessions -> Challenges \cup {None}]
    /\ DOMAIN result = Sessions
    /\ \A s \in Sessions : result[s] # None => result[s].kind \in BodyKinds
===============================================================================
