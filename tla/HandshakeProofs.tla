---------------------------- MODULE HandshakeProofs ----------------------------
(***************************************************************************)
(* Theorems about Handshake, for every number of calls, processes, users   *)
(* and keys, and whatever goes wrong: the two sides agree, and together    *)
(* they are a MutualAuthentication.                                        *)
(* With one cache, and when nothing goes wrong, only overlapping calls of  *)
(* one user keep each other from being accepted.                           *)
(***************************************************************************)
EXTENDS Handshake, StrategyProofs

(* A request that has reached a server is one its call has sent.           *)
AsSent ==
    \A s \in Sessions :
        /\ handler[First(s)] # "idle" => msg[First(s)] = ChallengeRequest(s)
        /\ handler[Second(s)] # "idle" => msg[Second(s)] = ResponseRequest(s) /\ reply[s] # None

(* What a client that answers has verified.                                *)
Verifies(s) ==
    /\ stage[s] \notin {"idle", "challenging"}
    /\ reply[s] = First(s)
    /\ handler[First(s)] = "challenged"
    /\ signers[First(s)] = <<ServerKeyOf[s], ServerKeyOf[s]>>
    /\ publicKey[First(s)] = ClientKeyOf[s]

RepliesAreVerified == \A s \in Sessions : reply[s] # None => Verifies(s)

(* The challenge of a request that got one has been in the cache.          *)
ChallengesWereSet ==
    \A r \in Requests : handler[r] \in {"set", "challenged"} => age[r] # "unset"

(* The inductive invariant.                                                *)
HandshakeInv ==
    /\ StrategyInv
    /\ HandshakeTypeOK
    /\ AsSent
    /\ RepliesAreVerified
    /\ ChallengesWereSet

-------------------------------------------------------------------------------
(* The two requests of a call are requests, and no two of them the same.   *)
LEMMA RequestsOfCalls ==
    /\ \A s \in Sessions : First(s) \in Requests /\ Second(s) \in Requests
    /\ \A r \in Requests : \E s \in Sessions : r = First(s) \/ r = Second(s)
    /\ \A s, t \in Sessions : First(s) # Second(t)
    /\ \A s, t \in Sessions : First(s) = First(t) \/ Second(s) = Second(t) => s = t
    /\ \A s \in Sessions : First(s)[1] = s /\ First(s) # None
BY HandshakeAssumption, StrategyAssumption DEF First, Second

LEMMA HandshakeInvInit == HandshakeInit => HandshakeInv
<1> SUFFICES ASSUME HandshakeInit PROVE HandshakeInv
  OBVIOUS
<1>1. StrategyInv
  BY StrategyInvInit DEF HandshakeInit
<1>2. HandshakeTypeOK
  BY <1>1 DEF HandshakeInit, HandshakeTypeOK, StrategyInv, Client!Init, Client!TypeOK
<1>3. AsSent /\ RepliesAreVerified /\ ChallengesWereSet
  BY RequestsOfCalls DEF HandshakeInit, Init, Client!Init, AsSent, RepliesAreVerified, ChallengesWereSet
<1> QED BY <1>1, <1>2, <1>3 DEF HandshakeInv

(* A step of the server that receives no request preserves the invariant   *)
(* when it takes back no answer and stores what it reports as stored.      *)
LEMMA ServerStep ==
    ASSUME HandshakeInv, StrategyInv', UNCHANGED <<msg, clientVars>>, disturbed' \in BOOLEAN,
           \A r \in Requests : handler[r] = "idle" => handler'[r] = "idle",
           \A r \in Requests : handler[r] = "challenged" =>
               /\ handler'[r] = "challenged"
               /\ publicKey'[r] = publicKey[r] /\ signers'[r] = signers[r],
           \A r \in Requests : handler'[r] \in {"set", "challenged"} => age'[r] # "unset"
    PROVE  HandshakeInv'
<1> USE DEF HandshakeInv, clientVars
<1>1. HandshakeTypeOK'
  BY DEF HandshakeTypeOK, StrategyInv, Client!TypeOK
<1>2. AsSent'
  BY RequestsOfCalls DEF AsSent, ChallengeRequest, ResponseRequest
<1>3. RepliesAreVerified'
  BY RequestsOfCalls DEF RepliesAreVerified, Verifies
<1>4. ChallengesWereSet'
  BY DEF ChallengesWereSet
<1> QED BY <1>1, <1>2, <1>3, <1>4

(* Handling a request, or failing to.                                      *)
LEMMA HandleStep ==
    ASSUME HandshakeInv, NEW r \in Requests, Handle(r) \/ AwaitRejects(r),
           UNCHANGED clientVars, disturbed' \in BOOLEAN
    PROVE  HandshakeInv'
<1>1. StrategyInv'
  BY HandlerSteps, EncryptAndSetStep, VerifyAndGetStep DEF HandshakeInv, Handle
<1>2. /\ msg' = msg
      /\ handler[r] \in Awaits
      /\ \E h \in States : handler' = [handler EXCEPT ![r] = h] /\ h # "idle"
      /\ \A q \in Requests : q # r => publicKey'[q] = publicKey[q] /\ signers'[q] = signers[q]
  <2> USE DEF requestVars, userVars, Goto, Awaits, States, Answers, Errors
  <2>1. /\ publicKey \in [Requests -> ClientKeys \cup {None}]
        /\ signers \in [Requests -> (ServerKeys \cup {None}) \X (ServerKeys \cup {None})]
    BY DEF HandshakeInv, StrategyInv, TypeOK
  <2>2. CASE GetUserResult(r)
    BY <2>1, <2>2 DEF GetUserResult
  <2>3. CASE DecryptAndVerify(r)
    BY <2>3 DEF DecryptAndVerify
  <2>4. CASE Sign(r) \/ Fail(r)
    BY <2>1, <2>4 DEF Sign, Fail
  <2>5. CASE EncryptAndSet(r)
    BY <2>1, <2>5 DEF EncryptAndSet
  <2>6. CASE VerifyAndGet(r)
    BY <2>6 DEF VerifyAndGet
  <2>7. CASE Compare(r)
    BY <2>7 DEF Compare
  <2>8. CASE AwaitRejects(r)
    BY <2>8 DEF AwaitRejects
  <2> QED BY <2>2, <2>3, <2>4, <2>5, <2>6, <2>7, <2>8 DEF Handle
<1>3. handler \in [Requests -> States] /\ age \in [Requests -> Cache!Ages]
  BY DEF HandshakeInv, StrategyInv, TypeOK
<1>4. \A q \in Requests : handler'[q] \in {"set", "challenged"} => age'[q] # "unset"
  <2>1. CASE EncryptAndSet(r)
    <3>1. /\ handler' = [handler EXCEPT ![r] = "set"]
          /\ \E a \in Cache!Ages \ {"unset"} : age' = [age EXCEPT ![r] = a]
      BY <2>1 DEF EncryptAndSet, Goto, Cache!Set
    <3> QED BY <1>3, <3>1 DEF HandshakeInv, ChallengesWereSet
  <2>2. CASE Fail(r)
    BY <1>3, <2>2 DEF HandshakeInv, ChallengesWereSet, Fail, Goto, cacheVars
  <2>3. CASE ~EncryptAndSet(r) /\ ~Fail(r)
    <3>1. age' = age
      BY <2>3 DEF Handle, GetUserResult, DecryptAndVerify, Sign, VerifyAndGet, Compare, AwaitRejects,
                  Cache!Get, cacheVars
    <3>2. handler'[r] \notin {"set", "challenged"}
      BY <1>3, <2>3 DEF Handle, GetUserResult, DecryptAndVerify, Sign, VerifyAndGet, Compare,
                        AwaitRejects, Goto
    <3> QED BY <1>2, <1>3, <3>1, <3>2 DEF HandshakeInv, ChallengesWereSet
  <2> QED BY <2>1, <2>2, <2>3
<1> QED BY <1>1, <1>2, <1>3, <1>4, ServerStep DEF Awaits

(* The age of a challenge begins when it is set, and not before.           *)
LEMMA AgesStart ==
    ASSUME TypeOK, CacheStep \/ \E i \in Instances : ProcessExits(i)
    PROVE  \A r \in Requests : age'[r] = "unset" <=> age[r] = "unset"
<1>1. age' = age \/ \E S : Cache!GrowOlder(S)
  <2>1. CASE CacheStep
    <3>1. PICK k \in Caches \X UserIds :
              Cache!GrowOlder({store[k]}) \/ Cache!Forget(k) \/ Cache!Lose({k})
      BY <2>1 DEF CacheStep
    <3> QED BY <3>1 DEF Cache!Forget, Cache!Lose
  <2>2. CASE ~CacheStep
    BY <2>2 DEF ProcessExits, cacheVars, Cache!Lose
  <2> QED BY <2>1, <2>2
<1>2. ASSUME NEW S, Cache!GrowOlder(S), NEW r \in Requests
      PROVE  age'[r] = "unset" <=> age[r] = "unset"
  <2>1. age'[r] = age[r] \/ age'[r] = Cache!Older(age[r])
    BY <1>2 DEF Cache!GrowOlder
  <2>2. age[r] \in {"unset", "fresh", "due", "expired"}
    BY DEF Cache!Ages, TypeOK
  <2> QED BY <2>1, <2>2 DEF Cache!Older
<1> QED BY <1>1, <1>2

(* What happens to a server of itself.                                     *)
LEMMA EnvironmentStep ==
    ASSUME HandshakeInv, UNCHANGED clientVars, disturbed' \in BOOLEAN,
           \/ RotateServerKey \/ CacheStep
           \/ \E i \in Instances : ProcessExits(i)
           \/ \E c \in KeyChanges : UserChanges(c[1], c[2])
    PROVE  HandshakeInv'
<1>1. StrategyInv'
  BY EnvironmentSteps DEF HandshakeInv
<1>2. UNCHANGED <<msg, publicKey, signers>>
  BY DEF RotateServerKey, CacheStep, ProcessExits, UserChanges, requestVars, userVars
<1>3. handler \in [Requests -> States] /\ age \in [Requests -> Cache!Ages]
  BY DEF HandshakeInv, StrategyInv, TypeOK
<1>4. \A r \in Requests :
          \/ handler'[r] = handler[r]
          \/ handler[r] \in Awaits \cup {"threw"} /\ handler'[r] = "lost"
  <2>1. CASE \E i \in Instances : ProcessExits(i)
    <3>1. PICK i \in Instances :
              handler' = [r \in Requests |->
                  IF at[r] = i /\ handler[r] \in Awaits \cup {"threw"} THEN "lost" ELSE handler[r]]
      BY <2>1 DEF ProcessExits
    <3> QED BY <1>3, <3>1
  <2>2. CASE RotateServerKey \/ CacheStep \/ \E c \in KeyChanges : UserChanges(c[1], c[2])
    <3>1. handler' = handler
      BY <2>2 DEF RotateServerKey, CacheStep, UserChanges
    <3> QED BY <3>1
  <2> QED BY <2>1, <2>2
<1>5. \A r \in Requests : age[r] # "unset" => age'[r] # "unset"
  <2>1. CASE CacheStep \/ \E i \in Instances : ProcessExits(i)
    BY <2>1, AgesStart DEF HandshakeInv, StrategyInv
  <2>2. CASE RotateServerKey \/ \E c \in KeyChanges : UserChanges(c[1], c[2])
    BY <2>2 DEF RotateServerKey, UserChanges, cacheVars
  <2> QED BY <2>1, <2>2
<1> QED BY <1>1, <1>2, <1>4, <1>5, ServerStep DEF Awaits, HandshakeInv, ChallengesWereSet

(* A request of a call arrives.                                            *)
LEMMA DeliverStep ==
    ASSUME HandshakeInv, NEW s \in Sessions, Deliver(s), disturbed' \in BOOLEAN
    PROVE  HandshakeInv'
<1> USE RequestsOfCalls DEF HandshakeInv, clientVars
<1> DEFINE FromTheCall(r, i, m) ==
              /\ Receive(r, i, m)
              /\ \/ r = First(s) /\ m = ChallengeRequest(s)
                 \/ r = Second(s) /\ m = ResponseRequest(s) /\ reply[s] # None
<1>0. PICK i \in Instances, r \in Requests : \E m : FromTheCall(r, i, m)
  BY DEF Deliver
<1>1. PICK m : FromTheCall(r, i, m)
  BY <1>0
<1>2. m \in Messages /\ m.kind # "malformed" /\ m.userId \in UserIds
  <2>1. reply[s] \in Requests \cup {None}
    BY DEF HandshakeTypeOK, Client!TypeOK
  <2> QED BY <1>1, <2>1, HandshakeAssumption DEF Messages, ChallengeRequest, ResponseRequest
<1>3. StrategyInv'
  BY <1>1, <1>2, ReceiveStep
<1>4. /\ handler[r] = "idle" /\ handler' = [handler EXCEPT ![r] = "getUserResult"]
      /\ msg' = [msg EXCEPT ![r] = m]
      /\ UNCHANGED <<publicKey, signers, age>> /\ UNCHANGED clientVars
  BY <1>1, <1>2 DEF Receive, Goto, cacheVars, Deliver
<1>5. \A q \in Requests : q # r => handler'[q] = handler[q] /\ msg'[q] = msg[q]
  BY <1>4 DEF StrategyInv, TypeOK
<1>6. handler'[r] = "getUserResult" /\ msg'[r] = m
  BY <1>4 DEF StrategyInv, TypeOK
<1>7. HandshakeTypeOK'
  BY <1>3, <1>4 DEF HandshakeTypeOK, StrategyInv, Client!TypeOK
<1>8. AsSent'
  <2> SUFFICES ASSUME NEW t \in Sessions
               PROVE  /\ handler'[First(t)] # "idle" => msg'[First(t)] = ChallengeRequest(t)
                      /\ handler'[Second(t)] # "idle" =>
                             msg'[Second(t)] = ResponseRequest(t) /\ reply[t] # None
    BY <1>4 DEF AsSent, ChallengeRequest, ResponseRequest
  <2> QED BY <1>1, <1>5, <1>6 DEF AsSent
<1>9. RepliesAreVerified'
  BY <1>4, <1>5 DEF RepliesAreVerified, Verifies
<1>10. ChallengesWereSet'
  BY <1>4, <1>5, <1>6 DEF ChallengesWereSet
<1> QED BY <1>3, <1>7, <1>8, <1>9, <1>10

(* A genuine challenge that a call reads is the one issued for its nonce.  *)
LEMMA GenuineIsForTheCall ==
    ASSUME HandshakeInv, NEW s \in Sessions, NEW r \in Requests, handler[r] \in Answers,
           Body(r).kind = "challenge", Client!Genuine(s, Body(r))
    PROVE  /\ r = First(s) /\ handler[r] = "challenged" /\ publicKey[r] = ClientKeyOf[s]
           /\ signers[r] = <<ServerKeyOf[s], ServerKeyOf[s]>>
           /\ Client!ServerRequested(Body(r)) = r
<1>1. handler[r] = "challenged"
  BY DEF Body, Answers, Errors
<1>2. Body(r) = [kind |-> "challenge", nonce |-> msg[r].nonce[1], signers |-> signers[r],
                 encryptedFor |-> publicKey[r], challenge |-> r]
  BY <1>1 DEF Body, Errors
<1>3. /\ msg[r].nonce[1] = s /\ publicKey[r] = ClientKeyOf[s]
      /\ signers[r] = <<ServerKeyOf[s], ServerKeyOf[s]>>
  BY <1>2 DEF Client!Genuine, Client!EchoesNonce
<1>4. PICK t \in Sessions : r = First(t) \/ r = Second(t)
  BY RequestsOfCalls
<1>5. CASE r = First(t)
  <2>1. msg[r] = ChallengeRequest(t)
    BY <1>1, <1>4, <1>5 DEF HandshakeInv, AsSent
  <2>2. msg[r].nonce = First(t)
    BY <2>1 DEF ChallengeRequest
  <2> QED BY <1>1, <1>2, <1>3, <1>5, <2>2, RequestsOfCalls DEF Client!ServerRequested
<1>6. CASE r = Second(t)
  <2>1. msg[r] = ResponseRequest(t)
    BY <1>1, <1>4, <1>6 DEF HandshakeInv, AsSent
  <2>2. msg[r].kind = "response"
    BY <2>1 DEF ResponseRequest
  <2> QED BY <1>1, <2>2 DEF HandshakeInv, StrategyInv, HandlersInOrder
<1> QED BY <1>4, <1>5, <1>6

(* A call starts, reads an answer, or loses its connection.                *)
LEMMA ClientStep ==
    ASSUME HandshakeInv, NEW s \in Sessions, UNCHANGED vars, disturbed' \in BOOLEAN,
           \/ Client!Start(s) \/ Client!RequestError(s) \/ Client!ResponseCut(s)
           \/ Client!ConnectionStalls(s)
           \/ \E r \in Requests : Reads(s, r)
    PROVE  HandshakeInv'
<1> USE RequestsOfCalls DEF HandshakeInv, vars, requestVars, userVars, cacheVars
<1>1. StrategyInv'
  BY StrategyInvStep
<1>2. /\ stage \in [Sessions -> {"idle"} \cup Client!Pending \cup Client!Ended]
      /\ reply \in [Sessions -> Requests \cup {None}]
  BY DEF HandshakeTypeOK, Client!TypeOK
<1>3. CASE \/ Client!Start(s) \/ Client!RequestError(s) \/ Client!ResponseCut(s)
           \/ Client!ConnectionStalls(s)
  <2>1. PICK e \in {"challenging", "rejected", "hung", "stalled"} :
            /\ e = "challenging" => stage[s] = "idle"
            /\ stage' = [stage EXCEPT ![s] = e] /\ reply' = reply /\ result' = result
    BY <1>3 DEF Client!Start, Client!RequestError, Client!ResponseCut, Client!ConnectionStalls,
                Client!Reach
  <2>2. HandshakeTypeOK'
    BY <1>1, <2>1 DEF HandshakeTypeOK, Client!TypeOK, StrategyInv, Client!Pending, Client!Ended
  <2>3. RepliesAreVerified'
    BY <1>2, <2>1 DEF RepliesAreVerified, Verifies
  <2>4. AsSent' /\ ChallengesWereSet'
    BY <2>1 DEF AsSent, ChallengeRequest, ResponseRequest, ChallengesWereSet
  <2> QED BY <1>1, <2>2, <2>3, <2>4
<1>4. ASSUME NEW r \in Requests, Reads(s, r)
      PROVE  HandshakeInv'
  <2>1. CASE Client!ReceiveResult(s, Body(r))
    <3>1. /\ stage' = [stage EXCEPT ![s] = "resolved"] /\ reply' = reply
          /\ result' = [result EXCEPT ![s] = Body(r)]
      BY <2>1 DEF Client!ReceiveResult, Client!Reach
    <3>2. Body(r).kind \in Client!BodyKinds
      BY <1>4 DEF Reads, Body, Answers, Errors, Client!BodyKinds
    <3>3. HandshakeTypeOK'
      BY <1>1, <3>1, <3>2 DEF HandshakeTypeOK, Client!TypeOK, StrategyInv, Client!Ended
    <3>4. RepliesAreVerified'
      BY <1>2, <3>1 DEF RepliesAreVerified, Verifies
    <3>5. AsSent' /\ ChallengesWereSet'
      BY <3>1 DEF AsSent, ChallengeRequest, ResponseRequest, ChallengesWereSet
    <3> QED BY <1>1, <3>3, <3>4, <3>5
  <2>2. CASE Client!ReceiveChallenge(s, Body(r)) /\ reply' = reply
    <3>1. /\ stage' \in [Sessions -> {"idle"} \cup Client!Pending \cup Client!Ended]
          /\ result' = result
          /\ \A t \in Sessions : reply[t] # None => stage'[t] \notin {"idle", "challenging"}
      <4>1. \/ stage' = [t \in Sessions |->
                    IF HostOf[t] = HostOf[s] /\ stage[t] \in Client!Pending \cup {"stalled"}
                    THEN "crashed" ELSE stage[t]]
            \/ \E e \in {"rejected", "responding"} : stage' = [stage EXCEPT ![s] = e]
        BY <2>2 DEF Client!ReceiveChallenge, Client!Reach
      <4>2. \A t \in Sessions : reply[t] # None => stage[t] \notin {"idle", "challenging"}
        BY DEF RepliesAreVerified, Verifies
      <4>3. result' = result
        BY <2>2 DEF Client!ReceiveChallenge
      <4> QED BY <1>2, <4>1, <4>2, <4>3 DEF Client!Pending, Client!Ended
    <3>2. HandshakeTypeOK'
      BY <1>1, <2>2, <3>1 DEF HandshakeTypeOK, Client!TypeOK, StrategyInv
    <3>3. RepliesAreVerified'
      BY <2>2, <3>1 DEF RepliesAreVerified, Verifies
    <3>4. AsSent' /\ ChallengesWereSet'
      BY <2>2 DEF AsSent, ChallengeRequest, ResponseRequest, ChallengesWereSet
    <3> QED BY <1>1, <3>2, <3>3, <3>4
  <2>3. CASE Client!ReceiveChallenge(s, Body(r)) /\ reply' # reply
    <3>1. /\ stage[s] = "challenging" /\ Body(r).kind = "challenge" /\ Client!Genuine(s, Body(r))
          /\ stage' = [stage EXCEPT ![s] = "responding"]
          /\ reply' = [reply EXCEPT ![s] = Client!ServerRequested(Body(r))]
          /\ result' = result
      BY <2>3 DEF Client!ReceiveChallenge, Client!Reach
    <3>2. /\ r = First(s) /\ handler[r] = "challenged" /\ publicKey[r] = ClientKeyOf[s]
          /\ signers[r] = <<ServerKeyOf[s], ServerKeyOf[s]>>
          /\ reply' = [reply EXCEPT ![s] = r]
      BY <1>4, <3>1, GenuineIsForTheCall DEF Reads
    <3>3. HandshakeTypeOK'
      BY <1>1, <1>2, <3>1, <3>2 DEF HandshakeTypeOK, Client!TypeOK, StrategyInv, Client!Pending
    <3>4. RepliesAreVerified'
      BY <1>2, <3>1, <3>2 DEF RepliesAreVerified, Verifies
    <3>5. reply[s] = None
      BY <3>1 DEF RepliesAreVerified, Verifies
    <3>6. AsSent' /\ ChallengesWereSet'
      BY <1>2, <3>2, <3>5 DEF AsSent, ChallengeRequest, ResponseRequest, ChallengesWereSet
    <3> QED BY <1>1, <3>3, <3>4, <3>6
  <2> QED BY <1>4, <2>1, <2>2, <2>3 DEF Reads
<1> QED BY <1>3, <1>4

(* Every step preserves the invariant.                                     *)
LEMMA HandshakeInvStep == HandshakeInv /\ [HandshakeNext]_allVars => HandshakeInv'
<1> SUFFICES ASSUME HandshakeInv, [HandshakeNext]_allVars
             PROVE  HandshakeInv'
  OBVIOUS
<1>1. disturbed \in BOOLEAN
  BY DEF HandshakeInv, HandshakeTypeOK
<1>2. CASE UNCHANGED allVars
  <2>1. UNCHANGED vars /\ UNCHANGED clientVars /\ disturbed' = disturbed
    BY <1>2 DEF allVars
  <2>2. StrategyInv'
    BY <2>1, StrategyInvStep DEF HandshakeInv
  <2> QED BY <1>1, <2>1, <2>2, ServerStep
             DEF vars, requestVars, userVars, cacheVars, HandshakeInv, ChallengesWereSet
<1>3. CASE Calm /\ Calmly
  <2>1. disturbed' \in BOOLEAN
    BY <1>1, <1>3 DEF Calmly
  <2>2. ASSUME NEW s \in Sessions, StartCall(s) \/ Answered(s)
        PROVE  HandshakeInv'
    <3>1. StartCall(s) \/ Reads(s, Asked(s)) \/ (Client!RequestError(s) /\ UNCHANGED vars)
      BY <2>2 DEF Answered
    <3>2. Asked(s) \in Requests
      BY RequestsOfCalls DEF Asked
    <3>3. UNCHANGED vars
      BY <3>1 DEF StartCall, Reads
    <3>4. Client!Start(s) \/ Client!RequestError(s) \/ \E r \in Requests : Reads(s, r)
      BY <3>1, <3>2 DEF StartCall
    <3> QED BY <2>1, <3>3, <3>4, ClientStep
  <2>3. ASSUME NEW s \in Sessions, Deliver(s)
        PROVE  HandshakeInv'
    BY <2>1, <2>3, DeliverStep
  <2>4. ASSUME NEW r \in Requests, Serve(r)
        PROVE  HandshakeInv'
    BY <2>1, <2>4, HandleStep DEF Serve
  <2> QED BY <1>3, <2>2, <2>3, <2>4 DEF Calm
<1>4. CASE Trouble /\ disturbed' = TRUE
  <2>1. CASE ServerTrouble
    BY <1>4, <2>1, HandleStep, EnvironmentStep DEF ServerTrouble
  <2>2. ASSUME NEW s \in Sessions, NetworkTrouble(s)
        PROVE  HandshakeInv'
    BY <1>4, <2>2, ClientStep DEF NetworkTrouble, Reads
  <2> QED BY <1>4, <2>1, <2>2 DEF Trouble
<1> QED BY <1>2, <1>3, <1>4 DEF HandshakeNext, AllEnded

THEOREM HandshakeInvariant == HandshakeSpec => []HandshakeInv
BY HandshakeInvInit, HandshakeInvStep, PTL DEF HandshakeSpec

(* The variables of both sides keep their types.                           *)
THEOREM HandshakeTypeCorrect == HandshakeSpec => []HandshakeTypeOK
<1>1. HandshakeInv => HandshakeTypeOK
  BY DEF HandshakeInv
<1> QED BY <1>1, HandshakeInvariant, PTL

(* A client answers only the challenge for its own nonce, signed in both   *)
(* parts by the key it trusts, and a response                              *)
(* succeeds only with that challenge, however answers are mixed up.        *)
THEOREM BothSidesAgree == HandshakeSpec => []SidesAgree
<1>1. HandshakeInv => SidesAgree
  <2> SUFFICES ASSUME HandshakeInv, NEW s \in Sessions
               PROVE  /\ reply[s] # None => Verifies(s)
                      /\ handler[Second(s)] = "success" => got[Second(s)] = First(s)
    BY DEF SidesAgree, Verifies
  <2>1. reply[s] # None => Verifies(s)
    BY DEF HandshakeInv, RepliesAreVerified
  <2>2. ASSUME handler[Second(s)] = "success"
        PROVE  got[Second(s)] = First(s)
    <3>1. msg[Second(s)] = ResponseRequest(s) /\ reply[s] = First(s)
      BY <2>1, <2>2 DEF HandshakeInv, AsSent, Verifies
    <3>2. msg[Second(s)].nonce = First(s)
      BY <3>1 DEF ResponseRequest
    <3> QED BY <2>2, <3>2, RequestsOfCalls DEF HandshakeInv, StrategyInv, SuccessIsTheAnswer
  <2> QED BY <2>1, <2>2
<1> QED BY <1>1, HandshakeInvariant, PTL

-------------------------------------------------------------------------------
(* The refinement.                                                         *)
LEMMA PromiseInit == HandshakeInit => Promise!Init
<1> SUFFICES ASSUME HandshakeInit PROVE Promise!Init
  OBVIOUS
<1>1. pending = [k \in Caches \X UserIds |-> None]
  BY DEF HandshakeInit, Init, Cache!Init, pending
<1>2. offered = {} /\ trusted = {} /\ claimed = {} /\ accepted = {}
  BY RequestsOfCalls DEF HandshakeInit, Init, Cache!Init, Client!Init, offered, trusted, claimed, accepted
<1> QED BY <1>1, <1>2 DEF Promise!Init, Promise!Slots

(* What is stored for a user is the challenge of one of the user's calls.  *)
LEMMA StoredForASession ==
    ASSUME HandshakeInv, NEW k \in Caches \X UserIds, store[k] # None
    PROVE  \E s \in Sessions : store[k] = First(s) /\ pending[k] = s /\ k[2] = UserOf[s]
<1>1. Kept(k) /\ store[k] \in Requests
  BY DEF HandshakeInv, StrategyInv, StoredAreKept, CacheKeys, TypeOK
<1>2. PICK s \in Sessions : store[k] = First(s) \/ store[k] = Second(s)
  BY <1>1, RequestsOfCalls
<1>3. handler[store[k]] # "idle" /\ msg[store[k]].kind = "challenge"
  BY <1>1 DEF Kept, Issued
<1>4. store[k] = First(s)
  <2>1. SUFFICES ASSUME store[k] = Second(s) PROVE FALSE
    BY <1>2
  <2>2. msg[Second(s)] = ResponseRequest(s)
    BY <1>3, <2>1 DEF HandshakeInv, AsSent
  <2> QED BY <1>3, <2>1, <2>2 DEF ResponseRequest
<1>5. msg[First(s)] = ChallengeRequest(s)
  BY <1>3, <1>4 DEF HandshakeInv, AsSent
<1>6. k[2] = UserOf[s]
  BY <1>1, <1>4, <1>5 DEF Kept, CacheKey, ChallengeRequest
<1> QED BY <1>4, <1>6, RequestsOfCalls DEF pending

(* A step that leaves the two sides' agreement alone may drop challenges.  *)
LEMMA DropOrStutter ==
    ASSUME HandshakeInv, UNCHANGED <<offered, trusted, claimed, accepted>>,
           \A k \in Caches \X UserIds : store'[k] = store[k] \/ store'[k] = None
    PROVE  Promise!Next
<1> DEFINE S == {k \in Caches \X UserIds : store'[k] # store[k]}
<1>1. pending' = [k \in Caches \X UserIds |-> IF k \in S THEN None ELSE pending[k]]
  BY DEF pending, Caches
<1>2. Promise!Drop(S)
  BY <1>1 DEF Promise!Drop, Promise!Slots
<1>3. S \in SUBSET Promise!Slots
  BY DEF Promise!Slots
<1> QED BY <1>2, <1>3 DEF Promise!Next

(* The client's steps: one of them is Trust.                               *)
LEMMA ClientPromise ==
    ASSUME HandshakeInv, NEW s \in Sessions, UNCHANGED vars,
           \/ Client!Start(s) \/ Client!RequestError(s) \/ Client!ResponseCut(s)
           \/ Client!ConnectionStalls(s)
           \/ \E r \in Requests : Reads(s, r)
    PROVE  Promise!Next
<1>1. UNCHANGED <<handler, got, store, age, pending, offered, claimed, accepted>>
  BY DEF vars, requestVars, cacheVars, pending, offered, claimed, accepted, Caches
<1>2. CASE reply' = reply
  BY <1>1, <1>2, DropOrStutter DEF trusted
<1>3. CASE reply' # reply
  <2>1. PICK r \in Requests : Reads(s, r)
    BY <1>3 DEF Client!Start, Client!RequestError, Client!ResponseCut, Client!ConnectionStalls
  <2>2. /\ stage[s] = "challenging" /\ Body(r).kind = "challenge" /\ Client!Genuine(s, Body(r))
        /\ reply' = [reply EXCEPT ![s] = Client!ServerRequested(Body(r))]
    BY <1>3, <2>1 DEF Reads, Client!ReceiveChallenge, Client!ReceiveResult
  <2>3. r = First(s) /\ handler[r] = "challenged" /\ reply' = [reply EXCEPT ![s] = r]
    BY <2>1, <2>2, GenuineIsForTheCall DEF Reads
  <2>4. reply[s] = None /\ reply \in [Sessions -> Requests \cup {None}]
    BY <2>2 DEF HandshakeInv, RepliesAreVerified, Verifies, HandshakeTypeOK, Client!TypeOK
  <2>5. trusted' = trusted \cup {s} /\ s \notin trusted
    BY <2>3, <2>4, RequestsOfCalls DEF trusted
  <2>6. s \in offered
    BY <2>3 DEF offered, HandshakeInv, ChallengesWereSet
  <2> QED BY <1>1, <2>5, <2>6 DEF Promise!Next, Promise!Trust
<1> QED BY <1>2, <1>3

(* The step that stores a challenge is an Offer.                           *)
LEMMA EncryptAndSetPromise ==
    ASSUME HandshakeInv, NEW r \in Requests, EncryptAndSet(r), UNCHANGED clientVars
    PROVE  Promise!Next
<1> DEFINE k == CacheKey(r)
<1>1. /\ handler[r] = "encryptAndSign" /\ handler' = [handler EXCEPT ![r] = "set"]
      /\ age[r] = "unset" /\ store' = [store EXCEPT ![k] = r]
      /\ \E a \in Cache!Ages \ {"unset"} : age' = [age EXCEPT ![r] = a]
      /\ got' = got
  BY DEF EncryptAndSet, Goto, Cache!Set
<1>2. /\ handler \in [Requests -> States] /\ age \in [Requests -> Cache!Ages]
      /\ store \in [Caches \X UserIds -> Requests \cup {None}]
  BY DEF HandshakeInv, StrategyInv, TypeOK
<1>3. /\ msg[r].kind = "challenge" /\ at[r] \in Instances /\ msg[r].userId \in UserIds
  BY <1>1 DEF HandshakeInv, StrategyInv, HandlersInOrder, Awaits
<1>4. PICK s \in Sessions : r = First(s)
  <2>1. PICK s \in Sessions : r = First(s) \/ r = Second(s)
    BY RequestsOfCalls
  <2>2. r = Second(s) => msg[r] = ResponseRequest(s)
    BY <1>1 DEF HandshakeInv, AsSent
  <2> QED BY <1>3, <2>1, <2>2 DEF ResponseRequest
<1>5. msg[r].userId = UserOf[s]
  <2>1. msg[r] = ChallengeRequest(s)
    BY <1>1, <1>4 DEF HandshakeInv, AsSent
  <2> QED BY <2>1 DEF ChallengeRequest
<1>6. k = <<CacheOf(at[r]), UserOf[s]>> /\ CacheOf(at[r]) \in Caches /\ k \in Caches \X UserIds
  BY <1>3, <1>5 DEF CacheKey, CacheOf, Caches
<1>7. pending' = [pending EXCEPT ![k] = s]
  BY <1>1, <1>2, <1>4, <1>6, RequestsOfCalls DEF pending, Caches
<1>8. offered' = offered \cup {s} /\ s \notin offered
  BY <1>1, <1>2, <1>4, RequestsOfCalls DEF offered
<1>9. UNCHANGED <<trusted, claimed, accepted>>
  BY <1>1, <1>2, <1>4, RequestsOfCalls DEF trusted, claimed, accepted, clientVars
<1> QED BY <1>6, <1>7, <1>8, <1>9 DEF Promise!Next, Promise!Offer

(* The step that takes a challenge is a Claim, or a Drop when the          *)
(* challenge is not the one that is answered.                              *)
LEMMA VerifyAndGetPromise ==
    ASSUME HandshakeInv, NEW r \in Requests, VerifyAndGet(r), UNCHANGED clientVars
    PROVE  Promise!Next
<1> DEFINE k == CacheKey(r)
<1>1. /\ handler[r] = "verify" /\ age' = age
      /\ \E h \in {"unverified", "get"} : handler' = [handler EXCEPT ![r] = h]
      /\ \/ UNCHANGED <<got, store>>
         \/ got' = [got EXCEPT ![r] = Cache!ValueOf(k)] /\ store' = [store EXCEPT ![k] = None]
  BY DEF VerifyAndGet, Goto, Cache!Get, cacheVars
<1>2. /\ handler \in [Requests -> States] /\ got \in [Requests -> Requests \cup {None}]
      /\ store \in [Caches \X UserIds -> Requests \cup {None}]
  BY DEF HandshakeInv, StrategyInv, TypeOK
<1>3. UNCHANGED <<offered, trusted, accepted>>
  BY <1>1, <1>2, RequestsOfCalls DEF offered, trusted, accepted, clientVars
<1>4. \A j \in Caches \X UserIds : store'[j] = store[j] \/ store'[j] = None
  BY <1>1, <1>2
<1>5. CASE claimed' = claimed
  BY <1>3, <1>4, <1>5, DropOrStutter
<1>6. CASE claimed' # claimed
  <2>1. got' = [got EXCEPT ![r] = Cache!ValueOf(k)] /\ store' = [store EXCEPT ![k] = None]
    BY <1>1, <1>6 DEF claimed
  <2>2. got[r] = None
    BY <1>1 DEF HandshakeInv, StrategyInv, GotAreTaken, Taken
  <2>3. PICK s \in Sessions : r = Second(s) /\ got'[r] = First(s)
    BY <1>2, <1>6, <2>1, <2>2, RequestsOfCalls DEF claimed
  <2>4. store[k] = First(s)
    BY <1>2, <2>1, <2>3, RequestsOfCalls DEF Cache!ValueOf
  <2>5. msg[r] = ResponseRequest(s) /\ reply[s] # None /\ at[r] \in Instances
    BY <1>1, <2>3 DEF HandshakeInv, AsSent, StrategyInv, HandlersInOrder
  <2>6. k = <<CacheOf(at[r]), UserOf[s]>> /\ CacheOf(at[r]) \in Caches /\ k \in Caches \X UserIds
    BY <2>5, HandshakeAssumption DEF CacheKey, CacheOf, Caches, ResponseRequest
  <2>7. pending[k] = s /\ pending' = [pending EXCEPT ![k] = None]
    BY <1>2, <2>1, <2>4, <2>6, RequestsOfCalls DEF pending, Caches
  <2>8. claimed' = claimed \cup {s}
    BY <1>2, <2>1, <2>3, RequestsOfCalls DEF claimed
  <2>9. s \in trusted
    BY <2>5 DEF trusted
  <2> QED BY <1>3, <2>6, <2>7, <2>8, <2>9 DEF Promise!Next, Promise!Claim
<1> QED BY <1>5, <1>6

(* Success is an Accept.                                                   *)
LEMMA ComparePromise ==
    ASSUME HandshakeInv, HandshakeInv', NEW r \in Requests, Compare(r), UNCHANGED clientVars
    PROVE  Promise!Next
<1>1. /\ handler[r] = "get" /\ UNCHANGED <<store, age, got>>
      /\ \E h \in {"notInitiated", "incorrect", "success"} : handler' = [handler EXCEPT ![r] = h]
  BY DEF Compare, Goto, requestVars, cacheVars
<1>2. handler \in [Requests -> States]
  BY DEF HandshakeInv, StrategyInv, TypeOK
<1>3. UNCHANGED <<pending, offered, trusted, claimed>>
  BY <1>1 DEF pending, offered, trusted, claimed, clientVars, Caches
<1>4. CASE accepted' = accepted
  BY <1>1, <1>3, <1>4, DropOrStutter
<1>5. CASE accepted' # accepted
  <2>1. PICK s \in Sessions : r = Second(s) /\ handler'[r] = "success"
    BY <1>1, <1>2, <1>5, RequestsOfCalls DEF accepted
  <2>2. accepted' = accepted \cup {s} /\ s \notin accepted
    BY <1>1, <1>2, <2>1, RequestsOfCalls DEF accepted
  <2>3. msg'[r] = ResponseRequest(s)' /\ Verifies(s)'
    BY <2>1 DEF HandshakeInv, AsSent, RepliesAreVerified
  <2>4. got'[r] = First(s)
    BY <2>1, <2>3 DEF HandshakeInv, StrategyInv, SuccessIsTheAnswer, ResponseRequest, Verifies
  <2>5. s \in claimed
    BY <1>1, <2>1, <2>4 DEF claimed
  <2> QED BY <1>3, <2>2, <2>5 DEF Promise!Next, Promise!Accept
<1> QED BY <1>4, <1>5

(* Every other step on a server changes nothing of it, or drops challenges.*)
LEMMA ServerPromise ==
    ASSUME HandshakeInv, UNCHANGED clientVars,
           \/ \E s \in Sessions : Deliver(s)
           \/ \E r \in Requests : \/ GetUserResult(r) \/ DecryptAndVerify(r) \/ Sign(r)
                                  \/ Fail(r) \/ AwaitRejects(r)
           \/ RotateServerKey \/ CacheStep
           \/ \E i \in Instances : ProcessExits(i)
           \/ \E c \in KeyChanges : UserChanges(c[1], c[2])
    PROVE  Promise!Next
<1>1. /\ handler \in [Requests -> States] /\ age \in [Requests -> Cache!Ages]
      /\ store \in [Caches \X UserIds -> Requests \cup {None}]
  BY DEF HandshakeInv, StrategyInv, TypeOK
<1>2. CASE \/ \E s \in Sessions : Deliver(s)
           \/ \E r \in Requests : \/ GetUserResult(r) \/ DecryptAndVerify(r) \/ Sign(r)
                                  \/ Fail(r) \/ AwaitRejects(r)
  <2>1. PICK r \in Requests, h \in States :
            /\ handler[r] # "success" /\ h # "success"
            /\ handler' = [handler EXCEPT ![r] = h]
            /\ UNCHANGED <<got, store, age>>
    <3>1. CASE \E s \in Sessions : Deliver(s)
      <4>1. PICK r \in Requests : \E i \in Instances : \E m : Receive(r, i, m)
        BY <3>1, RequestsOfCalls DEF Deliver
      <4> QED BY <4>1 DEF Receive, Goto, cacheVars, States, Awaits, Answers, Errors
    <3>2. CASE \E r \in Requests : \/ GetUserResult(r) \/ DecryptAndVerify(r) \/ Sign(r)
                                   \/ Fail(r) \/ AwaitRejects(r)
      BY <3>2 DEF GetUserResult, DecryptAndVerify, Sign, Fail, AwaitRejects, Goto, requestVars,
                  cacheVars, States, Awaits, Answers, Errors
    <3> QED BY <1>2, <3>1, <3>2
  <2>2. UNCHANGED <<offered, trusted, claimed, accepted>>
    BY <1>1, <2>1, RequestsOfCalls DEF offered, trusted, claimed, accepted, clientVars
  <2> QED BY <2>1, <2>2, DropOrStutter
<1>3. CASE RotateServerKey \/ \E c \in KeyChanges : UserChanges(c[1], c[2])
  <2>1. UNCHANGED <<handler, got, store, age>>
    BY <1>3 DEF RotateServerKey, UserChanges, requestVars, cacheVars
  <2>2. UNCHANGED <<offered, trusted, claimed, accepted>>
    BY <2>1 DEF offered, trusted, claimed, accepted, clientVars
  <2> QED BY <2>1, <2>2, DropOrStutter
<1>4. CASE CacheStep \/ \E i \in Instances : ProcessExits(i)
  <2>1. \A k \in Caches \X UserIds : store'[k] = store[k] \/ store'[k] = None
    BY <1>4, CacheOnlyDrops DEF HandshakeInv, StrategyInv, CacheKeys
  <2>2. \A r \in Requests : age'[r] = "unset" <=> age[r] = "unset"
    BY <1>4, AgesStart DEF HandshakeInv, StrategyInv
  <2>3. \A r \in Requests : handler'[r] = "success" <=> handler[r] = "success"
    <3>1. CASE CacheStep
      BY <3>1 DEF CacheStep
    <3>2. ASSUME NEW i \in Instances, ProcessExits(i)
          PROVE  \A r \in Requests : handler'[r] = "success" <=> handler[r] = "success"
      BY <3>2 DEF ProcessExits, Awaits
    <3> QED BY <1>4, <3>1, <3>2
  <2>4. UNCHANGED <<offered, trusted, claimed, accepted>>
    <3>1. got' = got
      BY <1>4 DEF CacheStep, ProcessExits, requestVars
    <3> QED BY <2>2, <2>3, <3>1, RequestsOfCalls DEF offered, trusted, claimed, accepted, clientVars
  <2> QED BY <2>1, <2>4, DropOrStutter
<1> QED BY <1>2, <1>3, <1>4

(* Every step of the handshake is one of the promise's, or none.           *)
LEMMA PromiseStep ==
    HandshakeInv /\ HandshakeInv' /\ [HandshakeNext]_allVars => [Promise!Next]_(Promise!vars)
<1> SUFFICES ASSUME HandshakeInv, HandshakeInv', [HandshakeNext]_allVars
             PROVE  Promise!Next \/ UNCHANGED Promise!vars
  OBVIOUS
<1>1. CASE UNCHANGED allVars
  BY <1>1 DEF allVars, vars, requestVars, cacheVars, clientVars, Promise!vars, Caches,
              pending, offered, trusted, claimed, accepted
<1>2. ASSUME NEW s \in Sessions, StartCall(s) \/ Answered(s) \/ NetworkTrouble(s)
      PROVE  Promise!Next
  <2>1. UNCHANGED vars
    BY <1>2 DEF StartCall, Answered, NetworkTrouble, Reads
  <2>2. Asked(s) \in Requests
    BY RequestsOfCalls DEF Asked
  <2>3. \/ Client!Start(s) \/ Client!RequestError(s) \/ Client!ResponseCut(s)
        \/ Client!ConnectionStalls(s)
        \/ \E r \in Requests : Reads(s, r)
    BY <1>2, <2>2 DEF StartCall, Answered, NetworkTrouble
  <2> QED BY <2>1, <2>3, ClientPromise
<1>3. ASSUME NEW r \in Requests, Serve(r)
      PROVE  Promise!Next
  BY <1>3, EncryptAndSetPromise, VerifyAndGetPromise, ComparePromise, ServerPromise DEF Serve, Handle
<1>4. CASE ServerTrouble \/ \E s \in Sessions : Deliver(s)
  BY <1>4, ServerPromise DEF ServerTrouble, Deliver
<1> QED BY <1>1, <1>2, <1>3, <1>4 DEF HandshakeNext, Calm, Trouble, AllEnded

(* The handshake, with all that may go wrong, implements the promise: the  *)
(* server accepts a client only after that client has verified the server, *)
(* with a challenge of its own that is claimed once.                       *)
THEOREM HandshakeKeepsThePromise == HandshakeSpec => IsMutualAuthentication
BY HandshakeInvariant, PromiseInit, PromiseStep, PTL
   DEF HandshakeSpec, IsMutualAuthentication, Promise!Spec

PromiseProofs == INSTANCE MutualAuthenticationProofs WITH Users <- UserIds, Places <- Caches

(* What the promise says of its sessions holds of the calls: the server    *)
(* accepts none whose client has not verified it first, claims none twice, *)
(* and keeps a challenge for one user in one place only.                   *)
THEOREM HandshakeAgrees == HandshakeSpec => []Promise!Agreement
<1> USE DEF Promise!vars, PromiseProofs!vars
<1>1. PromiseProofs!Spec => []PromiseProofs!Agreement
  BY PromiseProofs!AgreementHolds, HandshakeAssumption
<1>2. Promise!Init => PromiseProofs!Init
  BY DEF Promise!Init, PromiseProofs!Init, Promise!Slots, PromiseProofs!Slots
<1>3. [Promise!Next]_(Promise!vars) => [PromiseProofs!Next]_(PromiseProofs!vars)
  BY DEF Promise!Next, PromiseProofs!Next, Promise!Slots, PromiseProofs!Slots,
         Promise!Trust, PromiseProofs!Trust, Promise!Accept, PromiseProofs!Accept,
         Promise!Offer, PromiseProofs!Offer, Promise!Claim, PromiseProofs!Claim,
         Promise!Drop, PromiseProofs!Drop
<1>4. PromiseProofs!Agreement => Promise!Agreement
  BY DEF Promise!Agreement, PromiseProofs!Agreement, Promise!Slots, PromiseProofs!Slots
<1> QED BY <1>1, <1>2, <1>3, <1>4, HandshakeKeepsThePromise, PTL
        DEF IsMutualAuthentication, Promise!Spec, PromiseProofs!Spec

-------------------------------------------------------------------------------
(* While nothing goes wrong.  All instances use one cache: a shared one,   *)
(* or the local one of the only instance.                                  *)
OneCache == \A c, d \in Caches : c = d

NothingExpired == \A c \in Requests : age[c] # "expired"

(* The handlers use the keys that were registered at first.                *)
RecordsStand ==
    /\ userKey = PublicKeyOf
    /\ \A r \in Requests : handler[r] \notin {"idle", "getUserResult"} =>
           publicKey[r] = PublicKeyOf[msg[r].userId]

(* A response gets as far as the cache.                                    *)
ResponsesGetThrough ==
    \A s \in Sessions : handler[Second(s)] \in
        {"idle", "getUserResult", "verify", "get", "notInitiated", "incorrect", "success"}

ChallengesGetNothing ==
    \A s \in Sessions : handler[First(s)] \notin {"verify", "get"} /\ got[First(s)] = None

(* A response that has been to the cache has emptied its user's entry.     *)
ChallengesAreUsedUp ==
    \A s \in Sessions : handler[Second(s)] \in {"get", "notInitiated", "incorrect"} =>
        /\ \A k \in CacheKeys : store[k] # First(s)
        /\ handler[Second(s)] = "incorrect" => got[Second(s)] # First(s)

(* Another call of the same user has had a challenge stored.               *)
Overlapped(s) ==
    \E t \in Sessions \ {s} : UserOf[t] = UserOf[s] /\ age[First(t)] # "unset"

(* A challenge stays in the cache until it is returned or replaced.        *)
KeptUnlessOverlapped ==
    \A s \in Sessions : age[First(s)] # "unset" =>
        \/ \E k \in CacheKeys : store[k] = First(s)
        \/ First(s) \in returned
        \/ Overlapped(s)

Undisturbed ==
    /\ NothingExpired
    /\ RecordsStand
    /\ ResponsesGetThrough
    /\ ChallengesGetNothing
    /\ ChallengesAreUsedUp
    /\ KeptUnlessOverlapped

(* With HandshakeInv, an inductive invariant.                              *)
CalmInv == ~disturbed => Undisturbed

(* What the server knows of a challenge request, and of a response.        *)
LEMMA ChallengesAreSent ==
    ASSUME HandshakeInv, NEW s \in Sessions, handler[First(s)] # "idle"
    PROVE  /\ msg[First(s)].kind = "challenge" /\ msg[First(s)].userId = UserOf[s]
           /\ msg[First(s)].signer = ClientKeyOf[s] /\ msg[First(s)].nonce = First(s)
           /\ msg[First(s)].encryptedFor = ServerKeyOf[s]
<1>1. msg[First(s)] = ChallengeRequest(s)
  BY DEF HandshakeInv, AsSent
<1> QED BY <1>1 DEF ChallengeRequest

LEMMA ResponsesAreSent ==
    ASSUME HandshakeInv, NEW s \in Sessions, handler[Second(s)] # "idle"
    PROVE  /\ msg[Second(s)].kind = "response" /\ msg[Second(s)].userId = UserOf[s]
           /\ msg[Second(s)].signer = ClientKeyOf[s] /\ msg[Second(s)].nonce = First(s)
           /\ handler[First(s)] = "challenged" /\ age[First(s)] # "unset"
           /\ publicKey[First(s)] = ClientKeyOf[s]
<1>1. msg[Second(s)] = ResponseRequest(s) /\ reply[s] # None
  BY DEF HandshakeInv, AsSent
<1>2. Verifies(s)
  BY <1>1 DEF HandshakeInv, RepliesAreVerified
<1>3. age[First(s)] # "unset"
  BY <1>2, RequestsOfCalls DEF Verifies, HandshakeInv, ChallengesWereSet
<1> QED BY <1>1, <1>2, <1>3 DEF Verifies, ResponseRequest

(* While nothing goes wrong, it comes from a client that is registered.    *)
LEMMA ResponsesAreRegistered ==
    ASSUME HandshakeInv, Undisturbed, NEW s \in Sessions, handler[Second(s)] # "idle"
    PROVE  PublicKeyOf[UserOf[s]] = ClientKeyOf[s] /\ ClientKeyOf[s] # None
<1>1. handler[First(s)] = "challenged" /\ publicKey[First(s)] = ClientKeyOf[s]
  BY ResponsesAreSent
<1>2. msg[First(s)].userId = UserOf[s] /\ First(s) \in Requests
  BY <1>1, ChallengesAreSent, RequestsOfCalls
<1> QED BY <1>1, <1>2, HandshakeAssumption, StrategyAssumption DEF Undisturbed, RecordsStand

(* A challenge is stored under its user's key, if anywhere.                *)
LEMMA StoredUnderItsUser ==
    ASSUME HandshakeInv, NEW s \in Sessions, NEW k \in CacheKeys, store[k] = First(s)
    PROVE  k[2] = UserOf[s] /\ First(s) \notin returned /\ handler[First(s)] # "idle"
<1>1. Kept(k)
  BY RequestsOfCalls DEF HandshakeInv, StrategyInv, StoredAreKept
<1>2. handler[First(s)] # "idle" /\ First(s) \notin returned
  BY <1>1 DEF Kept, Issued
<1> QED BY <1>1, <1>2, ChallengesAreSent DEF Kept, CacheKey

LEMMA CalmInvInit == HandshakeInit => CalmInv
<1> SUFFICES ASSUME HandshakeInit PROVE Undisturbed
  BY DEF CalmInv
<1> USE RequestsOfCalls DEF HandshakeInit, Init, Cache!Init
<1>1. NothingExpired /\ RecordsStand
  BY DEF NothingExpired, RecordsStand
<1>2. ResponsesGetThrough /\ ChallengesGetNothing /\ ChallengesAreUsedUp
  BY DEF ResponsesGetThrough, ChallengesGetNothing, ChallengesAreUsedUp
<1>3. KeptUnlessOverlapped
  BY DEF KeptUnlessOverlapped
<1> QED BY <1>1, <1>2, <1>3 DEF Undisturbed

(* What a step keeps that leaves the cache alone.                          *)
LEMMA CacheLeftAlone ==
    ASSUME Undisturbed, UNCHANGED cacheVars
    PROVE  NothingExpired' /\ KeptUnlessOverlapped'
BY DEF Undisturbed, NothingExpired, KeptUnlessOverlapped, Overlapped, cacheVars, CacheKeys, Caches

(* A request of a call arrives.                                            *)
LEMMA CalmDeliver ==
    ASSUME HandshakeInv, Undisturbed, NEW s \in Sessions, Deliver(s)
    PROVE  Undisturbed'
<1> USE RequestsOfCalls DEF Undisturbed
<1>1. PICK i \in Instances, r \in Requests : \E m : m.kind # "malformed" /\ Receive(r, i, m)
  BY DEF Deliver, ChallengeRequest, ResponseRequest
<1>2. PICK m : m.kind # "malformed" /\ Receive(r, i, m)
  BY <1>1
<1>3. /\ handler[r] = "idle" /\ handler' = [handler EXCEPT ![r] = "getUserResult"]
      /\ msg' = [msg EXCEPT ![r] = m]
      /\ UNCHANGED <<publicKey, userKey, got, cacheVars>>
  BY <1>2 DEF Receive, Goto
<1>4. /\ handler'[r] = "getUserResult"
      /\ \A q \in Requests : q # r => handler'[q] = handler[q] /\ msg'[q] = msg[q]
  BY <1>3 DEF HandshakeInv, StrategyInv, TypeOK
<1>5. RecordsStand'
  BY <1>3, <1>4 DEF RecordsStand
<1>6. ResponsesGetThrough'
  BY <1>4 DEF ResponsesGetThrough
<1>7. ChallengesGetNothing'
  BY <1>3, <1>4 DEF ChallengesGetNothing
<1>8. ChallengesAreUsedUp'
  BY <1>3, <1>4 DEF ChallengesAreUsedUp, CacheKeys, Caches, cacheVars
<1> QED BY <1>3, <1>5, <1>6, <1>7, <1>8, CacheLeftAlone

(* A handler looks up the key that is on record.                           *)
LEMMA HandlersUseTheRecords ==
    ASSUME HandshakeInv, RecordsStand, NEW r \in Requests, Handle(r)
    PROVE  RecordsStand'
<1>1. UNCHANGED <<msg, userKey>> /\ publicKey \in [Requests -> ClientKeys \cup {None}]
  BY DEF HandshakeInv, StrategyInv, TypeOK, Handle, GetUserResult, DecryptAndVerify, Sign,
         EncryptAndSet, Fail, VerifyAndGet, Compare, requestVars, userVars
<1>2. \A q \in Requests : q # r => handler'[q] = handler[q] /\ publicKey'[q] = publicKey[q]
  BY DEF HandshakeInv, StrategyInv, TypeOK, Handle, GetUserResult, DecryptAndVerify, Sign,
         EncryptAndSet, Fail, VerifyAndGet, Compare, Goto, userVars
<1>3. CASE GetUserResult(r)
  <2>1. publicKey'[r] = PublicKeyOf[msg[r].userId]
    BY <1>1, <1>3 DEF GetUserResult, UserFunc, RecordsStand
  <2> QED BY <1>1, <1>2, <2>1 DEF RecordsStand
<1>4. CASE ~GetUserResult(r)
  <2>1. publicKey' = publicKey /\ handler[r] \notin {"idle", "getUserResult"}
    BY <1>4 DEF Handle, DecryptAndVerify, Sign, EncryptAndSet, Fail, VerifyAndGet, Compare, userVars
  <2> QED BY <1>1, <1>2, <2>1 DEF RecordsStand
<1> QED BY <1>3, <1>4

(* A handler's step: where it goes, and with which key.                    *)
LEMMA CalmHandlers ==
    ASSUME HandshakeInv, Undisturbed, NEW r \in Requests, Handle(r)
    PROVE  RecordsStand' /\ ResponsesGetThrough' /\ ChallengesGetNothing'
<1> USE RequestsOfCalls DEF HandshakeInv, Undisturbed, Goto, requestVars, userVars, cacheVars
<1>1. /\ handler \in [Requests -> States] /\ publicKey \in [Requests -> ClientKeys \cup {None}]
      /\ got \in [Requests -> Requests \cup {None}]
  BY DEF StrategyInv, TypeOK
<1>2. UNCHANGED <<msg, userKey>>
  BY DEF Handle, GetUserResult, DecryptAndVerify, Sign, EncryptAndSet, Fail, VerifyAndGet, Compare
<1>3. handler[r] \in Awaits /\ \A q \in Requests : q # r =>
          handler'[q] = handler[q] /\ publicKey'[q] = publicKey[q] /\ got'[q] = got[q]
  BY <1>1 DEF Handle, GetUserResult, DecryptAndVerify, Sign, EncryptAndSet, Fail, VerifyAndGet,
              Compare, Awaits
<1>4. RecordsStand'
  BY HandlersUseTheRecords
<1>5. ResponsesGetThrough'
  <2> SUFFICES ASSUME NEW s \in Sessions, r = Second(s)
               PROVE  handler'[r] \in {"verify", "get", "notInitiated", "incorrect", "success"}
    BY <1>3 DEF ResponsesGetThrough
  <2>1. /\ msg[r].kind = "response" /\ msg[r].userId = UserOf[s] /\ msg[r].signer = ClientKeyOf[s]
        /\ PublicKeyOf[UserOf[s]] = ClientKeyOf[s] /\ ClientKeyOf[s] # None
    BY <1>3, ResponsesAreSent, ResponsesAreRegistered DEF Awaits
  <2>2. CASE handler[r] = "getUserResult"
    <3>1. publicKey'[r] # None /\ GetUserResult(r)
      BY <1>1, <2>1, <2>2 DEF Handle, GetUserResult, DecryptAndVerify, Sign, EncryptAndSet, Fail,
                              VerifyAndGet, Compare, UserFunc, RecordsStand
    <3> QED BY <1>1, <2>1, <3>1 DEF GetUserResult
  <2>3. CASE handler[r] = "verify"
    <3>1. Verified(r)
      BY <2>1, <2>3 DEF Verified, RecordsStand
    <3>2. VerifyAndGet(r)
      BY <2>3 DEF Handle, GetUserResult, DecryptAndVerify, Sign, EncryptAndSet, Fail, Compare
    <3> QED BY <1>1, <3>1, <3>2 DEF VerifyAndGet
  <2>4. CASE handler[r] = "get"
    <3>1. Compare(r)
      BY <2>4 DEF Handle, GetUserResult, DecryptAndVerify, Sign, EncryptAndSet, Fail, VerifyAndGet
    <3> QED BY <1>1, <3>1 DEF Compare
  <2> QED BY <1>3, <2>2, <2>3, <2>4 DEF ResponsesGetThrough, Awaits
<1>6. ChallengesGetNothing'
  <2> SUFFICES ASSUME NEW s \in Sessions, r = First(s)
               PROVE  handler'[r] \notin {"verify", "get"} /\ got'[r] = None
    BY <1>3 DEF ChallengesGetNothing
  <2>1. msg[r].kind = "challenge"
    BY <1>3, ChallengesAreSent DEF Awaits
  <2>2. got' = got /\ handler'[r] \notin {"verify", "get"}
    BY <1>1, <2>1 DEF ChallengesGetNothing, Handle, GetUserResult, DecryptAndVerify, Sign,
                      EncryptAndSet, Fail, VerifyAndGet, Compare
  <2> QED BY <2>2 DEF ChallengesGetNothing
<1> QED BY <1>4, <1>5, <1>6

(* The cache is emptied for a response, and filled by a challenge.         *)
LEMMA CalmCache ==
    ASSUME OneCache, HandshakeInv, Undisturbed, NEW r \in Requests, Handle(r)
    PROVE  ChallengesAreUsedUp' /\ KeptUnlessOverlapped'
<1> USE RequestsOfCalls DEF HandshakeInv, Undisturbed, Goto, requestVars, userVars, cacheVars
<1>1. /\ handler \in [Requests -> States] /\ got \in [Requests -> Requests \cup {None}]
      /\ store \in [CacheKeys -> Requests \cup {None}] /\ age \in [Requests -> Cache!Ages]
  BY DEF StrategyInv, TypeOK, CacheKeys
<1>2. handler[r] \in Awaits /\ \A q \in Requests : q # r => handler'[q] = handler[q] /\ got'[q] = got[q]
  BY <1>1 DEF Handle, GetUserResult, DecryptAndVerify, Sign, EncryptAndSet, Fail, VerifyAndGet,
              Compare, Awaits
<1>3. CacheKey(r) = <<CacheOf(at[r]), msg[r].userId>> /\ CacheKey(r) \in CacheKeys
  BY <1>2 DEF StrategyInv, HandlersInOrder, CacheKey, CacheOf, CacheKeys, Caches, Awaits
<1>4. \A k \in CacheKeys : k[2] = msg[r].userId => k = CacheKey(r)
  BY <1>3 DEF OneCache, CacheKeys
<1>5. CASE EncryptAndSet(r)
  <2>1. /\ handler[r] = "encryptAndSign" /\ handler' = [handler EXCEPT ![r] = "set"]
        /\ store' = [store EXCEPT ![CacheKey(r)] = r] /\ returned' = returned /\ got' = got
        /\ \E a \in Cache!Ages \ {"unset"} : age' = [age EXCEPT ![r] = a]
    BY <1>5 DEF EncryptAndSet, Cache!Set
  <2>2. PICK s \in Sessions : r = First(s)
    BY <2>1 DEF ResponsesGetThrough
  <2>3. msg[r].userId = UserOf[s]
    BY <2>1, <2>2, ChallengesAreSent
  <2>4. ChallengesAreUsedUp'
    <3>1. handler[Second(s)] = "idle"
      BY <2>1, <2>2, ResponsesAreSent
    <3> QED BY <1>1, <1>2, <1>3, <2>1, <2>2, <3>1 DEF ChallengesAreUsedUp, CacheKeys, Caches
  <2>5. KeptUnlessOverlapped'
    <3> SUFFICES ASSUME NEW t \in Sessions, age'[First(t)] # "unset"
                 PROVE  \/ \E k \in CacheKeys : store'[k] = First(t)
                        \/ First(t) \in returned
                        \/ Overlapped(t)'
      BY <2>1 DEF KeptUnlessOverlapped, CacheKeys, Caches
    <3>1. \A q \in Requests : age[q] # "unset" => age'[q] # "unset"
      BY <1>1, <2>1
    <3>2. age'[First(s)] # "unset"
      BY <1>1, <2>1, <2>2
    <3>3. CASE t = s
      BY <1>1, <1>3, <2>1, <2>2, <3>3
    <3>4. CASE t # s /\ Overlapped(t)
      BY <3>1, <3>4 DEF Overlapped
    <3>5. CASE t # s /\ ~Overlapped(t)
      <4>1. age[First(t)] # "unset"
        BY <1>1, <2>1, <2>2, <3>5
      <4>2. First(t) \in returned \/ \E k \in CacheKeys : store[k] = First(t)
        BY <3>5, <4>1 DEF KeptUnlessOverlapped
      <4>3. ASSUME NEW k \in CacheKeys, store[k] = First(t), store'[k] # First(t)
            PROVE  Overlapped(t)'
        <5>1. k = CacheKey(r)
          BY <1>1, <2>1, <4>3
        <5>2. k[2] = UserOf[t] /\ k[2] = UserOf[s]
          BY <1>3, <2>3, <4>3, <5>1, StoredUnderItsUser
        <5> QED BY <3>2, <3>5, <5>2 DEF Overlapped
      <4> QED BY <4>2, <4>3
    <3> QED BY <3>3, <3>4, <3>5
  <2> QED BY <2>4, <2>5
<1>6. CASE VerifyAndGet(r)
  <2>1. PICK s \in Sessions : r = Second(s)
    BY <1>6 DEF VerifyAndGet, ChallengesGetNothing
  <2>2. /\ handler[r] = "verify" /\ handler' = [handler EXCEPT ![r] = "get"]
        /\ store' = [store EXCEPT ![CacheKey(r)] = None] /\ age' = age
        /\ returned' = returned \cup ({Cache!ValueOf(CacheKey(r))} \ {None})
    <3>1. ResponsesGetThrough'
      BY CalmHandlers
    <3> QED BY <1>1, <1>6, <2>1, <3>1 DEF VerifyAndGet, Cache!Get, ResponsesGetThrough
  <2>3. msg[r].userId = UserOf[s]
    BY <2>1, <2>2, ResponsesAreSent
  <2>4. ChallengesAreUsedUp'
    <3>1. \A k \in CacheKeys : store'[k] = store[k] \/ store'[k] = None
      BY <1>1, <2>2
    <3>2. \A k \in CacheKeys : store'[k] # First(s)
      BY <1>1, <1>3, <1>4, <2>2, <2>3, <3>1, StoredUnderItsUser
    <3> QED BY <1>1, <1>2, <2>2, <2>1, <3>1, <3>2 DEF ChallengesAreUsedUp, CacheKeys, Caches
  <2>5. KeptUnlessOverlapped'
    <3> SUFFICES ASSUME NEW t \in Sessions, age[First(t)] # "unset"
                 PROVE  \/ \E k \in CacheKeys : store'[k] = First(t)
                        \/ First(t) \in returned'
                        \/ Overlapped(t)
      BY <2>2 DEF KeptUnlessOverlapped, Overlapped, CacheKeys, Caches
    <3>1. ASSUME NEW k \in CacheKeys, store[k] = First(t), store'[k] # First(t)
          PROVE  First(t) \in returned'
      <4>1. k = CacheKey(r) /\ age[store[k]] # "expired" /\ First(t) # None
        BY <1>1, <2>2, <3>1 DEF NothingExpired
      <4> QED BY <2>2, <3>1, <4>1 DEF Cache!ValueOf
    <3> QED BY <2>2, <3>1 DEF KeptUnlessOverlapped
  <2> QED BY <2>4, <2>5
<1>7. CASE ~EncryptAndSet(r) /\ ~VerifyAndGet(r)
  <2>1. UNCHANGED cacheVars /\ got' = got
    BY <1>7 DEF Handle, GetUserResult, DecryptAndVerify, Sign, Fail, Compare
  <2>2. ChallengesAreUsedUp'
    <3>1. handler'[r] \in {"get", "notInitiated", "incorrect"} => Compare(r)
      BY <1>1, <1>7 DEF Handle, GetUserResult, DecryptAndVerify, Sign, Fail
    <3>2. ASSUME NEW s \in Sessions, r = Second(s), Compare(r)
          PROVE  /\ \A k \in CacheKeys : store[k] # First(s)
                 /\ handler'[r] = "incorrect" => got[r] # First(s)
      <4>1. handler[r] = "get" /\ (handler'[r] = "incorrect" => ~AnswersChallenge(r))
        BY <1>1, <3>2 DEF Compare
      <4>2. msg[r].nonce = First(s)
        BY <3>2, <4>1, ResponsesAreSent
      <4> QED BY <3>2, <4>1, <4>2 DEF AnswersChallenge, ChallengesAreUsedUp
    <3> QED BY <1>2, <2>1, <3>1, <3>2 DEF ChallengesAreUsedUp, CacheKeys, Caches
  <2> QED BY <2>1, <2>2, CacheLeftAlone
<1> QED BY <1>5, <1>6, <1>7

(* A step after which nothing has gone wrong is a calm one.                *)
LEMMA CalmSteps ==
    ASSUME HandshakeInv, CalmInv, [HandshakeNext]_allVars, ~disturbed'
    PROVE  /\ ~disturbed /\ Undisturbed /\ NothingExpired'
           /\ Calm \/ UNCHANGED allVars
<1>1. CASE Calm /\ Calmly
  <2>1. disturbed' = (disturbed \/ \E c \in Requests : age'[c] = "expired")
    BY <1>1 DEF Calmly
  <2>2. ~(disturbed \/ \E c \in Requests : age'[c] = "expired")
    BY <2>1
  <2> QED BY <1>1, <2>2 DEF NothingExpired, CalmInv
<1>2. CASE UNCHANGED allVars
  <2>1. UNCHANGED <<disturbed, age>>
    BY <1>2 DEF allVars, vars, cacheVars
  <2>2. ~disturbed
    BY <2>1
  <2> QED BY <1>2, <2>1, <2>2 DEF CalmInv, Undisturbed, NothingExpired
<1>3. CASE Trouble /\ disturbed' = TRUE
  BY <1>3
<1> QED BY <1>1, <1>2, <1>3 DEF HandshakeNext, AllEnded

(* With one cache, every step preserves the invariant.                     *)
LEMMA CalmInvStep ==
    ASSUME OneCache
    PROVE  HandshakeInv /\ CalmInv /\ [HandshakeNext]_allVars => CalmInv'
<1> SUFFICES ASSUME HandshakeInv, CalmInv, [HandshakeNext]_allVars, ~disturbed'
             PROVE  Undisturbed'
  BY DEF CalmInv
<1>1. Undisturbed /\ NothingExpired' /\ (Calm \/ UNCHANGED allVars)
  BY CalmSteps
<1>2. CASE UNCHANGED vars
  <2>1. UNCHANGED <<handler, msg, got, publicKey, userKey>> /\ UNCHANGED cacheVars
    BY <1>2 DEF vars, requestVars, userVars
  <2>2. ChallengesAreUsedUp'
    BY <1>1, <2>1 DEF Undisturbed, ChallengesAreUsedUp, cacheVars, CacheKeys, Caches
  <2> QED BY <1>1, <2>1, <2>2, CacheLeftAlone
          DEF Undisturbed, RecordsStand, ResponsesGetThrough, ChallengesGetNothing
<1>3. ASSUME NEW s \in Sessions, Deliver(s)
      PROVE  Undisturbed'
  BY <1>1, <1>3, CalmDeliver
<1>4. ASSUME NEW r \in Requests, Serve(r)
      PROVE  Undisturbed'
  <2>1. Handle(r)
    BY <1>4 DEF Serve
  <2> QED BY <1>1, <2>1, CalmHandlers, CalmCache DEF Undisturbed
<1>5. ASSUME NEW s \in Sessions, StartCall(s) \/ Answered(s)
      PROVE  UNCHANGED vars
  BY <1>5 DEF StartCall, Answered, Reads
<1> QED BY <1>1, <1>2, <1>3, <1>4, <1>5 DEF Calm, allVars

(* A response that is refused while nothing goes wrong has met another     *)
(* handshake of its user.                                                  *)
LEMMA RefusedForAnOverlap ==
    ASSUME HandshakeInv, CalmInv
    PROVE  RefusedOnlyForAnOverlap
<1> SUFFICES ASSUME NEW s \in Sessions, ~disturbed,
                    handler[Second(s)] \in Errors \cup {"threw", "lost"}
             PROVE  \E t \in Sessions \ {s} :
                        /\ UserOf[t] = UserOf[s]
                        /\ age[First(t)] # "unset"
                        /\ First(s) \in returned => got[Second(t)] = First(s)
  BY DEF RefusedOnlyForAnOverlap
<1> USE RequestsOfCalls DEF HandshakeInv, StrategyInv
<1>1. Undisturbed
  BY DEF CalmInv
<1>2. handler[Second(s)] \in {"notInitiated", "incorrect"} /\ age[First(s)] # "unset"
  BY <1>1, ResponsesAreSent DEF Undisturbed, ResponsesGetThrough, Errors
<1>3. got[Second(s)] # First(s)
  BY <1>1, <1>2 DEF Undisturbed, ChallengesAreUsedUp, GotAreTaken, Taken
<1>4. CASE First(s) \notin returned
  <2>1. Overlapped(s)
    BY <1>1, <1>2, <1>4 DEF Undisturbed, ChallengesAreUsedUp, KeptUnlessOverlapped
  <2> QED BY <1>4, <2>1 DEF Overlapped
<1>5. CASE First(s) \in returned
  <2>1. PICK r \in Requests : got[r] = First(s) /\ msg[r].userId = msg[First(s)].userId
    BY <1>5 DEF OnlyTheUserUsesUpAChallenge
  <2>2. PICK t \in Sessions : r = Second(t)
    BY <1>1, <2>1 DEF Undisturbed, ChallengesGetNothing
  <2>3. handler[r] # "idle"
    BY <2>1 DEF GotAreTaken, Taken
  <2>4. msg[r].userId = UserOf[t] /\ age[First(t)] # "unset"
    BY <2>2, <2>3, ResponsesAreSent
  <2>5. msg[First(s)].userId = UserOf[s]
    BY <1>2, ResponsesAreSent, ChallengesAreSent
  <2> QED BY <1>3, <2>1, <2>2, <2>4, <2>5
<1> QED BY <1>4, <1>5

THEOREM CalmInvariant ==
    ASSUME OneCache
    PROVE  HandshakeSpec => []CalmInv
<1>1. HandshakeInv /\ CalmInv /\ [HandshakeNext]_allVars => CalmInv'
  BY CalmInvStep
<1> QED BY <1>1, CalmInvInit, HandshakeInvariant, PTL DEF HandshakeSpec

(* While nothing goes wrong, a response is refused for an overlap with     *)
(* another handshake of the same user and for nothing else, with any       *)
(* number of calls, users and instances behind one cache.                  *)
THEOREM RefusalsAreOverlaps ==
    ASSUME OneCache
    PROVE  HandshakeSpec => []RefusedOnlyForAnOverlap
<1>1. HandshakeInv /\ CalmInv => RefusedOnlyForAnOverlap
  BY RefusedForAnOverlap
<1>2. HandshakeSpec => []CalmInv
  BY CalmInvariant
<1> QED BY <1>1, <1>2, HandshakeInvariant, PTL
-------------------------------------------------------------------------------
(* What may end a client's process, with any number of caches.             *)
Registered(s) == PublicKeyOf[UserOf[s]] = ClientKeyOf[s]

(* The first request of a registered client is on its way to a challenge.  *)
RegisteredAreChallenged ==
    \A s \in Sessions : Registered(s) =>
        handler[First(s)] \notin Errors \cup {"verify", "get", "success"}

CrashedByAWrongKey ==
    \A s \in Sessions : stage[s] = "crashed" =>
        \E t \in Sessions : HostOf[t] = HostOf[s] /\ ~Registered(t)

(* With HandshakeInv, an inductive invariant.                              *)
RegisteredInv ==
    ~disturbed => RecordsStand /\ RegisteredAreChallenged /\ CrashedByAWrongKey

(* The handler of a challenge from a registered client issues one.         *)
LEMMA RegisteredHandlers ==
    ASSUME HandshakeInv, RecordsStand, RegisteredAreChallenged, NEW r \in Requests, Handle(r)
    PROVE  RegisteredAreChallenged'
<1> USE RequestsOfCalls DEF Goto
<1>1. /\ handler \in [Requests -> States] /\ publicKey \in [Requests -> ClientKeys \cup {None}]
      /\ handler[r] \in Awaits /\ \A q \in Requests : q # r => handler'[q] = handler[q]
  BY DEF HandshakeInv, StrategyInv, TypeOK, Handle, GetUserResult, DecryptAndVerify, Sign,
         EncryptAndSet, Fail, VerifyAndGet, Compare, Awaits
<1> SUFFICES ASSUME NEW s \in Sessions, r = First(s), Registered(s)
             PROVE  handler'[r] \notin Errors \cup {"verify", "get", "success"}
  BY <1>1 DEF RegisteredAreChallenged, Registered
<1>2. /\ msg[r].kind = "challenge" /\ msg[r].userId = UserOf[s] /\ msg[r].signer = ClientKeyOf[s]
      /\ PublicKeyOf[UserOf[s]] = ClientKeyOf[s] /\ ClientKeyOf[s] # None
      /\ handler[r] \notin {"verify", "get"}
  BY <1>1, ChallengesAreSent, HandshakeAssumption, StrategyAssumption
     DEF Awaits, Registered, RegisteredAreChallenged
<1>3. CASE GetUserResult(r)
  <2>1. publicKey'[r] # None
    BY <1>1, <1>2, <1>3 DEF GetUserResult, UserFunc, RecordsStand
  <2>2. handler' = [handler EXCEPT ![r] = "decryptAndVerify"]
    BY <1>2, <1>3, <2>1 DEF GetUserResult
  <2> QED BY <1>1, <2>2 DEF Errors
<1>4. CASE DecryptAndVerify(r)
  <2>1. Verified(r)
    BY <1>2, <1>4 DEF DecryptAndVerify, Verified, RecordsStand
  <2>2. \E h \in {"threw", "sign"} : handler' = [handler EXCEPT ![r] = h]
    BY <1>4, <2>1 DEF DecryptAndVerify
  <2> QED BY <1>1, <2>2 DEF Errors
<1>5. CASE Sign(r) \/ EncryptAndSet(r) \/ Fail(r)
  <2>1. \E h \in {"encryptAndSign", "set", "challenged"} : handler' = [handler EXCEPT ![r] = h]
    BY <1>5 DEF Sign, EncryptAndSet, Fail
  <2> QED BY <1>1, <2>1 DEF Errors
<1>6. ~VerifyAndGet(r) /\ ~Compare(r)
  BY <1>2 DEF VerifyAndGet, Compare
<1> QED BY <1>3, <1>4, <1>5, <1>6 DEF Handle

(* A call that is not calmly answered with a challenge has a wrong key.    *)
LEMMA CrashingAnswers ==
    ASSUME HandshakeInv, RegisteredAreChallenged, CrashedByAWrongKey,
           NEW s \in Sessions, StartCall(s) \/ Answered(s)
    PROVE  CrashedByAWrongKey'
<1>1. stage \in [Sessions -> {"idle"} \cup Client!Pending \cup Client!Ended]
  BY DEF HandshakeInv, HandshakeTypeOK, Client!TypeOK
<1>2. CASE \E e \in {"challenging", "responding", "resolved", "rejected"} :
               stage' = [stage EXCEPT ![s] = e]
  BY <1>1, <1>2 DEF CrashedByAWrongKey, Registered
<1>3. CASE /\ Reads(s, First(s)) /\ Body(First(s)).kind # "challenge"
           /\ stage' = [t \in Sessions |->
                  IF HostOf[t] = HostOf[s] /\ stage[t] \in Client!Pending \cup {"stalled"}
                  THEN "crashed" ELSE stage[t]]
  <2>1. handler[First(s)] \in Errors \cup {"success"}
    BY <1>3 DEF Reads, Answers, Body, Errors
  <2>2. ~Registered(s)
    BY <2>1 DEF RegisteredAreChallenged
  <2> QED BY <1>3, <2>2 DEF CrashedByAWrongKey, Registered
<1> QED BY <1>2, <1>3 DEF StartCall, Answered, Asked, Reads, Client!Start, Client!RequestError,
                          Client!ReceiveChallenge, Client!ReceiveResult, Client!Reach

LEMMA RegisteredInvStep ==
    HandshakeInv /\ RegisteredInv /\ [HandshakeNext]_allVars => RegisteredInv'
<1> SUFFICES ASSUME HandshakeInv, RegisteredInv, [HandshakeNext]_allVars, ~disturbed'
             PROVE  RecordsStand' /\ RegisteredAreChallenged' /\ CrashedByAWrongKey'
  BY DEF RegisteredInv
<1>1. ~disturbed /\ (Calm \/ UNCHANGED allVars)
  <2>1. CASE Calm /\ Calmly
    BY <2>1 DEF Calmly
  <2>2. CASE UNCHANGED allVars
    BY <2>2 DEF allVars
  <2>3. CASE Trouble /\ disturbed' = TRUE
    BY <2>3
  <2> QED BY <2>1, <2>2, <2>3 DEF HandshakeNext, AllEnded
<1>2. RecordsStand /\ RegisteredAreChallenged /\ CrashedByAWrongKey
  BY <1>1 DEF RegisteredInv
<1> DEFINE ServerStands == UNCHANGED <<handler, msg, publicKey, userKey>>
<1>3. ASSUME ServerStands
      PROVE  RecordsStand' /\ RegisteredAreChallenged'
  BY <1>2, <1>3 DEF RecordsStand, RegisteredAreChallenged, Registered
<1>4. ASSUME stage' = stage
      PROVE  CrashedByAWrongKey'
  BY <1>2, <1>4 DEF CrashedByAWrongKey, Registered
<1>5. CASE UNCHANGED allVars
  BY <1>3, <1>4, <1>5 DEF allVars, vars, requestVars, userVars, clientVars
<1>6. ASSUME NEW s \in Sessions, StartCall(s) \/ Answered(s)
      PROVE  RecordsStand' /\ RegisteredAreChallenged' /\ CrashedByAWrongKey'
  <2>1. ServerStands
    BY <1>6 DEF StartCall, Answered, Reads, vars, requestVars, userVars
  <2> QED BY <1>2, <1>3, <1>6, <2>1, CrashingAnswers
<1>7. ASSUME NEW s \in Sessions, Deliver(s)
      PROVE  RecordsStand' /\ RegisteredAreChallenged' /\ CrashedByAWrongKey'
  <2>1. PICK i \in Instances, r \in Requests : \E m : m.kind # "malformed" /\ Receive(r, i, m)
    BY <1>7, RequestsOfCalls DEF Deliver, ChallengeRequest, ResponseRequest
  <2>2. PICK m : m.kind # "malformed" /\ Receive(r, i, m)
    BY <2>1
  <2>3. /\ handler' = [handler EXCEPT ![r] = "getUserResult"] /\ msg' = [msg EXCEPT ![r] = m]
        /\ UNCHANGED <<publicKey, userKey>>
    BY <2>2 DEF Receive, Goto
  <2>4. /\ handler'[r] = "getUserResult"
        /\ \A q \in Requests : q # r => handler'[q] = handler[q] /\ msg'[q] = msg[q]
    BY <2>3 DEF HandshakeInv, StrategyInv, TypeOK
  <2>5. RecordsStand'
    BY <1>2, <2>3, <2>4 DEF RecordsStand
  <2>6. RegisteredAreChallenged'
    BY <1>2, <2>4, RequestsOfCalls DEF RegisteredAreChallenged, Registered, Errors
  <2>7. stage' = stage
    BY <1>7 DEF Deliver, clientVars
  <2> QED BY <1>4, <2>5, <2>6, <2>7
<1>8. ASSUME NEW r \in Requests, Serve(r)
      PROVE  RecordsStand' /\ RegisteredAreChallenged' /\ CrashedByAWrongKey'
  <2>1. Handle(r) /\ stage' = stage
    BY <1>8 DEF Serve, clientVars
  <2> QED BY <1>2, <1>4, <2>1, HandlersUseTheRecords, RegisteredHandlers
<1> QED BY <1>1, <1>5, <1>6, <1>7, <1>8 DEF Calm

(* While nothing goes wrong, a client's process ends with an uncaught      *)
(* exception only if one of its calls uses a key that is not its user's,   *)
(* with any number of calls, processes and caches, overlapping as they may.*)
THEOREM OnlyWrongKeysCrash == HandshakeSpec => []OnlyAWrongKeyCrashesTheClient
<1>1. HandshakeInit => RegisteredInv
  BY RequestsOfCalls DEF HandshakeInit, Init, Client!Init, RegisteredInv, RecordsStand,
                         RegisteredAreChallenged, CrashedByAWrongKey, Errors
<1>2. RegisteredInv => OnlyAWrongKeyCrashesTheClient
  BY DEF RegisteredInv, CrashedByAWrongKey, Registered, OnlyAWrongKeyCrashesTheClient
<1> QED BY <1>1, <1>2, RegisteredInvStep, HandshakeInvariant, PTL DEF HandshakeSpec
===============================================================================
