------------------------------- MODULE DemoProofs -------------------------------
(***************************************************************************)
(* Theorems about Demo, for every number of runs, users, instances and     *)
(* troubles: the demonstration keeps the promise of the handshake, serves  *)
(* only who has completed one, and, when nothing goes wrong, serves every  *)
(* run that has its user for itself.                                       *)
(***************************************************************************)
EXTENDS Demo, HandshakeProofs

(* A step of the demonstration is one of the handshake, or leaves it as it *)
(* is and, at most, counts something that went wrong elsewhere.            *)
LEMMA DemoStepsAreHandshakeSteps ==
    ASSUME [DemoNext]_demoAllVars
    PROVE  \/ HandshakeNext
           \/ UNCHANGED allVars
           \/ UNCHANGED <<vars, clientVars>> /\ disturbed' = TRUE
<1>1. CASE Calm /\ Calmly
  BY <1>1 DEF HandshakeNext
<1>2. CASE Trouble /\ GoesWrong
  BY <1>2 DEF HandshakeNext, GoesWrong
<1>3. ASSUME NEW i \in Instances,
             ProcessExits(i) /\ disturbed' = TRUE /\ UNCHANGED <<clientVars, demoVars>>
      PROVE  HandshakeNext
  <2>1. Trouble
    BY <1>3 DEF Trouble, ServerTrouble, clientVars
  <2> QED BY <1>3, <2>1 DEF HandshakeNext
<1>4. ASSUME NEW s \in Sessions, HandshakeSettled(s) \/ GetProtected(s) \/ CallProtectedSuccess(s)
      PROVE  UNCHANGED allVars
  BY <1>4 DEF HandshakeSettled, GetProtected, CallProtectedSuccess
<1>5. ASSUME NEW s \in Sessions, ProtectedTrouble(s)
      PROVE  UNCHANGED <<vars, clientVars>> /\ disturbed' = TRUE
  BY <1>5 DEF ProtectedTrouble, GoesWrong
<1>6. ASSUME NEW r \in Requests, TokenLapses(r)
      PROVE  UNCHANGED <<vars, clientVars>> /\ disturbed' = TRUE
  BY <1>6 DEF TokenLapses, GoesWrong
<1>7. CASE UNCHANGED demoAllVars
  BY <1>7 DEF demoAllVars
<1> QED BY <1>1, <1>2, <1>3, <1>4, <1>5, <1>6, <1>7 DEF DemoNext, AllExited

(* What is not about disturbed holds whatever went wrong elsewhere.        *)
LEMMA DisturbedAlone ==
    ASSUME HandshakeInv, UNCHANGED <<vars, clientVars>>, disturbed' = TRUE
    PROVE  HandshakeInv'
<1>1. StrategyInv'
  BY StrategyInvStep DEF HandshakeInv
<1> QED BY <1>1, ServerStep
           DEF vars, requestVars, userVars, cacheVars, HandshakeInv, ChallengesWereSet

LEMMA DemoKeepsHandshakeInv == HandshakeInv /\ [DemoNext]_demoAllVars => HandshakeInv'
BY DemoStepsAreHandshakeSteps, DisturbedAlone, HandshakeInvStep

(* The invariants of the handshake hold in the demonstration.              *)
THEOREM DemoHandshakeInvariant == DemoSpec => []HandshakeInv
<1>1. DemoInit => HandshakeInv
  BY HandshakeInvInit DEF DemoInit
<1> QED BY <1>1, DemoKeepsHandshakeInv, PTL DEF DemoSpec

(* The demonstration keeps the order of mutual authentication, too: what   *)
(* the programs do around the handshake does not touch it.                 *)
THEOREM DemoKeepsThePromise == DemoSpec => IsMutualAuthentication
<1>1. DemoInit => Promise!Init
  BY PromiseInit DEF DemoInit
<1>2. ASSUME HandshakeInv, HandshakeInv', [DemoNext]_demoAllVars
      PROVE  [Promise!Next]_(Promise!vars)
  <2>1. CASE HandshakeNext \/ UNCHANGED allVars
    BY <1>2, <2>1, PromiseStep
  <2>2. CASE UNCHANGED <<vars, clientVars>>
    BY <2>2 DEF vars, requestVars, cacheVars, clientVars, Promise!vars, Caches,
                pending, offered, trusted, claimed, accepted
  <2> QED BY <1>2, <2>1, <2>2, DemoStepsAreHandshakeSteps
<1> QED BY <1>1, <1>2, DemoHandshakeInvariant, PTL DEF DemoSpec, IsMutualAuthentication, Promise!Spec
-------------------------------------------------------------------------------
(* An answer is final: neither its handler nor what it was asked changes.  *)
LEMMA AnswersStay ==
    ASSUME HandshakeInv, [HandshakeNext]_allVars, NEW r \in Requests, handler[r] \in Answers
    PROVE  handler'[r] = handler[r] /\ msg'[r] = msg[r]
<1> USE DEF HandshakeInv, StrategyInv, TypeOK
<1>1. ASSUME NEW q \in Requests, Handle(q) \/ AwaitRejects(q)
      PROVE  handler'[r] = handler[r] /\ msg'[r] = msg[r]
  <2>1. handler[q] \in Awaits /\ msg' = msg /\ \E h : handler' = [handler EXCEPT ![q] = h]
    BY <1>1 DEF Handle, GetUserResult, DecryptAndVerify, Sign, EncryptAndSet, Fail, VerifyAndGet,
                Compare, AwaitRejects, Goto, requestVars, Awaits
  <2>2. q # r
    BY <2>1 DEF Awaits, Answers, Errors
  <2> QED BY <2>1, <2>2
<1>2. ASSUME NEW s \in Sessions, Deliver(s)
      PROVE  handler'[r] = handler[r] /\ msg'[r] = msg[r]
  <2>1. PICK q : \E i, m : Receive(q, i, m)
    BY <1>2 DEF Deliver
  <2>2. /\ handler[q] = "idle" /\ \E h : handler' = [handler EXCEPT ![q] = h]
        /\ \E m : msg' = [msg EXCEPT ![q] = m]
    BY <2>1 DEF Receive, Goto
  <2>3. q # r
    BY <2>2 DEF Answers, Errors
  <2> QED BY <2>2, <2>3
<1>3. ASSUME NEW i \in Instances, ProcessExits(i)
      PROVE  handler'[r] = handler[r] /\ msg'[r] = msg[r]
  BY <1>3 DEF ProcessExits, requestVars, Awaits, Answers, Errors
<1>4. CASE RotateServerKey \/ CacheStep \/ \E c \in KeyChanges : UserChanges(c[1], c[2])
  BY <1>4 DEF RotateServerKey, CacheStep, UserChanges, requestVars
<1>5. CASE UNCHANGED vars
  BY <1>5 DEF vars, requestVars
<1>6. ASSUME NEW s \in Sessions, StartCall(s) \/ Answered(s) \/ NetworkTrouble(s)
      PROVE  UNCHANGED vars
  BY <1>6 DEF StartCall, Answered, NetworkTrouble, Reads
<1> QED BY <1>1, <1>2, <1>3, <1>4, <1>5, <1>6
       DEF HandshakeNext, Calm, Trouble, ServerTrouble, Serve, AllEnded, allVars

(* A call is resolved with the body of an answer, its own when nothing     *)
(* goes wrong, and stays so.                                               *)
LEMMA ResolvedWithAnAnswer ==
    ASSUME HandshakeInv, [HandshakeNext]_allVars, NEW s \in Sessions, stage'[s] = "resolved"
    PROVE  \/ stage[s] = "resolved" /\ result'[s] = result[s]
           \/ \E r \in Requests :
                  /\ handler[r] \in Answers /\ result'[s] = Body(r)
                  /\ stage[s] = "responding" /\ UNCHANGED vars
                  /\ ~disturbed' => r = Second(s)
<1> USE RequestsOfCalls DEF HandshakeInv, HandshakeTypeOK
<1>1. /\ stage \in [Sessions -> {"idle"} \cup Client!Pending \cup Client!Ended]
      /\ DOMAIN result = Sessions
  BY DEF Client!TypeOK
<1>2. CASE UNCHANGED clientVars
  BY <1>2 DEF clientVars
<1>3. ASSUME NEW t \in Sessions,
             \/ Client!Start(t) \/ Client!RequestError(t) \/ Client!ResponseCut(t)
             \/ Client!ConnectionStalls(t)
      PROVE  stage[s] = "resolved" /\ result'[s] = result[s]
  BY <1>1, <1>3 DEF Client!Start, Client!RequestError, Client!ResponseCut, Client!ConnectionStalls,
                    Client!Reach
<1>4. ASSUME NEW t \in Sessions, NEW r, Client!ReceiveChallenge(t, Body(r))
      PROVE  stage[s] = "resolved" /\ result'[s] = result[s]
  BY <1>1, <1>4 DEF Client!ReceiveChallenge, Client!Reach
<1>5. ASSUME NEW t \in Sessions, NEW r \in Requests, Client!ReceiveResult(t, Body(r)), Reads(t, r),
             ~disturbed' => r = Asked(t)
      PROVE  \/ stage[s] = "resolved" /\ result'[s] = result[s]
             \/ /\ handler[r] \in Answers /\ result'[s] = Body(r)
                /\ stage[s] = "responding" /\ UNCHANGED vars
                /\ ~disturbed' => r = Second(s)
  <2>1. /\ stage[t] = "responding" /\ stage' = [stage EXCEPT ![t] = "resolved"]
        /\ result' = [result EXCEPT ![t] = Body(r)]
    BY <1>5 DEF Client!ReceiveResult, Client!Reach
  <2>2. Asked(t) = Second(t)
    BY <2>1 DEF Asked
  <2>3. handler[r] \in Answers /\ UNCHANGED vars
    BY <1>5 DEF Reads
  <2>4. CASE t = s
    BY <1>1, <1>5, <2>1, <2>2, <2>3, <2>4
  <2>5. CASE t # s
    BY <1>1, <2>1, <2>5
  <2> QED BY <2>4, <2>5
<1>6. ASSUME NEW t \in Sessions, NEW r \in Requests, Reads(t, r), ~disturbed' => r = Asked(t)
      PROVE  \/ stage[s] = "resolved" /\ result'[s] = result[s]
             \/ /\ handler[r] \in Answers /\ result'[s] = Body(r)
                /\ stage[s] = "responding" /\ UNCHANGED vars
                /\ ~disturbed' => r = Second(s)
  BY <1>4, <1>5, <1>6 DEF Reads
<1>7. \A t \in Sessions : Asked(t) \in Requests
  BY DEF Asked
<1>8. CASE Calm
  <2>1. CASE \/ \E t \in Sessions : Deliver(t)
             \/ \E r \in Requests : Serve(r)
    BY <1>2, <2>1 DEF Deliver, Serve
  <2>2. ASSUME NEW t \in Sessions, StartCall(t)
        PROVE  stage[s] = "resolved" /\ result'[s] = result[s]
    BY <1>3, <2>2 DEF StartCall
  <2>3. ASSUME NEW t \in Sessions, Answered(t), ~Reads(t, Asked(t))
        PROVE  stage[s] = "resolved" /\ result'[s] = result[s]
    BY <1>3, <2>3 DEF Answered
  <2>4. ASSUME NEW t \in Sessions, Reads(t, Asked(t))
        PROVE  \/ stage[s] = "resolved" /\ result'[s] = result[s]
               \/ \E r \in Requests :
                      /\ handler[r] \in Answers /\ result'[s] = Body(r)
                      /\ stage[s] = "responding" /\ UNCHANGED vars
                      /\ ~disturbed' => r = Second(s)
    BY <1>6, <1>7, <2>4
  <2> QED BY <1>8, <2>1, <2>2, <2>3, <2>4 DEF Calm
<1>9. CASE Trouble /\ disturbed' = TRUE
  <2>1. CASE ServerTrouble
    BY <1>2, <2>1 DEF ServerTrouble
  <2>2. ASSUME NEW t \in Sessions, NEW r \in Requests, Reads(t, r)
        PROVE  \/ stage[s] = "resolved" /\ result'[s] = result[s]
               \/ \E q \in Requests :
                      /\ handler[q] \in Answers /\ result'[s] = Body(q)
                      /\ stage[s] = "responding" /\ UNCHANGED vars
                      /\ ~disturbed' => q = Second(s)
    BY <1>6, <1>9, <2>2
  <2> QED BY <1>3, <1>9, <2>1, <2>2 DEF Trouble, NetworkTrouble
<1> QED BY <1>2, <1>8, <1>9 DEF HandshakeNext, AllEnded, allVars

(* What went wrong stays known.                                            *)
LEMMA DisturbedStays == HandshakeInv /\ [DemoNext]_demoAllVars /\ disturbed => disturbed'
<1> SUFFICES ASSUME HandshakeInv, [DemoNext]_demoAllVars, disturbed
             PROVE  disturbed'
  OBVIOUS
<1>1. CASE Calm /\ Calmly
  BY <1>1 DEF Calmly
<1>2. CASE disturbed' = TRUE
  BY <1>2
<1>3. CASE UNCHANGED allVars
  BY <1>3 DEF allVars
<1> QED BY <1>1, <1>2, <1>3, DemoStepsAreHandshakeSteps DEF HandshakeNext, AllEnded
-------------------------------------------------------------------------------
(* A token is the one of a request that succeeded; when nothing has gone   *)
(* wrong, of the run's own response.                                       *)
Earned(s, b) == b.kind = "token" =>
    /\ b.of \in Requests /\ handler[b.of] = "success"
    /\ ~disturbed => b.of = Second(s)

ResultsAreEarned == \A s \in Sessions : stage[s] = "resolved" => Earned(s, result[s])

TokensAreEarned == \A s \in Sessions : program[s] = "protected" => Earned(s, token[s])

(* What a run has been served, it was with its token.                      *)
AccessIsDeserved ==
    \A s \in Sessions :
        /\ program[s] = "handshake" => access[s] = None
        /\ access[s] # None /\ access[s].status = 200 =>
               /\ token[s].kind = "token" /\ Earned(s, token[s])
               /\ access[s].user = msg[token[s].of].userId

DemoFunctions ==
    /\ program \in [Sessions -> {"handshake", "protected", "stalled"} \cup Exited]
    /\ DOMAIN token = Sessions /\ DOMAIN access = Sessions

(* The inductive invariant.                                                *)
DemoInv ==
    /\ HandshakeInv
    /\ DemoFunctions
    /\ ResultsAreEarned
    /\ TokensAreEarned
    /\ AccessIsDeserved

(* A token once earned stays so, and its user with it.                     *)
LEMMA EarnedStays ==
    ASSUME HandshakeInv, [DemoNext]_demoAllVars, NEW s \in Sessions, NEW b, Earned(s, b)
    PROVE  b.kind = "token" =>
               /\ b.of \in Requests /\ handler'[b.of] = "success"
               /\ msg'[b.of] = msg[b.of]
               /\ ~disturbed' => b.of = Second(s)
<1> SUFFICES ASSUME b.kind = "token"
             PROVE  /\ b.of \in Requests /\ handler'[b.of] = "success"
                    /\ msg'[b.of] = msg[b.of]
                    /\ ~disturbed' => b.of = Second(s)
  OBVIOUS
<1>1. b.of \in Requests /\ handler[b.of] = "success" /\ (~disturbed => b.of = Second(s))
  BY DEF Earned
<1>2. ~disturbed' => ~disturbed
  BY DisturbedStays
<1>3. handler'[b.of] = "success" /\ msg'[b.of] = msg[b.of]
  <2>1. CASE HandshakeNext \/ UNCHANGED allVars
    BY <1>1, <2>1, AnswersStay DEF Answers
  <2>2. CASE UNCHANGED vars
    BY <1>1, <2>2 DEF vars, requestVars
  <2> QED BY <2>1, <2>2, DemoStepsAreHandshakeSteps
<1> QED BY <1>1, <1>2, <1>3

(* A result is a token only when the server has answered with success.     *)
LEMMA ResultsEarnedStep ==
    ASSUME HandshakeInv, ResultsAreEarned, [DemoNext]_demoAllVars
    PROVE  ResultsAreEarned'
<1> SUFFICES ASSUME NEW s \in Sessions, stage'[s] = "resolved", result'[s].kind = "token"
             PROVE  /\ result'[s].of \in Requests /\ handler'[result'[s].of] = "success"
                    /\ ~disturbed' => result'[s].of = Second(s)
  BY DEF ResultsAreEarned, Earned
<1>1. CASE stage[s] = "resolved" /\ result'[s] = result[s]
  BY <1>1, EarnedStays DEF ResultsAreEarned
<1>2. ASSUME NEW r \in Requests, handler[r] \in Answers, result'[s] = Body(r), UNCHANGED vars,
             ~disturbed' => r = Second(s)
      PROVE  /\ result'[s].of \in Requests /\ handler'[result'[s].of] = "success"
             /\ ~disturbed' => result'[s].of = Second(s)
  <2>1. handler[r] = "success" /\ result'[s].of = r
    BY <1>2 DEF Body, Answers
  <2> QED BY <1>2, <2>1 DEF vars
<1>3. CASE UNCHANGED clientVars
  BY <1>1, <1>3 DEF clientVars
<1> QED BY <1>1, <1>2, <1>3, DemoStepsAreHandshakeSteps, ResolvedWithAnAnswer

(* What the verdicts of the JWT strategy on a token are.                   *)
LEMMA OnlyTokensAreServed ==
    ASSUME NEW b, NEW v \in Verdicts(b), Protected(v).status = 200
    PROVE  b.kind = "token" /\ b.of \notin lapsed /\ Protected(v).user = msg[b.of].userId
<1>1. v.error = "none" /\ v.info = "none" /\ v.payload # None /\ Protected(v).user = v.payload
  BY DEF Protected, ErrorMessage
<1>2. b.kind = "token" /\ b.of \notin lapsed /\ v.payload = msg[b.of].userId
  <2>1. CASE b.kind # "token"
    BY <1>1, <2>1 DEF Verdicts
  <2>2. CASE b.kind = "token" /\ b.of \in lapsed
    <3>1. \/ v = [error |-> "none", info |-> "expired", payload |-> None]
          \/ v = [error |-> "JWT Expired", info |-> "none", payload |-> None]
      BY <2>2 DEF Verdicts
    <3>2. CASE v = [error |-> "none", info |-> "expired", payload |-> None]
      BY <1>1, <3>2
    <3>3. CASE v = [error |-> "JWT Expired", info |-> "none", payload |-> None]
      BY <1>1, <3>3
    <3> QED BY <3>1, <3>2, <3>3
  <2>3. CASE b.kind = "token" /\ b.of \notin lapsed
    BY <2>3 DEF Verdicts
  <2> QED BY <2>1, <2>2, <2>3
<1> QED BY <1>1, <1>2

LEMMA DemoInvInit == DemoInit => DemoInv
<1> SUFFICES ASSUME DemoInit PROVE DemoInv
  OBVIOUS
<1>1. HandshakeInv
  BY HandshakeInvInit DEF DemoInit
<1>2. ResultsAreEarned
  BY DEF DemoInit, HandshakeInit, Client!Init, ResultsAreEarned
<1>3. DemoFunctions /\ TokensAreEarned /\ AccessIsDeserved
  BY DEF DemoInit, DemoFunctions, TokensAreEarned, AccessIsDeserved
<1> QED BY <1>1, <1>2, <1>3 DEF DemoInv

LEMMA DemoInvStep == DemoInv /\ [DemoNext]_demoAllVars => DemoInv'
<1> SUFFICES ASSUME DemoInv, [DemoNext]_demoAllVars PROVE DemoInv'
  OBVIOUS
<1> USE DEF DemoInv
<1>1. HandshakeInv' /\ ResultsAreEarned'
  BY DemoKeepsHandshakeInv, ResultsEarnedStep
<1>2. CASE UNCHANGED <<program, token, access>>
  <2>1. ASSUME NEW s \in Sessions, Earned(s, token[s])
        PROVE  Earned(s, token[s])' /\ (token[s].kind = "token" => msg'[token[s].of] = msg[token[s].of])
    BY <1>2, <2>1, EarnedStays DEF Earned
  <2>2. TokensAreEarned' /\ AccessIsDeserved' /\ DemoFunctions'
    BY <1>2, <2>1 DEF TokensAreEarned, AccessIsDeserved, DemoFunctions
  <2> QED BY <1>1, <2>2
<1>3. ASSUME NEW s \in Sessions, HandshakeSettled(s)
      PROVE  TokensAreEarned' /\ AccessIsDeserved' /\ DemoFunctions'
  <2>1. UNCHANGED <<stage, result, handler, msg, disturbed, access>>
    BY <1>3 DEF HandshakeSettled, allVars, vars, requestVars, clientVars
  <2>2. /\ program[s] = "handshake" /\ access[s] = None
        /\ \E p \in {"protected", "exit1", "silent"} : program' = [program EXCEPT ![s] = p]
        /\ \/ token' = token /\ program'[s] # "protected"
           \/ token' = [token EXCEPT ![s] = result[s]] /\ stage[s] = "resolved"
    BY <1>3 DEF HandshakeSettled, ProgramGoesTo, AccessIsDeserved, DemoFunctions
  <2>3. /\ program'[s] \in {"protected", "exit1", "silent"}
        /\ \A t \in Sessions : t # s => program'[t] = program[t] /\ token'[t] = token[t]
    BY <2>2 DEF DemoFunctions
  <2>4. TokensAreEarned'
    <3> SUFFICES ASSUME NEW t \in Sessions, program'[t] = "protected"
                 PROVE  Earned(t, token[t])'
      BY DEF TokensAreEarned
    <3>1. CASE t = s
      <4>1. token'[s] = result[s] /\ stage[s] = "resolved"
        BY <2>2, <3>1 DEF DemoFunctions
      <4>2. Earned(s, result[s])
        BY <4>1 DEF ResultsAreEarned
      <4> QED BY <2>1, <3>1, <4>1, <4>2 DEF Earned
    <3>2. CASE t # s
      BY <2>1, <2>3, <3>2 DEF TokensAreEarned, Earned
    <3> QED BY <3>1, <3>2
  <2>5. AccessIsDeserved'
    BY <2>1, <2>2, <2>3 DEF AccessIsDeserved, Earned
  <2>6. DemoFunctions'
    BY <2>1, <2>2 DEF DemoFunctions, Exited
  <2> QED BY <2>4, <2>5, <2>6
<1>4. ASSUME NEW s \in Sessions, GetProtected(s)
      PROVE  TokensAreEarned' /\ AccessIsDeserved' /\ DemoFunctions'
  <2>1. UNCHANGED <<handler, msg, disturbed, program, token>> /\ program[s] = "protected"
    BY <1>4 DEF GetProtected, allVars, vars, requestVars
  <2>2. PICK v \in Verdicts(token[s]) : access' = [access EXCEPT ![s] = Protected(v)]
    BY <1>4 DEF GetProtected
  <2>3. /\ access'[s] = Protected(v)
        /\ \A t \in Sessions : t # s => access'[t] = access[t]
    BY <2>2 DEF DemoFunctions
  <2>4. TokensAreEarned' /\ DemoFunctions'
    BY <2>1, <2>2 DEF TokensAreEarned, Earned, DemoFunctions
  <2>5. AccessIsDeserved'
    <3> SUFFICES ASSUME NEW t \in Sessions
                 PROVE  /\ program[t] = "handshake" => access'[t] = None
                        /\ access'[t] # None /\ access'[t].status = 200 =>
                               /\ token[t].kind = "token" /\ Earned(t, token[t])
                               /\ access'[t].user = msg[token[t].of].userId
      BY <2>1 DEF AccessIsDeserved, Earned
    <3>1. CASE t = s
      BY <2>1, <2>3, <3>1, OnlyTokensAreServed DEF TokensAreEarned
    <3>2. CASE t # s
      BY <2>3, <3>2 DEF AccessIsDeserved
    <3> QED BY <3>1, <3>2
  <2> QED BY <2>4, <2>5
<1>5. ASSUME NEW s \in Sessions, CallProtectedSuccess(s) \/ ProtectedTrouble(s)
      PROVE  TokensAreEarned' /\ AccessIsDeserved' /\ DemoFunctions'
  <2>1. /\ program[s] = "protected" /\ \E p \in Exited \cup {"stalled"} : program' = [program EXCEPT ![s] = p]
        /\ UNCHANGED <<handler, msg, token, access>>
    BY <1>5 DEF CallProtectedSuccess, ProtectedTrouble, ProgramGoesTo, Exited, allVars, vars, requestVars
  <2>2. DemoFunctions' /\ \A t \in Sessions :
            program'[t] \in {"handshake", "protected"} => program'[t] = program[t]
    BY <2>1 DEF DemoFunctions, Exited
  <2>3. ASSUME NEW t \in Sessions, Earned(t, token[t])
        PROVE  Earned(t, token[t])'
    BY <2>1, <2>3, EarnedStays DEF Earned
  <2>4. TokensAreEarned' /\ AccessIsDeserved'
    BY <2>1, <2>2, <2>3 DEF TokensAreEarned, AccessIsDeserved
  <2> QED BY <2>2, <2>4
<1> QED BY <1>1, <1>2, <1>3, <1>4, <1>5 DEF DemoNext, TokenLapses, AllExited, demoVars, demoAllVars

THEOREM DemoInvariant == DemoSpec => []DemoInv
BY DemoInvInit, DemoInvStep, PTL DEF DemoSpec

(* /protected is served only for the token of a completed handshake, with  *)
(* a key that was in force while its response was handled, and to its user *)
(* (AuthenticateMiddleware.ts:17-33, PassportJwt.ts:45-52).                *)
THEOREM OnlyTheHandshakenAreServed == DemoSpec => []ServedOnlyAfterHandshake
<1>1. ASSUME DemoInv PROVE ServedOnlyAfterHandshake
  <2> SUFFICES ASSUME NEW s \in Sessions, access[s] # None, access[s].status = 200
               PROVE  /\ token[s].kind = "token"
                      /\ \E r \in Requests :
                             /\ r = token[s].of
                             /\ handler[r] = "success" /\ msg[r].userId = access[s].user
                             /\ msg[r].signer \in inForce[r]
                      /\ ~disturbed => token[s].of = Second(s) /\ access[s].user = UserOf[s]
    BY DEF ServedOnlyAfterHandshake
  <2> DEFINE r == token[s].of
  <2>1. token[s].kind = "token" /\ Earned(s, token[s]) /\ access[s].user = msg[r].userId
    BY <1>1 DEF DemoInv, AccessIsDeserved
  <2>2. r \in Requests /\ handler[r] = "success" /\ (~disturbed => r = Second(s))
    BY <2>1 DEF Earned
  <2>3. msg[r].signer \in inForce[r]
    BY <1>1, <2>2 DEF DemoInv, HandshakeInv, StrategyInv, SuccessIsTheAnswer, GotAreTaken, Taken,
                      KeysAreInForce
  <2>4. r = Second(s) => msg[r].userId = UserOf[s]
    BY <1>1, <2>2, ResponsesAreSent DEF DemoInv
  <2> QED BY <2>1, <2>2, <2>3, <2>4
<1> QED BY <1>1, DemoInvariant, PTL

(* /protected is served only with a token that is good at that moment,     *)
(* whatever has lapsed before (PassportJwt.ts:45-52,                       *)
(* AuthenticateMiddleware.ts:17-31).                                       *)
THEOREM LapsedTokensAreNotServed == DemoSpec => ServedInTime
<1> DEFINE Served200(s) == access[s] = None /\ access'[s] # None /\ access'[s].status = 200
<1>1. ASSUME DemoFunctions, [DemoNext]_demoAllVars, NEW s \in Sessions, Served200(s)
      PROVE  token[s].kind = "token" /\ token[s].of \notin lapsed
  <2>1. PICK t \in Sessions : GetProtected(t)
    BY <1>1 DEF DemoNext, demoAllVars, demoVars, HandshakeSettled, CallProtectedSuccess,
                ProtectedTrouble, TokenLapses, AllExited
  <2>2. PICK v \in Verdicts(token[t]) : access' = [access EXCEPT ![t] = Protected(v)]
    BY <2>1 DEF GetProtected
  <2>3. t = s /\ access'[s] = Protected(v)
    BY <1>1, <2>2 DEF DemoFunctions
  <2> QED BY <1>1, <2>2, <2>3, OnlyTokensAreServed
<1>2. DemoInv /\ [DemoNext]_demoAllVars =>
          [\A s \in Sessions : Served200(s) =>
               token[s].kind = "token" /\ token[s].of \notin lapsed]_demoAllVars
  BY <1>1 DEF DemoInv
<1> QED BY <1>2, DemoInvariant, PTL DEF DemoSpec, ServedInTime
-------------------------------------------------------------------------------
(* While nothing goes wrong, and the programs are given the public half of *)
(* the one key pair the server has.                                        *)
KeysFit == \A k \in ServerKeys, s \in Sessions : ServerKeyOf[s] = k

(* A registered client's challenge request is not refused, and what it is  *)
(* answered with is signed with the key the client trusts.                 *)
ChallengeGetsThrough(s) ==
    /\ handler[First(s)] \in {"idle", "getUserResult", "decryptAndVerify", "sign", "encryptAndSign",
                              "set", "challenged"}
    /\ handler[First(s)] = "encryptAndSign" => signers[First(s)][1] = ServerKeyOf[s]
    /\ handler[First(s)] \in {"set", "challenged"} =>
           signers[First(s)] = <<ServerKeyOf[s], ServerKeyOf[s]>>

TokenOf(r) == [kind |-> "token", of |-> r]

CallSucceeds(s) ==
    /\ stage[s] \in {"idle", "challenging", "responding", "resolved"}
    /\ stage[s] = "resolved" => result[s] = TokenOf(Second(s))

OwnCallsSucceed == \A s \in Sessions : OnItsOwn(s) => ChallengeGetsThrough(s) /\ CallSucceeds(s)

(* The server's part of it.                                                *)
LEMMA OwnChallengeStep ==
    ASSUME KeysFit, HandshakeInv, Undisturbed, NEW r \in Requests, Handle(r),
           NEW s \in Sessions, OnItsOwn(s), ChallengeGetsThrough(s)
    PROVE  ChallengeGetsThrough(s)'
<1> USE RequestsOfCalls DEF HandshakeInv, Undisturbed, Goto, requestVars, userVars, ChallengeGetsThrough
<1>1. /\ handler \in [Requests -> States] /\ publicKey \in [Requests -> ClientKeys \cup {None}]
      /\ signers \in [Requests -> (ServerKeys \cup {None}) \X (ServerKeys \cup {None})]
      /\ serverKey = ServerKeyOf[s]
  BY DEF StrategyInv, TypeOK, KeysFit
<1>2. CASE r # First(s)
  <2>1. handler'[First(s)] = handler[First(s)] /\ signers'[First(s)] = signers[First(s)]
    BY <1>1, <1>2 DEF Handle, GetUserResult, DecryptAndVerify, Sign, EncryptAndSet, Fail, VerifyAndGet,
                      Compare
  <2> QED BY <2>1
<1>3. CASE r = First(s)
  <2>1. handler[r] # "idle"
    BY DEF Handle, GetUserResult, DecryptAndVerify, Sign, EncryptAndSet, Fail, VerifyAndGet, Compare
  <2>2. /\ msg[r].kind = "challenge" /\ msg[r].userId = UserOf[s]
        /\ msg[r].signer = ClientKeyOf[s] /\ msg[r].encryptedFor = serverKey
    BY <1>1, <1>3, <2>1, ChallengesAreSent
  <2>3. PublicKeyOf[UserOf[s]] = ClientKeyOf[s] /\ ClientKeyOf[s] # None
    BY HandshakeAssumption, StrategyAssumption DEF OnItsOwn
  <2>4. CASE GetUserResult(r)
    <3>1. publicKey'[r] # None
      BY <1>1, <2>2, <2>3, <2>4 DEF GetUserResult, UserFunc, RecordsStand
    <3> QED BY <1>1, <1>3, <2>2, <2>4, <3>1 DEF GetUserResult
  <2>5. CASE DecryptAndVerify(r)
    <3>1. Decrypts(r) /\ Verified(r)
      BY <2>2, <2>3, <2>5 DEF DecryptAndVerify, Decrypts, Verified, RecordsStand
    <3> QED BY <1>1, <1>3, <2>5, <3>1 DEF DecryptAndVerify
  <2>6. CASE Sign(r)
    BY <1>1, <1>3, <2>6 DEF Sign
  <2>7. CASE EncryptAndSet(r)
    BY <1>1, <1>3, <2>7 DEF EncryptAndSet
  <2>8. CASE Fail(r)
    BY <1>1, <1>3, <2>8 DEF Fail
  <2>9. CASE VerifyAndGet(r) \/ Compare(r)
    BY <1>3, <2>9 DEF VerifyAndGet, Compare
  <2> QED BY <2>4, <2>5, <2>6, <2>7, <2>8, <2>9 DEF Handle
<1> QED BY <1>2, <1>3

(* What such a call is answered: a genuine challenge, then a token.        *)
LEMMA OwnAnswers ==
    ASSUME KeysFit, HandshakeInv, CalmInv, ~disturbed, NEW s \in Sessions, OnItsOwn(s),
           ChallengeGetsThrough(s)
    PROVE  /\ handler[First(s)] \in Answers =>
                  Body(First(s)).kind = "challenge" /\ Client!Genuine(s, Body(First(s)))
           /\ handler[Second(s)] \in Answers => Body(Second(s)) = TokenOf(Second(s))
           /\ handler[First(s)] # "lost" /\ handler[Second(s)] # "lost"
<1> USE RequestsOfCalls
<1>1. Undisturbed
  BY DEF CalmInv
<1>2. ASSUME handler[First(s)] \in Answers
      PROVE  Body(First(s)).kind = "challenge" /\ Client!Genuine(s, Body(First(s)))
  <2>1. handler[First(s)] = "challenged" /\ signers[First(s)] = <<ServerKeyOf[s], ServerKeyOf[s]>>
    BY <1>2 DEF ChallengeGetsThrough, Answers, Errors
  <2>2. msg[First(s)].nonce[1] = s /\ msg[First(s)].userId = UserOf[s]
    BY <2>1, ChallengesAreSent
  <2>3. publicKey[First(s)] = ClientKeyOf[s]
    BY <1>1, <2>1, <2>2 DEF Undisturbed, RecordsStand, OnItsOwn
  <2>4. Body(First(s)) = [kind |-> "challenge", nonce |-> s,
                          signers |-> <<ServerKeyOf[s], ServerKeyOf[s]>>,
                          encryptedFor |-> ClientKeyOf[s], challenge |-> First(s)]
    BY <2>1, <2>2, <2>3 DEF Body, Errors
  <2> QED BY <2>4 DEF Client!Genuine, Client!EchoesNonce
<1>3. ASSUME handler[Second(s)] \in Errors \cup {"threw", "lost"}
      PROVE  FALSE
  BY <1>3, RefusedForAnOverlap DEF RefusedOnlyForAnOverlap, OnItsOwn
<1>4. ASSUME handler[Second(s)] \in Answers
      PROVE  Body(Second(s)) = TokenOf(Second(s))
  <2>1. handler[Second(s)] = "success"
    BY <1>1, <1>3, <1>4 DEF Undisturbed, ResponsesGetThrough, Answers
  <2> QED BY <2>1 DEF Body, Errors, TokenOf
<1> QED BY <1>2, <1>3, <1>4 DEF ChallengeGetsThrough

(* The client's part of it.                                                *)
LEMMA OwnCallStep ==
    ASSUME KeysFit, HandshakeInv, CalmInv, ~disturbed, NEW s \in Sessions, OnItsOwn(s),
           ChallengeGetsThrough(s), CallSucceeds(s),
           NEW t \in Sessions, StartCall(t) \/ Answered(t)
    PROVE  CallSucceeds(s)'
<1> USE RequestsOfCalls DEF CallSucceeds, Client!Reach
<1>1. /\ stage \in [Sessions -> {"idle"} \cup Client!Pending \cup Client!Ended]
      /\ DOMAIN result = Sessions
  BY DEF HandshakeInv, HandshakeTypeOK, Client!TypeOK
<1>2. CASE StartCall(t)
  BY <1>1, <1>2 DEF StartCall, Client!Start
<1>3. CASE Answered(t) /\ t # s
  <2>1. HostOf[t] # HostOf[s]
    BY <1>3 DEF OnItsOwn
  <2>2. CASE Client!RequestError(t)
    BY <1>1, <1>3, <2>2 DEF Client!RequestError
  <2>3. CASE Client!ReceiveChallenge(t, Body(Asked(t)))
    <3>1. stage'[s] = stage[s] /\ result' = result
      BY <1>1, <1>3, <2>1, <2>3 DEF Client!ReceiveChallenge
    <3> QED BY <3>1
  <2>4. CASE Client!ReceiveResult(t, Body(Asked(t)))
    BY <1>1, <1>3, <2>4 DEF Client!ReceiveResult
  <2> QED BY <1>3, <2>2, <2>3, <2>4 DEF Answered, Reads
<1>4. CASE Answered(t) /\ t = s
  <2>1. Reads(s, Asked(s)) /\ handler[Asked(s)] \in Answers
    BY <1>4, OwnAnswers DEF Answered, Reads, Asked
  <2>2. CASE Client!ReceiveChallenge(s, Body(Asked(s)))
    <3>1. stage[s] = "challenging" /\ Asked(s) = First(s)
      BY <2>2 DEF Client!ReceiveChallenge, Asked
    <3>2. stage' = [stage EXCEPT ![s] = "responding"]
      BY <2>1, <2>2, <3>1, OwnAnswers DEF Client!ReceiveChallenge
    <3> QED BY <1>1, <3>2
  <2>3. CASE Client!ReceiveResult(s, Body(Asked(s)))
    <3>1. stage[s] = "responding" /\ Asked(s) = Second(s)
      BY <2>3 DEF Client!ReceiveResult, Asked
    <3>2. stage' = [stage EXCEPT ![s] = "resolved"] /\ result' = [result EXCEPT ![s] = TokenOf(Second(s))]
      BY <2>1, <2>3, <3>1, OwnAnswers DEF Client!ReceiveResult
    <3> QED BY <1>1, <3>2 DEF TokenOf
  <2> QED BY <2>1, <2>2, <2>3 DEF Reads
<1> QED BY <1>2, <1>3, <1>4

LEMMA OwnCallsStep ==
    ASSUME KeysFit, HandshakeInv, CalmInv, ~disturbed, OwnCallsSucceed, Calm \/ UNCHANGED allVars
    PROVE  OwnCallsSucceed'
<1> SUFFICES ASSUME NEW s \in Sessions, OnItsOwn(s), ChallengeGetsThrough(s), CallSucceeds(s)
             PROVE  ChallengeGetsThrough(s)' /\ CallSucceeds(s)'
  BY DEF OwnCallsSucceed, OnItsOwn
<1> USE RequestsOfCalls
<1>1. UNCHANGED vars => ChallengeGetsThrough(s)'
  BY DEF vars, requestVars, ChallengeGetsThrough
<1>2. UNCHANGED clientVars => CallSucceeds(s)'
  BY DEF clientVars, CallSucceeds
<1>3. ASSUME NEW t \in Sessions, Deliver(t)
      PROVE  ChallengeGetsThrough(s)' /\ UNCHANGED clientVars
  <2>1. PICK r \in Requests : \E i, m : m.kind # "malformed" /\ Receive(r, i, m)
    BY <1>3 DEF Deliver, ChallengeRequest, ResponseRequest
  <2>2. handler' = [handler EXCEPT ![r] = "getUserResult"] /\ signers' = signers /\ handler[r] = "idle"
    BY <2>1 DEF Receive, Goto
  <2>3. handler'[r] = "getUserResult" /\ \A q \in Requests : q # r => handler'[q] = handler[q]
    BY <2>2 DEF HandshakeInv, StrategyInv, TypeOK
  <2> QED BY <1>3, <2>2, <2>3 DEF Deliver, ChallengeGetsThrough
<1>4. ASSUME NEW r \in Requests, Serve(r)
      PROVE  ChallengeGetsThrough(s)' /\ UNCHANGED clientVars
  <2>1. Undisturbed /\ Handle(r) /\ UNCHANGED clientVars
    BY <1>4 DEF CalmInv, Serve
  <2> QED BY <2>1, OwnChallengeStep
<1>5. ASSUME NEW t \in Sessions, StartCall(t) \/ Answered(t)
      PROVE  UNCHANGED vars /\ CallSucceeds(s)'
  <2>1. UNCHANGED vars
    BY <1>5 DEF StartCall, Answered, Reads
  <2> QED BY <1>5, <2>1, OwnCallStep
<1> QED BY <1>1, <1>2, <1>3, <1>4, <1>5 DEF Calm, allVars

(* The program's part of it.                                               *)
Grant(s) == [status |-> 200, user |-> UserOf[s]]

RunGoesWell(s) ==
    /\ program[s] \in {"handshake", "protected", "exit0"}
    /\ program[s] = "protected" => token[s] = TokenOf(Second(s))
    /\ access[s] \in {None, Grant(s)}
    /\ program[s] = "exit0" => access[s] = Grant(s)

OwnRunsGoWell ==
    /\ lapsed = {}
    /\ OwnCallsSucceed
    /\ \A s \in Sessions : OnItsOwn(s) => RunGoesWell(s)

(* With DemoInv, an inductive invariant.                                   *)
CalmDemoInv == CalmInv /\ (~disturbed => OwnRunsGoWell)

LEMMA CalmDemoInvInit == DemoInit => CalmDemoInv
<1> SUFFICES ASSUME DemoInit PROVE CalmDemoInv
  OBVIOUS
<1> USE RequestsOfCalls DEF DemoInit, HandshakeInit, Init, Client!Init
<1>1. CalmInv
  BY CalmInvInit
<1>2. OwnCallsSucceed
  BY DEF OwnCallsSucceed, ChallengeGetsThrough, CallSucceeds
<1>3. \A s \in Sessions : RunGoesWell(s)
  BY DEF RunGoesWell
<1> QED BY <1>1, <1>2, <1>3 DEF CalmDemoInv, OwnRunsGoWell

(* The token of such a run is accepted.                                    *)
LEMMA OwnTokenIsAccepted ==
    ASSUME DemoInv, ~disturbed, lapsed = {}, NEW s \in Sessions, program[s] = "protected",
           token[s] = TokenOf(Second(s)), NEW v \in Verdicts(token[s])
    PROVE  Protected(v) = Grant(s)
<1>1. token[s].kind = "token" /\ token[s].of = Second(s)
  BY DEF TokenOf
<1>2. handler[Second(s)] = "success"
  BY <1>1 DEF DemoInv, TokensAreEarned, Earned
<1>3. msg[Second(s)].userId = UserOf[s]
  BY <1>2, ResponsesAreSent DEF DemoInv
<1>4. v = [error |-> "none", info |-> "none", payload |-> UserOf[s]]
  BY <1>1, <1>3 DEF Verdicts
<1>5. UserOf[s] # None
  BY HandshakeAssumption, StrategyAssumption
<1> QED BY <1>4, <1>5 DEF Protected, ErrorMessage, Grant

LEMMA CalmDemoInvStep ==
    ASSUME OneCache, KeysFit
    PROVE  DemoInv /\ CalmDemoInv /\ [DemoNext]_demoAllVars => CalmDemoInv'
<1> SUFFICES ASSUME DemoInv, CalmDemoInv, [DemoNext]_demoAllVars
             PROVE  CalmDemoInv'
  OBVIOUS
<1> USE DEF DemoInv, CalmDemoInv
<1>1. CalmInv'
  <2>1. CASE HandshakeNext \/ UNCHANGED allVars
    BY <2>1, CalmInvStep
  <2>2. CASE disturbed' = TRUE
    BY <2>2 DEF CalmInv
  <2> QED BY <2>1, <2>2, DemoStepsAreHandshakeSteps
<1>2. SUFFICES ASSUME ~disturbed'
               PROVE  OwnRunsGoWell'
  BY <1>1
<1>3. ~disturbed /\ OwnRunsGoWell
  <2>1. ~disturbed
    BY <1>2, DisturbedStays
  <2> QED BY <2>1
<1>4. OwnCallsSucceed'
  <2>1. [HandshakeNext]_allVars
    BY <1>2, DemoStepsAreHandshakeSteps
  <2>2. Calm \/ UNCHANGED allVars
    BY <1>2, <2>1, CalmSteps
  <2> QED BY <1>3, <2>2, OwnCallsStep DEF OwnRunsGoWell
<1>5. lapsed' = {}
  BY <1>2, <1>3 DEF OwnRunsGoWell, DemoNext, demoVars, GoesWrong, HandshakeSettled, GetProtected,
                    CallProtectedSuccess, ProtectedTrouble, TokenLapses, AllExited, demoAllVars
<1>6. ASSUME NEW s \in Sessions, OnItsOwn(s)
      PROVE  RunGoesWell(s)'
  <2>1. RunGoesWell(s) /\ CallSucceeds(s)
    BY <1>3, <1>6 DEF OwnRunsGoWell, OwnCallsSucceed
  <2>2. CASE UNCHANGED <<program, token, access>>
    BY <2>1, <2>2 DEF RunGoesWell, Grant
  <2>3. ASSUME NEW t \in Sessions, HandshakeSettled(t)
        PROVE  RunGoesWell(s)'
    <3>1. CASE t = s
      <4>1. stage[s] = "resolved" /\ result[s] = TokenOf(Second(s))
        BY <2>1, <2>3, <3>1 DEF HandshakeSettled, CallSucceeds
      <4>2. result[s].kind # "text"
        BY <4>1 DEF TokenOf
      <4>3. /\ program' = [program EXCEPT ![s] = "protected"] /\ access' = access
            /\ token' = [token EXCEPT ![s] = TokenOf(Second(s))]
        BY <2>3, <3>1, <4>1, <4>2 DEF HandshakeSettled, ProgramGoesTo
      <4> QED BY <2>1, <4>3 DEF RunGoesWell, DemoFunctions, Grant, TokenOf
    <3>2. CASE t # s
      <4>1. program'[s] = program[s] /\ token'[s] = token[s] /\ access' = access
        BY <2>3, <3>2 DEF HandshakeSettled, ProgramGoesTo, DemoFunctions
      <4> QED BY <2>1, <4>1 DEF RunGoesWell, Grant
    <3> QED BY <3>1, <3>2
  <2>4. ASSUME NEW t \in Sessions, GetProtected(t)
        PROVE  RunGoesWell(s)'
    <3>1. PICK v \in Verdicts(token[t]) : access' = [access EXCEPT ![t] = Protected(v)]
      BY <2>4 DEF GetProtected
    <3>2. program' = program /\ token' = token /\ program[t] = "protected"
      BY <2>4 DEF GetProtected
    <3>3. CASE t = s
      <4>1. Protected(v) = Grant(s)
        BY <1>3, <2>1, <3>1, <3>2, <3>3, OwnTokenIsAccepted DEF OwnRunsGoWell, RunGoesWell
      <4> QED BY <2>1, <3>1, <3>2, <3>3, <4>1 DEF RunGoesWell, DemoFunctions, Grant
    <3>4. CASE t # s
      BY <2>1, <3>1, <3>2, <3>4 DEF RunGoesWell, DemoFunctions, Grant
    <3> QED BY <3>3, <3>4
  <2>5. ASSUME NEW t \in Sessions, CallProtectedSuccess(t)
        PROVE  RunGoesWell(s)'
    <3>1. /\ program[t] = "protected" /\ access[t] # None
          /\ program' = [program EXCEPT ![t] = "exit0"] /\ UNCHANGED <<token, access>>
      BY <2>5 DEF CallProtectedSuccess, ProgramGoesTo
    <3> QED BY <2>1, <3>1 DEF RunGoesWell, DemoFunctions, Grant
  <2> QED BY <1>2, <2>2, <2>3, <2>4, <2>5
          DEF DemoNext, demoVars, GoesWrong, ProtectedTrouble, TokenLapses, AllExited, demoAllVars
<1> QED BY <1>4, <1>5, <1>6 DEF OwnRunsGoWell, OnItsOwn

(* When nothing goes wrong, a run for a user that no other run uses ends   *)
(* served as that user, for any number of runs and users, when the server  *)
(* has one cache and one key pair.                                         *)
THEOREM UndisturbedRunsAreServed ==
    ASSUME OneCache, KeysFit
    PROVE  DemoSpec => []UndisturbedProgramIsServed
<1>1. DemoInv /\ CalmDemoInv /\ [DemoNext]_demoAllVars => CalmDemoInv'
  BY CalmDemoInvStep
<1>2. CalmDemoInv => UndisturbedProgramIsServed
  <2> SUFFICES ASSUME CalmDemoInv, NEW s \in Sessions, OnItsOwn(s), ~disturbed, program[s] \in Exited
               PROVE  Served(s)
    BY DEF UndisturbedProgramIsServed
  <2>1. RunGoesWell(s)
    BY DEF CalmDemoInv, OwnRunsGoWell
  <2> QED BY <2>1 DEF RunGoesWell, Served, Grant, Exited
<1> QED BY <1>1, <1>2, CalmDemoInvInit, DemoInvariant, PTL DEF DemoSpec
=================================================================================
