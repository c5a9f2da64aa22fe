---------------------------------- MODULE Demo ----------------------------------
(***************************************************************************)
(* The demonstration in src/: runs of the program Client.ts against the    *)
(* server of App.ts.  A run makes one call of HandshakeClient.request(),   *)
(* then shows the token it was given to GET /protected.  The token is a    *)
(* JWT for the user whose response succeeded, good for 12 hours.           *)
(***************************************************************************)
EXTENDS Handshake

CONSTANT MaxTroubles  \* bound: the things that go wrong, besides a process that exits

ASSUME DemoAssumption == MaxTroubles \in Nat

VARIABLES
    program,  \* program[s]: what the run of Client.ts is waiting for, or how it ended
    token,    \* token[s]: the body it has taken for a TokenResponse
    access,   \* access[s]: the answer of GET /protected
    lapsed,   \* the requests whose token is past its time
    troubles  \* how many things have gone wrong

demoVars == <<program, token, access, lapsed, troubles>>
demoAllVars == <<allVars, demoVars>>

(* "silent": nothing is left to wait for, and the process ends with the    *)
(* exit code 0 although main() has not.                                    *)
Exited == {"exit0", "exit1", "silent"}

(* A connection the run waits for will not come to life again.  "stalled"  *)
(* is said of the one to /protected.                                       *)
Stalled(s) == stage[s] = "stalled" \/ program[s] = "stalled"

(* userFunc of PassportMutual.ts: one key, whoever is asked for.           *)
DemoKeys(k) == [u \in UserIds |-> k]

ProgramGoesTo(s, p) == program' = [program EXCEPT ![s] = p]

-------------------------------------------------------------------------------
DemoInit ==
    /\ HandshakeInit
    /\ program = [s \in Sessions |-> "handshake"]
    /\ token = [s \in Sessions |-> None]
    /\ access = [s \in Sessions |-> None]
    /\ lapsed = {}
    /\ troubles = 0

(* Something goes wrong.                                                   *)
GoesWrong ==
    /\ troubles < MaxTroubles
    /\ troubles' = troubles + 1
    /\ disturbed' = TRUE

(* main() after the handshake.  A body that is JSON is a TokenResponse to  *)
(* it, whatever is in it.                                                  *)
HandshakeSettled(s) ==
    /\ program[s] = "handshake"
    /\ \/ /\ stage[s] = "resolved" /\ result[s].kind # "text"
          /\ ProgramGoesTo(s, "protected")
          /\ token' = [token EXCEPT ![s] = result[s]]
       \/ /\ stage[s] = "resolved" /\ result[s].kind = "text"
          /\ ProgramGoesTo(s, "exit1")
          /\ UNCHANGED token
       \/ /\ stage[s] \in {"rejected", "crashed"}
          /\ ProgramGoesTo(s, "exit1")
          /\ UNCHANGED token
       \/ /\ stage[s] = "hung"
          /\ ProgramGoesTo(s, "silent")
          /\ UNCHANGED token
    /\ UNCHANGED <<allVars, access, lapsed, troubles>>

(* What the JWT strategy hands to its callback: done("JWT Expired"), or    *)
(* fail(info) for a token that jsonwebtoken refuses, or the payload.  One  *)
(* that has expired is refused by jsonwebtoken, or just after by the       *)
(* strategy's own look at the clock.                                       *)
Verdicts(b) ==
    CASE b.kind # "token" -> {[error |-> "none", info |-> "malformed", payload |-> None]}
      [] b.kind = "token" /\ b.of \in lapsed ->
             {[error |-> "none", info |-> "expired", payload |-> None],
              [error |-> "JWT Expired", info |-> "none", payload |-> None]}
      [] b.kind = "token" /\ b.of \notin lapsed ->
             {[error |-> "none", info |-> "none", payload |-> msg[b.of].userId]}

(* authenticateJwt: does it send an errorMessage?  Fault: never.           *)
NoErrorMessage(v) == FALSE
ErrorMessage(v) == v.error # "none" \/ v.info # "none" \/ v.payload = None

(* What the route /protected answers.                                      *)
Protected(v) ==
    IF ErrorMessage(v) THEN [status |-> 401, user |-> None]
                       ELSE [status |-> 200, user |-> v.payload]

(* GET /protected with the Authorization header of the run.                *)
GetProtected(s) ==
    /\ program[s] = "protected" /\ access[s] = None
    /\ \E v \in Verdicts(token[s]) : access' = [access EXCEPT ![s] = Protected(v)]
    /\ UNCHANGED <<allVars, program, token, lapsed, troubles>>

(* The answer is printed as a success, whatever its status.                *)
CallProtectedSuccess(s) ==
    /\ program[s] = "protected" /\ access[s] # None
    /\ ProgramGoesTo(s, "exit0")
    /\ UNCHANGED <<allVars, token, access, lapsed, troubles>>

(* The connection fails, before an answer or while it comes in, or stalls. *)
ProtectedTrouble(s) ==
    /\ program[s] = "protected"
    /\ \/ ProgramGoesTo(s, "exit1") \/ ProgramGoesTo(s, "stalled")
       \/ access[s] # None /\ ProgramGoesTo(s, "silent")
    /\ GoesWrong
    /\ UNCHANGED <<vars, clientVars, token, access, lapsed>>

(* Twelve hours go by.                                                     *)
TokenLapses(r) ==
    /\ handler[r] = "success" /\ r \notin lapsed
    /\ lapsed' = lapsed \cup {r}
    /\ GoesWrong
    /\ UNCHANGED <<vars, clientVars, program, token, access>>

AllExited ==
    /\ \A s \in Sessions : program[s] \in Exited \/ Stalled(s)
    /\ UNCHANGED demoAllVars

DemoNext ==
    \/ Calm /\ Calmly /\ UNCHANGED demoVars
    \/ Trouble /\ GoesWrong /\ UNCHANGED <<program, token, access, lapsed>>
    \/ \E i \in Instances : ProcessExits(i) /\ disturbed' = TRUE /\ UNCHANGED <<clientVars, demoVars>>
    \/ \E s \in Sessions :
           HandshakeSettled(s) \/ GetProtected(s) \/ CallProtectedSuccess(s) \/ ProtectedTrouble(s)
    \/ \E r \in Requests : TokenLapses(r)
    \/ AllExited

DemoSpec == DemoInit /\ [][DemoNext]_demoAllVars

(* A run goes on when what it awaits has happened, and its GET is answered *)
(* unless the connection stalls.                                           *)
FairDemoSpec ==
    /\ DemoSpec
    /\ Progress
    /\ \A s \in Sessions :
           WF_demoAllVars(HandshakeSettled(s) \/ GetProtected(s) \/ CallProtectedSuccess(s))

-------------------------------------------------------------------------------
(* /protected is served only to the user of a completed handshake, with    *)
(* the token issued for it; when nothing has gone wrong, that handshake is *)
(* the run's own (AuthenticateRouter.ts:44-55, AuthenticateMiddleware.ts:  *)
(* 17-33, PassportJwt.ts:45-52).                                           *)
ServedOnlyAfterHandshake ==
    \A s \in Sessions : access[s] # None /\ access[s].status = 200 =>
        /\ token[s].kind = "token"
        /\ \E r \in Requests :
               /\ r = token[s].of
               /\ handler[r] = "success" /\ msg[r].userId = access[s].user
               /\ msg[r].signer \in inForce[r]
        /\ ~disturbed => token[s].of = Second(s) /\ access[s].user = UserOf[s]

(* It is served only while the token is good, however long the handshake   *)
(* and its use are apart, whichever of the two looks at the clock finds    *)
(* out (PassportJwt.ts:16-17, 45-52, AuthenticateMiddleware.ts:17-31).     *)
ServedInTime ==
    [][\A s \in Sessions :
           access[s] = None /\ access'[s] # None /\ access'[s].status = 200 =>
               token[s].kind = "token" /\ token[s].of \notin lapsed]_demoAllVars

(* The answer the run was last waiting for had begun to come in.           *)
AnswerBegun(s) ==
    \/ access[s] # None
    \/ handler[IF reply[s] = None THEN First(s) ELSE Second(s)] \in Answers

(* Every run of Client.ts ends with an exit code for what has happened,    *)
(* failed connections and crashed servers included, with two exceptions:   *)
(* when an answer is cut off while it comes in it ends without a word, and *)
(* when a connection stalls it does not end, as there is no timeout        *)
(* (HandshakeClient.ts:109-128, Client.ts:28-83).                          *)
EveryProgramReports ==
    \A s \in Sessions : stage[s] = "challenging" ~>
        \/ program[s] \in {"exit0", "exit1"}
        \/ program[s] = "silent" /\ AnswerBegun(s)
        \/ Stalled(s)

(* The run has its user and its process for itself, and its own key.       *)
OnItsOwn(s) ==
    /\ PublicKeyOf[UserOf[s]] = ClientKeyOf[s]
    /\ \A t \in Sessions \ {s} : UserOf[t] # UserOf[s] /\ HostOf[t] # HostOf[s]

Served(s) == program[s] = "exit0" /\ access[s] = [status |-> 200, user |-> UserOf[s]]

(* When nothing goes wrong, a run for a user that no other run uses ends   *)
(* in no other way than served as that user, whatever handshakes other     *)
(* users are in (README.md:12-17, Client.ts:41-74).                        *)
UndisturbedProgramIsServed ==
    \A s \in Sessions :
        OnItsOwn(s) /\ ~disturbed /\ program[s] \in Exited => Served(s)

(* And it does end (README.md:12-17, Client.ts:41-74).                     *)
UndisturbedProgramSucceeds ==
    \A s \in Sessions : OnItsOwn(s) => (stage[s] = "challenging" ~> Served(s) \/ disturbed)
=================================================================================
