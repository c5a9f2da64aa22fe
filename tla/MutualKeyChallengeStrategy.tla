---------------------- MODULE MutualKeyChallengeStrategy ----------------------
(***************************************************************************)
(* lib/server/src/MutualKeyChallengeStrategy.ts with the MessageVerifier   *)
(* and the ChallengeCache it is given: authenticate() and the two handlers *)
(* behind it, run for many requests at once by one or more instances of    *)
(* the server.                                                             *)
(*                                                                         *)
(* A handler is a chain of awaits (userFunc, the serverKey function and    *)
(* the cache may each return a promise), and handlers interleave at every  *)
(* await: one action per stretch of code between two awaits.               *)
(*                                                                         *)
(* Cryptography is symbolic.  A nonce is named by the request that drew    *)
(* it; a signature is the key that made it, an encryption the key it is    *)
(* for.  Every participant uses its own keys only; a client may hold a key *)
(* that is not the registered one, or an outdated key of the server.       *)
(***************************************************************************)
EXTENDS Naturals

CONSTANTS
    Requests,     \* bound: the HTTP requests, each of them handled once
    Instances,    \* the server processes behind the load balancer
    SharedCache,  \* TRUE: one challengeCache for all; FALSE: one in each process
    UserIds,      \* the user ids requests name
    ClientKeys,   \* the key pairs of clients
    ServerKeys,   \* the key pairs the serverKey function may return
    PublicKeyOf,  \* the key registered at first for a user id, or None
    KeyChanges,   \* bound: the keys (or None) a user id may be given later
    Inputs,       \* the requests that arrive: kind, user id and keys
    None

ASSUME StrategyAssumption ==
    /\ SharedCache \in BOOLEAN
    /\ PublicKeyOf \in [UserIds -> ClientKeys \cup {None}]
    /\ KeyChanges \subseteq UserIds \X (ClientKeys \cup {None})
    /\ None \notin Requests \cup Instances \cup UserIds \cup ClientKeys \cup ServerKeys
    /\ \A m \in Inputs :
           /\ m \in [kind : {"challenge", "response", "malformed"},
                     userId : UserIds \cup {None}, signer : ClientKeys \cup {None},
                     encryptedFor : ServerKeys \cup {None}]
           /\ m.kind # "malformed" => m.userId # None /\ m.signer # None

VARIABLES
    handler,    \* handler[r]: the await the handler of r is at, or its outcome
    msg,        \* msg[r]: the request as challengeOrResponseFunc parsed it
    at,         \* at[r]: the instance that handles r
    signers,    \* signers[r]: the keys that signed the two parts of the challenge
    got,        \* got[r]: what challengeCache.get returned to the handler of r
    publicKey,  \* publicKey[r]: user.publicKey in the handler of r, once userFunc has answered
    inForce,    \* history: the keys the user of r has had since r arrived
    userKey,    \* userFunc: the key registered now for a user id, or None
    serverKey,  \* the key the serverKey function returns now
    store,      \* the challengeCache of each process, or the shared one
    age,
    returned

cacheVars == <<store, age, returned>>
requestVars == <<msg, at, signers, got>>
userVars == <<publicKey, inForce, userKey>>
vars == <<handler, requestVars, userVars, serverKey, cacheVars>>

Caches == IF SharedCache THEN {"shared"} ELSE Instances
CacheOf(i) == IF SharedCache THEN "shared" ELSE i

Cache == INSTANCE ChallengeCache WITH
    Keys <- Caches \X UserIds, Challenges <- Requests

(* The key of a user's entry in the cache that r's instance uses.  Fault:  *)
(* one entry for all users.                                                *)
OneEntryForAll(r) == <<CacheOf(at[r]), CHOOSE u \in UserIds : TRUE>>
CacheKey(r) == <<CacheOf(at[r]), msg[r].userId>>

Messages ==
    [kind : {"challenge", "response", "malformed"},
     userId : UserIds \cup {None}, signer : ClientKeys \cup {None},
     encryptedFor : ServerKeys \cup {None}, nonce : Requests \cup {None}]

Awaits == {"getUserResult", "decryptAndVerify", "sign", "encryptAndSign", "set",
           "verify", "get"}

(* The calls of this.error, by their reason.                               *)
Errors == {"malformed", "noUser", "unverified", "notInitiated", "incorrect"}

(* What passport is told: error(), fail() with a challenge, or success().  *)
Answers == Errors \cup {"challenged", "success"}

(* "threw": the promise authenticate() returned is rejected, and passport  *)
(* does not look at it; "lost": the process has exited.                    *)
States == {"idle"} \cup Awaits \cup Answers \cup {"threw", "lost"}

(* verify(): the signature is by the key userFunc returned.                *)
Verified(r) == msg[r].signer = publicKey[r]

(* What userFunc answers.  Fault: the keys are read once, at the start.    *)
KeysReadAtStart(u) == PublicKeyOf[u]
UserFunc(u) == userKey[u]

Goto(r, s) == handler' = [handler EXCEPT ![r] = s]

-------------------------------------------------------------------------------
Init ==
    /\ handler = [r \in Requests |-> "idle"]
    /\ msg = [r \in Requests |-> None]
    /\ at = [r \in Requests |-> None]
    /\ signers = [r \in Requests |-> <<None, None>>]
    /\ got = [r \in Requests |-> None]
    /\ publicKey = [r \in Requests |-> None]
    /\ inForce = [r \in Requests |-> {}]
    /\ userKey = PublicKeyOf
    /\ serverKey \in ServerKeys
    /\ Cache!Init

(* authenticate() up to the call of userFunc.  A request without the       *)
(* expected fields is reported, or makes challengeOrResponseFunc throw.    *)
Receive(r, i, m) ==
    /\ handler[r] = "idle"
    /\ msg' = [msg EXCEPT ![r] = m]
    /\ at' = [at EXCEPT ![r] = i]
    /\ \/ /\ m.kind = "malformed"
          /\ Goto(r, "malformed") \/ Goto(r, "threw")
          /\ UNCHANGED inForce
       \/ /\ m.kind # "malformed"
          /\ Goto(r, "getUserResult")
          /\ inForce' = [inForce EXCEPT ![r] = {userKey[m.userId]}]
    /\ UNCHANGED <<signers, got, publicKey, userKey, serverKey, cacheVars>>

(* userFunc has answered: what it returns is kept and used by the rest of  *)
(* the handler.  Fault: that no user was found is not noticed.             *)
UserNotMissed(r) ==
    /\ handler[r] = "getUserResult"
    /\ publicKey' = [publicKey EXCEPT ![r] = UserFunc(msg[r].userId)]
    /\ \/ msg[r].kind = "response" /\ Goto(r, "verify")
       \/ msg[r].kind = "challenge" /\ Goto(r, "decryptAndVerify")
    /\ UNCHANGED <<requestVars, inForce, userKey, serverKey, cacheVars>>
GetUserResult(r) ==
    /\ handler[r] = "getUserResult"
    /\ publicKey' = [publicKey EXCEPT ![r] = UserFunc(msg[r].userId)]
    /\ \/ publicKey'[r] = None /\ Goto(r, "noUser")
       \/ /\ publicKey'[r] # None
          /\ \/ msg[r].kind = "response" /\ Goto(r, "verify")
             \/ msg[r].kind = "challenge" /\ Goto(r, "decryptAndVerify")
    /\ UNCHANGED <<requestVars, inForce, userKey, serverKey, cacheVars>>

(* privateDecrypt throws when the message was not encrypted for the key.   *)
Decrypts(r) == msg[r].encryptedFor = serverKey

DecryptAndVerify(r) ==
    /\ handler[r] = "decryptAndVerify"
    /\ \/ ~Decrypts(r) /\ Goto(r, "threw")
       \/ Decrypts(r) /\ ~Verified(r) /\ Goto(r, "unverified")
       \/ Decrypts(r) /\ Verified(r) /\ Goto(r, "sign")
    /\ UNCHANGED <<requestVars, userVars, serverKey, cacheVars>>

(* sign(): the client's nonce, in the clear, signed.                       *)
Sign(r) ==
    /\ handler[r] = "sign"
    /\ signers' = [signers EXCEPT ![r] = <<serverKey, None>>]
    /\ Goto(r, "encryptAndSign")
    /\ UNCHANGED <<msg, at, got, userVars, serverKey, cacheVars>>

(* encryptAndSign() of the server's nonce, and the call of cache.set.      *)
(* Fault: a user whose challenge is pending is refused another.            *)
RefuseWhilePending(r) ==
    /\ handler[r] = "encryptAndSign"
    /\ \/ /\ store[CacheKey(r)] # None
          /\ Goto(r, "notInitiated")
          /\ UNCHANGED <<signers, cacheVars>>
       \/ /\ store[CacheKey(r)] = None
          /\ signers' = [signers EXCEPT ![r] = <<signers[r][1], serverKey>>]
          /\ Cache!Set(CacheKey(r), r)
          /\ Goto(r, "set")
    /\ UNCHANGED <<msg, at, got, userVars, serverKey>>
EncryptAndSet(r) ==
    /\ handler[r] = "encryptAndSign"
    /\ signers' = [signers EXCEPT ![r] = <<signers[r][1], serverKey>>]
    /\ Cache!Set(CacheKey(r), r)
    /\ Goto(r, "set")
    /\ UNCHANGED <<msg, at, got, userVars, serverKey>>

Fail(r) ==
    /\ handler[r] = "set"
    /\ Goto(r, "challenged")
    /\ UNCHANGED <<requestVars, userVars, serverKey, cacheVars>>

(* verify(), and the call of cache.get once it has succeeded.  Fault: the  *)
(* challenge is taken first.                                               *)
GetThenVerify(r) ==
    /\ handler[r] = "verify"
    /\ got' = [got EXCEPT ![r] = Cache!ValueOf(CacheKey(r))]
    /\ Cache!Get(CacheKey(r))
    /\ \/ ~Verified(r) /\ Goto(r, "unverified")
       \/ Verified(r) /\ Goto(r, "get")
    /\ UNCHANGED <<msg, at, signers, userVars, serverKey>>
VerifyAndGet(r) ==
    /\ handler[r] = "verify"
    /\ \/ /\ ~Verified(r)
          /\ Goto(r, "unverified")
          /\ UNCHANGED <<got, cacheVars>>
       \/ /\ Verified(r)
          /\ got' = [got EXCEPT ![r] = Cache!ValueOf(CacheKey(r))]
          /\ Cache!Get(CacheKey(r))
          /\ Goto(r, "get")
    /\ UNCHANGED <<msg, at, signers, userVars, serverKey>>

(* The challenge the response answers.  Fault: any pending one is taken as *)
(* answered.                                                               *)
AnyAnswer(r) == TRUE
AnswersChallenge(r) == got[r] = msg[r].nonce

(* cache.get has answered.  Fault: a missing challenge is not reported.    *)
CompareFound(r) ==
    /\ handler[r] = "get"
    /\ got[r] # None
    /\ Goto(r, IF AnswersChallenge(r) THEN "success" ELSE "incorrect")
    /\ UNCHANGED <<requestVars, userVars, serverKey, cacheVars>>
Compare(r) ==
    /\ handler[r] = "get"
    /\ \/ got[r] = None /\ Goto(r, "notInitiated")
       \/ got[r] # None /\ ~AnswersChallenge(r) /\ Goto(r, "incorrect")
       \/ got[r] # None /\ AnswersChallenge(r) /\ Goto(r, "success")
    /\ UNCHANGED <<requestVars, userVars, serverKey, cacheVars>>

(* The promise the handler waits for is rejected.  What was asked for may  *)
(* have been done: the state set or get left behind stays.                 *)
AwaitRejects(r) ==
    /\ handler[r] \in Awaits
    /\ Goto(r, "threw")
    /\ UNCHANGED <<requestVars, userVars, serverKey, cacheVars>>

(* Node (15 and later) ends a process with an unhandled rejection: every   *)
(* request it is handling is dropped and, unless the cache is elsewhere,   *)
(* every pending challenge.  The process is started again.                 *)
ProcessExits(i) ==
    /\ \E r \in Requests : at[r] = i /\ handler[r] = "threw"
    /\ handler' = [r \in Requests |->
           IF at[r] = i /\ handler[r] \in Awaits \cup {"threw"} THEN "lost" ELSE handler[r]]
    /\ IF SharedCache THEN UNCHANGED cacheVars ELSE Cache!Lose({i} \X UserIds)
    /\ UNCHANGED <<requestVars, userVars, serverKey>>

(* The serverKey function starts to return another key.                    *)
RotateServerKey ==
    /\ serverKey' \in ServerKeys \ {serverKey}
    /\ UNCHANGED <<handler, requestVars, userVars, cacheVars>>

(* A user is removed or given another key, whatever is under way.          *)
UserChanges(u, k) ==
    /\ userKey[u] # k
    /\ userKey' = [userKey EXCEPT ![u] = k]
    /\ inForce' = [r \in Requests |->
           IF handler[r] \in Awaits /\ msg[r].userId = u THEN inForce[r] \cup {k} ELSE inForce[r]]
    /\ UNCHANGED <<handler, requestVars, publicKey, serverKey, cacheVars>>

(* What the cache does of its own accord.  The age of a challenge that is  *)
(* no longer stored is not read again, and left as it is.                  *)
CacheStep ==
    /\ \E k \in Caches \X UserIds :
           /\ store[k] # None
           /\ \/ age[store[k]] # "expired" /\ Cache!GrowOlder({store[k]})
              \/ Cache!Forget(k)
              \/ Cache!Lose({k})
    /\ UNCHANGED <<handler, requestVars, userVars, serverKey>>

(* A client sends a challenge with a nonce of its own, or answers one that *)
(* was sent to it, or a proxy or a client repeats such a request.          *)
Arrives(r) ==
    \E i \in Instances, m \in Inputs :
        \E n \in {n \in Requests : IF m.kind = "response"
                                   THEN handler[n] = "challenged" ELSE n = r} :
            Receive(r, i, [kind |-> m.kind, userId |-> m.userId, signer |-> m.signer,
                           encryptedFor |-> m.encryptedFor, nonce |-> n])

Handle(r) ==
    \/ GetUserResult(r) \/ DecryptAndVerify(r) \/ Sign(r) \/ EncryptAndSet(r) \/ Fail(r)
    \/ VerifyAndGet(r) \/ Compare(r)

(* All the requests of the bound have been handled, and nothing is left.   *)
AllHandled ==
    /\ \A r \in Requests : handler[r] \in Answers \cup {"lost"}
    /\ UNCHANGED vars

Next ==
    \/ \E r \in Requests : Arrives(r) \/ Handle(r) \/ AwaitRejects(r)
    \/ \E i \in Instances : ProcessExits(i)
    \/ RotateServerKey
    \/ \E c \in KeyChanges : UserChanges(c[1], c[2])
    \/ CacheStep
    \/ AllHandled

Spec == Init /\ [][Next]_vars

-------------------------------------------------------------------------------
(* Past getUserResult, publicKey is a key.                                 *)
TypeOK ==
    /\ handler \in [Requests -> States]
    /\ \A r \in Requests :
           handler[r] \in Awaits \ {"getUserResult"} => publicKey[r] \in ClientKeys
    /\ msg \in [Requests -> Messages \cup {None}]
    /\ at \in [Requests -> Instances \cup {None}]
    /\ signers \in [Requests -> (ServerKeys \cup {None}) \X (ServerKeys \cup {None})]
    /\ got \in [Requests -> Requests \cup {None}]
    /\ publicKey \in [Requests -> ClientKeys \cup {None}]
    /\ inForce \in [Requests -> SUBSET (ClientKeys \cup {None})]
    /\ userKey \in [UserIds -> ClientKeys \cup {None}]
    /\ serverKey \in ServerKeys
    /\ store \in [Caches \X UserIds -> Requests \cup {None}]
    /\ age \in [Requests -> Cache!Ages]
    /\ returned \subseteq Requests

(* A challenge gives one try: however often and wherever a response is     *)
(* sent, no two handlers receive the same challenge from the cache, so at  *)
(* most one can succeed with it (MutualKeyChallengeStrategy.ts:54-68).     *)
OneTryPerChallenge ==
    \A r, s \in Requests : got[r] # None /\ got[r] = got[s] => r = s

(* success() is called only for the answer, signed with the key of the     *)
(* user, to a challenge that was issued to the same user and taken out of  *)
(* the cache for this request                                              *)
(* (MutualKeyChallengeStrategy.ts:48-68, 77-93).                           *)
SuccessAnswersTheUsersChallenge ==
    \A r \in Requests : handler[r] = "success" =>
        /\ msg[r].signer = publicKey[r]
        /\ \E c \in Requests :
               /\ c = msg[r].nonce /\ c = got[r] /\ c \in returned
               /\ msg[c].kind = "challenge"
               /\ msg[c].userId = msg[r].userId
               /\ handler[c] \in {"set", "challenged", "threw", "lost"}

(* Only a response signed by the user takes the user's pending challenge   *)
(* out of the cache: any other leaves the handshake under way intact       *)
(* (MutualKeyChallengeStrategy.ts:48-54, the order of verify and get).     *)
OnlyTheUserUsesUpAChallenge ==
    \A c \in returned : \E r \in Requests :
        got[r] = c /\ msg[r].userId = msg[c].userId /\ msg[r].signer = publicKey[r]

(* A key that was taken from its user before a response arrived cannot     *)
(* complete a handshake, even one begun with it: success is for a key the  *)
(* user had at some time while this very request was handled.  Within that *)
(* time the record may be outdated (MutualKeyChallengeStrategy.ts:43-67).  *)
ReplacedKeysAreRefused ==
    \A r \in Requests : handler[r] = "success" => msg[r].signer \in inForce[r]

(* A request is answered, or its connection is dropped because the process *)
(* exited: none is left waiting for ever.  It takes the fairness of        *)
(* Handshake: every promise a handler awaits settles.                      *)
EveryRequestEnds ==
    \A r \in Requests : handler[r] # "idle" ~> handler[r] \in Answers \cup {"lost"}
===============================================================================
