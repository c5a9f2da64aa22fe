---------------------------- MODULE StrategyProofs ----------------------------
(***************************************************************************)
(* Theorems about MutualKeyChallengeStrategy, for every number of requests *)
(* and instances, every set of users and keys, one cache or one in each    *)
(* process.                                                                *)
(***************************************************************************)
EXTENDS MutualKeyChallengeStrategy, TLAPS

CacheKeys == Caches \X UserIds

(* A challenge was issued for request c.  It stays so.                     *)
Issued(c) ==
    /\ handler[c] \in {"set", "challenged", "threw", "lost"}
    /\ msg[c].kind = "challenge"

(* What is known of a request by the place its handler has reached.        *)
HandlersInOrder ==
    \A r \in Requests :
        /\ handler[r] # "idle" => at[r] \in Instances /\ msg[r] \in Messages
        /\ handler[r] \in Awaits => msg[r].userId \in UserIds
        /\ handler[r] \in {"decryptAndVerify", "sign", "encryptAndSign", "set", "challenged"}
               => msg[r].kind = "challenge"

(* What is known of a challenge taken out of the cache for r.              *)
Taken(r) ==
    /\ handler[r] \in {"get", "incorrect", "success", "threw", "lost"}
    /\ got[r] \in returned
    /\ Issued(got[r])
    /\ msg[got[r]].userId = msg[r].userId
    /\ msg[r].signer = publicKey[r]

GotAreTaken == \A r \in Requests : got[r] # None => Taken(r)

(* A handler uses a key that its user has had since the request arrived.   *)
KeysAreInForce ==
    \A r \in Requests :
        /\ handler[r] = "getUserResult" => userKey[msg[r].userId] \in inForce[r]
        /\ handler[r] \in (Awaits \ {"getUserResult"}) \cup {"success"}
               => publicKey[r] \in inForce[r]

SuccessIsTheAnswer ==
    \A r \in Requests : handler[r] = "success" => got[r] # None /\ got[r] = msg[r].nonce

(* What is known of a stored challenge: it is kept for its own request,    *)
(* and under one key only therefore.                                       *)
Kept(k) ==
    /\ Issued(store[k])
    /\ k = CacheKey(store[k])
    /\ store[k] \notin returned

StoredAreKept == \A k \in CacheKeys : store[k] # None => Kept(k)

(* The inductive invariant.                                                *)
StrategyInv ==
    /\ TypeOK
    /\ HandlersInOrder
    /\ KeysAreInForce
    /\ GotAreTaken
    /\ SuccessIsTheAnswer
    /\ StoredAreKept
    /\ OneTryPerChallenge
    /\ OnlyTheUserUsesUpAChallenge

-------------------------------------------------------------------------------
(* The invariant holds before the first request.                           *)
LEMMA StrategyInvInit == Init => StrategyInv
<1> SUFFICES ASSUME Init PROVE StrategyInv
  OBVIOUS
<1> USE StrategyAssumption DEF Init, Cache!Init
<1>1. TypeOK
  BY DEF TypeOK, States, Awaits, Cache!Ages
<1>2. HandlersInOrder /\ KeysAreInForce /\ GotAreTaken /\ SuccessIsTheAnswer /\ StoredAreKept
  BY DEF HandlersInOrder, KeysAreInForce, GotAreTaken, SuccessIsTheAnswer, StoredAreKept, CacheKeys, Awaits
<1>3. OneTryPerChallenge /\ OnlyTheUserUsesUpAChallenge
  BY DEF OneTryPerChallenge, OnlyTheUserUsesUpAChallenge
<1> QED BY <1>1, <1>2, <1>3 DEF StrategyInv

(* A challenge that was returned is an issued one.                         *)
LEMMA ReturnedAreIssued ==
    ASSUME StrategyInv, NEW c \in returned
    PROVE  Issued(c) /\ c # None
<1>1. PICK r \in Requests : got[r] = c
  BY DEF StrategyInv, OnlyTheUserUsesUpAChallenge
<1>2. c \in Requests /\ c # None
  BY StrategyAssumption DEF StrategyInv, TypeOK
<1> QED BY <1>1, <1>2 DEF StrategyInv, GotAreTaken, Taken

(* The part of the invariant that a step preserves which leaves the        *)
(* messages and what was got alone, keeps issued what is issued, and may   *)
(* drop stored challenges.                                                 *)
LEMMA QuietStep ==
    ASSUME StrategyInv, UNCHANGED <<msg, at, got, returned>>,
           \A c \in Requests : Issued(c) => handler'[c] \in {"set", "challenged", "threw", "lost"},
           \A c \in Requests : got[c] # None =>
               handler'[c] \in {"get", "incorrect", "success", "threw", "lost"},
           \A c \in Requests : got[c] # None => publicKey'[c] = publicKey[c],
           \A k \in CacheKeys : store'[k] # None => store'[k] = store[k]
    PROVE  GotAreTaken' /\ StoredAreKept' /\ OneTryPerChallenge' /\ OnlyTheUserUsesUpAChallenge'
<1> USE StrategyAssumption DEF StrategyInv
<1>1. \A c \in Requests : Issued(c) => Issued(c)'
  BY DEF Issued
<1>2. GotAreTaken'
  <2> SUFFICES ASSUME NEW r \in Requests, got[r] # None
               PROVE  Taken(r)'
    BY DEF GotAreTaken
  <2>1. Taken(r) /\ got[r] \in Requests
    BY DEF GotAreTaken, TypeOK
  <2> QED BY <1>1, <2>1 DEF Taken
<1>3. StoredAreKept'
  <2> SUFFICES ASSUME NEW k \in CacheKeys, store'[k] # None
               PROVE  Kept(k)'
    BY DEF StoredAreKept, CacheKeys, Caches
  <2>1. store'[k] = store[k] /\ Kept(k) /\ store[k] \in Requests
    BY DEF StoredAreKept, TypeOK, CacheKeys
  <2> QED BY <1>1, <2>1 DEF Kept, CacheKey, CacheOf
<1>4. OneTryPerChallenge'
  BY DEF OneTryPerChallenge
<1>5. OnlyTheUserUsesUpAChallenge'
  <2> SUFFICES ASSUME NEW c \in returned
               PROVE  \E r \in Requests :
                          got[r] = c /\ msg[r].userId = msg[c].userId /\ msg[r].signer = publicKey'[r]
    BY DEF OnlyTheUserUsesUpAChallenge
  <2>1. c # None
    BY ReturnedAreIssued, StrategyAssumption
  <2> QED BY <2>1 DEF OnlyTheUserUsesUpAChallenge
<1> QED BY <1>2, <1>3, <1>4, <1>5
-------------------------------------------------------------------------------
(* The handlers' steps that leave messages, got and the cache alone.       *)
LEMMA HandlerSteps ==
    ASSUME StrategyInv, NEW r \in Requests,
           \/ GetUserResult(r) \/ DecryptAndVerify(r) \/ Sign(r) \/ Fail(r)
           \/ Compare(r) \/ AwaitRejects(r)
    PROVE  StrategyInv'
<1> USE StrategyAssumption DEF StrategyInv
<1>1. UNCHANGED <<msg, at, got, inForce, userKey, serverKey, store, age, returned>>
  BY DEF GetUserResult, DecryptAndVerify, Sign, Fail, Compare, AwaitRejects,
         requestVars, userVars, cacheVars
<1>2. PICK s \in States : handler' = [handler EXCEPT ![r] = s]
  BY DEF GetUserResult, DecryptAndVerify, Sign, Fail, Compare, AwaitRejects, Goto,
         States, Answers, Errors, Awaits
<1>3. PICK p \in ClientKeys \cup {None} : publicKey' = [publicKey EXCEPT ![r] = p]
  <2>1. CASE GetUserResult(r)
    <3>1. userKey[msg[r].userId] \in ClientKeys \cup {None}
      BY <2>1 DEF GetUserResult, HandlersInOrder, Awaits, TypeOK
    <3> QED BY <2>1, <3>1 DEF GetUserResult, UserFunc
  <2>2. CASE ~GetUserResult(r)
    <3>1. publicKey' = publicKey
      BY <2>2 DEF DecryptAndVerify, Sign, Fail, Compare, AwaitRejects, userVars
    <3> QED BY <3>1 DEF TypeOK
  <2> QED BY <2>1, <2>2
<1>10. /\ handler[r] \in Awaits
       /\ s \in Awaits => s # "getUserResult" /\ p \in ClientKeys
       /\ s \in Awaits \cup {"success"} => p \in inForce[r]
       /\ s \in {"decryptAndVerify", "sign", "encryptAndSign", "set", "challenged"}
              => msg[r].kind = "challenge"
       /\ s = "success" => got[r] # None /\ got[r] = msg[r].nonce
       /\ handler[r] = "set" => s \in {"challenged", "threw"}
       /\ got[r] # None => s \in {"incorrect", "success", "threw"} /\ p = publicKey[r]
  <2>2. got[r] # None => handler[r] \in {"get", "incorrect", "success", "threw", "lost"}
    BY DEF GotAreTaken, Taken
  <2>3. CASE GetUserResult(r)
    <3>1. /\ handler[r] = "getUserResult" /\ got[r] = None
          /\ userKey[msg[r].userId] \in inForce[r]
      BY <2>2, <2>3 DEF GetUserResult, KeysAreInForce
    <3>2. p = userKey[msg[r].userId] /\ publicKey'[r] = p
      BY <1>3, <2>3 DEF GetUserResult, UserFunc, TypeOK
    <3>3. /\ s \in {"noUser", "verify", "decryptAndVerify"}
          /\ s # "noUser" => p # None
          /\ s = "decryptAndVerify" => msg[r].kind = "challenge"
      BY <1>2, <2>3, <3>2 DEF GetUserResult, Goto, TypeOK
    <3> QED BY <3>1, <3>2, <3>3 DEF Awaits
  <2>4. CASE ~GetUserResult(r)
    <3>1. handler[r] \in Awaits
      BY <2>4 DEF DecryptAndVerify, Sign, Fail, Compare, AwaitRejects, Awaits
    <3>4. p = publicKey[r]
      <4>1. publicKey' = publicKey
        BY <2>4 DEF DecryptAndVerify, Sign, Fail, Compare, AwaitRejects, userVars
      <4> QED BY <1>3, <4>1 DEF TypeOK
    <3>2. CASE AwaitRejects(r)
      <4>1. s = "threw"
        BY <1>2, <3>2 DEF AwaitRejects, Goto, TypeOK
      <4> QED BY <3>1, <3>4, <4>1 DEF Awaits
    <3>3. CASE ~AwaitRejects(r)
      <4>1. /\ handler[r] \in Awaits \ {"getUserResult"}
            /\ s # "getUserResult"
            /\ s \in {"decryptAndVerify", "sign", "encryptAndSign", "set"}
                   => handler[r] \in {"decryptAndVerify", "sign"}
            /\ s = "challenged" => handler[r] = "set"
            /\ s = "success" => got[r] # None /\ got[r] = msg[r].nonce
            /\ handler[r] = "set" => s = "challenged"
            /\ handler[r] = "get" => s \in {"notInitiated", "incorrect", "success"}
            /\ s = "notInitiated" => got[r] = None
        BY <1>2, <2>4, <3>3 DEF DecryptAndVerify, Sign, Fail, Compare, Goto, Awaits, TypeOK,
           AnswersChallenge
      <4>2. publicKey[r] \in ClientKeys /\ publicKey[r] \in inForce[r]
        BY <4>1 DEF TypeOK, KeysAreInForce
      <4> QED BY <2>2, <3>4, <4>1, <4>2 DEF HandlersInOrder, Awaits
    <3> QED BY <3>2, <3>3
  <2> QED BY <2>3, <2>4
<1>4. TypeOK'
  <2>1. signers' \in [Requests -> (ServerKeys \cup {None}) \X (ServerKeys \cup {None})]
    BY DEF TypeOK, GetUserResult, DecryptAndVerify, Sign, Fail, Compare, AwaitRejects, requestVars
  <2> QED BY <1>1, <1>2, <1>3, <1>10, <2>1 DEF TypeOK
<1>5. HandlersInOrder'
  BY <1>1, <1>2, <1>10 DEF HandlersInOrder, TypeOK, Awaits
<1>6. SuccessIsTheAnswer'
  BY <1>1, <1>2, <1>10 DEF SuccessIsTheAnswer, TypeOK
<1>8. KeysAreInForce'
  BY <1>1, <1>2, <1>3, <1>10 DEF KeysAreInForce, TypeOK, Awaits
<1>7. GotAreTaken' /\ StoredAreKept' /\ OneTryPerChallenge' /\ OnlyTheUserUsesUpAChallenge'
  <2>1. \A c \in Requests : Issued(c) => handler'[c] \in {"set", "challenged", "threw", "lost"}
    BY <1>2, <1>10 DEF Issued, TypeOK, Awaits
  <2>2. \A c \in Requests : got[c] # None =>
            /\ handler'[c] \in {"get", "incorrect", "success", "threw", "lost"}
            /\ publicKey'[c] = publicKey[c]
    BY <1>2, <1>3, <1>10 DEF GotAreTaken, Taken, TypeOK
  <2> QED BY <1>1, <2>1, <2>2, QuietStep
<1> QED BY <1>4, <1>5, <1>6, <1>7, <1>8
-------------------------------------------------------------------------------
(* What the cache does of its own accord, and what a process that exits    *)
(* takes along, only drops challenges.                                     *)
LEMMA CacheOnlyDrops ==
    ASSUME TypeOK, CacheStep \/ \E i \in Instances : ProcessExits(i)
    PROVE  /\ returned' = returned
           /\ store' \in [CacheKeys -> Requests \cup {None}]
           /\ age' \in [Requests -> Cache!Ages]
           /\ \A k \in CacheKeys : store'[k] # None => store'[k] = store[k]
<1>1. CASE UNCHANGED cacheVars
  BY <1>1 DEF cacheVars, TypeOK, CacheKeys
<1>2. ASSUME NEW S, Cache!Lose(S)
      PROVE  /\ returned' = returned /\ age' = age
             /\ store' \in [CacheKeys -> Requests \cup {None}]
             /\ \A k \in CacheKeys : store'[k] # None => store'[k] = store[k]
  BY <1>2 DEF Cache!Lose, TypeOK, CacheKeys
<1>3. ASSUME NEW k \in CacheKeys, Cache!Forget(k)
      PROVE  /\ returned' = returned /\ age' = age
             /\ store' \in [CacheKeys -> Requests \cup {None}]
             /\ \A j \in CacheKeys : store'[j] # None => store'[j] = store[j]
  BY <1>3 DEF Cache!Forget, TypeOK, CacheKeys
<1>4. ASSUME NEW S, Cache!GrowOlder(S)
      PROVE  returned' = returned /\ store' = store /\ age' \in [Requests -> Cache!Ages]
  <2>1. \A a \in Cache!Ages : Cache!Older(a) \in Cache!Ages
    BY DEF Cache!Older, Cache!Ages
  <2> QED BY <1>4, <2>1 DEF Cache!GrowOlder, TypeOK
<1>5. CASE CacheStep
  <2>1. PICK k \in CacheKeys : \/ Cache!GrowOlder({store[k]})
                               \/ Cache!Forget(k)
                               \/ Cache!Lose({k})
    BY <1>5 DEF CacheStep, CacheKeys
  <2>2. CASE Cache!GrowOlder({store[k]})
    BY <1>4, <2>2 DEF TypeOK, CacheKeys
  <2>3. CASE Cache!Forget(k) \/ Cache!Lose({k})
    BY <1>2, <1>3, <2>3 DEF TypeOK
  <2> QED BY <2>1, <2>2, <2>3
<1>6. CASE \E i \in Instances : ProcessExits(i)
  <2>1. PICK i \in Instances : UNCHANGED cacheVars \/ Cache!Lose({i} \X UserIds)
    BY <1>6 DEF ProcessExits
  <2> QED BY <1>1, <1>2, <2>1 DEF TypeOK
<1> QED BY <1>5, <1>6

(* The steps that no handler takes.                                        *)
LEMMA EnvironmentSteps ==
    ASSUME StrategyInv,
           \/ RotateServerKey \/ CacheStep
           \/ \E i \in Instances : ProcessExits(i)
           \/ \E c \in KeyChanges : UserChanges(c[1], c[2])
    PROVE  StrategyInv'
<1> USE StrategyAssumption DEF StrategyInv
<1>1. UNCHANGED requestVars /\ publicKey' = publicKey /\ serverKey' \in ServerKeys
  BY DEF RotateServerKey, CacheStep, ProcessExits, UserChanges, userVars, TypeOK
<1>2. /\ returned' = returned
      /\ store' \in [CacheKeys -> Requests \cup {None}]
      /\ age' \in [Requests -> Cache!Ages]
      /\ \A k \in CacheKeys : store'[k] # None => store'[k] = store[k]
  <2>1. CASE UNCHANGED cacheVars
    BY <2>1 DEF cacheVars, TypeOK, CacheKeys
  <2> QED BY <2>1, CacheOnlyDrops DEF RotateServerKey, UserChanges
<1>3. /\ handler' \in [Requests -> States]
      /\ \A r \in Requests :
             \/ handler'[r] = handler[r]
             \/ handler[r] \in Awaits \cup {"threw"} /\ handler'[r] = "lost"
  <2>1. CASE UNCHANGED handler
    BY <2>1 DEF TypeOK
  <2>2. CASE \E i \in Instances : ProcessExits(i)
    <3>1. PICK i \in Instances :
              handler' = [r \in Requests |->
                  IF at[r] = i /\ handler[r] \in Awaits \cup {"threw"} THEN "lost" ELSE handler[r]]
      BY <2>2 DEF ProcessExits
    <3> QED BY <3>1 DEF TypeOK, States
  <2> QED BY <2>1, <2>2 DEF RotateServerKey, CacheStep, UserChanges
<1>4. /\ inForce' \in [Requests -> SUBSET (ClientKeys \cup {None})]
      /\ userKey' \in [UserIds -> ClientKeys \cup {None}]
      /\ \A r \in Requests : inForce[r] \subseteq inForce'[r]
      /\ \A r \in Requests : handler'[r] = "getUserResult" =>
             userKey'[msg[r].userId] \in inForce'[r]
  <2>1. CASE UNCHANGED <<inForce, userKey>>
    BY <1>3, <2>1 DEF TypeOK, KeysAreInForce, Awaits
  <2>2. CASE \E c \in KeyChanges : UserChanges(c[1], c[2])
    <3>1. PICK u \in UserIds, k \in ClientKeys \cup {None} : UserChanges(u, k)
      BY <2>2
    <3>2. /\ userKey' = [userKey EXCEPT ![u] = k] /\ UNCHANGED <<handler, msg>>
          /\ inForce' = [r \in Requests |->
                 IF handler[r] \in Awaits /\ msg[r].userId = u
                 THEN inForce[r] \cup {k} ELSE inForce[r]]
      BY <3>1 DEF UserChanges, requestVars
    <3>3. /\ inForce' \in [Requests -> SUBSET (ClientKeys \cup {None})]
          /\ userKey' \in [UserIds -> ClientKeys \cup {None}]
          /\ \A r \in Requests : inForce[r] \subseteq inForce'[r]
      BY <3>2 DEF TypeOK
    <3>4. ASSUME NEW r \in Requests, handler'[r] = "getUserResult"
          PROVE  userKey'[msg[r].userId] \in inForce'[r]
      <4>1. handler[r] = "getUserResult" /\ handler[r] \in Awaits /\ msg[r].userId \in UserIds
        BY <3>2, <3>4 DEF HandlersInOrder, Awaits
      <4>2. userKey[msg[r].userId] \in inForce[r]
        BY <4>1 DEF KeysAreInForce
      <4>3. CASE msg[r].userId = u
        BY <3>2, <4>1, <4>3 DEF TypeOK
      <4>4. CASE msg[r].userId # u
        BY <3>2, <4>1, <4>2, <4>4 DEF TypeOK
      <4> QED BY <4>3, <4>4
    <3> QED BY <3>3, <3>4
  <2> QED BY <2>1, <2>2 DEF RotateServerKey, CacheStep, ProcessExits, userVars
<1>5. TypeOK'
  <2>1. \A r \in Requests : handler'[r] \in Awaits \ {"getUserResult"}
            => publicKey[r] \in ClientKeys
    BY <1>3 DEF TypeOK, Awaits
  <2> QED BY <1>1, <1>2, <1>3, <1>4, <2>1 DEF TypeOK, requestVars, CacheKeys, Caches
<1>6. HandlersInOrder' /\ SuccessIsTheAnswer'
  BY <1>1, <1>3 DEF HandlersInOrder, SuccessIsTheAnswer, requestVars, Awaits
<1>7. KeysAreInForce'
  BY <1>1, <1>3, <1>4 DEF KeysAreInForce, Awaits, requestVars
<1>8. GotAreTaken' /\ StoredAreKept' /\ OneTryPerChallenge' /\ OnlyTheUserUsesUpAChallenge'
  <2>1. \A c \in Requests : Issued(c) => handler'[c] \in {"set", "challenged", "threw", "lost"}
    BY <1>3 DEF Issued
  <2>2. \A c \in Requests : got[c] # None =>
            handler'[c] \in {"get", "incorrect", "success", "threw", "lost"}
    BY <1>3 DEF GotAreTaken, Taken
  <2>3. UNCHANGED <<msg, at, got, returned, publicKey>>
    BY <1>1, <1>2 DEF requestVars
  <2> QED BY <1>2, <2>1, <2>2, <2>3, QuietStep
<1> QED BY <1>5, <1>6, <1>7, <1>8

(* A request arrives.                                                      *)
LEMMA ReceiveStep ==
    ASSUME StrategyInv, NEW r \in Requests, NEW i \in Instances, NEW m \in Messages,
           m.kind # "malformed" => m.userId \in UserIds,
           Receive(r, i, m)
    PROVE  StrategyInv'
<1> USE StrategyAssumption DEF StrategyInv
<1>2. PICK s \in {"malformed", "threw", "getUserResult"} :
          /\ handler' = [handler EXCEPT ![r] = s]
          /\ s = "getUserResult" => /\ m.userId \in UserIds
                                    /\ inForce' = [inForce EXCEPT ![r] = {userKey[m.userId]}]
          /\ s # "getUserResult" => inForce' = inForce
  BY DEF Receive, Goto
<1>3. /\ handler[r] = "idle"
      /\ msg' = [msg EXCEPT ![r] = m]
      /\ at' = [at EXCEPT ![r] = i]
      /\ UNCHANGED <<signers, got, publicKey, userKey, serverKey, store, age, returned>>
  BY DEF Receive, cacheVars
<1>4. got[r] = None /\ ~Issued(r)
  BY <1>3 DEF GotAreTaken, Taken, Issued
<1>5. TypeOK'
  <2>1. \A q \in Requests : handler'[q] \in Awaits \ {"getUserResult"}
            => handler'[q] = handler[q] /\ q # r
    BY <1>2 DEF TypeOK, Awaits
  <2>2. handler' \in [Requests -> States]
    BY <1>2 DEF TypeOK, States, Awaits, Answers, Errors
  <2>3. inForce' \in [Requests -> SUBSET (ClientKeys \cup {None})]
    BY <1>2, <1>3 DEF TypeOK
  <2> QED BY <1>2, <1>3, <2>1, <2>2, <2>3 DEF TypeOK
<1>13. KeysAreInForce'
  BY <1>2, <1>3 DEF KeysAreInForce, TypeOK, Awaits
<1>6. HandlersInOrder' /\ SuccessIsTheAnswer'
  BY <1>2, <1>3 DEF HandlersInOrder, SuccessIsTheAnswer, TypeOK, Awaits
<1>7. \A c \in Requests : Issued(c) => c # r /\ Issued(c)' /\ msg'[c] = msg[c] /\ at'[c] = at[c]
  BY <1>2, <1>3, <1>4 DEF Issued, TypeOK
<1>8. \A q \in Requests : q # r => handler'[q] = handler[q] /\ msg'[q] = msg[q]
  BY <1>2, <1>3 DEF TypeOK
<1>9. GotAreTaken'
  <2> SUFFICES ASSUME NEW q \in Requests, got[q] # None
               PROVE  Taken(q)'
    BY <1>3 DEF GotAreTaken
  <2>1. Taken(q) /\ got[q] \in Requests /\ q # r
    BY <1>4 DEF GotAreTaken, TypeOK
  <2> QED BY <1>3, <1>7, <1>8, <2>1 DEF Taken
<1>10. StoredAreKept'
  <2> SUFFICES ASSUME NEW k \in CacheKeys, store[k] # None
               PROVE  Kept(k)'
    BY <1>3 DEF StoredAreKept, CacheKeys, Caches
  <2>1. Kept(k) /\ store[k] \in Requests
    BY DEF StoredAreKept, TypeOK, CacheKeys
  <2> QED BY <1>3, <1>7, <2>1 DEF Kept, CacheKey, CacheOf
<1>11. OneTryPerChallenge'
  BY <1>3 DEF OneTryPerChallenge
<1>12. OnlyTheUserUsesUpAChallenge'
  <2> SUFFICES ASSUME NEW c \in returned
               PROVE  \E q \in Requests : /\ got[q] = c /\ msg'[q].userId = msg'[c].userId
                                          /\ msg'[q].signer = publicKey[q]'
    BY <1>3 DEF OnlyTheUserUsesUpAChallenge
  <2>1. PICK q \in Requests : /\ got[q] = c /\ msg[q].userId = msg[c].userId
                              /\ msg[q].signer = publicKey[q]
    BY DEF OnlyTheUserUsesUpAChallenge
  <2>2. c \in Requests /\ c # None /\ q # r
    BY <1>4, <2>1 DEF TypeOK
  <2>3. msg'[c] = msg[c]
    BY <1>7, <2>2, ReturnedAreIssued
  <2> QED BY <1>3, <1>8, <2>1, <2>2, <2>3
<1> QED BY <1>5, <1>6, <1>9, <1>10, <1>11, <1>12, <1>13

(* What arrives is one of the inputs, with a nonce.                        *)
LEMMA ArrivesStep ==
    ASSUME StrategyInv, NEW r \in Requests, Arrives(r)
    PROVE  StrategyInv'
<1>1. PICK i \in Instances, j \in Inputs, n \in Requests :
          Receive(r, i, [kind |-> j.kind, userId |-> j.userId, signer |-> j.signer,
                         encryptedFor |-> j.encryptedFor, nonce |-> n])
  BY DEF Arrives
<1> DEFINE m == [kind |-> j.kind, userId |-> j.userId, signer |-> j.signer,
                 encryptedFor |-> j.encryptedFor, nonce |-> n]
<1>2. m \in Messages /\ (m.kind # "malformed" => m.userId \in UserIds)
  BY StrategyAssumption DEF Messages
<1> QED BY <1>1, <1>2, ReceiveStep
-------------------------------------------------------------------------------
(* The request's challenge is stored, in the place of an earlier one.      *)
LEMMA EncryptAndSetStep ==
    ASSUME StrategyInv, NEW r \in Requests, EncryptAndSet(r)
    PROVE  StrategyInv'
<1> USE StrategyAssumption DEF StrategyInv
<1> DEFINE k == CacheKey(r)
<1>1. /\ handler[r] = "encryptAndSign"
      /\ handler' = [handler EXCEPT ![r] = "set"]
      /\ store' = [store EXCEPT ![k] = r]
      /\ UNCHANGED <<msg, at, got, publicKey, inForce, userKey, serverKey, returned>>
  BY DEF EncryptAndSet, Cache!Set, Goto, userVars
<1>2. k \in CacheKeys /\ msg[r].kind = "challenge" /\ at[r] \in Instances
  BY <1>1 DEF HandlersInOrder, Awaits, CacheKeys, CacheKey, Caches, CacheOf
<1>3. ~Issued(r) /\ r \notin returned /\ got[r] = None
  BY <1>1, ReturnedAreIssued DEF Issued, GotAreTaken, Taken
<1>4. TypeOK'
  <2>1. signers' \in [Requests -> (ServerKeys \cup {None}) \X (ServerKeys \cup {None})]
    BY DEF EncryptAndSet, TypeOK
  <2>2. age' \in [Requests -> Cache!Ages]
    BY DEF EncryptAndSet, Cache!Set, TypeOK
  <2>3. store' \in [CacheKeys -> Requests \cup {None}]
    BY <1>1, <1>2 DEF TypeOK, CacheKeys
  <2>4. publicKey[r] \in ClientKeys
    BY <1>1 DEF TypeOK, Awaits
  <2>5. handler' \in [Requests -> States]
    BY <1>1 DEF TypeOK, States, Awaits
  <2> QED BY <1>1, <2>1, <2>2, <2>3, <2>4, <2>5 DEF TypeOK, CacheKeys, Caches
<1>5. HandlersInOrder' /\ SuccessIsTheAnswer'
  BY <1>1, <1>2 DEF HandlersInOrder, SuccessIsTheAnswer, TypeOK, Awaits
<1>10. KeysAreInForce'
  BY <1>1 DEF KeysAreInForce, TypeOK, Awaits
<1>6. \A c \in Requests : Issued(c) \/ c = r => Issued(c)'
  BY <1>1, <1>2 DEF Issued, TypeOK
<1>7. GotAreTaken'
  <2> SUFFICES ASSUME NEW q \in Requests, got[q] # None
               PROVE  Taken(q)'
    BY <1>1 DEF GotAreTaken
  <2>1. Taken(q) /\ got[q] \in Requests /\ q # r
    BY <1>3 DEF GotAreTaken, TypeOK
  <2>2. handler'[q] = handler[q]
    BY <1>1, <2>1 DEF TypeOK
  <2> QED BY <1>1, <1>6, <2>1, <2>2 DEF Taken
<1>8. StoredAreKept'
  <2> SUFFICES ASSUME NEW j \in CacheKeys, store'[j] # None
               PROVE  Kept(j)'
    BY DEF StoredAreKept, CacheKeys, Caches
  <2> HIDE DEF k
  <2>1. CASE j = k
    <3>1. store'[j] = r
      BY <1>1, <1>2, <2>1 DEF TypeOK, CacheKeys
    <3>2. k = CacheKey(r) /\ CacheKey(r)' = CacheKey(r)
      BY <1>1 DEF k, CacheKey, CacheOf
    <3> QED BY <1>1, <1>3, <1>6, <2>1, <3>1, <3>2 DEF Kept, CacheKey, CacheOf
  <2>2. CASE j # k
    <3>1. store'[j] = store[j]
      BY <1>1, <2>2 DEF TypeOK, CacheKeys
    <3>2. Kept(j) /\ store[j] \in Requests
      BY <3>1 DEF StoredAreKept, TypeOK, CacheKeys
    <3> QED BY <1>1, <1>6, <3>1, <3>2 DEF Kept, CacheKey, CacheOf
  <2> QED BY <2>1, <2>2
<1>9. OneTryPerChallenge' /\ OnlyTheUserUsesUpAChallenge'
  BY <1>1 DEF OneTryPerChallenge, OnlyTheUserUsesUpAChallenge
<1> QED BY <1>4, <1>5, <1>7, <1>8, <1>9, <1>10

(* A response takes the user's challenge out of the cache, if it is        *)
(* signed by the user.                                                     *)
LEMMA VerifyAndGetStep ==
    ASSUME StrategyInv, NEW r \in Requests, VerifyAndGet(r)
    PROVE  StrategyInv'
<1> USE StrategyAssumption DEF StrategyInv
<1>1. /\ handler[r] = "verify"
      /\ UNCHANGED <<msg, at, signers, publicKey, inForce, userKey, serverKey>>
  BY DEF VerifyAndGet, userVars
<1>2. /\ CacheKey(r) \in CacheKeys /\ msg[r].userId \in UserIds
      /\ publicKey[r] \in ClientKeys /\ got[r] = None /\ ~Issued(r)
  BY <1>1 DEF TypeOK, HandlersInOrder, Awaits, CacheKeys, CacheKey, Caches, CacheOf,
     GotAreTaken, Taken, Issued
<1>3. PICK s \in {"unverified", "get"} : handler' = [handler EXCEPT ![r] = s]
  BY DEF VerifyAndGet, Goto
<1>4. PICK c \in Requests \cup {None} :
          /\ got' = [got EXCEPT ![r] = c]
          /\ returned' = returned \cup ({c} \ {None})
          /\ c # None => c = store[CacheKey(r)] /\ s = "get" /\ Verified(r)
          /\ \/ store' = store /\ c = None
             \/ store' = [store EXCEPT ![CacheKey(r)] = None]
          /\ age' = age
  <2>1. CASE ~Verified(r)
    <3>1. got' = got /\ UNCHANGED cacheVars
      BY <2>1 DEF VerifyAndGet
    <3>2. got' = [got EXCEPT ![r] = None]
      BY <1>2, <3>1 DEF TypeOK
    <3> QED BY <3>1, <3>2 DEF cacheVars
  <2>2. CASE Verified(r)
    <3>1. /\ got' = [got EXCEPT ![r] = Cache!ValueOf(CacheKey(r))]
          /\ Cache!Get(CacheKey(r)) /\ handler' = [handler EXCEPT ![r] = "get"]
      BY <2>2 DEF VerifyAndGet, Goto
    <3>2. s = "get"
      BY <1>3, <3>1 DEF TypeOK
    <3>3. /\ Cache!ValueOf(CacheKey(r)) \in Requests \cup {None}
          /\ Cache!ValueOf(CacheKey(r)) # None
                 => Cache!ValueOf(CacheKey(r)) = store[CacheKey(r)]
      BY <1>2 DEF Cache!ValueOf, TypeOK, CacheKeys
    <3> QED BY <2>2, <3>1, <3>2, <3>3 DEF Cache!Get
  <2> QED BY <2>1, <2>2
<1>5. c # None => /\ Issued(c) /\ msg[c].userId = msg[r].userId
                  /\ c \notin returned /\ c # r
                  /\ CacheKey(c) = CacheKey(r)
  BY <1>2, <1>4 DEF StoredAreKept, Kept, CacheKey
<1>6. \A q \in Requests : /\ Issued(q) => Issued(q)'
                          /\ q # r => got'[q] = got[q] /\ handler'[q] = handler[q]
  BY <1>1, <1>2, <1>3, <1>4 DEF Issued, TypeOK
<1>7. got'[r] = c /\ handler'[r] = s
  BY <1>3, <1>4 DEF TypeOK
<1>8. TypeOK'
  <2>1. store' \in [CacheKeys -> Requests \cup {None}]
    BY <1>2, <1>4 DEF TypeOK, CacheKeys
  <2>2. handler' \in [Requests -> States]
    BY <1>3 DEF TypeOK, States, Awaits, Answers, Errors
  <2> QED BY <1>1, <1>2, <1>3, <1>4, <2>1, <2>2 DEF TypeOK, CacheKeys, Caches
<1>9. HandlersInOrder' /\ SuccessIsTheAnswer'
  BY <1>1, <1>2, <1>3, <1>6, <1>7 DEF HandlersInOrder, SuccessIsTheAnswer, TypeOK, Awaits
<1>14. KeysAreInForce'
  BY <1>1, <1>2, <1>3, <1>6, <1>7 DEF KeysAreInForce, TypeOK, Awaits
<1>10. GotAreTaken'
  <2> SUFFICES ASSUME NEW q \in Requests, got'[q] # None
               PROVE  Taken(q)'
    BY DEF GotAreTaken
  <2>1. CASE q = r
    BY <1>1, <1>4, <1>5, <1>6, <1>7, <2>1 DEF Taken, Verified
  <2>2. CASE q # r
    <3>1. Taken(q) /\ got[q] \in Requests /\ got'[q] = got[q] /\ handler'[q] = handler[q]
      BY <1>6, <2>2 DEF GotAreTaken, TypeOK
    <3> QED BY <1>1, <1>4, <1>6, <3>1 DEF Taken
  <2> QED BY <2>1, <2>2
<1>11. StoredAreKept'
  <2> SUFFICES ASSUME NEW j \in CacheKeys, store'[j] # None
               PROVE  Kept(j)'
    BY DEF StoredAreKept, CacheKeys, Caches
  <2>1. store'[j] = store[j] /\ Kept(j) /\ store[j] \in Requests /\ (c = None \/ j # CacheKey(r))
    BY <1>2, <1>4 DEF StoredAreKept, TypeOK, CacheKeys
  <2>2. store[j] # c \/ c = None
    BY <1>5, <2>1 DEF Kept
  <2> QED BY <1>1, <1>4, <1>6, <2>1, <2>2 DEF Kept, CacheKey, CacheOf
<1>12. OneTryPerChallenge'
  <2> SUFFICES ASSUME NEW p \in Requests, NEW q \in Requests, got'[p] # None, got'[p] = got'[q]
               PROVE  p = q
    BY DEF OneTryPerChallenge
  <2>1. \A u \in Requests : u # r /\ got'[u] # None => got'[u] \in returned
    BY <1>6 DEF GotAreTaken, Taken
  <2> QED BY <1>5, <1>6, <1>7, <2>1 DEF OneTryPerChallenge
<1>13. OnlyTheUserUsesUpAChallenge'
  <2> SUFFICES ASSUME NEW d \in returned'
               PROVE  \E q \in Requests : /\ got'[q] = d /\ msg[q].userId = msg[d].userId
                                          /\ msg[q].signer = publicKey[q]
    BY <1>1 DEF OnlyTheUserUsesUpAChallenge
  <2>1. CASE d \in returned
    <3>1. PICK q \in Requests : /\ got[q] = d /\ msg[q].userId = msg[d].userId
                                /\ msg[q].signer = publicKey[q]
      BY <2>1 DEF OnlyTheUserUsesUpAChallenge
    <3>2. q # r
      BY <1>2, <2>1, <3>1 DEF TypeOK
    <3> QED BY <1>6, <3>1, <3>2
  <2>2. CASE d = c /\ c # None
    BY <1>4, <1>5, <1>7, <2>2 DEF Verified
  <2> QED BY <1>4, <2>1, <2>2
<1> QED BY <1>8, <1>9, <1>10, <1>11, <1>12, <1>13, <1>14

(* Every step preserves the invariant.                                     *)
LEMMA StrategyInvStep == StrategyInv /\ [Next]_vars => StrategyInv'
<1> SUFFICES ASSUME StrategyInv, [Next]_vars
             PROVE  StrategyInv'
  OBVIOUS
<1>1. ASSUME NEW r \in Requests, Arrives(r)
      PROVE  StrategyInv'
  BY <1>1, ArrivesStep
<1>2. ASSUME NEW r \in Requests, Handle(r) \/ AwaitRejects(r)
      PROVE  StrategyInv'
  BY <1>2, HandlerSteps, EncryptAndSetStep, VerifyAndGetStep DEF Handle
<1>3. CASE \/ RotateServerKey \/ CacheStep
           \/ \E i \in Instances : ProcessExits(i)
           \/ \E c \in KeyChanges : UserChanges(c[1], c[2])
  BY <1>3, EnvironmentSteps
<1>4. CASE UNCHANGED vars
  <2>1. UNCHANGED <<handler, msg, at, signers, got, publicKey, inForce, userKey, serverKey,
                    store, age, returned>>
    BY <1>4 DEF vars, requestVars, userVars, cacheVars
  <2>2. TypeOK' /\ HandlersInOrder' /\ SuccessIsTheAnswer' /\ KeysAreInForce'
    BY <2>1 DEF StrategyInv, TypeOK, HandlersInOrder, KeysAreInForce, SuccessIsTheAnswer, Caches
  <2>3. GotAreTaken' /\ StoredAreKept' /\ OneTryPerChallenge' /\ OnlyTheUserUsesUpAChallenge'
    BY <2>1, QuietStep DEF Issued, StrategyInv, GotAreTaken, Taken
  <2> QED BY <2>2, <2>3 DEF StrategyInv
<1> QED
  BY <1>1, <1>2, <1>3, <1>4 DEF Next, AllHandled

(* The invariant holds throughout.                                         *)
THEOREM StrategyInvariant == Spec => []StrategyInv
BY StrategyInvInit, StrategyInvStep, PTL DEF Spec

(* Type correctness; past getUserResult the public key is there.           *)
THEOREM StrategyTypeCorrect == Spec => []TypeOK
<1>1. StrategyInv => TypeOK
  BY DEF StrategyInv
<1> QED BY <1>1, StrategyInvariant, PTL

(* No challenge is received twice from the cache.                          *)
THEOREM OneTry == Spec => []OneTryPerChallenge
<1>1. StrategyInv => OneTryPerChallenge
  BY DEF StrategyInv
<1> QED BY <1>1, StrategyInvariant, PTL

(* success() only for the user's own answer to the user's own challenge.   *)
THEOREM SuccessIsDeserved == Spec => []SuccessAnswersTheUsersChallenge
<1>1. StrategyInv => SuccessAnswersTheUsersChallenge
  <2> SUFFICES ASSUME StrategyInv, NEW r \in Requests, handler[r] = "success"
               PROVE  /\ msg[r].signer = publicKey[r]
                      /\ got[r] \in Requests /\ got[r] = msg[r].nonce /\ got[r] \in returned
                      /\ Issued(got[r]) /\ msg[got[r]].userId = msg[r].userId
    BY DEF SuccessAnswersTheUsersChallenge, Issued
  <2> QED BY DEF StrategyInv, SuccessIsTheAnswer, GotAreTaken, Taken, TypeOK
<1> QED BY <1>1, StrategyInvariant, PTL

(* Only a response signed by the user uses up the user's challenge.        *)
THEOREM OnlyTheUserTakesIt == Spec => []OnlyTheUserUsesUpAChallenge
<1>1. StrategyInv => OnlyTheUserUsesUpAChallenge
  BY DEF StrategyInv
<1> QED BY <1>1, StrategyInvariant, PTL

(* A key taken from its user before the response arrived is refused.       *)
THEOREM ReplacedKeysRefused == Spec => []ReplacedKeysAreRefused
<1>1. StrategyInv => ReplacedKeysAreRefused
  <2> SUFFICES ASSUME StrategyInv, NEW r \in Requests, handler[r] = "success"
               PROVE  msg[r].signer \in inForce[r]
    BY DEF ReplacedKeysAreRefused
  <2>1. msg[r].signer = publicKey[r]
    BY DEF StrategyInv, SuccessIsTheAnswer, GotAreTaken, Taken
  <2>2. publicKey[r] \in inForce[r]
    BY DEF StrategyInv, KeysAreInForce
  <2> QED BY <2>1, <2>2
<1> QED BY <1>1, StrategyInvariant, PTL
===============================================================================
