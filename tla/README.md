# A verification of passport-mutual-key-challenge

TLA+ modules, TLC configurations and TLAPS proofs for the mutual handshake that
`lib/server` (a Passport strategy) and `lib/client` implement, for the demonstration in
`src/`, and for the script that releases them.  Paths below are relative to the repository.

## 1. The system

| Component | State | Operations | Talks to |
|---|---|---|---|
| `LocalChallengeCache` (`lib/server/src`) | `challengeMap`, `clearTimeouts`, armed timers | `get`, `set`, the timers' callback | called by the strategy; the event loop |
| `ChallengeCache` (`Types/ChallengeCache.ts`) | an interface | `get`, `set`, perhaps asynchronous | any implementation, a shared one (Redis) among them |
| `MutualKeyChallengeStrategy` | options; per request a chain of awaits | `authenticate`, `handleChallengeRequest`, `handleChallengeResponse`, `getUserResult` | parser, `userFunc`, verifier, cache, passport's `error`/`fail`/`success` |
| `MessageVerifier` | the key, or the function asked for it each time | `decryptAndVerify`, `sign`, `encryptAndSign`, `verify` | node's crypto |
| `MutualKeyChallengeOptions`, the client's options | none | the defaults and how options are laid over them | both constructors |
| `RequestFuncs`, `DefaultFuncs` | none | header parser, body parser; format and extract functions | called first by `authenticate`; by `request()` |
| `HandshakeClient` (`lib/client/src`) | per call: the promise, the nonce | `request`, `getRequestPromise` | HTTP |
| demo server (`src/src`) | the tokens it has signed are with the clients | router, mutual and JWT strategies, `authenticateJwt`, `/protected` | passport, express |
| demo client (`src/src/Client.ts`) | none | one handshake, one call of `/protected` | `HandshakeClient`, HTTP |
| `incrementVersion.js` | the `package.json` files | reads all, writes them one by one | the file system, git |
| workflows, `docs/`, `.yarn` | - | configuration, generated and vendored files | - |

A handshake: the client sends a nonce encrypted for the server and signed; the strategy
answers with that nonce signed, and a nonce of its own encrypted and signed (`fail`, 401),
which it keeps in the cache under the user's id; the client checks both and sends the second
nonce back, signed; the strategy takes the challenge out of the cache, compares and calls
`success`.  In the demo the router then sends a JWT, which the client shows to `/protected`.

What is hard:

* **Interleaving.**  Handlers of many requests interleave at every await, in one process or
  several.  The cache has one entry per user, so overlapping handshakes of a user meet in it.
* **State read before an await and used after it.**  The user's record is read first; the
  server's key is asked for at every use.
* **Timers.**  `LocalChallengeCache` never calls `clearTimeout`; timers of earlier sets stay
  armed.
* **Failure.**  passport does not look at the promise `authenticate` returns: an exception
  between two awaits is an unhandled rejection, which ends the process (Node 15 and later; the
  workflows use 16) with all requests in hand and, with the local cache, every pending
  challenge.  The client has no timeout; an answer it cannot parse ends its process.
* **Two sides configured apart.**  Each side resolves its options alone; whether they fit
  shows only in a handshake.
* **Several files, one version.**  The version script can be stopped between two files.

What makes each part correct: the cache returns each challenge once and unexpired, and leaks
nothing; the strategy succeeds only for the user's own answer to the user's own challenge,
under a key that is still the user's, gives each challenge one try, and leaves no request
waiting; the client answers only a server that has proved itself for this very call; together
they keep to the promise of the README, and an undisturbed handshake succeeds; options that
fit are exactly those with which it does; only who has completed a handshake is served; the
committed packages have one version.

## 2. Modules

| Module | Models | Role |
|---|---|---|
| `ChallengeCache` | `Types/ChallengeCache.ts` | abstract: `DocumentedSpec` to the letter, `Spec` which also lets a cache lose entries |
| `LocalChallengeCache` | `LocalChallengeCache.ts` | detailed; refines `ChallengeCache` |
| `MutualKeyChallengeStrategy` | `MutualKeyChallengeStrategy.ts`, `MessageVerifier.ts`, `Types` | the server's half, over an instance of `ChallengeCache` |
| `HandshakeClient` | `HandshakeClient.ts`, `DefaultFuncs.ts` | the client's half; `Handshake` uses its actions |
| `MutualAuthentication` | the promise of `README.md:12-17` | abstract: trust, claim and acceptance of sessions |
| `Handshake` | both halves, the router, the network | the composition; refines `MutualAuthentication` |
| `Demo` | `Client.ts`, `App.ts`, `PassportJwt.ts`, `PassportMutual.ts`, `AuthenticateMiddleware.ts` | extends `Handshake` by what happens before and after it |
| `RequestFuncs` | `RequestFuncs.ts`, `DefaultFuncs.ts`, the router's JSON | operators: what is put on the wire and taken off |
| `Exchange` | all options, `MessageVerifier.ts`, both handlers, `request()` | one handshake between sides with any options, over `RequestFuncs` |
| `IncrementVersion` | `incrementVersion.js` | the script, stopped and run again |
| `MCStrategy`, `MCHandshake`, `MCDemo`, `MCExchange`, `MCIncrementVersion` | - | values for TLC |
| `LocalChallengeCacheProofs`, `StrategyProofs`, `MutualAuthenticationProofs`, `HandshakeProofs`, `DemoProofs`, `RequestFuncsProofs`, `ExchangeProofs`, `IncrementVersionProofs` | - | theorems |

### How state and actions correspond to the code

**LocalChallengeCache.**  `challengeMap` and `clearTimeouts` are the two maps.  A call of
`set` is numbered; the number stands for the challenge and for the `Timeout`.  `timers` is the
event loop's part.  `requestAge` is `Date.now() - requestDateTime`, kept up to `TtlMs + 1` (all
that is compared with is `TtlMs`).  `Set`, `Get`, `TimerFires` are whole calls, since each runs
in one turn.  `set` takes the request's age as a parameter: `requestDateTime` is taken when the
request is parsed, the timer starts later.  A due timer may be late; timers have one delay and
run in the order they were armed.

**MutualKeyChallengeStrategy.**  `handler[r]` names the await the handler of request `r` is
at, or how it ended.  One action is the code between two awaits: `Receive` (parse),
`GetUserResult`, `DecryptAndVerify`, `Sign`, `EncryptAndSet`, `Fail`, `VerifyAndGet`,
`Compare`.  A nonce is named by the request that drew it.  A signature is the key that made it,
an encryption the key it is for.  `publicKey[r]` is the record `userFunc` returned, used until
the handler ends; `userKey` is what it would return now, which `UserChanges` replaces or
removes; `inForce[r]` is a history variable, the keys the user has had since `r` arrived.
`AwaitRejects` stands for a callback, a cache or a crypto function that throws; `ProcessExits`
for the end of the process that follows, after which it is started again.  `at[r]` is the
instance; `SharedCache` chooses one cache for all or one per process.  `RotateServerKey`
changes what the key function returns.  `CacheStep` is what a cache does by itself.

**HandshakeClient.**  `stage[s]` is how far a call of `request()` is; `reply[s]` the server's
nonce it has accepted, `result[s]` the body it was resolved with.  "crashed" is an exception in
the `'end'` listener, which takes every call of the process with it; "hung" a call whose answer
was cut off, "stalled" one whose connection stays open and silent.  Nothing will settle the
promise of either: there is no listener for the one, no timeout for the other.

**Handshake.**  Call `s` makes the requests `<<s, "challenge">>` and `<<s, "response">>`.
`Deliver` hands a request to a server even if its sender has given up; `Answered` hands the
router's body to the call that asked; `NetworkTrouble` covers connection errors, cut responses,
stalled connections and answers handed to a call that did not ask.  `disturbed` remembers that
something went wrong. The refinement takes a client to trust the server once it answers
(`reply`), the server to claim a challenge with `get` (`got`) and to accept with `success()`.

**Demo.**  `program[s]` is what a run of `Client.ts` waits for or how it ended; `token[s]` the
body it takes for a token; `access[s]` the answer of `/protected`.  A token is named by the
request whose success it was issued for.  `Verdicts` are the three ways of `passport-jwt`'s
strategy: a refusal, `done("JWT Expired")`, a payload.  Two things the code does are visible in
the actions and worth knowing: the program prints "Call Protected Success!" whatever the
status, a 401 included (`Client.ts:65-74`), and it ends silently with exit code 0 when an
answer is cut off, because nothing is left to wait for.  A run whose connection stalls, in the
handshake or at `/protected`, does not end.

**RequestFuncs, Exchange.**  A JavaScript value is a record, a header a sequence of tokens;
`Property` of what is not there is `Undefined`, on which `Buffer.from` throws.  `given` are the
options of the two constructors, laid over the defaults by `Resolved`; `turn` is who is to move
or how the handshake has ended.  A padding has a capacity, and decrypting what was encrypted
otherwise throws or, with PKCS1 padding and a Node that hides the failure, yields garbage.

**IncrementVersion.**  `disk` and `committed` are the package files on disk and in git;
`packageJsons`, `newVersion` and `written` the script's own.  `Stopped` leaves the file that was
being written as it was, or cut short (`None`), which the next run cannot parse.

Operators whose comment says "Fault:" are plausible bugs of the definition that follows them.
No specification uses them: each stands for a change of the code under which a property must
fail.

## 3. Runs

| Run | Checks | Bound and why |
|---|---|---|
| `local_cache` | types; every entry has its timer; a fresh challenge is dropped only by a stale timer; every challenge leaves; refines the cache contract | 2 keys, TTL 2, 3 sets: two sets of one key and one of another, with gaps below, at and above the TTL |
| `local_cache_spaced` | with callers spaced out, refines the documented contract | 2 keys, TTL 2, 4 sets |
| `local_cache_stale_timer` | *violated*: the documented contract under all callers | 4 sets; two suffice |
| `local_cache_long_ttl` | *violated*: the documented contract with a TTL above `setTimeout`'s limit | TTL 3, limit 2 |
| `strategy` | types; one try per challenge; success only for the right answer; only the user uses up a challenge; replaced keys are refused | 3 requests of every kind and flaw, repeats included, 2 server keys, a replacement of the user's key, one instance: a challenge and two answers, or two challenges and an answer. Several instances differ in whose cache and which exits a request meets; the theorems of `StrategyProofs` are for any number of them |
| `strategy_shared` | one try per challenge and success only for the right answer, with two processes and one cache behind both | 4 requests of one user without flaws: a challenge whose answer is sent to both processes, or to one twice, and another challenge besides; an exit leaves the cache as it is |
| `handshake` | types; both sides are in the same handshake; when nothing goes wrong a response fails (refused, thrown out or lost) only because of an overlap, and a process crashes only over a wrong key; refines `MutualAuthentication` | 2 calls of one user in one process, 2 server keys, a closed account, all troubles, one shared cache |
| `demo` | only who has completed a handshake is served, and only with a token that is still good; every request ends; a program reports every failure but a cut answer and a stalled connection; an undisturbed run ends in no other way than served, and does end | 2 runs, for two users; 2 troubles (one for each run, or two in a row for one), and any number of exits |
| `exchange` | accepted exactly when compatible; a sound server throws only on what it cannot decrypt | 22336 pairs of options: all pairs of hash, paddings and nonce size (the default and both sides of each capacity), and every option left out, given or undefined; keys of 2048 bits; a user id with and without "cha" in it |
| `exchange_defaults` | *violated*: two sides with only the required options understand each other | that pair |
| `exchange_header` | *violated*: the documented header format is understood | that pair |
| `increment_version` | committed packages agree; a new version is later than all there are | the 4 files of the script, 4 runs, versions 0.0.0 to 1.1.1 to start with |

Sets of requests, calls and keys are the bounds.  Capped besides: ages (they saturate),
`MaxSets`, `MaxTroubles`, `MaxRuns`.  `strategy`, `strategy_shared` and `handshake` use symmetry
in the requests, instances or calls; they check safety only.  Deadlock is checked in all runs:
the steps `AllHandled`, `AllEnded`, `AllExited`, `Ended` and `AllRun` let a behaviour stop only
when each request is answered or dropped, each call or program has ended, and so on.

### Fairness

* `LocalChallengeCache!FairSpec`: the clock advances and the event loop runs due timers.
  Callers owe nothing.
* `Demo!FairDemoSpec` = `Handshake!Progress` and fairness of the programs.  `Progress`:
  as long as a call waits, its requests and their answers are delivered; the promises a handler
  awaits settle; and a process with an unhandled rejection exits.  A run of `Client.ts` goes on
  when what it awaits has happened, and its GET is answered.  A connection may stall at any time
  (`ConnectionStalls`, and "stalled" in `ProtectedTrouble`), and nothing is assumed of it from
  then on.  Nothing is assumed of clients starting calls, of failures, of changes of
  keys or of the cache.  Promises that never settle (a `userFunc` that hangs) are outside the
  assumption: the code has no timeout for them.

### What the violated runs show

1. `set` and `get` forget the `Timeout` without cancelling it.  A second handshake of a user
   within two minutes of the first loses its challenge when the first one's timer fires,
   although the contract says that get returns null only for an expired or missing key.
2. A `ttlMs` above 2147483647 becomes a delay of 1 ms.
3. The default parser reads the header (`MutualKeyChallengeOptions.ts:93`), the documented
   default and the client's default is the body: with the defaults no handshake begins.
4. A challenge in the header format that the error message asks for makes `authenticate`
   throw: the alternation in `CHALLENGE_REGEX` gives the message groups to the response alone.
   `HeaderGivesNoChallenge` proves it for every header.

Met while modelling, and not the subject of a run: the promise of `request()` is resolved with
the body of the second answer whatever its status, so that a caller has to look at the body, as
`Client.ts` does, to know whether it was accepted; a challenge *request* that is refused carries
`ChallengeStage.ServerChallenge`, which the enum's comment keeps for the response; the header
text lacks the "=" that the expressions require after `cha` and `res` (`DocumentedHeader` follows
the text; with the "=" the server throws just the same); the server calls the option
`signaturePadding`, the client `signVerifyPadding`; `getNewVersion` never increments when
`INCREMENT_POS` is "major", since `reduce` starts from the first part.

## 4. Proofs

Each theorem holds for all values of the constants under the named assumptions of its module.
They give the constants their kinds; `OptionsAssumption` says that options have the types of
the TypeScript interfaces and that the parser's three fields have different names.

**LocalChallengeCacheProofs.**  `CacheInv` is `TypeOK`, `EntriesAreTimed` and `OnlyPastSets`
(what is stored or timed was set before; needed because `get` adds a stored challenge to
`returned`, and because a new number must be new to the maps).  From it `TypeCorrect` and
`EntriesTimed`.  `LocalCacheIsACache` maps each step to one of the contract: `get` to `Get`,
`set` to `Set`, a tick to `GrowOlder`, a timer to `Lose`.  With `TtlMs` a delay `setTimeout`
accepts, `TimersNotEarly` (age + time left >= TTL) is inductive too; it yields
`OnlyStaleTimersDrop` and, with one timer per key for spaced callers,
`SpacedCallersGetTheDocumentedCache`, where a timer maps to `Forget`.

**StrategyProofs.**  None of the safety properties is inductive by itself.  `StrategyInv` adds:
a stored challenge was issued for the user it is stored under, by a handler past `set`, and is
not among those returned (which makes the store injective); what a handler got was issued to
its user and verified; success means the answer matched; what each stage of a handler knows of
its message; and the key a handler keeps is one the user has had since the request arrived.

**MutualAuthenticationProofs, HandshakeProofs.**  `Agreement` is inductive in the abstract
specification.  `HandshakeInv` joins `StrategyInv` with what ties the two sides together: the
requests a server has seen are those its clients have made, and a client that answers does so to
the challenge issued for its own nonce and signed in both parts by the key it trusts, which is
what `GenuineIsForTheCall` takes from the two signatures.  From it `BothSidesAgree`.
`HandshakeKeepsThePromise` is the refinement: the client's answer maps to `Trust`, `cache.set` to
`Offer`, `cache.get` to `Claim` or `Drop`, `success()` to `Accept`, all that is lost to `Drop`,
everything else stutters.  With it `Agreement` holds of the calls themselves (`HandshakeAgrees`).

`RefusalsAreOverlaps` needs more than `HandshakeInv`, which says what is true whatever goes
wrong.  `CalmInv` is what is true as long as nothing has: handlers use the keys registered at
first, nothing expires, a response gets as far as the cache, a challenge stays there until it is
taken or another handshake of the user stores its own (`KeptUnlessOverlapped`), and a response
that was refused at the cache has left nothing of its own there (`ChallengesAreUsedUp`).  It is
inductive together with `HandshakeInv`, under the hypothesis `OneCache`: all instances use one
cache, a shared one or the local one of the only instance.  The hypothesis is not a convenience.
With a local cache per process behind a load balancer a response may reach a process that never
had the challenge, and be refused with nobody else about.

`OnlyWrongKeysCrash` needs neither one cache nor that nothing expires.  `RegisteredInv`: as long as
nothing goes wrong, the handler of a challenge request with the user's registered key goes from
await to await up to the challenge (`RegisteredAreChallenged`), and it is only the first answer
that a client parses.

**DemoProofs.**  A step of the demonstration is one of the handshake or leaves it alone
(`DemoStepsAreHandshakeSteps`), so `HandshakeInv` and the refinement carry over
(`DemoKeepsThePromise`).  `DemoInv` follows a token: the body a call is resolved with, if it is a
token, is that of a request that succeeded, and its own when nothing has gone wrong
(`ResultsAreEarned`, `TokensAreEarned`), and what was served was served for that token
(`AccessIsDeserved`).  It yields `OnlyTheHandshakenAreServed`, for any number of runs, users and
instances and for every failure; `LapsedTokensAreNotServed` adds that the token was good at the
moment of each success (`OnlyTokensAreServed` goes through the verdicts).  `CalmDemoInv` is
`CalmInv` with the good course of a run that has its user and its process for itself, stage by
stage; from it `UndisturbedRunsAreServed`: such a run cannot end otherwise than served, whatever
handshakes other users are in.  It assumes `OneCache` and `KeysFit` (every program was given the
public half of the server's only key pair), as in the demonstration, which has one process, one
`LocalChallengeCache` and one key file; a client with another key is refused with nothing having
gone wrong.

**RequestFuncsProofs.**  What the client's format functions make is parsed to what was sent
(`BodyRoundTrip`, for any name of the response field); the server's challenge comes through the
router's JSON unchanged (`ChallengeRoundTrip`); no header at all is parsed to a challenge
(`HeaderGivesNoChallenge`).

**ExchangeProofs.**  `ExchangeInv` says for each turn what has been found to fit: a message
under way is the one the other side would send, and once a challenge was issued everything but
the response's field fits (`Answerable`).  The three lemmas above decide what the parser makes
of a message; a signature of one message never verifies another.  `AcceptedOnlyWhenCompatible`
and `SoundServerThrows` follow for all options, user ids and lengths of keys.

**IncrementVersionProofs.**  `VersionInv`: the workspace's file, written first and read for the
old version, is never at an earlier version than another file (`WorkspaceIsLatest`), and a run
has written a beginning of what it has read (`Begun`).  `PackagesAgree` and `VersionsGrow`
follow for any number of packages, dependencies and runs.

Only model-checked: liveness (`EveryChallengeLeaves`, `EveryRequestEnds`, `EveryProgramReports`,
`UndisturbedProgramSucceeds`), since fairness and `ENABLED` are out of the prover's reach, and
the violated properties.  Every invariant, action property and refinement that a passing run
checks is also proved.

## 5. Not modelled

* Cryptography itself, base64, JSON and the regular expressions character by character.
* The wall clock being adjusted: time only advances.
* Options that are not of their types, or with two fields of one name.
* `INCREMENT_POS` "major" and versions that are not three numbers (a pre-release).
* `MessageVerifier.hash`, which nothing calls, and `req.login`'s error branch, which
  `session: false` excludes.
* Build files, workflows, generated and vendored files: no behaviour of this program.

## 6. Where to go on

The strategy over the real `LocalChallengeCache`, with time: how the stale timer looks from a
client (now `ChallengeCache!Lose` stands for it).
