-------------------------------- MODULE Exchange --------------------------------
(***************************************************************************)
(* One handshake between a HandshakeClient and a MutualKeyChallengeStrategy*)
(* that were constructed with any options: do the two understand each      *)
(* other?  Handshake has many handshakes with options that agree.          *)
(*                                                                         *)
(* Cryptography is symbolic, but a padding has a capacity: a message that  *)
(* is too long for the key cannot be encrypted.                            *)
(***************************************************************************)
EXTENDS Integers, RequestFuncs, TLC

CONSTANTS
    Given,           \* bound: the pairs of options the two are constructed with
    UserIds,         \* the user ids a client may use
    ClientKeyBytes,  \* the length of the client's RSA key
    ServerKeyBytes   \* the length of the server's RSA key

ASSUME ExchangeAssumption == ClientKeyBytes \in Nat /\ ServerKeyBytes \in Nat

VARIABLES
    given,   \* the options given to the two constructors
    userId,  \* the argument userId of request()
    wire,    \* the message under way
    cached,  \* the nonce in the server's challengeCache
    turn     \* who is to move, or how the handshake has ended

vars == <<given, userId, wire, cached, turn>>

Outcomes == {"notConstructed", "accepted", "refused", "serverThrew", "rejected"}
Turns == {"construct", "challenge", "authenticate", "respond"} \cup Outcomes

-------------------------------------------------------------------------------
(* Options.  Each is a record with a type, "undefined" when an option is   *)
(* given that has no value.                                                *)
DefaultCryptography ==
    [type |-> "cryptography", hashAlgorithm |-> "sha256", messagePadding |-> "oaep",
     signaturePadding |-> "pkcs1", nonceSize |-> 128]
BodyParser(responseProperty) == [type |-> "body", response |-> responseProperty]
HeaderParser == [type |-> "header"]
JsonFormat(field) == [type |-> "json", field |-> field]
HeaderFormat(name) == [type |-> "header", field |-> name]
Extractor == [type |-> "extractor"]
LocalCache == [type |-> "cache"]

(* The two getDefaultOptions().                                            *)
ServerDefaults ==
    [challengeOrResponseFunc |-> HeaderParser, challengeCache |-> LocalCache,
     cryptography |-> DefaultCryptography]
ClientDefaults ==
    [formatChallengeFunc |-> JsonFormat("challenge"), extractResponseFunc |-> Extractor,
     formatResponseFunc |-> JsonFormat("response"), cryptography |-> DefaultCryptography]

(* {...getDefaultOptions(), ...options}.                                   *)
Resolved(defaults, options) == options @@ defaults

(* The options have their types, and no field of a request is "userId".    *)
IsFormat(f) ==
    /\ f.type \in {"undefined", "json", "header"}
    /\ f.type = "json" => f = JsonFormat(f.field) /\ f.field # "userId"
IsParser(f) ==
    /\ f.type \in {"undefined", "body", "header"}
    /\ f.type = "body" => f.response \notin {"userId", "challenge"}
IsCryptography(c) == c.type = "undefined" \/ c.messagePadding \in {"oaep", "pkcs1"}

ASSUME OptionsAssumption ==
    \A g \in Given :
        LET s == Resolved(ServerDefaults, g.server)
            c == Resolved(ClientDefaults, g.client)
        IN  /\ IsParser(s.challengeOrResponseFunc)
            /\ IsFormat(c.formatChallengeFunc) /\ IsFormat(c.formatResponseFunc)
            /\ IsCryptography(s.cryptography) /\ IsCryptography(c.cryptography)

server == Resolved(ServerDefaults, given.server)
client == Resolved(ClientDefaults, given.client)

-------------------------------------------------------------------------------
(* node:crypto.  A message is a nonce, in the clear or encrypted.          *)
HashBytes == [sha256 |-> 32, sha512 |-> 64]
Plain(n) == [padding |-> "plain", hash |-> "none", nonce |-> n]
Encrypted(c, n) == [padding |-> c.messagePadding, hash |-> c.hashAlgorithm, nonce |-> n]
Signed(c, by, m) ==
    [by |-> by, padding |-> c.signaturePadding, hash |-> c.hashAlgorithm, of |-> m]

(* publicEncrypt throws for what is longer.                                *)
Capacity(c, keyBytes) ==
    IF c.messagePadding = "oaep" THEN keyBytes - 2 * HashBytes[c.hashAlgorithm] - 2
                                 ELSE keyBytes - 11
Fits(c, keyBytes) == c.nonceSize <= Capacity(c, keyBytes)

(* privateDecrypt: what it may return, Thrown when it throws.  With PKCS1  *)
(* padding a message that was encrypted otherwise may yield garbage.       *)
Thrown == Plain("thrown")
EncryptedAs(c, m) ==
    /\ m.padding = c.messagePadding
    /\ m.padding = "oaep" => m.hash = c.hashAlgorithm
Decrypted(c, m) ==
    CASE EncryptedAs(c, m) -> {Plain(m.nonce)}
      [] ~EncryptedAs(c, m) /\ c.messagePadding = "oaep" -> {Thrown}
      [] ~EncryptedAs(c, m) /\ c.messagePadding # "oaep" -> {Thrown, Plain("garbage")}

Verifies(c, by, signed) == signed.signature = Signed(c, by, signed.message)

-------------------------------------------------------------------------------
(* A format function puts the message in the body or in the header; a body *)
(* parser finds an empty object where there is no body.                    *)
Format(f, signed) ==
    IF f.type = "json"
    THEN [body |-> formatAsBase64Json(f.field, userId, signed), header |-> <<>>]
    ELSE [body |-> Object(<<>>), header |-> DocumentedHeader(f.field, userId, signed)]

(* challengeOrResponseFunc(req).                                           *)
Request ==
    CASE server.challengeOrResponseFunc.type = "undefined" -> Throws
      [] server.challengeOrResponseFunc.type = "header" -> challengeByBase64Header(wire.header)
      [] server.challengeOrResponseFunc.type = "body" ->
             challengeByBase64Body(server.challengeOrResponseFunc.response, wire.body)

Ends(outcome) == turn' = outcome /\ UNCHANGED <<given, userId, wire, cached>>

Init ==
    /\ given \in Given
    /\ userId \in UserIds
    /\ wire = Undefined
    /\ cached = "none"
    /\ turn = "construct"

(* serverKey is a key or a function that returns one, and the key, a text, *)
(* may be none.                                                            *)
IsFunction(key) == key \in {"keyFunc", "badKeyFunc"}
IsPrivateKey(key) == key \in {"key", "keyFunc"}

(* The constructors.  A key that is not returned by a function is parsed   *)
(* at once.                                                                *)
Construct ==
    /\ turn = "construct"
    /\ LET key == given.server.serverKey
       IN  \/ ~IsFunction(key) /\ ~IsPrivateKey(key) /\ Ends("notConstructed")
           \/ /\ IsFunction(key) \/ IsPrivateKey(key)
              /\ turn' = "challenge"
              /\ UNCHANGED <<given, userId, wire, cached>>

(* request() up to the first await.                                        *)
CanChallenge ==
    /\ IsPrivateKey(given.clientKey)
    /\ client.cryptography.type # "undefined"
    /\ Fits(client.cryptography, ServerKeyBytes)
    /\ client.formatChallengeFunc.type # "undefined"
SendChallenge ==
    /\ turn = "challenge"
    /\ \/ ~CanChallenge /\ Ends("rejected")
       \/ /\ CanChallenge
          /\ wire' = Format(client.formatChallengeFunc,
                 [message |-> Encrypted(client.cryptography, "clientNonce"),
                  signature |-> Signed(client.cryptography, "client", Plain("clientNonce"))])
          /\ turn' = "authenticate"
          /\ UNCHANGED <<given, userId, cached>>

(* Whatever needs the server's key or the cryptography options throws.     *)
VerifierThrows ==
    ~IsPrivateKey(given.server.serverKey) \/ server.cryptography.type = "undefined"

(* encryptAndSign() of a new nonce, cache.set and fail().                  *)
CanIssue ==
    /\ Fits(server.cryptography, ClientKeyBytes)
    /\ server.challengeCache.type # "undefined"
IssueChallenge(decrypted) ==
    \/ ~CanIssue /\ Ends("serverThrew")
    \/ /\ CanIssue
       /\ cached' = "serverNonce"
       /\ wire' = jsonBase64Encoded(
              [clientRequested |-> [message |-> decrypted,
                                    signature |-> Signed(server.cryptography, "server", decrypted)],
               serverRequested |-> [message |-> Encrypted(server.cryptography, "serverNonce"),
                                    signature |-> Signed(server.cryptography, "server",
                                                         Plain("serverNonce"))]])
       /\ turn' = "respond"
       /\ UNCHANGED <<given, userId>>

(* handleChallengeRequest().  Fault: that decryptAndVerify() returned null *)
(* is not noticed, and signing it throws.                                  *)
NullNotNoticed(signed) ==
    \/ VerifierThrows /\ Ends("serverThrew")
    \/ /\ ~VerifierThrows
       /\ \E decrypted \in Decrypted(server.cryptography, signed.message) :
              IF decrypted # Thrown
                 /\ Verifies(server.cryptography, "client", [signed EXCEPT !.message = decrypted])
              THEN IssueChallenge(decrypted)
              ELSE Ends("serverThrew")
HandleChallengeRequest(signed) ==
    \/ VerifierThrows /\ Ends("serverThrew")
    \/ /\ ~VerifierThrows
       /\ \E decrypted \in Decrypted(server.cryptography, signed.message) :
              LET verified == Verifies(server.cryptography, "client",
                                       [signed EXCEPT !.message = decrypted])
              IN  \/ decrypted = Thrown /\ Ends("serverThrew")
                  \/ decrypted # Thrown /\ ~verified /\ Ends("refused")
                  \/ decrypted # Thrown /\ verified /\ IssueChallenge(decrypted)

(* handleChallengeResponse().                                              *)
HandleChallengeResponse(signed) ==
    \/ VerifierThrows /\ Ends("serverThrew")
    \/ /\ ~VerifierThrows
       /\ IF /\ Verifies(server.cryptography, "client", signed)
             /\ cached # "none"
             /\ signed.message = Plain(cached)
          THEN Ends("accepted")
          ELSE Ends("refused")

(* authenticate().  userFunc knows the user by the id the client uses.     *)
Authenticate ==
    /\ turn = "authenticate"
    /\ \/ Request.kind = "error" /\ Ends("refused")
       \/ Request.kind = "throws" /\ Ends("serverThrew")
       \/ /\ Request.kind \in {"challenge", "response"}
          /\ \/ Request.userId # Text(userId) /\ Ends("refused")
             \/ /\ Request.userId = Text(userId)
                /\ \/ Request.kind = "challenge" /\ HandleChallengeRequest(Request.signed)
                   \/ Request.kind = "response" /\ HandleChallengeResponse(Request.signed)

(* The rest of request(): the challenge is extracted and verified, and     *)
(* answered.                                                               *)
Challenge == extractByBase64Json(wire)
ServerIsGenuine(text) ==
    /\ Challenge.clientRequested.message = Plain("clientNonce")
    /\ Verifies(client.cryptography, "server", Challenge.clientRequested)
    /\ text # Thrown
    /\ Verifies(client.cryptography, "server", [Challenge.serverRequested EXCEPT !.message = text])
Respond ==
    /\ turn = "respond"
    /\ IF client.extractResponseFunc.type = "undefined" \/ client.formatResponseFunc.type = "undefined"
       THEN Ends("rejected")
       ELSE \E text \in Decrypted(client.cryptography, Challenge.serverRequested.message) :
                \/ ~ServerIsGenuine(text) /\ Ends("rejected")
                \/ /\ ServerIsGenuine(text)
                   /\ wire' = Format(client.formatResponseFunc,
                          [message |-> text, signature |-> Signed(client.cryptography, "client", text)])
                   /\ turn' = "authenticate"
                   /\ UNCHANGED <<given, userId, cached>>

Ended == turn \in Outcomes /\ UNCHANGED vars

Next == Construct \/ SendChallenge \/ Authenticate \/ Respond \/ Ended

Spec == Init /\ [][Next]_vars

-------------------------------------------------------------------------------
SameEncryption ==
    /\ client.cryptography.messagePadding = server.cryptography.messagePadding
    /\ server.cryptography.messagePadding = "oaep" =>
           client.cryptography.hashAlgorithm = server.cryptography.hashAlgorithm

(* The server has a key, a cache and a nonce that can be encrypted for the *)
(* client, and reads requests from the body.                               *)
ServerIsSound ==
    /\ ~VerifierThrows
    /\ CanIssue
    /\ server.challengeOrResponseFunc.type = "body"

(* The two can complete a handshake.  Neither the sizes of the nonces nor  *)
(* the name of the response's field are fixed by the code.                 *)
Compatible ==
    /\ ServerIsSound
    /\ CanChallenge /\ client.extractResponseFunc.type # "undefined"
    /\ client.formatChallengeFunc = JsonFormat("challenge")
    /\ client.formatResponseFunc = JsonFormat(server.challengeOrResponseFunc.response)
    /\ SameEncryption
    /\ client.cryptography.hashAlgorithm = server.cryptography.hashAlgorithm
    /\ client.cryptography.signaturePadding = server.cryptography.signaturePadding

(* "The client must use the same format" (MutualKeyChallengeOptions.ts:8): *)
(* what exactly must be the same for a handshake to succeed, and that      *)
(* nothing else matters.                                                   *)
AcceptedExactlyWhenCompatible ==
    turn \in Outcomes => (turn = "accepted" <=> Compatible)

(* An exception in authenticate() ends the server's process, so a client   *)
(* with other options should be refused instead.  It is, unless it         *)
(* encrypts in another way or challenges twice                             *)
(* (MessageVerifier.ts:20, MutualKeyChallengeStrategy.ts:77-82).           *)
SoundServerThrowsOnlyOnDecryption ==
    turn = "serverThrew" /\ ServerIsSound =>
        ~SameEncryption \/ client.formatResponseFunc = JsonFormat("challenge")

(* "@default challengeByBase64Body" (MutualKeyChallengeOptions.ts:57): a   *)
(* server and a client that are given only what is required understand     *)
(* each other.                                                             *)
RequiredOnly == [clientKey |-> "key", client |-> <<>>, server |-> [serverKey |-> "key"]]
DefaultsInteroperate ==
    turn \in Outcomes /\ given = RequiredOnly => turn = "accepted"

(* "Header Authorization must be in the format: 'Authorization: Mutual     *)
(* uid=[base64 key],(cha|res)[base64 challenge],[base64 signature]'"       *)
(* (RequestFuncs.ts:99): a client that keeps to it, with the server's      *)
(* default options otherwise, is understood.                               *)
HeaderClient ==
    [clientKey |-> "key", server |-> [serverKey |-> "key"],
     client |-> [formatChallengeFunc |-> HeaderFormat("cha"),
                 formatResponseFunc |-> HeaderFormat("res")]]
HeaderFormatIsUnderstood ==
    turn \in Outcomes /\ given = HeaderClient => turn = "accepted"
===============================================================================
