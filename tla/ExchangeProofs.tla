----------------------------- MODULE ExchangeProofs -----------------------------
(***************************************************************************)
(* The properties of Exchange for all options of the two sides, all user   *)
(* ids and all lengths of the keys.                                        *)
(***************************************************************************)
EXTENDS Exchange, RequestFuncsProofs

(* A request whose message is in a field the parser does not know.         *)
LEMMA OtherFieldIsAnError ==
    ASSUME NEW p, NEW field, field \notin {"userId", "challenge", p},
           p \notin {"userId", "challenge"}, NEW u, NEW signed
    PROVE  challengeByBase64Body(p, formatAsBase64Json(field, u, signed)) = Error
<1> DEFINE body == formatAsBase64Json(field, u, signed)
<1>1. /\ Property(body, "userId") = Text(u)
      /\ Property(body, "challenge") = Undefined /\ Property(body, p) = Undefined
      /\ body.type = "object"
  BY DEF formatAsBase64Json, Property, Object
<1>2. Truthy(Text(u)) /\ ~Truthy(Undefined) /\ body # Undefined
  BY <1>1 DEF Truthy, Text, Undefined
<1> HIDE DEF body
<1> QED BY <1>1, <1>2 DEF challengeByBase64Body, body

(* A request without a body.                                               *)
LEMMA NoBodyIsAnError ==
    ASSUME NEW p
    PROVE  challengeByBase64Body(p, Object(<<>>)) = Error
<1>1. Property(Object(<<>>), "userId") = Undefined
  BY DEF Property, Object
<1>2. ~Truthy(Undefined) /\ Object(<<>>) # Undefined
  BY DEF Truthy, Undefined, Object
<1> QED BY <1>1, <1>2 DEF challengeByBase64Body

(* What a server that reads from the body makes of what a client sends.    *)
LEMMA RequestFromTheBody ==
    ASSUME NEW f, IsFormat(f), f.type # "undefined", NEW m, NEW s,
           NEW p, p \notin {"userId", "challenge"}
    PROVE  LET signed == [message |-> m, signature |-> s]
               request == challengeByBase64Body(p, Format(f, signed).body)
               parsed(kind) == [kind |-> kind, userId |-> Text(userId), signed |-> signed]
           IN  \/ f = JsonFormat("challenge") /\ request = parsed("challenge")
               \/ f = JsonFormat(p) /\ request = parsed("response")
               \/ f \notin {JsonFormat("challenge"), JsonFormat(p)} /\ request = Error
<1> DEFINE signed == [message |-> m, signature |-> s]
<1>1. CASE f.type = "header"
  <2>1. Format(f, signed).body = Object(<<>>)
    BY <1>1 DEF Format
  <2>2. f \notin {JsonFormat("challenge"), JsonFormat(p)}
    BY <1>1 DEF JsonFormat
  <2> QED BY <2>1, <2>2, NoBodyIsAnError
<1>2. CASE f.type = "json"
  <2>1. Format(f, signed).body = formatAsBase64Json(f.field, userId, signed)
    BY <1>2 DEF Format
  <2>2. f = JsonFormat(f.field) /\ f.field # "userId"
    BY <1>2 DEF IsFormat
  <2>3. \A k : JsonFormat(k).field = k
    BY DEF JsonFormat
  <2>4. CASE f.field \in {"challenge", p}
    <3>1. challengeByBase64Body(p, formatAsBase64Json(f.field, userId, signed))
              = [kind |-> IF f.field = p THEN "response" ELSE "challenge",
                 userId |-> Text(userId), signed |-> signed]
      BY <2>4, BodyRoundTrip
    <3> QED BY <2>1, <2>2, <2>4, <3>1
  <2>5. CASE f.field \notin {"challenge", p}
    <3>1. challengeByBase64Body(p, formatAsBase64Json(f.field, userId, signed)) = Error
      BY <2>2, <2>5, OtherFieldIsAnError
    <3>2. f \notin {JsonFormat("challenge"), JsonFormat(p)}
      BY <2>3, <2>5
    <3> QED BY <2>1, <3>1, <3>2
  <2> QED BY <2>4, <2>5
<1> QED BY <1>1, <1>2 DEF IsFormat
-------------------------------------------------------------------------------
(* Symbolic cryptography.                                                  *)
LEMMA VerifiesWhatWasSigned ==
    ASSUME NEW c, NEW d, NEW by, NEW m, NEW n
    PROVE  Verifies(c, by, [message |-> m, signature |-> Signed(d, by, n)])
               <=> /\ c.signaturePadding = d.signaturePadding
                   /\ c.hashAlgorithm = d.hashAlgorithm
                   /\ m = n
BY DEF Verifies, Signed

LEMMA DecryptsWhatWasEncrypted ==
    ASSUME NEW c, NEW d, NEW n, n # "thrown"
    PROVE  LET same == /\ d.messagePadding = c.messagePadding
                       /\ c.messagePadding = "oaep" => d.hashAlgorithm = c.hashAlgorithm
           IN  /\ EncryptedAs(c, Encrypted(d, n)) <=> same
               /\ same => Decrypted(c, Encrypted(d, n)) = {Plain(n)}
               /\ ~same => Decrypted(c, Encrypted(d, n)) \subseteq {Thrown, Plain("garbage")}
<1> DEFINE m == Encrypted(d, n)
<1>1. /\ EncryptedAs(c, m) <=> /\ d.messagePadding = c.messagePadding
                               /\ c.messagePadding = "oaep" => d.hashAlgorithm = c.hashAlgorithm
      /\ m.nonce = n
  BY DEF Encrypted, EncryptedAs
<1> HIDE DEF m
<1>2. /\ EncryptedAs(c, m) => Decrypted(c, m) = {Plain(m.nonce)}
      /\ ~EncryptedAs(c, m) => Decrypted(c, m) \subseteq {Thrown, Plain("garbage")}
  BY DEF Decrypted
<1> QED BY <1>1, <1>2 DEF m

LEMMA PlainIsNotEncrypted ==
    ASSUME NEW c, c.messagePadding \in {"oaep", "pkcs1"}, NEW n
    PROVE  Decrypted(c, Plain(n)) \subseteq {Thrown, Plain("garbage")}
<1>1. ~EncryptedAs(c, Plain(n))
  BY DEF EncryptedAs, Plain
<1> QED BY <1>1 DEF Decrypted

LEMMA NoncesDiffer == \A n, k : Plain(n) = Plain(k) <=> n = k
BY DEF Plain

LEMMA ExceptMessage ==
    ASSUME NEW m, NEW s, NEW n
    PROVE  [[message |-> m, signature |-> s] EXCEPT !.message = n] = [message |-> n, signature |-> s]
OBVIOUS

-------------------------------------------------------------------------------
(* What has been found to fit when the server answers a challenge.         *)
Answerable ==
    /\ ServerIsSound /\ CanChallenge /\ SameEncryption
    /\ client.formatChallengeFunc = JsonFormat("challenge")
    /\ client.cryptography.hashAlgorithm = server.cryptography.hashAlgorithm
    /\ client.cryptography.signaturePadding = server.cryptography.signaturePadding

ClientSigned(m, n) ==
    [message |-> m, signature |-> Signed(client.cryptography, "client", Plain(n))]
ServerSigned(m, n) ==
    [message |-> m, signature |-> Signed(server.cryptography, "server", Plain(n))]
Issued ==
    [clientRequested |-> ServerSigned(Plain("clientNonce"), "clientNonce"),
     serverRequested |-> ServerSigned(Encrypted(server.cryptography, "serverNonce"), "serverNonce")]

ChallengeSent ==
    /\ CanChallenge
    /\ wire = Format(client.formatChallengeFunc,
                     ClientSigned(Encrypted(client.cryptography, "clientNonce"), "clientNonce"))
ChallengeIssued ==
    Answerable /\ cached = "serverNonce" /\ wire = jsonBase64Encoded(Issued)
ResponseSent ==
    /\ Answerable
    /\ client.extractResponseFunc.type # "undefined"
    /\ client.formatResponseFunc.type # "undefined"
    /\ wire = Format(client.formatResponseFunc, ClientSigned(Plain("serverNonce"), "serverNonce"))

(* Where a handshake is says what of the options has been found to fit.    *)
ExchangeInv ==
    /\ given \in Given /\ cached \in {"none", "serverNonce"}
    /\ turn \in {"construct", "challenge"} => cached = "none"
    /\ turn = "authenticate" /\ cached = "none" => ChallengeSent
    /\ turn = "respond" => ChallengeIssued
    /\ turn = "authenticate" /\ cached = "serverNonce" => ResponseSent
    /\ AcceptedExactlyWhenCompatible
    /\ SoundServerThrowsOnlyOnDecryption

(* The options are those of OptionsAssumption.                             *)
LEMMA OptionsHaveTheirTypes ==
    ASSUME given \in Given
    PROVE  /\ IsParser(server.challengeOrResponseFunc)
           /\ IsFormat(client.formatChallengeFunc) /\ IsFormat(client.formatResponseFunc)
           /\ IsCryptography(server.cryptography) /\ IsCryptography(client.cryptography)
BY OptionsAssumption DEF server, client

LEMMA OptionsStay ==
    ASSUME UNCHANGED given
    PROVE  /\ client' = client /\ server' = server
           /\ CanChallenge' <=> CanChallenge
           /\ ServerIsSound' <=> ServerIsSound
           /\ SameEncryption' <=> SameEncryption
           /\ Compatible' <=> Compatible
           /\ Answerable' <=> Answerable
<1>1. client' = client /\ server' = server
  BY DEF client, server
<1>2. /\ CanChallenge' <=> CanChallenge
      /\ ServerIsSound' <=> ServerIsSound
      /\ SameEncryption' <=> SameEncryption
  BY <1>1 DEF CanChallenge, ServerIsSound, SameEncryption, VerifierThrows, CanIssue, Fits, Capacity
<1> QED BY <1>1, <1>2 DEF Compatible, Answerable

LEMMA CompatibleIsAnswerable ==
    Compatible <=> /\ Answerable
                   /\ client.extractResponseFunc.type # "undefined"
                   /\ client.formatResponseFunc = JsonFormat(server.challengeOrResponseFunc.response)
BY DEF Compatible, Answerable

(* A handshake may end where the outcome is the one that is promised.      *)
LEMMA EndStep ==
    ASSUME ExchangeInv, NEW o \in Outcomes, Ends(o),
           o = "accepted" <=> Compatible,
           o = "serverThrew" /\ ServerIsSound =>
               ~SameEncryption \/ client.formatResponseFunc = JsonFormat("challenge")
    PROVE  ExchangeInv'
<1>1. /\ turn' = o /\ o \notin {"construct", "challenge", "authenticate", "respond"}
      /\ UNCHANGED <<given, cached>>
  BY DEF Ends, Outcomes
<1>2. AcceptedExactlyWhenCompatible' /\ SoundServerThrowsOnlyOnDecryption'
  BY <1>1, OptionsStay DEF AcceptedExactlyWhenCompatible, SoundServerThrowsOnlyOnDecryption
<1> QED BY <1>1, <1>2 DEF ExchangeInv

LEMMA ConstructStep == ExchangeInv /\ Construct => ExchangeInv'
<1> SUFFICES ASSUME ExchangeInv, Construct PROVE ExchangeInv'
  OBVIOUS
<1>1. CASE ~IsPrivateKey(given.server.serverKey) /\ Ends("notConstructed")
  <2>1. ~Compatible
    BY <1>1 DEF Compatible, ServerIsSound, VerifierThrows
  <2> QED BY <1>1, <2>1, EndStep DEF Outcomes
<1>2. CASE turn' = "challenge" /\ UNCHANGED <<given, userId, wire, cached>>
  <2>1. cached' = "none" /\ turn' = "challenge" /\ given' \in Given
    BY <1>2 DEF ExchangeInv, Construct
  <2>2. AcceptedExactlyWhenCompatible' /\ SoundServerThrowsOnlyOnDecryption'
    BY <1>2 DEF AcceptedExactlyWhenCompatible, SoundServerThrowsOnlyOnDecryption, Outcomes
  <2> QED BY <2>1, <2>2 DEF ExchangeInv
<1> QED BY <1>1, <1>2 DEF Construct

LEMMA SendChallengeStep == ExchangeInv /\ SendChallenge => ExchangeInv'
<1> SUFFICES ASSUME ExchangeInv, SendChallenge PROVE ExchangeInv'
  OBVIOUS
<1>1. CASE ~CanChallenge /\ Ends("rejected")
  BY <1>1, EndStep DEF Outcomes, Compatible
<1>2. CASE /\ CanChallenge
           /\ wire' = Format(client.formatChallengeFunc,
                  ClientSigned(Encrypted(client.cryptography, "clientNonce"), "clientNonce"))
           /\ turn' = "authenticate"
           /\ UNCHANGED <<given, userId, cached>>
  <2>1. cached' = "none" /\ turn' = "authenticate" /\ given' \in Given
    BY <1>2 DEF SendChallenge, ExchangeInv
  <2>2. ChallengeSent'
    BY <1>2, OptionsStay DEF ChallengeSent, ClientSigned, Format
  <2>3. AcceptedExactlyWhenCompatible' /\ SoundServerThrowsOnlyOnDecryption'
    BY <1>2 DEF AcceptedExactlyWhenCompatible, SoundServerThrowsOnlyOnDecryption, Outcomes
  <2> QED BY <2>1, <2>2, <2>3 DEF ExchangeInv
<1> QED BY <1>1, <1>2 DEF SendChallenge, ClientSigned

(* Nothing is accepted before a challenge was issued.                      *)
LEMMA ResponseWithoutChallenge ==
    ASSUME cached = "none", NEW signed, HandleChallengeResponse(signed)
    PROVE  Ends("refused") \/ (VerifierThrows /\ Ends("serverThrew"))
BY DEF HandleChallengeResponse

(* A server that does not read from the body is never sent a challenge it  *)
(* understands.                                                            *)
LEMMA OtherParsersEnd ==
    ASSUME given \in Given, cached = "none", Authenticate,
           server.challengeOrResponseFunc.type # "body"
    PROVE  Ends("refused") \/ Ends("serverThrew")
<1>1. Request.kind # "challenge"
  BY OptionsHaveTheirTypes, HeaderGivesNoChallenge DEF Request, IsParser, Throws
<1> QED BY <1>1, ResponseWithoutChallenge DEF Authenticate

(* The server answers a challenge it can decrypt and verify, which shows   *)
(* that the options are alike.                                             *)
LEMMA ChallengeRequestStep ==
    ASSUME ExchangeInv, turn = "authenticate", cached = "none", ChallengeSent,
           client.formatChallengeFunc = JsonFormat("challenge"),
           server.challengeOrResponseFunc.type = "body",
           HandleChallengeRequest(
               ClientSigned(Encrypted(client.cryptography, "clientNonce"), "clientNonce"))
    PROVE  ExchangeInv'
<1> DEFINE c == client.cryptography
           s == server.cryptography
           signed == ClientSigned(Encrypted(c, "clientNonce"), "clientNonce")
           verified(d) == Verifies(s, "client", [signed EXCEPT !.message = d])
<1>1. ASSUME NEW d
      PROVE  verified(d) <=> /\ s.signaturePadding = c.signaturePadding
                             /\ s.hashAlgorithm = c.hashAlgorithm
                             /\ d = Plain("clientNonce")
  BY ExceptMessage, VerifiesWhatWasSigned DEF ClientSigned
<1>2. /\ SameEncryption => Decrypted(s, signed.message) = {Plain("clientNonce")}
      /\ ~SameEncryption => Decrypted(s, signed.message) \subseteq {Thrown, Plain("garbage")}
  <2>1. signed.message = Encrypted(c, "clientNonce")
    BY DEF ClientSigned
  <2> QED BY <2>1, DecryptsWhatWasEncrypted DEF SameEncryption
<1>3. Plain("clientNonce") \notin {Thrown, Plain("garbage")}
  BY NoncesDiffer DEF Thrown
<1> HIDE DEF verified
<1>4. CASE VerifierThrows /\ Ends("serverThrew")
  <2>1. ~ServerIsSound /\ ~Compatible
    BY <1>4 DEF ServerIsSound, Compatible
  <2> QED BY <1>4, <2>1, EndStep DEF Outcomes
<1>5. CASE ~VerifierThrows
  <2>1. PICK d \in Decrypted(s, signed.message) :
            \/ d = Thrown /\ Ends("serverThrew")
            \/ d # Thrown /\ ~verified(d) /\ Ends("refused")
            \/ d # Thrown /\ verified(d) /\ IssueChallenge(d)
    BY <1>5 DEF HandleChallengeRequest, verified
  <2>2. CASE d = Thrown /\ Ends("serverThrew")
    <3>1. ~SameEncryption /\ ~Compatible
      BY <1>2, <1>3, <2>2 DEF Compatible
    <3> QED BY <2>2, <3>1, EndStep DEF Outcomes
  <2>3. CASE ~verified(d) /\ Ends("refused")
    <3>1. ~Compatible
      BY <1>1, <1>2, <2>1, <2>3 DEF Compatible
    <3> QED BY <2>3, <3>1, EndStep DEF Outcomes
  <2>4. CASE verified(d) /\ IssueChallenge(d)
    <3>1. SameEncryption /\ d = Plain("clientNonce")
      BY <1>1, <1>2, <1>3, <2>1, <2>4
    <3>2. CASE ~CanIssue /\ Ends("serverThrew")
      <4>1. ~ServerIsSound /\ ~Compatible
        BY <3>2 DEF ServerIsSound, Compatible
      <4> QED BY <3>2, <4>1, EndStep DEF Outcomes
    <3>3. CASE /\ CanIssue /\ cached' = "serverNonce" /\ turn' = "respond"
               /\ wire' = jsonBase64Encoded(Issued) /\ UNCHANGED <<given, userId>>
      <4>1. Answerable
        BY <1>1, <1>5, <2>4, <3>1, <3>3 DEF Answerable, ServerIsSound, ChallengeSent
      <4>2. Issued' = Issued
        BY <3>3, OptionsStay DEF Issued, ServerSigned
      <4>3. ChallengeIssued'
        BY <3>3, <4>1, <4>2, OptionsStay DEF ChallengeIssued
      <4>4. AcceptedExactlyWhenCompatible' /\ SoundServerThrowsOnlyOnDecryption'
        BY <3>3 DEF AcceptedExactlyWhenCompatible, SoundServerThrowsOnlyOnDecryption, Outcomes
      <4> QED BY <3>3, <4>3, <4>4 DEF ExchangeInv
    <3> QED BY <2>4, <3>1, <3>2, <3>3 DEF IssueChallenge, Issued, ServerSigned
  <2> QED BY <2>1, <2>2, <2>3, <2>4
<1> QED BY <1>4, <1>5 DEF HandleChallengeRequest
LEMMA FirstAuthenticateStep ==
    ASSUME ExchangeInv, cached = "none", Authenticate
    PROVE  ExchangeInv'
<1> DEFINE p == server.challengeOrResponseFunc.response
           c == client.cryptography
           signed == ClientSigned(Encrypted(c, "clientNonce"), "clientNonce")
<1>1. ChallengeSent /\ turn = "authenticate" /\ given \in Given
  BY DEF ExchangeInv, Authenticate
<1>2. CASE server.challengeOrResponseFunc.type # "body"
  <2>1. ~ServerIsSound /\ ~Compatible
    BY <1>2 DEF ServerIsSound, Compatible
  <2> QED BY <1>1, <1>2, <2>1, OtherParsersEnd, EndStep DEF Outcomes
<1>3. CASE server.challengeOrResponseFunc.type = "body"
  <2>1. /\ Request = challengeByBase64Body(p, Format(client.formatChallengeFunc, signed).body)
        /\ p \notin {"userId", "challenge"}
    BY <1>1, <1>3, OptionsHaveTheirTypes DEF Request, ChallengeSent, IsParser
  <2>2. \/ /\ client.formatChallengeFunc = JsonFormat("challenge")
           /\ Request = [kind |-> "challenge", userId |-> Text(userId), signed |-> signed]
        \/ /\ client.formatChallengeFunc = JsonFormat(p)
           /\ Request = [kind |-> "response", userId |-> Text(userId), signed |-> signed]
        \/ /\ client.formatChallengeFunc \notin {JsonFormat("challenge"), JsonFormat(p)}
           /\ Request = Error
    BY <1>1, <2>1, OptionsHaveTheirTypes, RequestFromTheBody DEF ClientSigned, ChallengeSent, CanChallenge
  <2>3. CASE /\ client.formatChallengeFunc = JsonFormat("challenge")
             /\ Request = [kind |-> "challenge", userId |-> Text(userId), signed |-> signed]
    <3>1. HandleChallengeRequest(signed)
      BY <2>3 DEF Authenticate
    <3> QED BY <1>1, <1>3, <2>3, <3>1, ChallengeRequestStep
  <2>4. CASE client.formatChallengeFunc # JsonFormat("challenge") /\ Request.kind # "challenge"
    <3>1. /\ ~Compatible
          /\ Request.kind # "throws" \/ ~ServerIsSound
      BY <2>2, <2>4 DEF Compatible, Error
    <3>2. Ends("refused") \/ (~ServerIsSound /\ Ends("serverThrew"))
      BY <2>4, <3>1, ResponseWithoutChallenge DEF Authenticate, ServerIsSound
    <3> QED BY <3>1, <3>2, EndStep DEF Outcomes
  <2>5. JsonFormat(p) # JsonFormat("challenge") /\ Error.kind = "error"
    BY <2>1 DEF JsonFormat, Error
  <2> QED BY <2>2, <2>3, <2>4, <2>5
<1> QED BY <1>2, <1>3

(* The client goes on when what it has received was decrypted and verified.*)
LEMMA RespondStep == ExchangeInv /\ Respond => ExchangeInv'
<1> SUFFICES ASSUME ExchangeInv, Respond PROVE ExchangeInv'
  OBVIOUS
<1> DEFINE c == client.cryptography
<1>1. /\ ChallengeIssued /\ given \in Given
      /\ Challenge = Issued
  <2>1. ChallengeIssued /\ given \in Given
    BY DEF ExchangeInv, Respond
  <2>2. extractByBase64Json(jsonBase64Encoded(Issued)) = Issued
    BY ChallengeRoundTrip DEF Issued, ServerSigned
  <2> QED BY <2>1, <2>2 DEF Challenge, ChallengeIssued
<1>2. /\ Answerable
      /\ client.cryptography.messagePadding = server.cryptography.messagePadding
      /\ client.cryptography.hashAlgorithm = server.cryptography.hashAlgorithm
      /\ client.cryptography.signaturePadding = server.cryptography.signaturePadding
  BY <1>1 DEF ChallengeIssued, Answerable, SameEncryption
<1>3. CASE \/ client.extractResponseFunc.type = "undefined"
           \/ client.formatResponseFunc.type = "undefined"
  <2>1. ~Compatible
    BY <1>3 DEF Compatible, JsonFormat
  <2> QED BY <1>3, <2>1, EndStep DEF Respond, Outcomes
<1>4. CASE /\ client.extractResponseFunc.type # "undefined"
           /\ client.formatResponseFunc.type # "undefined"
  <2>1. Challenge.serverRequested.message = Encrypted(server.cryptography, "serverNonce")
    BY <1>1 DEF Issued, ServerSigned
  <2>2. Decrypted(c, Challenge.serverRequested.message) = {Plain("serverNonce")}
    BY <1>2, <2>1, DecryptsWhatWasEncrypted
  <2>3. ServerIsGenuine(Plain("serverNonce"))
    <3>1. Plain("serverNonce") # Thrown
      BY NoncesDiffer DEF Thrown
    <3>2. /\ Verifies(c, "server", Issued.clientRequested)
          /\ Verifies(c, "server", [Issued.serverRequested EXCEPT !.message = Plain("serverNonce")])
          /\ Issued.clientRequested.message = Plain("clientNonce")
      BY <1>2, ExceptMessage, VerifiesWhatWasSigned DEF Issued, ServerSigned
    <3> QED BY <1>1, <3>1, <3>2 DEF ServerIsGenuine
  <2>4. /\ wire' = Format(client.formatResponseFunc, ClientSigned(Plain("serverNonce"), "serverNonce"))
        /\ turn' = "authenticate" /\ UNCHANGED <<given, userId, cached>>
    BY <1>4, <2>2, <2>3 DEF Respond, ClientSigned, Signed
  <2>5. ResponseSent'
    BY <1>2, <1>4, <2>4, OptionsStay DEF ResponseSent, ClientSigned, Format
  <2>6. AcceptedExactlyWhenCompatible' /\ SoundServerThrowsOnlyOnDecryption'
    BY <2>4 DEF AcceptedExactlyWhenCompatible, SoundServerThrowsOnlyOnDecryption, Outcomes
  <2>7. cached' = "serverNonce" /\ given' \in Given
    BY <1>1, <2>4 DEF ChallengeIssued
  <2> QED BY <2>4, <2>5, <2>6, <2>7 DEF ExchangeInv
<1> QED BY <1>3, <1>4
(* A message in the clear is no challenge.                                 *)
LEMMA ChallengeInTheClearEnds ==
    ASSUME ServerIsSound, given \in Given,
           HandleChallengeRequest(ClientSigned(Plain("serverNonce"), "serverNonce"))
    PROVE  Ends("refused") \/ Ends("serverThrew")
<1> DEFINE s == server.cryptography
           signed == ClientSigned(Plain("serverNonce"), "serverNonce")
<1>1. ~VerifierThrows /\ s.messagePadding \in {"oaep", "pkcs1"}
  BY OptionsHaveTheirTypes DEF ServerIsSound, VerifierThrows, IsCryptography
<1>2. signed.message = Plain("serverNonce")
  BY DEF ClientSigned
<1>3. PICK d \in Decrypted(s, signed.message) :
          \/ Ends("serverThrew") \/ Ends("refused")
          \/ d # Thrown /\ Verifies(s, "client", [signed EXCEPT !.message = d])
  BY <1>1 DEF HandleChallengeRequest
<1>4. d # Thrown => d = Plain("garbage")
  BY <1>1, <1>2, PlainIsNotEncrypted
<1>5. Verifies(s, "client", [signed EXCEPT !.message = d]) => d = Plain("serverNonce")
  BY ExceptMessage, VerifiesWhatWasSigned DEF ClientSigned
<1> QED BY <1>3, <1>4, <1>5, NoncesDiffer

LEMMA SecondAuthenticateStep ==
    ASSUME ExchangeInv, cached = "serverNonce", Authenticate
    PROVE  ExchangeInv'
<1> DEFINE p == server.challengeOrResponseFunc.response
           f == client.formatResponseFunc
           signed == ClientSigned(Plain("serverNonce"), "serverNonce")
<1>1. ResponseSent /\ turn = "authenticate" /\ given \in Given
  BY DEF ExchangeInv, Authenticate
<1>2. ServerIsSound /\ server.challengeOrResponseFunc.type = "body" /\ ~VerifierThrows
  BY <1>1 DEF ResponseSent, Answerable, ServerIsSound
<1>3. /\ Request = challengeByBase64Body(p, Format(f, signed).body)
      /\ p \notin {"userId", "challenge"}
  BY <1>1, <1>2, OptionsHaveTheirTypes DEF Request, ResponseSent, IsParser
<1>4. \/ f = JsonFormat("challenge") /\ Request = [kind |-> "challenge", userId |-> Text(userId), signed |-> signed]
      \/ f = JsonFormat(p) /\ Request = [kind |-> "response", userId |-> Text(userId), signed |-> signed]
      \/ f \notin {JsonFormat("challenge"), JsonFormat(p)} /\ Request = Error
  BY <1>1, <1>3, OptionsHaveTheirTypes, RequestFromTheBody DEF ClientSigned, ResponseSent
<1>5. JsonFormat(p) # JsonFormat("challenge")
  BY <1>3 DEF JsonFormat
<1>6. CASE f = JsonFormat("challenge") /\ Request = [kind |-> "challenge", userId |-> Text(userId), signed |-> signed]
  <2>1. HandleChallengeRequest(signed)
    BY <1>6 DEF Authenticate
  <2>2. ~Compatible
    BY <1>5, <1>6 DEF Compatible
  <2> QED BY <1>1, <1>2, <1>6, <2>1, <2>2, ChallengeInTheClearEnds, EndStep DEF Outcomes
<1>7. CASE f = JsonFormat(p) /\ Request = [kind |-> "response", userId |-> Text(userId), signed |-> signed]
  <2>1. HandleChallengeResponse(signed)
    BY <1>7 DEF Authenticate
  <2>2. Compatible
    BY <1>1, <1>7, CompatibleIsAnswerable DEF ResponseSent
  <2>3. Verifies(server.cryptography, "client", signed) /\ signed.message = Plain("serverNonce")
    BY <2>2, VerifiesWhatWasSigned DEF ClientSigned, Compatible
  <2>4. Ends("accepted")
    BY <1>2, <2>1, <2>3 DEF HandleChallengeResponse
  <2> QED BY <2>2, <2>4, EndStep DEF Outcomes
<1>8. CASE f \notin {JsonFormat("challenge"), JsonFormat(p)} /\ Request = Error
  <2>1. Ends("refused") /\ ~Compatible
    BY <1>8 DEF Authenticate, Error, Compatible
  <2> QED BY <2>1, EndStep DEF Outcomes
<1> QED BY <1>4, <1>6, <1>7, <1>8

-------------------------------------------------------------------------------
LEMMA ExchangeInvInit == Init => ExchangeInv
<1> SUFFICES ASSUME Init PROVE ExchangeInv
  OBVIOUS
<1>1. turn = "construct" /\ cached = "none" /\ given \in Given
  BY DEF Init
<1>2. AcceptedExactlyWhenCompatible /\ SoundServerThrowsOnlyOnDecryption
  BY <1>1 DEF AcceptedExactlyWhenCompatible, SoundServerThrowsOnlyOnDecryption, Outcomes
<1> QED BY <1>1, <1>2 DEF ExchangeInv

LEMMA StutterStep == ExchangeInv /\ UNCHANGED vars => ExchangeInv'
<1> SUFFICES ASSUME ExchangeInv, UNCHANGED vars PROVE ExchangeInv'
  OBVIOUS
<1>1. UNCHANGED <<given, userId, wire, cached, turn>>
  BY DEF vars
<1>2. /\ ChallengeSent' <=> ChallengeSent
      /\ ChallengeIssued' <=> ChallengeIssued
      /\ ResponseSent' <=> ResponseSent
  BY <1>1, OptionsStay
     DEF ChallengeSent, ChallengeIssued, ResponseSent, Issued, ClientSigned, ServerSigned, Format
<1>3. /\ AcceptedExactlyWhenCompatible' <=> AcceptedExactlyWhenCompatible
      /\ SoundServerThrowsOnlyOnDecryption' <=> SoundServerThrowsOnlyOnDecryption
  BY <1>1, OptionsStay DEF AcceptedExactlyWhenCompatible, SoundServerThrowsOnlyOnDecryption
<1> QED BY <1>1, <1>2, <1>3 DEF ExchangeInv

LEMMA ExchangeInvStep == ExchangeInv /\ [Next]_vars => ExchangeInv'
<1> SUFFICES ASSUME ExchangeInv, [Next]_vars PROVE ExchangeInv'
  OBVIOUS
<1>1. CASE Construct
  BY <1>1, ConstructStep
<1>2. CASE SendChallenge
  BY <1>2, SendChallengeStep
<1>3. CASE Authenticate
  <2>1. cached \in {"none", "serverNonce"}
    BY DEF ExchangeInv
  <2> QED BY <1>3, <2>1, FirstAuthenticateStep, SecondAuthenticateStep
<1>4. CASE Respond
  BY <1>4, RespondStep
<1>5. CASE Ended \/ UNCHANGED vars
  BY <1>5, StutterStep DEF Ended
<1> QED BY <1>1, <1>2, <1>3, <1>4, <1>5 DEF Next

THEOREM ExchangeInvariant == Spec => []ExchangeInv
BY ExchangeInvInit, ExchangeInvStep, PTL DEF Spec

(* Whatever options the two are given, a handshake is accepted exactly     *)
(* when they are compatible (MutualKeyChallengeOptions.ts:8).              *)
THEOREM AcceptedOnlyWhenCompatible == Spec => []AcceptedExactlyWhenCompatible
<1>1. ExchangeInv => AcceptedExactlyWhenCompatible
  BY DEF ExchangeInv
<1> QED BY <1>1, ExchangeInvariant, PTL

(* No client can make authenticate() of a sound server throw but by        *)
(* encrypting in another way or by sending a second challenge              *)
(* (MessageVerifier.ts:20, MutualKeyChallengeStrategy.ts:77-82).           *)
THEOREM SoundServerThrows == Spec => []SoundServerThrowsOnlyOnDecryption
<1>1. ExchangeInv => SoundServerThrowsOnlyOnDecryption
  BY DEF ExchangeInv
<1> QED BY <1>1, ExchangeInvariant, PTL
=================================================================================
