------------------------------ MODULE RequestFuncs ------------------------------
(***************************************************************************)
(* The functions that put a message on the wire and take it off again:     *)
(* lib/server/src/RequestFuncs.ts, lib/client/src/DefaultFuncs.ts and the  *)
(* JSON that the demo's router sends.                                      *)
(*                                                                         *)
(* A JavaScript value is a record: a text stands for what it is the base64 *)
(* encoding of (any text decodes to something), an object has fields.  The *)
(* Authorization header is a sequence of tokens, since the two regular     *)
(* expressions look for names, texts and separators only; a name may also  *)
(* occur inside a text.                                                    *)
(***************************************************************************)
EXTENDS Naturals, Sequences

CONSTANT ChaUsers  \* the user ids in whose text the characters "cha" occur

Undefined == [type |-> "undefined"]
Text(b) == [type |-> "text", of |-> b]
Object(f) == [type |-> "object", fields |-> f]

(* "", null and undefined are not truthy.                                  *)
Truthy(v) == v.type \in {"text", "object"}

Property(v, name) ==
    IF v.type = "object" /\ name \in DOMAIN v.fields THEN v.fields[name] ELSE Undefined

(* x.toString("base64") for both parts of a SignedMessage, and back:       *)
(* Buffer.from throws for what is not there.  Fault: one part is decoded   *)
(* twice.                                                                  *)
SignedAsBase64(m) == Object([message |-> Text(m.message), signature |-> Text(m.signature)])
Decodes(v) == Property(v, "message").type = "text" /\ Property(v, "signature").type = "text"
MessageTwice(v) ==
    [message |-> Property(v, "message").of, signature |-> Property(v, "message").of]
Decoded(v) ==
    [message |-> Property(v, "message").of, signature |-> Property(v, "signature").of]

(* What a challengeOrResponseFunc does: return a ClientChallenge or        *)
(* ClientResponse, return a ChallengeError, or throw.                      *)
Error == [kind |-> "error"]
Throws == [kind |-> "throws"]
Parsed(kind, userId, v) ==
    IF Decodes(v) THEN [kind |-> kind, userId |-> userId, signed |-> Decoded(v)] ELSE Throws

-------------------------------------------------------------------------------
(* formatAsBase64Json(messageField): the body of a request.  No field is   *)
(* called "userId" but the first.                                          *)
formatAsBase64Json(messageField, userId, signed) ==
    Object([f \in {"userId", messageField} |->
               IF f = "userId" THEN Text(userId) ELSE SignedAsBase64(signed)])

(* challengeByBase64Body("userId", "challenge", responseProperty); there   *)
(* is no body when no body parser ran.                                     *)
challengeByBase64Body(responseProperty, body) ==
    LET userId == Property(body, "userId")
        challenge == Property(body, "challenge")
        response == Property(body, responseProperty)
    IN  CASE body = Undefined -> Throws
          [] body # Undefined /\ ~Truthy(userId) -> Error
          [] Truthy(userId) /\ Truthy(challenge) -> Parsed("challenge", userId, challenge)
          [] Truthy(userId) /\ ~Truthy(challenge) /\ Truthy(response) ->
                 Parsed("response", userId, response)
          [] OTHER -> Error

(* jsonBase64Encoded of the router, and extractByBase64Json.               *)
jsonBase64Encoded(challenge) ==
    Object([clientRequested |-> SignedAsBase64(challenge.clientRequested),
            serverRequested |-> SignedAsBase64(challenge.serverRequested)])
Extracts(body) ==
    Decodes(Property(body, "clientRequested")) /\ Decodes(Property(body, "serverRequested"))
extractByBase64Json(body) ==
    [clientRequested |-> Decoded(Property(body, "clientRequested")),
     serverRequested |-> Decoded(Property(body, "serverRequested"))]

-------------------------------------------------------------------------------
(* The tokens of a header.                                                 *)
Name(n) == [type |-> "name", of |-> n]
IsName(t, n) == t.type = "name" /\ t.of = n
IsText(t) == t.type \in {"text", "key"}
ContainsCha(t) == t.type = "key" /\ t.of \in ChaUsers

(* The places of h at which KEY_REGEX, (uid)=text, matches, and at which   *)
(* the two alternatives of CHALLENGE_REGEX do: (cha) and                   *)
(* (res)=text,text.  The second and third group belong to the latter only. *)
KeyIndexes(h) ==
    {i \in 1..Len(h) : i + 2 <= Len(h) /\ IsName(h[i], "uid") /\ IsName(h[i + 1], "=") /\ IsText(h[i + 2])}
ChallengeIndexes(h) == {i \in 1..Len(h) : IsName(h[i], "cha") \/ ContainsCha(h[i])}
ResponseIndexes(h) ==
    {i \in 1..Len(h) :
        /\ i + 4 <= Len(h)
        /\ IsName(h[i], "res") /\ IsName(h[i + 1], "=") /\ IsText(h[i + 2])
        /\ IsName(h[i + 3], ",") /\ IsText(h[i + 4])}

(* The first of the two groups of KEY_REGEX is the name, and it is what    *)
(* the enumeration KeyRegExIx calls the value.                             *)
KeyValue(h) == Text("uid")

(* The groups Message and Signature where the leftmost match is at i.      *)
Groups(h, i) ==
    IF i \in ChallengeIndexes(h) THEN Object([message |-> Undefined, signature |-> Undefined])
    ELSE Object([message |-> Text(h[i + 2].of), signature |-> Text(h[i + 4].of)])

(* challengeByBase64Header("uid", "cha", "res").                           *)
challengeByBase64Header(h) ==
    LET matches == ChallengeIndexes(h) \cup ResponseIndexes(h)
        first == CHOOSE i \in matches : \A j \in matches : i <= j
    IN  IF h = <<>> \/ ~IsName(h[1], "Mutual") \/ KeyIndexes(h) = {} \/ matches = {}
        THEN Error
        ELSE Parsed(IF first \in ChallengeIndexes(h) THEN "challenge" ELSE "response",
                    KeyValue(h), Groups(h, first))

(* What the text of the ChallengeError asks for:                           *)
(* Mutual uid=[key],(cha|res)[challenge],[signature].                      *)
DocumentedHeader(name, userId, signed) ==
    <<Name("Mutual"), Name("uid"), Name("="), [type |-> "key", of |-> userId], Name(","),
      Name(name), Text(signed.message), Name(","), Text(signed.signature)>>
=================================================================================
