--------------------------- MODULE RequestFuncsProofs ---------------------------
(***************************************************************************)
(* What the functions of RequestFuncs do for every user id, every message  *)
(* and every header.                                                       *)
(***************************************************************************)
EXTENDS RequestFuncs, TLAPS

(* Both parts of a message come back from base64 as they were.             *)
LEMMA Base64RoundTrip ==
    ASSUME NEW m, NEW s
    PROVE  LET v == SignedAsBase64([message |-> m, signature |-> s])
           IN  /\ v.type = "object" /\ Decodes(v)
               /\ Decoded(v) = [message |-> m, signature |-> s]
BY DEF SignedAsBase64, Object, Text, Decodes, Decoded, Property

(* A request that a format function of the client makes is parsed by       *)
(* challengeByBase64Body to what was sent, as the kind that was sent,      *)
(* whatever the field of the responses is called                           *)
(* (DefaultFuncs.ts:22-42, RequestFuncs.ts:15-60).                         *)
THEOREM BodyRoundTrip ==
    ASSUME NEW p, p \notin {"userId", "challenge"}, NEW field \in {"challenge", p},
           NEW userId, NEW m, NEW s
    PROVE  challengeByBase64Body(p, formatAsBase64Json(field, userId, [message |-> m, signature |-> s]))
               = [kind |-> IF field = p THEN "response" ELSE "challenge",
                  userId |-> Text(userId), signed |-> [message |-> m, signature |-> s]]
<1> DEFINE signed == [message |-> m, signature |-> s]
           body == formatAsBase64Json(field, userId, signed)
<1>1. /\ Property(body, "userId") = Text(userId)
      /\ Property(body, field) = SignedAsBase64(signed)
      /\ \A k \in {"challenge", p} : k # field => Property(body, k) = Undefined
      /\ body.type = "object"
  BY DEF formatAsBase64Json, Property, Object
<1>2. /\ Truthy(Text(userId)) /\ ~Truthy(Undefined) /\ body # Undefined
      /\ Truthy(SignedAsBase64(signed))
  BY <1>1, Base64RoundTrip DEF Truthy, Text, Undefined
<1>3. ASSUME NEW kind
      PROVE  Parsed(kind, Text(userId), SignedAsBase64(signed))
                 = [kind |-> kind, userId |-> Text(userId), signed |-> signed]
  BY Base64RoundTrip DEF Parsed
<1> HIDE DEF body, signed
<1>4. CASE field = "challenge"
  BY <1>1, <1>2, <1>3, <1>4 DEF challengeByBase64Body, signed, body
<1>5. CASE field = p
  <2>1. /\ ~Truthy(Property(body, "challenge")) /\ Truthy(Property(body, p))
        /\ Truthy(Property(body, "userId"))
    BY <1>1, <1>2, <1>5
  <2>2. challengeByBase64Body(p, body)
            = Parsed("response", Property(body, "userId"), Property(body, p))
    BY <1>2, <2>1 DEF challengeByBase64Body
  <2> QED BY <1>1, <1>3, <1>5, <2>2 DEF signed, body
<1> QED BY <1>4, <1>5

(* The server's challenge passes through the router's JSON and the         *)
(* client's extractResponseFunc unchanged (AuthenticateRouter.ts:22-31,    *)
(* DefaultFuncs.ts:44-59).                                                 *)
THEOREM ChallengeRoundTrip ==
    ASSUME NEW m1, NEW s1, NEW m2, NEW s2
    PROVE  LET challenge == [clientRequested |-> [message |-> m1, signature |-> s1],
                             serverRequested |-> [message |-> m2, signature |-> s2]]
           IN  /\ Extracts(jsonBase64Encoded(challenge))
               /\ extractByBase64Json(jsonBase64Encoded(challenge)) = challenge
<1> DEFINE challenge == [clientRequested |-> [message |-> m1, signature |-> s1],
                         serverRequested |-> [message |-> m2, signature |-> s2]]
           body == jsonBase64Encoded(challenge)
<1>1. /\ Property(body, "clientRequested") = SignedAsBase64([message |-> m1, signature |-> s1])
      /\ Property(body, "serverRequested") = SignedAsBase64([message |-> m2, signature |-> s2])
  BY DEF jsonBase64Encoded, Property, Object
<1> QED BY <1>1, Base64RoundTrip DEF Extracts, extractByBase64Json

(* Whatever the header is, challengeByBase64Header returns no challenge,   *)
(* and the user id of a response it returns is the name of the field       *)
(* (RequestFuncs.ts:81-129): with it no handshake can begin.               *)
THEOREM HeaderGivesNoChallenge ==
    ASSUME NEW h
    PROVE  /\ challengeByBase64Header(h).kind # "challenge"
           /\ challengeByBase64Header(h).kind = "response" =>
                  challengeByBase64Header(h).userId = Text("uid")
<1> DEFINE matches == ChallengeIndexes(h) \cup ResponseIndexes(h)
           first == CHOOSE i \in matches : \A j \in matches : i <= j
           parsed(kind) == Parsed(kind, KeyValue(h), Groups(h, first))
<1>1. Error.kind = "error" /\ Throws.kind = "throws"
  BY DEF Error, Throws
<1>2. ASSUME first \in ChallengeIndexes(h)
      PROVE  parsed("challenge") = Throws
  <2> HIDE DEF first
  <2>1. Groups(h, first) = Object([message |-> Undefined, signature |-> Undefined])
    BY <1>2 DEF Groups
  <2>2. ~Decodes(Groups(h, first))
    BY <2>1 DEF Decodes, Property, Object, Undefined
  <2> QED BY <2>2 DEF Parsed
<1>3. \/ parsed("response") = Throws
      \/ /\ parsed("response").kind = "response"
         /\ parsed("response").userId = Text("uid")
  <2> HIDE DEF first
  <2> QED BY DEF Parsed, KeyValue
<1>4. \/ challengeByBase64Header(h) = Error
      \/ first \in ChallengeIndexes(h) /\ challengeByBase64Header(h) = parsed("challenge")
      \/ challengeByBase64Header(h) = parsed("response")
  BY DEF challengeByBase64Header
<1> QED
  <2> HIDE DEF parsed, first
  <2> QED BY <1>1, <1>2, <1>3, <1>4
=================================================================================
