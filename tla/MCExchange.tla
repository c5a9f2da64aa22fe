------------------------------- MODULE MCExchange -------------------------------
(* Exchange for TLC: RSA keys of 2048 bits, pairs of options that differ in *)
(* the cryptography, and pairs that differ in everything else.              *)
EXTENDS Exchange

Users == {"alice", "charlie"}
WithCha == {"charlie"}

(* The sizes are the default and both sides of each capacity.               *)
Cryptographies ==
    [type : {"cryptography"}, hashAlgorithm : {"sha256", "sha512"},
     messagePadding : {"oaep", "pkcs1"}, signaturePadding : {"pkcs1", "pss"},
     nonceSize : {126, 127, 128, 190, 191, 245, 246}]

CryptographyPairs ==
    {[clientKey |-> "key", client |-> [cryptography |-> c],
      server |-> [serverKey |-> "key", cryptography |-> d,
                  challengeOrResponseFunc |-> BodyParser("response")]] :
        c \in Cryptographies, d \in Cryptographies}

(* Every option is left out, given or given as undefined.                   *)
LeftOut == [type |-> "leftOut"]
Without(options) == [o \in {o \in DOMAIN options : options[o] # LeftOut} |-> options[o]]

ClientOptions ==
    {Without(o) : o \in
        [formatChallengeFunc : {LeftOut, Undefined, JsonFormat("response"), HeaderFormat("cha"),
                               HeaderFormat("res")},
         formatResponseFunc : {LeftOut, Undefined, JsonFormat("answer"), JsonFormat("challenge"),
                               HeaderFormat("res")},
         extractResponseFunc : {LeftOut, Undefined},
         cryptography : {LeftOut, Undefined, [DefaultCryptography EXCEPT !.messagePadding = "pkcs1"]}]}

ServerOptions ==
    {Without(o) @@ [serverKey |-> k] :
        o \in [challengeOrResponseFunc : {LeftOut, Undefined, BodyParser("response"), BodyParser("answer")},
               challengeCache : {LeftOut, Undefined},
               cryptography : {LeftOut, Undefined}],
        k \in {"key", "badKey", "keyFunc", "badKeyFunc"}}

OptionPairs ==
    {[clientKey |-> k, client |-> c, server |-> s] :
        k \in {"key", "badKey"}, c \in ClientOptions, s \in ServerOptions}

AllPairs == CryptographyPairs \cup OptionPairs

OnlyRequired == {RequiredOnly}
InTheHeader == {HeaderClient}
=================================================================================
