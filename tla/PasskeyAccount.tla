---------------------------- MODULE PasskeyAccount ----------------------------
(***************************************************************************)
(* The two contracts of the SEP-45 example and the client that signs for   *)
(* one of them: src/examples/webauth/contracts/ and sep45.ts.              *)
(*                                                                         *)
(* The server asks for the authorization of one entry after another; the   *)
(* entry's hash is the payload.  The client answers with an assertion.     *)
(* Other authenticators, and this one in other circumstances, sign the     *)
(* same payloads.  Any assertion ever made may be presented.               *)
(*                                                                         *)
(* Hashes do not collide: what is hashed stands for its hash.              *)
(***************************************************************************)
EXTENDS Integers, Sequences, FiniteSets

CONSTANTS
  Payloads,     \* bounds the hashes, which may be shorter than 32 bytes
  MaxEntries,   \* bounds the entries the server asks about
  None

VARIABLES
  public_key,   \* what the account's constructor stored
  payload,      \* the hash of the entry to authorize
  asked,        \* the hashes of all entries so far
  simulated     \* the last simulation: what it was given, what it said

vars == <<public_key, payload, asked, simulated>>

Byte  == 256
Digit == 64   \* a base64 character stands for one of so many numbers

\* A hash has 3 n + 2 bytes, as 32 is.
PayloadsOK ==
  /\ \A p \in Payloads :
       p \in Seq(0 .. Byte - 1) /\ Len(p) >= 2 /\ (Len(p) - 2) % 3 = 0
  /\ MaxEntries \in Nat

-----------------------------------------------------------------------------
(* Base64url without padding, as the contract writes it. *)

Word(b1, b2, b3) == b1 * Byte * Byte + b2 * Byte + b3

\* The i-th of a word's four characters.
Character(word, i) == (word \div Digit ^ (4 - i)) % Digit

\* The loop: four characters for each whole triple of bytes.
Triples(value) ==
  [c \in 1 .. 4 * (Len(value) \div 3) |->
     LET index == 3 * ((c - 1) \div 4)
     IN  Character(Word(value[index + 1], value[index + 2], value[index + 3]),
                   ((c - 1) % 4) + 1)]

\* The first n characters of the last two bytes.
Tail2(value, n) ==
  [i \in 1 .. n |->
     Character(Word(value[Len(value) - 1], value[Len(value)], 0), i)]

\* Mutant of push_base64url: as many characters as the tail has bytes.
push_base64url_short(value) == Triples(value) \o Tail2(value, 2)

push_base64url(value) == Triples(value) \o Tail2(value, 3)

(***************************************************************************)
(* The client's way.  btoa cuts the row of all bits, zeros after its end,  *)
(* into characters of six and fills the last group of four with "=".  Its  *)
(* two last characters are "+" and "/".                                    *)
(***************************************************************************)
Plus == Digit
Slash == Digit + 1
Equals == Digit + 2

ByteAt(value, j) == IF j < Len(value) THEN value[j + 1] ELSE 0

\* The number that the six bits from the i-th make; they lie in two bytes.
SixBits(value, i) ==
  ((ByteAt(value, i \div 8) * Byte + ByteAt(value, i \div 8 + 1))
     \div 2 ^ (10 - (i % 8))) % Digit

btoa(value) ==
  [c \in 1 .. 4 * ((Len(value) + 2) \div 3) |->
     LET n == SixBits(value, 6 * (c - 1))
     IN  IF 6 * (c - 1) >= 8 * Len(value) THEN Equals
         ELSE CASE n = 62 -> Plus [] n = 63 -> Slash [] OTHER -> n]

Replaced(character) ==
  CASE character = Plus -> 62
    [] character = Slash -> 63
    [] OTHER -> character

\* Both replacements, and then the "=" at the end are cut off.
challenge(value) ==
  LET base64Challenge == btoa(value)
      kept == {i \in DOMAIN base64Challenge : base64Challenge[i] # Equals}
  IN  [i \in {j \in DOMAIN base64Challenge : \E k \in kept : j <= k} |->
         Replaced(base64Challenge[i])]

-----------------------------------------------------------------------------
(***************************************************************************)
(* Assertions.  `layout' is the order and the extent of the JSON around    *)
(* the three named members; `high' says which of the two values of s that  *)
(* verify an ECDSA signature this one has.                                 *)
(***************************************************************************)
ClientData(text, origin, layout) ==
  [type |-> "webauthn.get", challenge |-> text, origin |-> origin,
   layout |-> layout]

Signed(by, authenticator_data, client_data_json, high) ==
  [authenticator_data |-> authenticator_data,
   client_data_json |-> client_data_json,
   signature |-> [by |-> by, high |-> high,
                  of |-> <<authenticator_data, client_data_json>>]]

Authenticator(rp, present, verified) ==
  [length |-> 37, rp |-> rp, present |-> present, verified |-> verified]

\* Mutant of LowS: the signature is used as WebCrypto returned it.
AnyS(signature) == signature

\* Only s above half the order is replaced by order - s.
LowS(signature) == [signature EXCEPT !.high = FALSE]

\* What the callback returns for the entry of this payload.
Assertion(value, high) ==
  LET made == Signed("passkey", Authenticator("colibri.test", TRUE, TRUE),
                     ClientData(challenge(value), "https://colibri.test",
                                "exact"), high)
  IN  [made EXCEPT !.signature = LowS(@)]

\* What else may be signed: by another key, without the reader's presence or
\* verification, for another site, or by a browser that adds members.
Others(value) ==
  LET text == challenge(value)
      here == Authenticator("colibri.test", TRUE, TRUE)
      data == ClientData(text, "https://colibri.test", "exact")
  IN  {Signed("another", here, data, FALSE),
       Signed("passkey", Authenticator("colibri.test", FALSE, TRUE), data,
              FALSE),
       Signed("passkey", Authenticator("colibri.test", TRUE, FALSE), data,
              FALSE),
       Signed("passkey", Authenticator("elsewhere", TRUE, TRUE),
              ClientData(text, "https://elsewhere", "exact"), FALSE),
       Signed("passkey", here,
              ClientData(text, "https://sub.colibri.test", "exact"), FALSE),
       Signed("passkey", here,
              ClientData(text, "https://colibri.test", "extended"), FALSE),
       Signed("passkey", [here EXCEPT !.length = 38], data, FALSE)}

-----------------------------------------------------------------------------
(* passkey-account *)

expected_client_data(value) ==
  ClientData(push_base64url(value), "https://colibri.test", "exact")

\* Which difference the error names; `contains' looks for one member.
ClientDataError(data, value) ==
  IF data.type # "webauthn.get" THEN "InvalidClientDataType"
  ELSE IF data.origin # "https://colibri.test" THEN "InvalidOrigin"
  ELSE IF data.challenge # push_base64url(value) THEN "InvalidChallenge"
  ELSE "InvalidClientData"

\* The host refuses a signature whose s is high.
secp256r1_verify(key, digest, signature) ==
  signature.by = key /\ signature.of = digest /\ ~signature.high

\* "trap" where the host ends the invocation.
check_auth(value, s) ==
  LET data == s.authenticator_data
  IN  IF data.length # 37 THEN "InvalidAuthenticatorData"
      ELSE IF data.rp # "colibri.test" THEN "InvalidRpId"
      ELSE IF ~data.present THEN "UserPresenceRequired"
      ELSE IF ~data.verified THEN "UserVerificationRequired"
      ELSE IF s.client_data_json # expected_client_data(value)
           THEN ClientDataError(s.client_data_json, value)
      ELSE IF secp256r1_verify(public_key, <<data, s.client_data_json>>,
                               s.signature)
           THEN "ok" ELSE "trap"

\* web-auth: `arguments' are the accounts named in the entry's map, and
\* `authorized' those whose require_auth succeeds.
web_auth_verify(arguments, authorized) ==
  IF "account" \notin arguments THEN "MissingAccount"
  ELSE IF "web_auth_domain_account" \notin arguments
       THEN "MissingServerAccount"
  ELSE IF arguments \subseteq authorized THEN "ok" ELSE "trap"

-----------------------------------------------------------------------------
Init ==
  /\ public_key = "passkey"
  /\ payload \in Payloads
  /\ asked = {payload}
  /\ simulated = None

\* The next entry has another nonce or expiry, and so another hash.
NextEntry ==
  /\ Cardinality(asked) < MaxEntries
  /\ payload' \in Payloads \ asked
  /\ asked' = asked \cup {payload'}
  /\ simulated' = None
  /\ UNCHANGED public_key

\* All that may have been signed for the entries so far.
Assertions ==
  UNION {{Assertion(p, high) : high \in BOOLEAN} \cup Others(p) : p \in asked}

\* The server simulates web_auth_verify; the account and the server are
\* always named, a client's domain may be.  A simulation keeps nothing, so
\* one for each entry shows them all.
Simulate(a, names, alsoSigned) ==
  LET accepted == check_auth(payload, a)
      arguments == names \cup {"account", "web_auth_domain_account"}
      authorized == alsoSigned \cup
                      {n \in {"account"} : accepted = "ok"}
  IN  /\ simulated = None
      /\ simulated' = [assertion |-> a, arguments |-> arguments,
                       authorized |-> authorized, account |-> accepted,
                       result |-> web_auth_verify(arguments, authorized)]
      /\ UNCHANGED <<public_key, payload, asked>>

Next ==
  \/ NextEntry
  \/ \E a \in Assertions,
        names \in SUBSET {"client_domain_account"},
        alsoSigned \in
          SUBSET {"web_auth_domain_account", "client_domain_account"} :
       Simulate(a, names, alsoSigned)

Spec == Init /\ [][Next]_vars

-----------------------------------------------------------------------------
TypeOK ==
  /\ payload \in Payloads
  /\ payload \in asked /\ asked \subseteq Payloads
  /\ simulated # None =>
       simulated.account \in
         {"InvalidAuthenticatorData", "InvalidRpId", "UserPresenceRequired",
          "UserVerificationRequired", "InvalidClientDataType",
          "InvalidOrigin", "InvalidChallenge", "InvalidClientData", "ok",
          "trap"}

AnswersFor(value) == {Assertion(value, high) : high \in BOOLEAN}

\* Client and contract, which build the same bytes in two languages, agree:
\* the account accepts what its client answers for this entry, whichever s
\* the signature came with, and nothing else that was ever signed.
AccountAcceptsItsClient ==
  simulated # None =>
    (simulated.account = "ok" <=>
       simulated.assertion \in AnswersFor(payload))

\* What the client answered for another entry is not among it.
NothingIsReplayed ==
  simulated # None /\ simulated.account = "ok" =>
    \A p \in asked \ {payload} : simulated.assertion \notin AnswersFor(p)

\* And a simulation succeeds only if all whom the entry names agreed.
AllNamedAgree ==
  simulated # None /\ simulated.result = "ok" =>
    /\ simulated.account = "ok"
    /\ simulated.arguments \subseteq simulated.authorized

SimulationIsRight ==
  TypeOK /\ AccountAcceptsItsClient /\ NothingIsReplayed /\ AllNamedAgree
=============================================================================
