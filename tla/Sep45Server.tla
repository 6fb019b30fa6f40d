----------------------------- MODULE Sep45Server -----------------------------
(***************************************************************************)
(* The local SEP-45 server, src/examples/webauth/server.ts.  GET /sep45    *)
(* pauses for two RPC calls and records the nonce between them; POST       *)
(* /sep45 pauses for two RPC calls before it consumes the nonce and once   *)
(* more, to sign the token, after it.  Ledgers close meanwhile, exchanges  *)
(* overlap, and the server may be closed or restarted.                     *)
(*                                                                         *)
(* Every GET draws its own random nonce, so a GET is named by its nonce.   *)
(***************************************************************************)
EXTENDS Naturals, FiniteSets

CONSTANTS
  Nonces,       \* the GET /sep45 requests and the nonces they draw
  Requests,     \* the POST /sep45 exchanges
  NoNonce,      \* what a malformed submission presents
  Lifetime,     \* ledgers a server signature stays valid, 30 in the code
  MaxLedger,    \* bound on the ledgers that close
  MaxRestarts   \* bound on the restarts of the process

ASSUME Sep45Assumption ==
  /\ IsFiniteSet(Nonces) /\ NoNonce \notin Nonces
  /\ Lifetime \in Nat
  /\ MaxLedger \in Nat
  /\ MaxRestarts \in Nat

VARIABLES
  ledger,       \* sequence of the last closed ledger
  epoch,        \* how often the process was restarted
  listening,    \* the server accepts connections
  issued,       \* NonceStore.#issued
  used,         \* NonceStore.#used
  building,     \* the progress of each GET
  exchange      \* the progress of each POST

vars == <<ledger, epoch, listening, issued, used, building, exchange>>

-----------------------------------------------------------------------------

Ledgers == 0..MaxLedger

\* "latest" awaits getLatestLedger, "recording" awaits simulateTransaction;
\* "failed" came to nothing before its nonce was recorded, "lost" after.
\* since is the ledger at which the pending call was sent.
Building == [pc         : {"idle", "latest", "recording", "delivered",
                           "failed", "lost"},
             since      : Ledgers,
             expiration : 0..(MaxLedger + Lifetime),
             epoch      : 0..MaxRestarts]

\* "latest" awaits getLatestLedger, "simulating" awaits the enforcing
\* simulation, "issuing" awaits the signature of the token, "tokenLost" was
\* cut off doing so.  signed says whether the client's entry satisfies the
\* account contract, until is the last ledger that entry is valid for.
Exchange == [pc     : {"idle", "latest", "simulating", "issuing", "token",
                       "tokenLost", "refused", "dropped"},
             nonce  : Nonces \cup {NoNonce},
             signed : BOOLEAN,
             until  : Ledgers,
             since  : Ledgers]

TypeOK ==
  /\ ledger \in Ledgers
  /\ epoch \in 0..MaxRestarts
  /\ listening \in BOOLEAN
  /\ issued \subseteq Nonces
  /\ used \subseteq issued
  /\ building \in [Nonces -> Building]
  /\ exchange \in [Requests -> Exchange]

Init ==
  /\ ledger = 0
  /\ epoch = 0
  /\ listening = TRUE
  /\ issued = {}
  /\ used = {}
  /\ building = [n \in Nonces |->
       [pc |-> "idle", since |-> 0, expiration |-> 0, epoch |-> 0]]
  /\ exchange = [r \in Requests |->
       [pc |-> "idle", nonce |-> NoNonce, signed |-> FALSE, until |-> 0,
        since |-> 0]]

-----------------------------------------------------------------------------
(* GET /sep45.                                                             *)

sep45Get(n) ==
  /\ listening
  /\ building[n].pc = "idle"
  /\ building' = [building EXCEPT
       ![n] = [pc |-> "latest", since |-> ledger, expiration |-> 0,
               epoch |-> epoch]]
  /\ UNCHANGED <<ledger, epoch, listening, issued, used, exchange>>

\* The node may have answered at any time since the call was sent.
AnsweredAt(since) == since..ledger

\* The nonce is recorded before the recording simulation is sent.
IssueNonce(n) ==
  /\ building[n].pc = "latest"
  /\ \E latest \in AnsweredAt(building[n].since) :
       building' = [building EXCEPT
         ![n] = [pc |-> "recording", since |-> ledger,
                 expiration |-> latest + Lifetime, epoch |-> epoch]]
  /\ issued' = issued \cup {n}
  /\ UNCHANGED <<ledger, epoch, listening, used, exchange>>

\* The server signs its entry and answers.
DeliverChallenge(n) ==
  /\ building[n].pc = "recording"
  /\ building' = [building EXCEPT ![n].pc = "delivered"]
  /\ UNCHANGED <<ledger, epoch, listening, issued, used, exchange>>

\* What becomes of a GET that cannot go on.
Abandoned(get) ==
  [get EXCEPT !.pc = IF @ = "latest" THEN "failed" ELSE "lost"]

GetUnderWay(n) == building[n].pc \in {"latest", "recording"}

\* An RPC call rejects, or the simulation fails or lacks the server's entry:
\* the handler throws, and a nonce already recorded stays recorded.
GetFails(n) ==
  /\ GetUnderWay(n)
  /\ building' = [building EXCEPT ![n] = Abandoned(@)]
  /\ UNCHANGED <<ledger, epoch, listening, issued, used, exchange>>

-----------------------------------------------------------------------------
(* POST /sep45.                                                            *)

\* Only a delivered challenge carries the server's signature.
sep45Post(r, n, signed, until) ==
  /\ listening
  /\ exchange[r].pc = "idle"
  /\ building[n].pc = "delivered"
  /\ exchange' = [exchange EXCEPT
       ![r] = [pc |-> "latest", nonce |-> n, signed |-> signed,
               until |-> until, since |-> ledger]]
  /\ UNCHANGED <<ledger, epoch, listening, issued, used, building>>

\* No entries, entries that do not decode, or another root invocation.
Malformed(r) ==
  /\ listening
  /\ exchange[r].pc = "idle"
  /\ exchange' = [exchange EXCEPT ![r].pc = "refused"]
  /\ UNCHANGED <<ledger, epoch, listening, issued, used, building>>

\* verifySep45Challenge accepts an unexpired challenge of this server.  One
\* signed before a restart is accepted too if the restarted fixture was given
\* the same key and port; otherwise it is not.
Verified(n, latest) == latest <= building[n].expiration

Unverified(n, latest) ==
  latest > building[n].expiration \/ building[n].epoch # epoch

LatestReturned(r) ==
  /\ exchange[r].pc = "latest"
  /\ \E latest \in AnsweredAt(exchange[r].since) :
       \/ /\ Verified(exchange[r].nonce, latest)
          /\ exchange' = [exchange EXCEPT
               ![r] = [pc |-> "simulating", nonce |-> @.nonce,
                       signed |-> @.signed, until |-> @.until,
                       since |-> ledger]]
       \/ /\ Unverified(exchange[r].nonce, latest)
          /\ exchange' = [exchange EXCEPT ![r].pc = "refused"]
  /\ UNCHANGED <<ledger, epoch, listening, issued, used, building>>

\* Mutant of Authorized: the server's own expiry is not enforced.
AuthorizedLate(r, at) == exchange[r].signed /\ at <= exchange[r].until

\* The simulation enforces the account contract's __check_auth and the ledgers
\* both signatures are valid for.
Authorized(r, at) ==
  /\ exchange[r].signed
  /\ at <= exchange[r].until
  /\ at <= building[exchange[r].nonce].expiration

\* Mutant of Consumable: a used nonce is accepted again.
ConsumableAgain(nonce) == nonce \in issued

\* NonceStore.consume.
Consumable(nonce) == nonce \in issued /\ nonce \notin used

Accept(r) ==
  /\ exchange' = [exchange EXCEPT ![r].pc = "issuing"]
  /\ used' = used \cup {exchange[r].nonce}

\* Mutant of Refuse: the nonce is consumed before it is authorized.
RefuseConsuming(r) ==
  /\ exchange' = [exchange EXCEPT ![r].pc = "refused"]
  /\ used' = used \cup {exchange[r].nonce}

Refuse(r) ==
  /\ exchange' = [exchange EXCEPT ![r].pc = "refused"]
  /\ UNCHANGED used

SimulationReturned(r) ==
  /\ exchange[r].pc = "simulating"
  /\ \E at \in AnsweredAt(exchange[r].since) :
       IF Authorized(r, at) /\ Consumable(exchange[r].nonce)
       THEN Accept(r)
       ELSE Refuse(r)
  /\ UNCHANGED <<ledger, epoch, listening, issued, building>>

PostFails(r) ==
  /\ exchange[r].pc \in {"latest", "simulating"}
  /\ Refuse(r)
  /\ UNCHANGED <<ledger, epoch, listening, issued, building>>

issueJwt(r) ==
  /\ exchange[r].pc = "issuing"
  /\ exchange' = [exchange EXCEPT ![r].pc = "token"]
  /\ UNCHANGED <<ledger, epoch, listening, issued, used, building>>

-----------------------------------------------------------------------------
(* Around the handlers.                                                    *)

LedgerCloses ==
  /\ ledger < MaxLedger
  /\ ledger' = ledger + 1
  /\ UNCHANGED <<epoch, listening, issued, used, building, exchange>>

\* server.shutdown: no new requests, those under way go on.
close ==
  /\ listening
  /\ listening' = FALSE
  /\ UNCHANGED <<ledger, epoch, issued, used, building, exchange>>

\* The process ends and a new one starts with an empty NonceStore; requests
\* under way lose their connection.
Restart ==
  /\ epoch < MaxRestarts
  /\ epoch' = epoch + 1
  /\ listening' = TRUE
  /\ issued' = {}
  /\ used' = {}
  /\ building' = [n \in Nonces |->
       IF GetUnderWay(n) THEN Abandoned(building[n]) ELSE building[n]]
  /\ exchange' = [r \in Requests |->
       CASE exchange[r].pc \in {"latest", "simulating"} ->
              [exchange[r] EXCEPT !.pc = "dropped"]
         [] exchange[r].pc = "issuing" ->
              [exchange[r] EXCEPT !.pc = "tokenLost"]
         [] OTHER -> exchange[r]]
  /\ UNCHANGED ledger

-----------------------------------------------------------------------------

Get(n) == sep45Get(n) \/ IssueNonce(n) \/ DeliverChallenge(n) \/ GetFails(n)

Post(r) ==
  \/ \E n \in Nonces, signed \in BOOLEAN, until \in Ledgers :
       sep45Post(r, n, signed, until)
  \/ Malformed(r) \/ LatestReturned(r) \/ SimulationReturned(r)
  \/ PostFails(r) \/ issueJwt(r)

Next ==
  \/ \E n \in Nonces : Get(n)
  \/ \E r \in Requests : Post(r)
  \/ LedgerCloses \/ close \/ Restart

Spec == Init /\ [][Next]_vars

-----------------------------------------------------------------------------

\* Consuming a nonce and answering with its token are two steps.
Spender(r) == exchange[r].pc \in {"issuing", "token", "tokenLost"}

\* server.ts:341 "Consume the nonce only after authorization succeeds to
\* prevent replay": a challenge yields one token at most, even when its server
\* was restarted with its history lost and accepts its old signatures.
SingleToken ==
  \A r, s \in Requests :
    Spender(r) /\ Spender(s) /\ exchange[r].nonce = exchange[s].nonce => r = s

\* The other half of the same comment: only an exchange that gets the token
\* uses the nonce up.  Rejected signatures, failing calls and lost races leave
\* the challenge to its owner.
NonceBuysToken ==
  used \subseteq {exchange[r].nonce : r \in {q \in Requests : Spender(q)}}

\* A token says that the account authorized the challenge, and that both
\* signatures were still valid when the deciding simulation was sent, not
\* merely when the submission arrived.
TokenWasLive ==
  \A r \in Requests : Spender(r) =>
    /\ exchange[r].signed
    /\ exchange[r].since <= exchange[r].until
    /\ exchange[r].since <= building[exchange[r].nonce].expiration

\* One token per challenge, for who authorized it in time.
TokensAreEarned == SingleToken /\ TokenWasLive

\* What makes these hold: a spent nonce is used, or its store is gone and the
\* nonce is not issued again; only delivered challenges are on their way; and
\* a nonce in the store was drawn by a GET.
SpentIsGone ==
  \A r \in Requests : Spender(r) =>
    /\ exchange[r].nonce \in Nonces
    /\ building[exchange[r].nonce].pc = "delivered"
    /\ exchange[r].nonce \in issued => exchange[r].nonce \in used

PresentedWasDelivered ==
  \A r \in Requests : exchange[r].pc \in {"latest", "simulating"} =>
    /\ exchange[r].nonce \in Nonces
    /\ building[exchange[r].nonce].pc = "delivered"

IssuedWasDrawn ==
  \A n \in issued : building[n].pc \in {"recording", "delivered", "lost"}

Bookkeeping == SpentIsGone /\ PresentedWasDelivered /\ IssuedWasDrawn

-----------------------------------------------------------------------------

StatusOf(n) ==
  IF \E r \in Requests : Spender(r) /\ exchange[r].nonce = n THEN "redeemed"
  ELSE IF n \in issued THEN "open"
  ELSE IF building[n].pc \in {"idle", "latest", "failed"} THEN "unissued"
  ELSE "lapsed"

HolderOf(r) == IF Spender(r) THEN exchange[r].nonce ELSE NoNonce

\* No limit on the nonces outstanding: MaxPending is out of reach.
Service == INSTANCE ChallengeService WITH
  Challenges  <- Nonces,
  NoChallenge <- NoNonce,
  MaxPending  <- Cardinality(Nonces) + 1,
  status      <- [n \in Nonces |-> StatusOf(n)],
  holder      <- [r \in Requests |-> HolderOf(r)]

\* Seen from its clients this server and the SEP-10 fixture keep one promise.
ImplementsService == Service!Spec

=============================================================================
