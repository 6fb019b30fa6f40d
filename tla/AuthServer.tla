----------------------------- MODULE AuthServer -----------------------------
(***************************************************************************)
(* The local SEP-10 fixture, src/examples/web/auth-server/server.ts: a     *)
(* single-threaded HTTP server whose handlers interleave at every await.   *)
(* GET /auth runs without a pause; POST /auth pauses for one or two RPC    *)
(* calls between the first test of the challenge table and the delete that *)
(* consumes the challenge.  Meanwhile time passes, other exchanges run,    *)
(* the account changes on the ledger, and the process may be restarted.    *)
(*                                                                         *)
(* Expiry is kept as the challenge's age: the table stores issue time plus *)
(* 120 seconds, so "expiry <= now" is "age >= Lifetime".                   *)
(***************************************************************************)
EXTENDS Naturals, FiniteSets, FiniteSetsExt

CONSTANTS
  Keys,          \* ed25519 public keys
  Accounts,      \* G-accounts; an account is named by its master key
  Configs,       \* states a funded account may have on the ledger
  Unfunded,      \* the ledger state of an account that does not exist
  SignatureSets, \* sets of client keys that may have signed a submission
  Challenges,    \* body hashes of the challenges that may be built
  Requests,      \* POST /auth exchanges
  NoChallenge,   \* an exchange that presented nothing yet
  NotIssued,     \* a challenge that was never built
  MaxPending,    \* 256 in the code
  Lifetime,      \* seconds a challenge stays in the table, 120 in the code
  Grace,         \* seconds the SDK adds to a challenge's time bounds, 300
  MaxRestarts    \* bound on the restarts of the process

ASSUME AuthAssumption ==
  /\ Accounts \subseteq Keys
  /\ Unfunded \notin Configs
  /\ Configs \subseteq [medium : Nat, weight : [Keys -> Nat]]
  /\ SignatureSets \subseteq SUBSET Keys
  /\ \A sigs \in SignatureSets : IsFiniteSet(sigs)
  /\ NoChallenge \notin Challenges
  /\ NotIssued \notin [account : Accounts, key : Nat, age : Nat]
  /\ MaxPending \in Nat \ {0}
  /\ Lifetime \in Nat \ {0}
  /\ Grace \in Nat
  /\ MaxRestarts \in Nat

VARIABLES
  serverKey,     \* which of its random key pairs the process signs with
  challenges,    \* the hashes in the table of pending challenges
  issued,        \* what was built into each challenge, and its age
  exchange,      \* the progress of each POST /auth exchange
  ledger         \* the accounts on the Testnet ledger

vars == <<serverKey, challenges, issued, exchange, ledger>>

-----------------------------------------------------------------------------

LedgerStates == Configs \cup {Unfunded}

\* Past this age no check of the code tells two challenges apart.
Stale == Lifetime + Grace + 1

Built == [account : Accounts, key : 0..MaxRestarts, age : 0..Stale]

\* "entries" awaits rpc.getLedgerEntries, "account" awaits ledger.account,
\* "dropped" lost its connection when the process stopped.
Progress == {"idle", "entries", "account", "token", "refused", "dropped"}

\* seen holds the states the account has had on the ledger since the pending
\* RPC call was sent: the answer is one of them.
Exchange == [pc   : Progress,
             chal : Challenges \cup {NoChallenge},
             sigs : SUBSET Keys,
             seen : SUBSET LedgerStates]

TypeOK ==
  /\ serverKey \in 0..MaxRestarts
  /\ challenges \subseteq Challenges
  /\ issued \in [Challenges -> Built \cup {NotIssued}]
  /\ exchange \in [Requests -> Exchange]
  /\ ledger \in [Accounts -> LedgerStates]

Idle == [pc |-> "idle", chal |-> NoChallenge, sigs |-> {}, seen |-> {}]

Init ==
  /\ serverKey = 0
  /\ challenges = {}
  /\ issued = [c \in Challenges |-> NotIssued]
  /\ exchange = [r \in Requests |-> Idle]
  /\ ledger \in [Accounts -> LedgerStates]

-----------------------------------------------------------------------------

InFlight(r) == exchange[r].pc \in {"entries", "account"}

\* Mutant of Unexpired: expired challenges are never pruned.
UnexpiredNeverPruned == challenges

\* pruneChallenges: what stays in the table.
Unexpired == {c \in challenges : issued[c].age < Lifetime}

\* WebAuth.readChallengeTx: the challenge carries this process's signature
\* and lies within its time bounds, which the SDK widens by a grace period.
Readable(c) ==
  /\ issued[c].key = serverKey
  /\ issued[c].age <= Lifetime + Grace

\* The signers of an account and their weights.  An account that does not
\* exist signs with its master key; signer types other than ed25519 have no
\* key in Keys and are filtered out.
Signers(account, state) ==
  IF state = Unfunded
  THEN [k \in {account} |-> 1]
  ELSE [k \in {account} \cup {k \in Keys : state.weight[k] > 0}
          |-> state.weight[k]]

\* Mutant of Threshold: the ledger's medium threshold as it is.
ThresholdUnclamped(state) ==
  IF state = Unfunded THEN 1 ELSE state.medium

Threshold(state) ==
  IF state = Unfunded THEN 1 ELSE Max({1, state.medium})

\* Mutant of VerifyThreshold: the challenge is not read a second time.
VerifyThresholdOnce(c, threshold, signers, sigs) ==
  /\ sigs # {}
  /\ sigs \subseteq DOMAIN signers
  /\ MapThenSumSet(LAMBDA k : signers[k], sigs) >= threshold

\* WebAuth.verifyChallengeTxThreshold: every client signature belongs to a
\* listed signer, there is at least one, and their weights reach the
\* threshold; it reads the challenge, and its time bounds, once more.
VerifyThreshold(c, threshold, signers, sigs) ==
  /\ Readable(c)
  /\ sigs # {}
  /\ sigs \subseteq DOMAIN signers
  /\ MapThenSumSet(LAMBDA k : signers[k], sigs) >= threshold

-----------------------------------------------------------------------------

\* Mutant of HasCapacity: the limit is off by one.
HasCapacityForOneMore == Cardinality(Unexpired) <= MaxPending

HasCapacity == Cardinality(Unexpired) < MaxPending

NewRecord(a) == [account |-> a, key |-> serverKey, age |-> 0]

(* GET /auth: prune, test the capacity, build and record a challenge.      *)
IssueChallenge(a) ==
  /\ HasCapacity
  /\ \E c \in Challenges :
       /\ issued[c] = NotIssued
       /\ challenges' = Unexpired \cup {c}
       /\ issued' = [issued EXCEPT ![c] = NewRecord(a)]
  /\ UNCHANGED <<serverKey, exchange, ledger>>

RejectAtCapacity ==
  /\ ~HasCapacity
  /\ challenges' = Unexpired
  /\ UNCHANGED <<serverKey, issued, exchange, ledger>>

GetAuth(a) == IssueChallenge(a) \/ RejectAtCapacity

\* An exchange enters a stage: sending an RPC call opens the window in which
\* the node may read the account.
Enter(r, c, sigs, progress) ==
  exchange' = [exchange EXCEPT
                 ![r] = [pc   |-> progress,
                         chal |-> c,
                         sigs |-> sigs,
                         seen |-> IF progress = "refused"
                                  THEN {}
                                  ELSE {ledger[issued[c].account]}]]

(* POST /auth up to the first await: read the challenge, prune, look it    *)
(* up, and send rpc.getLedgerEntries.                                      *)
RejectUnreadable(r, c, sigs) ==
  /\ ~Readable(c)
  /\ Enter(r, c, sigs, "refused")
  /\ UNCHANGED challenges

RejectUnknown(r, c, sigs) ==
  /\ Readable(c)
  /\ c \notin Unexpired
  /\ Enter(r, c, sigs, "refused")
  /\ challenges' = Unexpired

LookUp(r, c, sigs) ==
  /\ Readable(c)
  /\ c \in Unexpired
  /\ Enter(r, c, sigs, "entries")
  /\ challenges' = Unexpired

PostAuth(r, c, sigs) ==
  /\ exchange[r].pc = "idle"
  /\ issued[c] # NotIssued
  /\ \/ RejectUnreadable(r, c, sigs)
     \/ RejectUnknown(r, c, sigs)
     \/ LookUp(r, c, sigs)
  /\ UNCHANGED <<serverKey, issued, ledger>>

(* The end of authenticate: verify the client signatures against the       *)
(* account state that was read, then consume the challenge if it is still  *)
(* in the table.                                                           *)
\* Mutant of Consumable: no second check after the awaits.
ConsumableUnchecked(c) == TRUE

Consumable(c) == c \in challenges

Verified(r, state) ==
  LET c == exchange[r].chal
  IN  VerifyThreshold(c, Threshold(state), Signers(issued[c].account, state),
                      exchange[r].sigs)

Outcome(r, accepted) ==
  exchange' = [exchange EXCEPT ![r].pc = IF accepted THEN "token" ELSE "refused"]

\* Mutant of Settle: the challenge is consumed before it is verified.
SettleConsumingFirst(r, state) ==
  /\ Outcome(r, Verified(r, state) /\ Consumable(exchange[r].chal))
  /\ challenges' = challenges \ {exchange[r].chal}

Settle(r, state) ==
  LET c == exchange[r].chal
      accepted == Verified(r, state) /\ Consumable(c)
  IN  /\ Outcome(r, accepted)
      /\ challenges' = IF accepted THEN challenges \ {c} ELSE challenges

Fail(r) ==
  /\ exchange' = [exchange EXCEPT ![r].pc = "refused"]
  /\ UNCHANGED challenges

\* rpc.getLedgerEntries answers: no entry means the default signer, an entry
\* means a second call, ledger.account.
EntriesReturned(r) ==
  /\ exchange[r].pc = "entries"
  /\ \/ Unfunded \in exchange[r].seen /\ Settle(r, Unfunded)
     \/ /\ \E state \in exchange[r].seen : state # Unfunded
        /\ Enter(r, exchange[r].chal, exchange[r].sigs, "account")
        /\ UNCHANGED challenges
  /\ UNCHANGED <<serverKey, issued, ledger>>

\* ledger.account answers; it throws when the account was merged meanwhile.
AccountReturned(r) ==
  /\ exchange[r].pc = "account"
  /\ \E state \in exchange[r].seen :
       IF state = Unfunded THEN Fail(r) ELSE Settle(r, state)
  /\ UNCHANGED <<serverKey, issued, ledger>>

\* Either call may reject; the handler answers 400 and the challenge stays.
RpcFails(r) ==
  /\ InFlight(r)
  /\ Fail(r)
  /\ UNCHANGED <<serverKey, issued, ledger>>

-----------------------------------------------------------------------------

(* The world around the handlers.                                          *)

\* A second passes.
Tick ==
  /\ issued' = [c \in Challenges |->
       IF issued[c] = NotIssued \/ issued[c].age = Stale
       THEN issued[c]
       ELSE [issued[c] EXCEPT !.age = @ + 1]]
  /\ UNCHANGED <<serverKey, challenges, exchange, ledger>>

\* Somebody funds, reconfigures or merges an account.
LedgerChanges(a) ==
  /\ \E state \in LedgerStates \ {ledger[a]} :
       /\ ledger' = [ledger EXCEPT ![a] = state]
       /\ exchange' = [r \in Requests |->
            IF InFlight(r) /\ issued[exchange[r].chal].account = a
            THEN [exchange[r] EXCEPT !.seen = @ \cup {state}]
            ELSE exchange[r]]
  /\ UNCHANGED <<serverKey, challenges, issued>>

\* The process stops and starts again: a new random key, an empty table, and
\* the connections of the exchanges in flight are gone.
Restart ==
  /\ serverKey < MaxRestarts
  /\ serverKey' = serverKey + 1
  /\ challenges' = {}
  /\ exchange' = [r \in Requests |->
       IF InFlight(r) THEN [exchange[r] EXCEPT !.pc = "dropped"]
       ELSE exchange[r]]
  /\ UNCHANGED <<issued, ledger>>

-----------------------------------------------------------------------------

RpcAnswers(r) == EntriesReturned(r) \/ AccountReturned(r) \/ RpcFails(r)

Next ==
  \/ \E a \in Accounts : GetAuth(a)
  \/ \E r \in Requests, c \in Challenges, sigs \in SignatureSets :
       PostAuth(r, c, sigs)
  \/ \E r \in Requests : RpcAnswers(r)
  \/ Tick
  \/ \E a \in Accounts : LedgerChanges(a)
  \/ Restart

Spec == Init /\ [][Next]_vars

\* Time passes, and some client keeps asking for a challenge.
FairSpec ==
  /\ Spec
  /\ WF_vars(Tick)
  /\ WF_vars(\E a \in Accounts : GetAuth(a))

-----------------------------------------------------------------------------

HasToken(r) == exchange[r].pc = "token"

\* server.ts:117 "a second check to prevent concurrent exchanges from
\* redeeming the same challenge twice": of all the exchanges that presented a
\* challenge, at any time and in any interleaving, one gets a token at most.
SingleRedemption ==
  \A r, s \in Requests :
    HasToken(r) /\ HasToken(s) /\ exchange[r].chal = exchange[s].chal => r = s

\* Why that holds although the test and the delete are separated by two
\* awaits: every challenge in the table or on its way was built here, and one
\* that became a token has left the table, to which no step returns it.
PendingWasBuilt == \A c \in challenges : issued[c] # NotIssued

PresentedWasBuilt ==
  \A r \in Requests : exchange[r].pc # "idle" =>
    exchange[r].chal \in Challenges /\ issued[exchange[r].chal] # NotIssued

RedeemedHasLeft ==
  \A r \in Requests : HasToken(r) => exchange[r].chal \notin challenges

Bookkeeping == PendingWasBuilt /\ PresentedWasBuilt /\ RedeemedHasLeft

\* SEP-10's rule for client signatures, said of the ledger rather than of the
\* code: a funded account's medium threshold is met by keys of positive
\* weight, an unfunded one signs with its own key.
Satisfied(account, state, sigs) ==
  IF state = Unfunded
  THEN account \in sigs
  ELSE LET total == MapThenSumSet(LAMBDA k : state.weight[k], sigs)
       IN  total > 0 /\ total >= state.medium

\* A token is given only if, at some moment while the deciding RPC call was
\* outstanding, the account as it stood on the ledger accepted the submitted
\* signatures (server.ts:79 "Existing accounts must satisfy their current
\* medium threshold"): a mix of two ledger states never authenticates.
AuthorizedWhileOutstanding ==
  \A r \in Requests : HasToken(r) =>
    \E state \in exchange[r].seen :
      Satisfied(issued[exchange[r].chal].account, state, exchange[r].sigs)

\* The table never outgrows the limit of server.ts:154, although entries are
\* pruned only when a request comes in.
PendingWithinCapacity == Cardinality(challenges) <= MaxPending

\* Records, exchanges and ledger answers are what the handlers take them for,
\* and the table stays within its limit.
TableOK == TypeOK /\ PendingWithinCapacity

\* A challenge that has not expired leaves the table only by becoming a token
\* or with the process: neither a rejected exchange (wrong signatures, a
\* failing RPC, a lost race) nor the pruning done for another client takes it
\* from its owner.
LiveChallengesAreKept ==
  [][\A c \in Unexpired \ challenges' :
       \/ serverKey' # serverKey
       \/ \E r \in Requests : /\ InFlight(r)
                              /\ HasToken(r)'
                              /\ exchange[r].chal = c]_vars

\* The last second in which a token can come from a challenge is that of the
\* SDK's widened time bounds: the exchange that outlives its challenge while
\* the RPC node is slow is not redeemable forever.
LateRedemptionBounded ==
  [][\A r \in Requests :
       InFlight(r) /\ HasToken(r)' =>
         issued[exchange[r].chal].age <= Lifetime + Grace]_vars

\* web/VERIFICATION.md:136 "a replayed challenge, unsigned challenge, wrong
\* signer, expired challenge ... must be rejected": no token comes from a
\* challenge whose 120 seconds are over.
ExpiredChallengesAreRejected ==
  [][\A r \in Requests :
       InFlight(r) /\ HasToken(r)' =>
         issued[exchange[r].chal].age < Lifetime]_vars

\* A full table does not stay full: while clients keep asking, another
\* challenge is always issued, though nothing but their requests prunes.
IssuedCount == Cardinality({c \in Challenges : issued[c] # NotIssued})

CapacityRecovers ==
  \A n \in 0..(Cardinality(Challenges) - 1) :
    (IssuedCount = n) ~> (IssuedCount > n)

-----------------------------------------------------------------------------

(* The service this server provides.                                       *)

StatusOf(c) ==
  IF \E r \in Requests : HasToken(r) /\ exchange[r].chal = c THEN "redeemed"
  ELSE IF c \in challenges THEN "open"
  ELSE IF issued[c] = NotIssued THEN "unissued"
  ELSE "lapsed"

HolderOf(r) == IF HasToken(r) THEN exchange[r].chal ELSE NoChallenge

Service == INSTANCE ChallengeService WITH
  status <- [c \in Challenges |-> StatusOf(c)],
  holder <- [r \in Requests |-> HolderOf(r)]

\* The server implements the service: every interleaving of its handlers
\* looks to the clients like challenges being issued, redeemed once and
\* forgotten, each in one step.
ImplementsService == Service!Spec

=============================================================================
