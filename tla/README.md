# Colibri examples: a TLA+ verification project

This directory specifies and verifies the parts of the Colibri example
repository that keep state or depend on the order of events: the two local
authentication servers and their clients, the Docker log follower, the web
lessons with their signers, sessions, forms and refreshes, the contracts, the
builds, and the command-line lessons as sequences of calls that may fail.
Everything is translated from the source under `src/`; `PROJECT.json` maps each
definition to the lines it stands for.

1. [The system](#1-the-system)
2. [What is modelled](#2-what-is-modelled)
3. [The runs](#3-the-runs)
4. [The proofs](#4-the-proofs)
5. [Divergences found](#5-divergences-found)
6. [What is left out, and why](#6-what-is-left-out-and-why)
7. [Plan](#7-plan)

## 1. The system

The repository teaches the Colibri SDK by example. Most lessons are scripts that
await one SDK call after another: what can go wrong in them is that a call's
amount, signer, fee or position does not fit the ledger the calls before it
left, that a failing call leaves something locked, or that a script waits for
ever. The other parts keep state of their own over time. Paths are relative to
`src/examples/`.

| Part | State | Operations | What is hard | What makes it correct |
|---|---|---|---|---|
| SEP-10 fixture, `web/auth-server/server.ts` | random server key, `Map` of pending challenges with expiry | GET /auth, POST /auth | two RPC awaits between looking a challenge up and deleting it; expiry, capacity 256, restart, an account that changes on the ledger | one token per challenge; the account authorized it; the table is bounded and a live challenge is not lost |
| Fixture ownership, `web/auth-server/vite.ts`, `main.ts` | who holds port 8787 and who owns it | start, probe, reuse, close, Vite restart | several processes race for a port; an owner stops while others use it | the owner alone stops the fixture; a running dev server has one |
| SEP-45 server, `webauth/server.ts` | `NonceStore`: issued and used nonces; listening flag | GET, POST /sep45, close | four RPC awaits; ledgers close meanwhile; the store is lost on restart | one token per challenge; refusals do not use the nonce up; both signatures live |
| SEP-45 client and contracts, `webauth/sep45.ts`, `webauth/contracts/` | the passkey account's key and relying party | challenge, sign, exchange; `__check_auth` | client and contract write one hash in base64url by different means; ordered checks of encoded WebAuthn data; half of all signatures have a high s | the client's own assertion is accepted, and nothing that anybody signed for something else |
| Docker log follower, `stellar-test-ledger/shared.ts` | growing byte buffer with two offsets; `closing` | data, end, error, stop | chunks cut frames and characters anywhere; compaction and growth move the unread bytes | every frame printed once, whole, in order; text loses nothing but the characters a chunk cuts; no overrun; memory released |
| Reusable ledger scripts, `stellar-test-ledger/*.ts` | one named container shared by scripts | start, attach, restart, stop | scripts in any order and at once; a follower reaches back to whole seconds | a restart ends with a ledger that answers; its follower shows every line; the container of a test that got past `beforeAll` is destroyed |
| Web signer, `web/src/setup/signer-provider.tsx`, `practice-identity.ts` | chosen source, generation, local key, a running choice | choose, connect, disconnect, unmount, Strict Mode replay | promises and a microtask finish after another event: leaving, a wallet change, a request | a lesson signs with the signer it shows; one key at most, and none outlives its lesson |
| Wallet message signer, `web/src/setup/wallet-message-signer.ts`, `web/src/examples/signing/message.tsx` | captured identity, one request, two forms | sign, verify, edit | the wallet is switched between five awaits and may answer anything | a displayed signature is the captured account's; a verdict describes its form |
| Session, `web/src/setup/auth-activity.ts`, `web/src/examples/sessions/` | client, session and login, the count of requests, last 20 activity entries | discover, log in, log out, expire, leave | a late answer after logout, refresh or unmount; requests of a destroyed session that are still counted | the newest client's session is the only one alive; the count is exact; the log tells how a discovery ended |
| Web write lessons, `web/src/examples/payments/`, `contracts/`, `transactions/`, `web/src/components/testnet-account-setup.tsx` | a text field, queries, a mutation, funding controls | edit, fund, check, submit, read again | inputs change during a funding; a read that began before a write answers after it | nothing is submitted for accounts that are not there; what is shown at rest is not older than what was confirmed |
| Latest ledger, `web/src/examples/network/overview.tsx` | option, timer, request | refresh, tick, go offline | one timer is cleared and set by two causes | one clock; the schedule never stops for good |
| Counters, `contract-bindings/contract`, `contract/contract` | a `u32` | increment, reject | zero and the limit 100 | refusals are those the scripts expect and change nothing |
| SEP-41 token, `sep41-token/contract` | balances, allowances with expiry | transfer, approve, burn | allowances expire by ledger | the spender gets what was approved and no more |
| Delegated accounts, `delegated-signers/contracts` | lists of delegates | `__check_auth` | counting against matching members | exactly the required delegates sign |
| Channel accounts, `channel-accounts/` | pool of sponsored accounts | open, pay in parallel, close | a payment or a close that fails; a channel merged while another run needs it | reserves come back |
| Prepared authorizations, `pre-authorized-transaction-signer/`, `signed-payload-signer/`, `hash-x-signer/` | account signers, sequence number | finalize, add signer, submit | the transaction is hashed before its sequence number is reached | it still fits when it is authorized; what a payment should disclose it has |
| Claimable balances, `claimable-balance/` | a balance with two predicates | claim, refund | the close time decides, and the script's clock is another | one claimant at any time; the refund's wait ends |
| Builds and setup, `webauth/contracts/build.ts`, `delegated-signers/contracts/build.ts`, `web/scripts/setup.ts` | artifacts, manifest; `.env.local` | build, check; rewrite the fixtures | a crash between two writes; a second setup | the check notices what the build left; each fixture is in the file once and other settings stay |
| Streamers, `event-streamer/`, `transaction-streamer/` | a ledger cursor | ingest | archive and live ranges meet | no ledger lost at the seam |
| Linear lessons, one directory each | the accounts, assets, offers, contracts they create | ten to twenty calls each | amounts, fees, reserves, signers, limits and expected refusals that must fit together | no surprise on the way; nothing left that the lesson says it gives back |
| Layout, catalogues, recorder | none | - | - | - |

How they interact: the web session lesson talks to the SEP-10 fixture, which Vite
starts through the ownership plugin; the session signs with what the web signer
provides, possibly through the wallet message signer. The SEP-45 client talks to
the SEP-45 server, which simulates the passkey contract on the network. The ledger
scripts attach log followers to the container the lifecycle scripts
start, restart and stop. The web setup writes the fixtures the write lessons
read. All others use the network through the SDK only.

The hazards of each part, at the line where they bite and with the properties that
would notice them going wrong, are listed under `hazards` in `PROJECT.json`.

## 2. What is modelled

    ChallengeService  <--implements--  AuthServer   (SEP-10)
                      <--implements--  Sep45Server  (SEP-45)
    FrameStream       <--implements--  DockerLogDecoder   (both use TextDecoder)
    AuthOwnership                      which process runs the SEP-10 fixture
    ArtifactBuild                      contract artifacts, their specifications and manifest
    DelegatedAccount  <--instance of-- DelegationLesson   (contracts, and the scripts that use them)

    WebLessons        one visit of one page of the web application
      LessonSigner          the signer a lesson uses
      WebSession            discovery, login and their log
      LessonWrites          forms that fund, submit and read again
      LedgerRefresh         the schedule of the latest ledger
      MessageLesson         one signature by the header wallet

    LessonScripts     one command-line program against a network of its own
      DelegationLesson      the delegation scripts
      TestnetLesson         the linear scripts (ClassicScripts, ContractScripts)
      PreparedAuthorization transactions finalized before they are authorized
      ChannelPayments       concurrent payments over channel accounts
      LedgerLifecycle       the reusable ledger's commands, two at once
      PasskeyAccount        the SEP-45 contracts and the client's assertion

The last two compose programs that never run together: an initial state picks one
and leaves the variables of the others unused, so the states add up and do not
multiply. Each detailed module that is checked has an `MC...` module with the
values of its small instance where a `.cfg` cannot give them, and those with
theorems have a `...Proofs` module. Definitions called "Mutant of ..." in a
comment are wrong versions of the definition that follows; no specification
uses them. They record which bug each property catches (`PROJECT.json`, `mutants`).

### ChallengeService

What both servers promise to their clients, without clocks, RPC calls or
signatures. A challenge is `unissued`, `open`, `redeemed` or `lapsed`, and each
exchange holds the challenge it turned into a token or none. `Issue` lapses any
set of challenges and opens one if fewer than `MaxPending` stay open; `Redeem`
takes an open challenge; `Forget` lapses.

### AuthServer

| Model | Code |
|---|---|
| `challenges`, `issued` | the `Map` and, for each challenge, the account in it, the key that signed it and its age |
| `serverKey` | the process's random key pair: a number per restart |
| `exchange[r]` | one POST /auth: where its handler waits, what it presented, and what the account looked like since its pending RPC call was sent |
| `ledger` | Testnet accounts: unfunded, or thresholds and weights |
| `GetAuth` | GET /auth, one step: it contains no await |
| `PostAuth` | POST /auth up to `rpc.getLedgerEntries` |
| `EntriesReturned` | from its answer to `ledger.account`, or to the end for an unfunded account |
| `AccountReturned` | from its answer to the end: verification, `challenges.delete`, token |
| `RpcFails` | either call rejects: the handler answers 400 |
| `Tick`, `LedgerChanges`, `Restart` | the clock, other people's transactions, a new process |

The server is a single JavaScript thread, so a handler runs without interruption from one
`await` to the next; these are exactly the actions. An RPC answer may reflect any
state the account had between call and answer; `seen` collects them. The table
stores issue time plus 120; the model stores the age, the same comparison shifted.

### Sep45Server

| Model | Code |
|---|---|
| `issued`, `used` | `NonceStore.#issued`, `#used` |
| `building[n]` | the GET that drew nonce `n`, with the expiry it signs |
| `exchange[r]` | one POST /sep45: stage, nonce, whether the client's entry satisfies its account contract and until which ledger |
| `sep45Get`, `IssueNonce`, `DeliverChallenge`, `GetFails` | GET /sep45 between its awaits; the nonce is recorded before the simulation that may fail |
| `sep45Post`, `LatestReturned`, `SimulationReturned`, `PostFails`, `issueJwt` | POST /sep45 between its awaits |
| `close`, `Restart`, `LedgerCloses` | the returned `close`; a new process with an empty store; the network |

Nonces are 32 random bytes, so each GET has its own: a GET is named by its nonce.
A submission after a restart may verify or not (`Unverified`), because the script may give
the new fixture the same key and port: the model allows both, and single
redemption holds in both.

### AuthOwnership

One element of `Servers` is one Vite server: a launch of dev or preview, or the new
server of a restart, which names the old one in `replaces`. `ensureAuthServer` binds the
port or starts the probe; `HealthAnswers`, `Reuse` and `ProbeFails` are the
probe's awaits and outcomes; `Close` is the "close" callback. `owned` holds the servers
whose closure has a fixture to shut down. `deno task auth` and other services
bind the port when it is free (`OthersBind`, `OthersLeave`). Vite's order of a restart,
configuring the new server and only then closing the old, is Vite's and modelled
as external (`Restart`, `HandOver`); a fixture that is shut down frees its port at
once.

### DockerLogDecoder, FrameStream and TextDecoder

`FrameStream` is a sequence of pending bytes from which whole frames are taken.
`DockerLogDecoder` has the code's `buffer`, its length (`capacity`), `readOffset`
and `writeOffset`. `onData` is the 'data' event up to the decoding loop: append in
place, compact (`copyWithin`) or grow by doubling. `decodeFrame`, `decodeRaw` and
`decodeDone` are the loop's iterations; `pc = "decoding"` keeps other events out as
the event loop does. `onEnd`, `onError`, `stop` are the handlers and the
function the follower returns. `buffer.set` on a buffer too short is a RangeError
in the handler: `pc = "overrun"`, which `BufferOK` excludes. A byte has
`Base` values, so that four-byte lengths can be checked with `Base = 6` and proved
for every base. `HoldsFrame` and the assumption on text are for outputs without
headers.

A message is decoded text. `TextDecoder` is the platform's decoder (external), called
without `stream: true` (`shared.ts:292`, 314, 332): each call decodes its bytes on their
own, so a byte that is not in a whole character among them becomes U+FFFD. The payload of
a frame is decoded whole. Output without frames is decoded as it comes, once eight bytes
are there, and what is left when the stream is over; a character that such a piece ends in is
lost, its first part with this message and the rest with the next. Hence the
two properties of what is printed: `PrintsWholeFrames` does not depend on the cuts,
`LosesOnlyCutCharacters` says exactly which characters of a text do. A decoded message keeps one place for each
byte, so that places of text and output can be compared. A message is what the decoder
returns; `formatContainerLogLine` then splits it into lines and trims them.

### LessonSigner

| Model | Code |
|---|---|
| `mounted`, `cleanups` | the ref of the effect; the microtasks its cleanups queued |
| `key`, `live`, `disposed` | the practice identity's `signer`, the keys not destroyed yet, its `disposed` |
| `local` | the address `localConfig` publishes |
| `wallet` | the header's connection, as a set of none or one |
| `source`, `generation`, `choice`, `failed` | the React state; `choice` is the running `choose` and how far it is, and `selecting` is "one is running" |
| `request`, `receipt` | the lesson below: a pending mutation with the signer it uses, and whose result is on the page |
| `chooseLocal`, `chooseWallet` | the buttons, with what disables them, and `choose` up to its await |
| `Connect`, `Publish`, `DisconnectLocal` | the connector called by `localConfig`, and what it publishes |
| `Finish`, `Reject` | the rest of `choose`, with its `catch` and `finally` |
| `Replay`, `Leave`, `Cleanup` | the effect's cleanup followed by the effect, the cleanup alone, the microtask |
| `WalletChanges`, `Disconnect`, `Request`, `Settle` | the header, and what lessons do |

`Rendered` compares the key of the nested provider before and after: where it changes,
React remounts the lesson and its query cache, so request and receipt are gone.
Colibri's configuration is not in the repository. Assumed of it: it calls the
connector at some moment after `connect` or `disconnect`, publishes afterwards, and rejects a
connection that was disconnected or destroyed in between. A `request` is `early` when it was made during
a choice: the lessons' buttons are not locked then. `generateRandom` is assumed not to throw.

### MessageLesson

`request.stage` names the await in which the adapter's `signMessage` is: two reads of the
identity, the approval, two reads again, the import of the SDK. `getAddress`
and the first half of `AskWallet` and `Decode` read the live wallet, which
`SwitchWallet` changes at any moment. `Approve` returns any of `Answers`. `Throw` ends a request at any
stage, and is all that is left to a request whose check fails. `seen`
is a history variable: on which parts of the captured identity the wallet has been
since the approval. The adapter's address and network are read in two awaits, so that the wallet was
on the captured address and network at one moment is not something it establishes; the property
is about each part, and `DisplayedSignatureVerifies` limits what that can do: the signature is the
captured account's all the same, and SEP-53 signatures name no network.

### DelegatedAccount

| Model | Code |
|---|---|
| `nested_delegates` | what each constructor stored |
| `CheckAuth` | the two nested loops of `__check_auth` and the comparison of lengths, the same in both contracts |
| `Approves`, `Authorized` | one `__check_auth` with its `delegate_auth` calls, and the host's recursion over them as a least fixpoint |
| `Construct`, `Withdraw` | `__constructor`, `withdraw` |
| `Fund`, `Deposit` | Friendbot and a transfer to the account, both external |
| `Required`, `WellFormed`, `Mirrors` | what the stored lists ask for, independent of the loops |

A credential gives each contract the delegates supplied to it; a contract that occurs twice in a tree
gets the same list twice, which loses nothing because only one set of delegates
passes. That the host refuses lists with repetitions is CAP-71's rule, from outside the repository
(`Presentable`). `signed` records who signed the last withdrawal.

### DelegationLesson

The four scripts make the same calls on different data, so the data of each is a definition
(`DirectLesson`, `RecursiveLesson`, `NestedLesson`, `BranchingLesson`), mapped to its file, and `Script`
turns it into the sequence of awaited calls. On-chain topology (`deployments`) and
off-chain topology (`tree`) stay separate, as in the code. `Settle`: after a call took effect, its
answer arrives or the script throws; `Throw`: the call had no effect. The ledger is an
instance of `DelegatedAccount`. Amounts are in XLM.

### ArtifactBuild

| Model | Code |
|---|---|
| `wasm`, `spec`, `manifest` | the files under `contracts/artifacts/` and `contracts/specs/`; `Other` is anything no build writes |
| `code`, `cli`, `pinned` | the sources, the installed CLI, whether Cargo.toml names the expected SDK |
| `mode`, `pc`, `next`, `built`, `hashes`, `stale`, `version` | `check`, the place in the script, the loop's contract, `wasm`, `hashes`, `stale`, `stellarCliVersion` |
| `temp` | the running script's temporary directory |
| `Throw`, `Kill` | any command or file access that fails, with the `finally`; the process ends |

The two scripts have the same control; the delegated one does not read the CLI's version and does
not record it. `PROJECT.json` maps the steps up to the extraction to one file and the steps after it to
the other. What `stellar contract build` makes is a function of the contract's source and
the CLI. `Torn` is the file that was being written when a script stopped. `Change` is the
developer, at any moment. `disturbed` and `whole` are history variables for the properties.

### WebSession

| Model | Code |
|---|---|
| `entries`, `pending`, `record`, `Send`, `Settled`, `Rejected` | `auth-activity.ts`: the last entries, the count of requests, the forwarding fetch with its two ends |
| `discovery` | the query: how far its request is, the status and the client it has |
| `session`, `status`, `login` | React's state; of each client's session what the library holds, and where its login waits |
| `Refresh`, `DiscoveryAnswered`, `DiscoverySucceeds`, `DiscoveryFails` | the buttons and the query |
| `SessionEffect` | the effect that makes a session for a client, and its cleanup, which destroys the one before |
| `authenticate`, `AskSigner`, `Exchange`, `Accept`, `LoginFails` | one login with its two requests and the signature in between |
| `SessionEnds`, `Leave` | logout, expiry, an identity that goes; the end of the visit, which its requests survive |

Authentication is mounted only between discoveries that succeeded, and what
its effect records it records while it is mounted (`AuthenticationShown`,
`Observed`): a change of the session during a refresh is not in the log, though
the note on the page (`session.tsx:242`) names session changes without exception.
Assumed of the library: a session that was ended or destroyed ignores the answer
of its login.

### LessonWrites

One module for six files, because they are one form with the same parts: a
signer's address, maybe a typed one, the queries of both, the setup controls,
one mutation and what it invalidates. `lesson` says which form it is.
`query` has what React Query keeps (`data` or none, status, the read that runs
and the ledger it began on); a read may answer with any state since it began.
`funding` holds each use of the setup controls with the address it captured,
`own` while the controls that started it are mounted: the recipient's are keyed
by the address, so editing it remounts them. `Funded` refetches what the
observer points at by then. `Confirmed` is `onSuccess`; the mutation stays
pending while the promise it returns does (`SuccessShown`). `told` is a history
variable: what the reader has been told is on the ledger.

### LedgerRefresh

`timer` is the interval of the one effect in `overview.tsx`. `Effect` is its body
for given dependencies, cleanup included, and every action that changes a
dependency runs it. A request started offline is paused, which the effect tells
from fetching.

### ClassicScripts, ContractScripts, TestnetLesson

A script is the sequence of its awaited calls, written as data with the signers,
amounts, fees and reads that the file names: `ClassicScripts` has payments,
assets, fees, the market and claimable balances, `ContractScripts` the counters,
bindings, resources, token, verification, web setup and the clients and
deployment of WebAuth. Each definition is mapped to its file. `TestnetLesson` is
the network they need and runs one: every operation checks what the ledger
checks (who must have signed, who can pay, which entries exist, reserves, limits,
flags, predicates) before it changes an entry. A read compares with the value
the script shows.

| Model | Code |
|---|---|
| `Submit`, `CatchRefusal` | a call that must succeed, and one whose refusal the script catches and expects |
| `Read`, `OwnStep`, `RequireVerified` | queries; steps without the network; a verdict the script acts on |
| `WaitForLedger`, `Tick`, `CloseLedger` | the polling loop of the refund, the script's clock, ledgers that close or stop closing |
| `Throw`, `Thrown` | a call fails, before or after its effect; the `finally` that closes a server; an environment file cut off in the middle |
| `WriteEnvironment` | `.env.local` as the setup rewrites it |

### PreparedAuthorization

Three scripts that finalize a transaction before anything authorizes it.
`prepared` is what the script holds, with the sequence number computed from the
one it `read`; the network applies what it was given when it fits, later or
never. A hash is the transaction's name; a preimage and Bob's signature over C
are marks that a payment carries to the ledger.

### ChannelPayments

`at` is the call the script awaits, `status` and `channel` the runs of
`Promise.allSettled`. The pool of channels is the plugin's; a run keeps its
channel until it settles. `lost` records an opening whose answer was lost or a
closing that failed, the two failures no `finally` could clean up after.
A rejected run may leave its transaction with the network, which may still
apply it while the channels are open.

### LedgerLifecycle

A command is the sequence of its awaited calls, and each terminal runs one;
`--logs` is part of the command. `Restart` makes a container that prints at once
and answers later; `Attach` is `start()` on a container that exists, which
returns when its services answer. `since` is what a follower asks for, in whole
seconds. The integration test has a container of its own. `AfterThrow` is its hooks: after
`beforeAll` it goes on whatever throws, through the second test, `stop` and, by the
`finally` in `afterAll`, `destroy`. A throw of `ledger.start()` or
`getNetworkDetails()` is one of `beforeAll`, for which `describe` runs no `afterAll`: the
suite ends there and what was started stays. `EndsAsAnnounced` promises
the clean-up for what the comment at line 47 speaks of, failed assertions and transactions.
`Restart` is Docker's, which also starts a container that another command has stopped.

### PasskeyAccount

The contract's base64url (`push_base64url`, by shifts) and the client's (the
platform's base64 with characters replaced and padding cut off) are both
computed, in the code's bytes and characters. A hash has 3 n + 2 bytes for some n,
as 32 is; TLC takes shorter ones. `ClientDataError` lists the
contract's checks in their order. `Others` are assertions over the same payload
by other keys, for other origins and relying parties, without presence or
verification, with another layout; `Simulate` presents any assertion ever made, for this or an
earlier entry.

## 3. The runs

| Run | Instance | Distinct states | Question |
|---|---|---|---|
| `auth_accounts` | 1 challenge, 2 exchanges, 3 account configurations and unfunded, every set of signatures, 1 restart | 554 000 | can two exchanges or a changing account get a token nobody should |
| `auth_table` | 3 challenges, 2 exchanges, limit 2, lifetime 2, grace 1, 1 restart, fairness | 374 000 | is the table right under expiry, capacity, restart; does a full one recover; is the service implemented |
| `auth_expiry` | 1 challenge, 1 exchange | violation | is an expired challenge always rejected, as VERIFICATION.md says |
| `sep45` | 2 nonces, 2 exchanges, 3 ledgers, lifetime 1, 1 restart | 1 331 000 | is the nonce store right under failures, close, restart |
| `ownership` | 4 Vite servers, a standalone fixture, another service | 28 700 | who stops a fixture, does every startup end |
| `ownership_restart` | 2 Vite servers, nobody else | violation | does a restart keep the fixture |
| `web_lessons` | signer: 3 keys, 3 wallet connections, 1 replay; session: 3 clients, 3 log entries; writes: 2 accounts and a text that is none, 2 fundings, counter limit 2; refresh: 20 ticks; message: 2 accounts, networks, modules and messages, 6 answers | 867 000 | do keys, requests and receipts stay together; does a token end with its visit; are submissions and what is shown right; do refreshes go on; is only a right signature displayed and does a verdict fit its form |
| `delegated_account` | 3 contracts, 2 accounts, 9 lists, every credential | 11 000 | what do counting and membership mean for a tree |
| `lesson_scripts` | 4 delegation scripts; 36 linear ones; 3 prepared authorizations; 2 channels and 3 payments; 2 terminals and 8 commands; 8 payloads and 2 entries | 88 000 | does each script fit the ledger it builds, leave what it announces and end, wherever a call fails |
| `artifact_build` | 2 contracts, 3 revisions of each, 2 CLI versions, 2 changes | 8 891 000 | do builds leave, and checks demand, artifacts that fit the sources and each other |
| `docker_logs` | 7 outputs with characters of one and three bytes, every cut into chunks, initial capacity 5 | 1 627 | is the buffer a plain sequence of bytes, and what of the output is printed |

Why the bounds suffice. Single redemption is a statement about pairs of exchanges on one
challenge, so two exchanges show it; `auth_table` has one more challenge than
the table holds, so that capacity is hit both with live and with expired
entries. A lifetime of 2 and a grace of 1 give every case of
`live, expired but readable, unreadable`. One restart separates "before" from "after".
The three account configurations are one key at threshold zero, two keys that
are both needed, and a disabled master key: the cases of `Math.max(1, ...)`, of
summed weights and of zero weights. Ages stop at `Stale`, past which no
comparison in the code changes. In `sep45` ledgers 0 to 2 with a lifetime of one ledger
reach every order of expiry, call and answer. In `docker_logs`
an initial capacity of 5 is less than a header, so growth happens at once and
compaction happens when a chunk starts with the end of a frame; the outputs
include two and three frames, an empty payload, payload bytes that look like
headers, a length of two base-6 digits, a character that the container itself wrote in two frames, text
with characters of three bytes that a cut can run through at either place and with one that is
incomplete from the start, and text that looks like the
header of a frame that never completes. In `web_lessons` three
keys allow a key to be replaced twice and a return from the wallet; one connection
of the three cannot authenticate. Three clients are a first one and two
refreshes, and three log entries are fewer than one login writes, so that the
log drops some. Two accounts are the signer's and another, which may be typed
into the other's field; two fundings overlap; the counter's limit of 2
is reached by this page and by another. For the message every check has an answer that
fails it alone. In `delegated_account` the lists hold no, one and two
delegates in both orders, the same one twice, chains, forks and every kind of cycle between two
contracts. In `lesson_scripts` scripts are finite and run as they are. `MaxClock` 4 and
`Skew` 1, in units of 30 seconds, let the refund's deadline pass before, at and after the
script's own idea of it; `MaxTime` 11 passes both time bounds of the prepared
transactions (120 and 300 seconds). Three payments over two channels make one
wait. Two terminals run every pair of commands, with two starts of the
container and a follower that comes within a second of the restart, which
is what `since` allows for. Payloads of five bytes are one triple and a tail. Those over 191 and 251 contain
the characters 62 and 63, which the client replaces, at both places; two entries
leave an old assertion to replay.
In `artifact_build` two changes suffice for one before and one during a script, or for two during one; two of the three
revisions export the same interface. Scripts run one after another without a bound. The proofs remove these bounds from the safety
properties they cover. Symmetry is used only over challenges, nonces and
exchanges, which no definition tells apart, and in no run with liveness.

Deadlock is checked except in `sep45`, the ownership runs, `web_lessons`,
`delegated_account` and `lesson_scripts`, where the instance really may stop:
all challenges spent, all requests answered and the last ledger closed, all
Vite processes ended, the page left, all XLM withdrawn, or the script over.

Fairness. `CapacityRecovers` is checked under `FairSpec`: the clock does not stop
(`WF` of `Tick`), and some client eventually sends GET /auth while it can (`WF` of
`GetAuth`). The code has no timer of its own, so without a request nothing prunes
the table, and without either assumption the property is false. No fairness is assumed of RPC
nodes: an exchange may wait forever and the table recovers all the same.
`ProbesEnd` assumes `WF` of `ProbeEnds(s)`: the timer of `AbortSignal.timeout(2000)`
fires whatever the owner of the port does. Nothing is assumed of that owner.

`KeysDoNotOutliveLesson` assumes `WF` of `Cleanup`: queued microtasks run.
`ChoiceEnds` assumes `WF` of the steps of a running choice: the practice connector returns
resolved promises or throws, and involves no user and no network. Nothing is assumed of
requests, which may wait for a wallet for ever.

`RefreshesGoOn` assumes that requests of a discovery and of a login settle, as
they are aborted after ten seconds, that what the SDK does with an answer is done, that the
interval's callback runs and that a request for the ledger that was sent settles; nothing of signers,
and nothing of the connection, which may stay away. `ScriptsEnd` assumes that an
awaited call settles one way or the other, that the polling script's clock
goes on, and, for channels, that a run with a free channel takes it and one that has submitted settles.
Nothing is assumed of ledgers closing: the wait for one ends by its own limit.
In the composed runs each of these is assumed of the program or page that runs.

## 4. The proofs

All theorems are proved for every value of the constants under the `ASSUME`s of
their module, which TLC evaluates on each instance. No bound of section 3 is used.
Every inductive invariant was an invariant of the run on its instance before
it was proved.

**AuthServerProofs.** The inductive invariant is `TypeOK /\ Bookkeeping /\ SingleRedemption`.
Single redemption alone is not inductive: a state with a token whose challenge is
still in the table satisfies it, and the next `Settle` breaks it. `Bookkeeping` says
that what is in the table or presented was built here and that a redeemed
challenge has left the table. `TableCorrect`, `RedeemedOnce` and `TypeCorrect`
follow; `CapacityHolds` needs cardinalities of the pruned set, and with the types it is `TableStaysOK`; `LiveChallengesStay` and
`LateRedemption` are action properties from the same invariant; `Refinement` maps
each action to an `Issue`, a `Redeem`, a `Forget` or a stutter of `ChallengeService`,
of which `OneAuthentication` is the promise.
`TokensAreAuthorized` says what a token is worth: while its POST waited for the account
there was a moment in which the presented signatures met the account's threshold. The
code sums weights over the keys that signed, so the proof needs that a sum over
a finite set is a natural number and that it grows with the set (`TotalIsNat` and
the lemmas after it). Sums are folds; their laws are proved without induction
over data, from the least set size at which one could fail.

**Sep45ServerProofs.** The invariant is `TypeOK /\ Bookkeeping /\ SingleToken /\
NonceBuysToken /\ TokenWasLive`, where `Bookkeeping` says that a spent nonce is in
`used` or, after a restart, no longer in `issued` and never issued again, that a
presented nonce was delivered, and that an issued one was drawn. The restart is why
the two-part form is needed: `used` is emptied while tokens remain. `TokenOnce` and
`TokensWereLive` (together `TokensEarned`), `RefusalsKeepTheNonce`, `TypeCorrect` and
`Refinement` follow.

**AuthOwnershipProofs.** The invariant adds to `OwnersServe` its converse
(`ServersAreOwners`) and that no server replaces itself, which is what makes a hand-over
close the old server and not the new. `OwnersAlwaysServe` and the action property
`OnlyOwnersStop` follow.

**DockerLogDecoderProofs.** The invariant joins `TypeOK`, `NeverOverruns` and
`DrainedIsReleased`, the parts of `BufferOK`, with: a stream that is over has nothing left to deliver or
to decode, and the closing flag is set only on a stream that is over. The proof rests on lemmas about windows
(`Placed`, `Appended`): after any of the three ways to append, the bytes between the
offsets are the old ones followed by the chunk, which fits. With them `NoOverrun`,
`ReleasesMemory` (with the types `BufferStaysOK`) and `Refinement` (the buffer implements `FrameStream`) hold for
every base, every initial capacity and every output.

What is printed is a matter of the whole output, not of the buffer, so the rest works
on the pending bytes that `Refinement` gives: six kinds of steps (`Moves`) move bytes
between output, pending and printed. Of text, the bytes printed for, the pending and the
undelivered ones together are always the output, and what was printed reads, up to the last cut,
as the output does wherever no cut runs through a character (`RawKept`, which names the
bytes printed for). One more piece keeps that: behind the last cut no character of the piece can begin
before it (`UncutInside`), and a new cut at its end takes nothing from a character that
ended earlier (`UncutBefore`). For frames the
invariant `FramesKept` names the number `k` of frames taken and the part of the next
one that has arrived, `cut`: the payloads of the first `k` frames are printed, their bytes, `cut` and
what is undelivered are the output, and between events `cut` is shorter than a frame.
Its step needs that a header read back from any cut is the one written (`FrameRead`,
over `Digits`: four digits in base `Base` determine a length that fits in them),
so that no frame is taken for text, too early or too late. `WholeFramesArePrinted`
and `OnlyCutCharactersAreLost` follow. Laws of flattening and of growing prefixes, inductive over
a length, are proved from the least length at which one could fail (`NatIsInductive`). Two
assumptions on the outputs are Docker's and the terminal's, not the code's: frames
are of stdout or stderr with a length that four bytes can say (`ScriptsAreFrames`), and no
part of an unframed text is a complete frame (`TextHoldsNoFrame`): `decodeChunk`
is not told which kind of container it reads (`shared.ts:284-290`), and drops eight
bytes of a text that does hold one.

**WebLessonsProofs.** One inductive invariant for each page and `WebIInv` that joins
them, so that every theorem is about `WebSpec`, the specification that the run checks.

*The signer.* The invariant adds to `TypeOK` and `SingleKey`: a
disposed identity is unmounted and empty; a lesson on the wallet has no key unless a
choice is replacing the wallet (`WalletHasReleased`); the published address is the connector's
key except between the connector and the publication (`PublishedKey`); a request
not made during a choice excludes a running one (`RequestsLock`); and receipt and request
belong to the selected signer except between publication and remount
(`LessonMatchesSigner`). The exceptions are what the properties cannot say by
themselves: they name the moments in which page and connector disagree, and
each ends with the step that closes it. `OneKey` and `ShownKeysSign` together are
`LocalKeysLive`; `SignerPage` states all four properties of `WebSpec`.

*The session.* `VisitsStayConsistent` holds for any number of refreshes, any length of
the log and, on the refresh page, any number of seconds. What is consistent about a visit is a count, an identity and a text, and
each needs more to be inductive (`SessionIInv`): the count of pending requests is that of the logins
and discoveries that wait, whatever has become of their sessions; the
session on the page is the newest client's (`NewestSession`), and a client to come is
unused (`UnusedClient`, `RoomForClient`); and the newest outcome in the log is the
discovery's status, even when the entries before it have been dropped
(`OutcomeIsNewest`, which `LogTells` turns into the property; `LastExists` finds the last
entry of a kind). On the refresh page `OneClock` is inductive by itself (`ClockStep`).

*The lessons that write.* `WritesStayShown` follows from `Forms` and `Knowledge`: what a
query holds was true of its own key at some ledger between the beginning of its read and now,
so a refetch that began after a write answers with it. The lemmas about reads (`RefetchIsSound`,
`AnswerIsSound`) are stated of an arbitrary key and ledger and used by every
action that reads.

*The message.* `DisplayVerifies` and `VerdictsDescribe` are inductive as they stand.
`SeenOnceApproved` needs what each stage has established (`SeenGrows`): what the wallet
agrees with now has been seen, the address read has been seen, and at
the verification all three parts have. `DisplayIsRight` joins the two facts about what
is displayed.

**ArtifactBuildProofs.** For any sources, interfaces, versions of the CLI and number of
changes. A script writes or compares one file at a time, while its list
`hashes` is its only record of what it built; the invariant therefore relates everything to that list.
While nobody interferes, the list is what the sources give (`ScriptIsHonest`);
while nobody touches the files, what a build has written is what is on the list, even
if the sources have changed since (`FilesFollowHashes`); and what a check has noted, and
nothing else it has passed, differs from the files (`StaleIsStale`). `Position` says how long the list is at
each step, and `WholeIsOld` that a build which has written anything is not
taken for one that ended. `VerdictsAreTrue` needs the first and the third,
`ScriptsLeaveInOrder` the second: it is why the files of a build agree with each other even when they no
longer fit the sources.

**LessonScriptsProofs.** Again an inductive invariant for each program and one that joins
them (`ScriptsIInv`), for the four programs whose size is not fixed by a script.
`ChannelsServe`: any number of payments and channels. The invariant says which
channels are open at each call of the script, and that no run is under way except while
`Promise.allSettled` is awaited. `PreparedWork`: any clock, and a network that applies
what it has in any order. A sequence number that was read stays the account's until
what it was read for is applied (`NumbersFit`), and what was submitted, whoever
applies it, has one of six forms (`Given`). `LedgerCommands`: any number of
terminals and restarts. What a restart promises depends on which call of which command the
terminal awaits, so the commands are first taken apart (`QuietCalls`,
`FollowedCalls`, `CommandKinds`). Then: a start that a restart made is at most
the current one; the call after it attaches; and while the second follower is awaited,
every line of the start is at most `FollowDelay` old. That no line is missed needs
`FollowDelay <= 1`, a hypothesis of the theorem: the script asks Docker for one
second more than now (`shared.ts:363`), and with a follower that comes two seconds
after the restart TLC finds a line that is missed. That a restart has seen its
start ready, and that a test past its `beforeAll` has its container destroyed or saw
`destroy` throw, needs no such bound.
`PasskeyWorks`: any set of payloads of 3 n + 2 bytes (`PayloadsAssumption`), so in
particular all hashes of 32 bytes. Both writings of a payload are shown to be
the characters of its bits, six at a time (`Encoded`): the contract's by taking its 24-bit words
apart (`CharactersAre`, `ContractEncodes`), the client's by finding each six bits in two bytes, and
by showing that its replacements undo what `btoa` does to 62 and 63 and that what is cut off is one character
(`SixBitsAre`, `ClientEncodes`). The characters determine the bytes (`CutDetermines`), so
different payloads are written differently (`EncodingTells`). `HashesAreTold`
states the two together; without its second half an assertion for one entry could pass for
another. The rest of the proof takes the checks of `__check_auth` one by one and shows
that each assertion of `Others` fails at least one.

**DelegatedAccountProofs.** `CheckAuthDecides` is a pigeonhole argument: a list without repetitions that
is as long as another and contained in it has the same members, and the other has no
repetitions either. Trees are handled without induction: a least fixpoint is the
intersection of all sets closed under its rule, so it is enough to name one closed set.
`AuthorizedBySignatures` takes the contracts all of whose required leaves signed,
`AuthorizedIsWellFormed` those with a well-formed tree, `MirrorAuthorizes` those that are approved
whenever their leaves sign. `RequiredOfDelegates` is the lemma that carries a requirement from a contract
to one of its delegates. The action properties follow because only `Withdraw` lowers the balance.

Checked by TLC only:

- `CapacityRecovers`, `ProbesEnd`, `KeysDoNotOutliveLesson`, `ChoiceEnds`,
  `RefreshesGoOn`, `ScriptsEnd`: liveness is out of the prover's reach.
- `CallsFitTheLedger`, `EndsAsAnnounced`: the first speaks of `ENABLED`, and both of
  scripts that have no parameter, which the run covers completely.

## 5. Divergences found

`auth_expiry`: `web/VERIFICATION.md:136` lists "expired challenge" among what the
server must reject. The table's expiry is applied when a challenge is looked up,
before the RPC calls; after them the code checks only that the entry is still
present (`server.ts:119`), and the SDK's time bounds are widened by a grace period of
300 seconds. A POST that arrives in time and whose RPC calls end late receives a token for a
challenge past its 120 seconds, unless another request pruned it in between.
`LateRedemptionBounded` gives the bound that does hold: lifetime plus grace.

`ownership_restart`: `web/README.md:29` says that dev starts the fixture for the lessons, and
line 106 that Vite restarts when `.env.local` changes, as it does after `deno task setup`.
On a restart the new Vite server finds the port taken by its own process, reuses that
fixture without owning it (`vite.ts:36`), and then Vite closes the old server, whose callback
(`vite.ts:53`) shuts the fixture down. The dev server runs on without one until the
next restart, which binds the port again.

## 6. What is left out, and why

- Cryptography: a signature is valid or not; hashes and nonces do not collide.
- Encodings (XDR, JWT, TOML, JSON): a request either decodes or is refused
  before it touches state. CORS, the health and discovery endpoints keep no state.
- The one-second difference a clock turning between `buildChallengeTx` and
  `Date.now()` makes, which no check distinguishes.
- Labels, descriptions, the clipboard and displayed errors of the web lessons, and
  the adapter's decoding of byte messages, which the lesson does not send.
- Of decoding log messages: how many U+FFFD stand for a broken character, the
  narrower ranges UTF-8 has for some second bytes, and a byte order mark at the front of a
  message, which is dropped. Splitting messages into lines: a line of unframed
  output that a chunk cuts is printed as two, with white space at the end of each trimmed.
- Of the web application: the confirmation, event, lookup, simulation and
  read-only query lessons, which each hand one form to one hook of the library; the
  registration of wallet connectors; navigation, catalogue and layout.
- `web/scripts/generate.ts`, which writes what the library's generator returns.
- The streamers: one call of the SDK each, with a handler that prints. Resuming and the
  seam between archive and live ledgers are the SDK's.
- Command-line examples that make one read or one computation and print it
  (prices, contract metadata, SEP-41 inspection, message signatures, identicons,
  generated packages and values): nothing could be out of order.
- The token's entry points that only call the base library, and its reads.
- Report rendering of the recorder; what the recorded tests do is among the
  linear scripts.

Outside the repository, and modelled from how its code uses them: Vite's
restarts, Docker's streams and `since`, React's effects and React Query's reads and
invalidations, Colibri's configuration, WebAuth sessions, pipelines and channel
pool, and the ledger's rules. Two things the models allow and no property forbids:
a first read of a query that began before a write and answers after it
(`late`; invalidating waits for such a read instead of restarting it), and a
setup that is cut off while it rewrites `.env.local` in place, after which
the reader's other settings are gone.

## 7. Plan

Done: every module of section 2, and the proofs of section 4. All stateful parts
of the inventory are modelled. What is left:

- a composition of `WebSession` with `ChallengeService`, so that a token on the
  page is one the server gave, and of `LedgerLifecycle` with `FrameStream`.
