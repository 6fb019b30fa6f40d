----------------------------- MODULE LessonSigner -----------------------------
(***************************************************************************)
(* Which signer a web lesson uses: src/examples/web/src/setup/             *)
(* signer-provider.tsx and practice-identity.ts.  The reader creates a     *)
(* local key or selects the wallet connected in the page's header; either  *)
(* choice is asynchronous.  The lesson can be left at any moment, and      *)
(* React's Strict Mode replays its effect, cleanup included.               *)
(*                                                                         *)
(* localConfig is a Colibri configuration with the practice connector as   *)
(* its only one.  That library is external: connect and disconnect call    *)
(* the connector and publish the outcome in a later step.                  *)
(***************************************************************************)
EXTENDS Integers, FiniteSets

CONSTANTS
  Keys,           \* the keys generateRandom may return; bounds the choices
  HeaderWallets,  \* the connections the header wallet may have
  Capability,     \* what this lesson asks of a signer
  MaxReplays,     \* bounds the effect replays
  Nobody          \* no key, no signer

VARIABLES
  mounted,     \* the ref the effect sets and its cleanup clears
  cleanups,    \* microtasks queued by the cleanup
  replays,     \* effect replays so far
  key,         \* practice-identity's signer
  live,        \* keys that were generated and not destroyed
  generated,   \* all keys ever returned
  disposed,    \* identity and localConfig are destroyed
  local,       \* the address localConfig publishes
  wallet,      \* the header's connections: one, or none
  source,      \* where this lesson's signer comes from
  generation,  \* one more per finished choice
  choice,      \* the running call of choose
  failed,      \* an error is shown
  request,     \* the lesson's pending mutation: one, or none
  receipt      \* whose result the lesson shows

vars == <<mounted, cleanups, replays, key, live, generated, disposed, local,
          wallet, source, generation, choice, failed, request, receipt>>

identity == <<key, live, generated>>
page     == <<mounted, cleanups, replays>>
lesson   == <<request, receipt>>

Connections ==
  [address : STRING,
   account : BOOLEAN,         \* a G-address
   messageSigner : BOOLEAN,
   signers : SUBSET [envelope : BOOLEAN,
                     own : BOOLEAN]]  \* Ed25519, and signs for the address

ASSUME LessonAssumption ==
  /\ Nobody \notin Keys
  /\ HeaderWallets \subseteq Connections
  /\ \A w \in HeaderWallets : w.address \notin Keys \cup {Nobody}
  /\ Capability \in {"transaction", "message", "authentication"}
  /\ MaxReplays \in Nat

Signers == Keys \cup {w.address : w \in HeaderWallets} \cup {Nobody}

\* "connecting" and "disconnecting": the connector has not run.  "connected":
\* it has, and localConfig has not published its key.
Idle == [next |-> "none", at |-> "idle"]
Choices ==
  {Idle}
    \cup [next : {"local"},
          at : {"connecting", "connected", "settled", "rejected"}]
    \cup [next : {"wallet"}, at : {"disconnecting", "settled", "rejected"}]

selecting == choice # Idle

TypeOK ==
  /\ mounted \in BOOLEAN
  /\ cleanups \in Nat
  /\ replays \in 0 .. MaxReplays
  /\ key \in Keys \cup {Nobody}
  /\ live \subseteq Keys
  /\ generated \subseteq Keys
  /\ disposed \in BOOLEAN
  /\ local \in Keys \cup {Nobody}
  /\ wallet \subseteq HeaderWallets /\ \A v, w \in wallet : v = w
  /\ source \in {"none", "local", "wallet"}
  /\ generation \in Nat
  /\ choice \in Choices
  /\ failed \in BOOLEAN
  /\ request \subseteq [with : Signers, early : BOOLEAN]
  /\ \A q, r \in request : q = r
  /\ receipt \in Signers

Init ==
  /\ mounted = TRUE /\ cleanups = 0 /\ replays = 0
  /\ key = Nobody /\ live = {} /\ generated = {} /\ disposed = FALSE
  /\ local = Nobody
  /\ wallet = {}
  /\ source = "none" /\ generation = 0 /\ choice = Idle /\ failed = FALSE
  /\ request = {} /\ receipt = Nobody

-----------------------------------------------------------------------------
(* What a render derives from the state.                                   *)

Available(connection) ==
  IF Capability = "message"
  THEN connection.messageSigner
  ELSE \E signer \in connection.signers :
         /\ signer.envelope
         /\ Capability = "authentication" => connection.account /\ signer.own

walletReady == \E w \in wallet : w.account /\ Available(w)

WalletAddress(w) == IF w = {} THEN Nobody ELSE (CHOOSE c \in w : TRUE).address

Selected(src, loc, w) == IF src = "wallet" THEN WalletAddress(w) ELSE loc

\* Mutant of ProviderKey: the generation is forgotten.
ProviderKeyOfSource(src, gen, w) ==
  <<src, IF src = "wallet" THEN WalletAddress(w) ELSE "local">>

\* The key of the nested provider: a lesson is remounted when it changes.
ProviderKey(src, gen, w) ==
  <<src, gen, IF src = "wallet" THEN WalletAddress(w) ELSE "local">>

\* What a remount leaves: fresh children and a fresh query cache.
Remounted == request' = {} /\ receipt' = Nobody

Rendered(src, gen, w) ==
  IF ProviderKey(src, gen, w) = ProviderKey(source, generation, wallet)
  THEN UNCHANGED lesson
  ELSE Remounted

pending == request # {}

-----------------------------------------------------------------------------
(* practice-identity.ts                                                    *)

release == key' = Nobody /\ live' = live \ {key}

connectPractice(k) ==
  /\ k \in Keys \ generated
  /\ generated' = generated \cup {k}
  /\ key' = k
  /\ live' = (live \ {key}) \cup {k}

-----------------------------------------------------------------------------
(* choose                                                                  *)

\* Mutant of chooseLocal: a pending request does not lock the choice.
chooseLocalWhilePending ==
  /\ mounted
  /\ ~selecting
  /\ generated # Keys
  /\ choice' = [next |-> "local", at |-> "connecting"]
  /\ failed' = FALSE
  /\ UNCHANGED <<page, identity, disposed, local, wallet, source, generation,
                 lesson>>

chooseLocal ==
  /\ mounted
  /\ ~selecting /\ ~pending
  /\ generated # Keys
  /\ choice' = [next |-> "local", at |-> "connecting"]
  /\ failed' = FALSE
  /\ UNCHANGED <<page, identity, disposed, local, wallet, source, generation,
                 lesson>>

\* choose checks walletReady once more: it is the render's, so the button's.
chooseWallet ==
  /\ mounted
  /\ walletReady /\ ~selecting /\ ~pending /\ source # "wallet"
  /\ choice' = [next |-> "wallet", at |-> "disconnecting"]
  /\ failed' = FALSE
  /\ UNCHANGED <<page, identity, disposed, local, wallet, source, generation,
                 lesson>>

\* Mutant of Connect: the connector does not look at disposed.
ConnectClosed ==
  /\ choice = [next |-> "local", at |-> "connecting"]
  /\ \E k \in Keys : connectPractice(k)
  /\ choice' = [choice EXCEPT !.at = "connected"]
  /\ UNCHANGED <<page, disposed, local, wallet, source, generation, failed,
                 lesson>>

\* localConfig calls the connector.
Connect ==
  /\ choice = [next |-> "local", at |-> "connecting"]
  /\ IF disposed
     THEN choice' = [choice EXCEPT !.at = "rejected"] /\ UNCHANGED identity
     ELSE /\ \E k \in Keys : connectPractice(k)
          /\ choice' = [choice EXCEPT !.at = "connected"]
  /\ UNCHANGED <<page, disposed, local, wallet, source, generation, failed,
                 lesson>>

\* localConfig publishes the connection unless it was destroyed or
\* disconnected since.
Publish ==
  /\ choice.at = "connected"
  /\ IF disposed \/ key = Nobody
     THEN choice' = [choice EXCEPT !.at = "rejected"] /\ UNCHANGED local
     ELSE choice' = [choice EXCEPT !.at = "settled"] /\ local' = key
  /\ UNCHANGED <<page, identity, disposed, wallet, source, generation, failed,
                 lesson>>

DisconnectLocal ==
  /\ choice.at = "disconnecting"
  /\ release
  /\ local' = Nobody
  /\ \E at \in {"settled"} \cup (IF disposed THEN {"rejected"} ELSE {}) :
       choice' = [choice EXCEPT !.at = at]
  /\ UNCHANGED <<page, generated, disposed, wallet, source, generation,
                 failed, lesson>>

\* The continuation of choose, with its finally.
Finish ==
  /\ choice.at = "settled"
  /\ choice' = Idle
  /\ IF mounted
     THEN /\ source' = choice.next
          /\ generation' = generation + 1
          /\ Rendered(choice.next, generation + 1, wallet)
     ELSE UNCHANGED <<source, generation, lesson>>
  /\ UNCHANGED <<page, identity, disposed, local, wallet, failed>>

\* Mutant of Reject: no finally.
RejectLocked ==
  /\ choice.at = "rejected"
  /\ failed' = TRUE
  /\ UNCHANGED <<page, identity, disposed, local, wallet, source, generation,
                 choice, lesson>>

Reject ==
  /\ choice.at = "rejected"
  /\ choice' = Idle
  /\ failed' = TRUE
  /\ UNCHANGED <<page, identity, disposed, local, wallet, source, generation,
                 lesson>>

-----------------------------------------------------------------------------
(* The effect                                                              *)

\* Strict Mode: cleanup and effect in one task, its microtask after both.
Replay ==
  /\ mounted /\ replays < MaxReplays
  /\ replays' = replays + 1
  /\ cleanups' = cleanups + 1
  /\ UNCHANGED <<mounted, identity, disposed, local, wallet, source,
                 generation, choice, failed, lesson>>

\* Mutant of Leave: the cleanup only clears the ref.
LeaveAsIs ==
  /\ mounted
  /\ mounted' = FALSE
  /\ Remounted
  /\ UNCHANGED <<cleanups, replays, identity, disposed, local, wallet, source,
                 generation, choice, failed>>

Leave ==
  /\ mounted
  /\ mounted' = FALSE
  /\ cleanups' = cleanups + 1
  /\ Remounted
  /\ UNCHANGED <<replays, identity, disposed, local, wallet, source,
                 generation, choice, failed>>

\* Mutant of Cleanup: a replay of the effect destroys the identity.
CleanupAlways ==
  /\ cleanups > 0
  /\ cleanups' = cleanups - 1
  /\ disposed' = TRUE /\ release /\ UNCHANGED local
  /\ UNCHANGED <<mounted, replays, generated, wallet, source, generation,
                 choice, failed, lesson>>

Cleanup ==
  /\ cleanups > 0
  /\ cleanups' = cleanups - 1
  /\ IF mounted
     THEN UNCHANGED <<key, live, disposed, local>>
     ELSE disposed' = TRUE /\ release /\ local' = Nobody
  /\ UNCHANGED <<mounted, replays, generated, wallet, source, generation,
                 choice, failed, lesson>>

-----------------------------------------------------------------------------
(* The header wallet and the lesson's own requests                         *)

WalletChanges ==
  /\ mounted
  /\ \E w \in {{}} \cup {{c} : c \in HeaderWallets} :
       /\ w # wallet
       /\ wallet' = w
       /\ Rendered(source, generation, w)
  /\ UNCHANGED <<page, identity, disposed, local, source, generation, choice,
                 failed>>

\* A lesson disconnects the selected provider; the wallet's case is in
\* WalletChanges.
Disconnect ==
  /\ mounted
  /\ source # "wallet" /\ local # Nobody
  /\ release
  /\ local' = Nobody
  /\ UNCHANGED <<page, generated, disposed, wallet, source, generation,
                 choice, failed, lesson>>

Request ==
  /\ mounted /\ ~pending
  /\ Selected(source, local, wallet) # Nobody
  /\ source = "wallet" => walletReady
  /\ request' = {[with |-> Selected(source, local, wallet),
                  early |-> selecting]}
  /\ UNCHANGED <<page, identity, disposed, local, wallet, source, generation,
                 choice, failed, receipt>>

Settle ==
  /\ \E q \in request :
       \/ receipt' = q.with
       \/ UNCHANGED receipt
  /\ request' = {}
  /\ UNCHANGED <<page, identity, disposed, local, wallet, source, generation,
                 choice, failed>>

-----------------------------------------------------------------------------

Choosing == Connect \/ Publish \/ DisconnectLocal \/ Finish \/ Reject

Next ==
  \/ chooseLocal \/ chooseWallet
  \/ Connect \/ Publish \/ DisconnectLocal \/ Finish \/ Reject
  \/ Replay \/ Leave \/ Cleanup
  \/ WalletChanges \/ Disconnect
  \/ Request \/ Settle

\* Promises of the local connector resolve and microtasks run; the reader,
\* the wallet and the requests may take for ever.
Spec == Init /\ [][Next]_vars /\ WF_vars(Choosing) /\ WF_vars(Cleanup)

-----------------------------------------------------------------------------
(* Properties                                                              *)

\* A lesson holds one usable local key at most, the one its connector
\* refers to, however often one is created.
SingleKey == live = {key} \ {Nobody}

\* A key that is no longer needed is destroyed: with its lesson, also when a
\* connection was under way as it closed, and when the wallet is chosen.
UnusedKeysAreGone ==
  /\ disposed => live = {}
  /\ mounted /\ source = "wallet" /\ ~selecting => live = {}

\* Outside a choice the local signer a lesson shows can sign: neither a
\* replay of the effect nor a rejected choice has destroyed it.
ShownKeyIsLive == mounted /\ ~selecting /\ local # Nobody => local \in live

\* One key at most, and the one a lesson shows can sign.
LocalKeyIsLive == SingleKey /\ ShownKeyIsLive

\* A request made between two choices keeps its local key until it settles,
\* unless the reader disconnects the signer or leaves.
RequestKeepsItsKey ==
  \A q \in request :
    ~q.early /\ local # Nobody /\ q.with = local => local \in live

\* What a lesson shows was made with the signer it shows as selected:
\* earlier receipts went with a remount.
ReceiptMatchesSigner ==
  LET shown == Selected(source, local, wallet)
  IN  mounted /\ ~selecting /\ receipt # Nobody /\ shown # Nobody
        => receipt = shown

\* Once its lesson was left, every local key is destroyed for good.
KeysDoNotOutliveLesson == ~mounted ~> [](live = {})

\* The buttons of the choice do not stay locked.
ChoiceEnds == selecting ~> ~selecting
=============================================================================
