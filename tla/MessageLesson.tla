---------------------------- MODULE MessageLesson ----------------------------
(***************************************************************************)
(* Signing a message with the connected wallet and verifying it as a       *)
(* separate step: src/examples/web/src/setup/wallet-message-signer.ts and  *)
(* examples/signing/message.tsx.                                           *)
(*                                                                         *)
(* The wallet's user may change its account, network or module between any *)
(* two awaits of the adapter.  The lesson is mounted once: a change the    *)
(* signer provider notices remounts it (LessonSigner).  A signature is     *)
(* known by who made it, for what, and in which scheme.                    *)
(***************************************************************************)
CONSTANTS
  Addresses, Networks, Modules,  \* what the wallet can be switched between
  Texts,      \* the messages one may enter
  Answers,    \* what the wallet may return for a message
  account,    \* the connection the adapter captured
  Empty,      \* an empty field, no signature
  Garbled     \* text that encodes no signature of 64 bytes, or no key

Identities == [address : Addresses, network : Networks, module : Modules]

Signatures == [signer : Addresses, message : Texts, sep53 : BOOLEAN]

VARIABLES
  wallet,     \* the Kit's live state
  request,    \* the running signMessage: its stage, message, address read
              \* and the wallet's answer
  message,    \* the compose field
  signed,     \* the signature on display
  fields,     \* the verification form
  verdict,    \* its result
  submitted,  \* the last message signed                        (history)
  seen        \* what the wallet agreed with since its approval (history)

vars == <<wallet, request, message, signed, fields, verdict, submitted, seen>>

Stages == {"idle", "address", "network", "approval", "addressAgain",
           "networkAgain", "verification"}

NoAnswer == [signerAddress |-> Empty, signedMessage |-> Garbled]

TypeOK ==
  /\ wallet \in Identities
  /\ request \in [stage : Stages, message : Texts \cup {Empty},
                  address : Addresses \cup {Empty},
                  answer : Answers \cup {NoAnswer}]
  /\ message \in Texts
  /\ signed \in Signatures \cup {Empty}
  /\ fields \in [message : Texts \cup {Empty},
                 key : Addresses \cup {Empty, Garbled},
                 signature : Signatures \cup {Empty, Garbled}]
  /\ verdict \in {"none", "valid", "invalid"}
  /\ submitted \in Texts \cup {Empty}
  /\ seen \subseteq {"address", "network", "module"}

NoRequest == [stage |-> "idle", message |-> Empty, address |-> Empty,
              answer |-> NoAnswer]

Init ==
  /\ wallet \in Identities
  /\ request = NoRequest
  /\ message \in Texts
  /\ signed = Empty
  /\ fields = [message |-> Empty, key |-> Empty, signature |-> Empty]
  /\ verdict = "none"
  /\ submitted = Empty
  /\ seen = {}

-----------------------------------------------------------------------------

\* Keypair.verifyMessage
verifyMessage(key, text, signature) ==
  /\ signature.sep53
  /\ signature.signer = key
  /\ signature.message = text

isPending == request.stage # "idle"

Approved == {"addressAgain", "networkAgain", "verification"}

Agreement(w) ==
  {field \in {"address", "network", "module"} : w[field] = account[field]}

-----------------------------------------------------------------------------
(* The adapter's signMessage                                               *)

SameModule(w) == w.module = account.module

\* kit.getAddress answers.
getAddress ==
  /\ request.stage \in {"address", "addressAgain"}
  /\ request' = [request EXCEPT
                   !.address = wallet.address,
                   !.stage = IF request.stage = "address"
                             THEN "network" ELSE "networkAgain"]
  /\ UNCHANGED <<wallet, message, signed, fields, verdict, submitted, seen>>

\* kit.getNetwork answers, the module is read, and both are compared.
IdentityChecked ==
  /\ request.address = account.address
  /\ wallet.network = account.network
  /\ SameModule(wallet)

\* The first check passes: the wallet is asked.
AskWallet ==
  /\ request.stage = "network"
  /\ IdentityChecked
  /\ request' = [request EXCEPT !.stage = "approval"]
  /\ UNCHANGED <<wallet, message, signed, fields, verdict, submitted, seen>>

\* The user approves: kit.signMessage answers.
Approve(answer) ==
  /\ request.stage = "approval"
  /\ request' = [request EXCEPT !.stage = "addressAgain", !.answer = answer]
  /\ seen' = Agreement(wallet)
  /\ UNCHANGED <<wallet, message, signed, fields, verdict, submitted>>

\* Mutant of Decode: the identity is checked before the approval only.
DecodeWithoutIdentity ==
  /\ request.stage = "networkAgain"
  /\ request.answer.signerAddress \in {Empty, account.address}
  /\ request' = [request EXCEPT !.stage = "verification"]
  /\ UNCHANGED <<wallet, message, signed, fields, verdict, submitted, seen>>

\* The second check passes, and the signature decodes; the import follows.
Decode ==
  /\ request.stage = "networkAgain"
  /\ IdentityChecked
  /\ request.answer.signerAddress \in {Empty, account.address}
  /\ request' = [request EXCEPT !.stage = "verification"]
  /\ UNCHANGED <<wallet, message, signed, fields, verdict, submitted, seen>>

Acceptable ==
  /\ request.answer.signedMessage # Garbled
  /\ verifyMessage(account.address, request.message,
                   request.answer.signedMessage)

-----------------------------------------------------------------------------
(* The lesson                                                              *)

sign ==
  /\ ~isPending
  /\ request' = [NoRequest EXCEPT !.stage = "address", !.message = message]
  /\ signed' = Empty
  /\ UNCHANGED <<wallet, message, fields, verdict, submitted, seen>>

\* Mutant of Accept: the previous verdict stays.
AcceptKeepingVerdict ==
  /\ request.stage = "verification"
  /\ Acceptable
  /\ signed' = request.answer.signedMessage
  /\ fields' = [message |-> request.message, key |-> account.address,
                signature |-> request.answer.signedMessage]
  /\ submitted' = request.message
  /\ request' = NoRequest
  /\ UNCHANGED <<wallet, message, verdict, seen>>

\* The signature is returned: sign displays it and fills the other form.
Accept ==
  /\ request.stage = "verification"
  /\ Acceptable
  /\ signed' = request.answer.signedMessage
  /\ fields' = [message |-> request.message, key |-> account.address,
                signature |-> request.answer.signedMessage]
  /\ verdict' = "none"
  /\ submitted' = request.message
  /\ request' = NoRequest
  /\ UNCHANGED <<wallet, message, seen>>

\* A check above fails, the user declines, a call of the Kit or the import
\* rejects, or useSignMessage notices that its connection has changed.
Throw ==
  /\ isPending
  /\ request' = NoRequest
  /\ UNCHANGED <<wallet, message, signed, fields, verdict, submitted, seen>>

EditMessage ==
  /\ ~isPending
  /\ message' \in Texts \ {message}
  /\ UNCHANGED <<wallet, request, signed, fields, verdict, submitted, seen>>

\* The onChange handlers of the verification form.
EditFields ==
  /\ ~isPending
  /\ \/ \E text \in Texts \cup {Empty} :
          fields' = [fields EXCEPT !.message = text]
     \/ \E key \in Addresses \cup {Empty, Garbled} :
          fields' = [fields EXCEPT !.key = key]
     \/ \E answer \in Answers \cup {NoAnswer} :
          fields' = [fields EXCEPT !.signature = answer.signedMessage]
  /\ verdict' = "none"
  /\ UNCHANGED <<wallet, request, message, signed, submitted, seen>>

verify ==
  /\ ~isPending
  /\ fields.key # Empty /\ fields.signature # Empty
  /\ verdict' =
       IF fields.key = Garbled \/ fields.signature = Garbled THEN "none"
       ELSE IF verifyMessage(fields.key, fields.message, fields.signature)
            THEN "valid" ELSE "invalid"
  /\ UNCHANGED <<wallet, request, message, signed, fields, submitted, seen>>

\* The wallet's user switches account, network or module, one at a time.
SwitchWallet ==
  /\ \E field \in {"address", "network", "module"} :
       /\ wallet' \in Identities
       /\ wallet'[field] # wallet[field]
       /\ \A other \in {"address", "network", "module"} \ {field} :
            wallet'[other] = wallet[other]
  /\ seen' = IF request.stage \in Approved
             THEN seen \cup Agreement(wallet') ELSE seen
  /\ UNCHANGED <<request, message, signed, fields, verdict, submitted>>

-----------------------------------------------------------------------------

Next ==
  \/ sign \/ getAddress \/ AskWallet
  \/ \E answer \in Answers : Approve(answer)
  \/ Decode \/ Accept \/ Throw
  \/ EditMessage \/ EditFields \/ verify
  \/ SwitchWallet

Spec == Init /\ [][Next]_vars

-----------------------------------------------------------------------------
(* Properties                                                              *)

\* A displayed signature is the captured account's, for the message that
\* was submitted, whatever the wallet signed, with whom and in which scheme.
DisplayedSignatureVerifies ==
  signed # Empty => verifyMessage(account.address, submitted, signed)

\* A signature is displayed only if, after the approval, the wallet was on the
\* captured address and on the captured network and module, each at some
\* moment: checkIdentity reads them in two awaits, so that the wallet had all
\* of them at once is more than the code can tell.
SeenAfterApproval ==
  signed # Empty => {"address", "network", "module"} \subseteq seen

\* The account that was connected made it, for this message, in its presence.
DisplayedSignatureIsRight == DisplayedSignatureVerifies /\ SeenAfterApproval

\* A verdict on the page is about the key, text and signature beside it.
VerdictDescribesForm ==
  verdict # "none" =>
    /\ {fields.key, fields.signature} \cap {Empty, Garbled} = {}
    /\ (verdict = "valid")
         = verifyMessage(fields.key, fields.message, fields.signature)

=============================================================================
