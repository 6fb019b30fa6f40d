------------------------- MODULE PreparedAuthorization ------------------------
(***************************************************************************)
(* The three lessons that authorize a transaction by something other than  *)
(* the ordinary signature on it:                                           *)
(*   - preAuthorized: the hash of a finalized payment becomes a signer of  *)
(*     its own account, and the payment is sent without a signature;       *)
(*   - signedPayload: Alice's payment D must carry Bob's signature of the  *)
(*     hash of C, which Alice then finds in D and puts on C;               *)
(*   - hashX: the payment must carry the preimage of a hash.               *)
(* A submitted transaction is applied when the network gets to it, or      *)
(* never; the script that awaits it may give up before.                    *)
(***************************************************************************)
EXTENDS Naturals, FiniteSets

CONSTANTS MaxTime  \* bound on the clock, in units of 30 s

VARIABLES
  lesson,     \* which script runs
  at,         \* what it does next
  sequence,   \* of the accounts on the ledger
  read,       \* the sequence number the script has read
  prepared,   \* the transaction it has finalized, and holds
  submitted,  \* what the network has been given
  applied,    \* the names of what it has applied
  installed,  \* hashes that are signers of their account
  now

vars == <<lesson, at, sequence, read, prepared, submitted, applied, installed,
          now>>

timeout == 4   \* 120 s
timeoutC == 10 \* 300 s

\* `name' stands for the transaction's hash: its contents are fixed by it.
Tx(name, source, number, until, requires, signatures) ==
  [name |-> name, source |-> source, sequence |-> number, until |-> until,
   requires |-> requires, signatures |-> signatures]

Init ==
  /\ lesson \in {"preAuthorized", "signedPayload", "hashX"}
  /\ at = "fund"
  /\ sequence = [account \in {"account", "alice", "bob", "sender"} |-> 0]
  /\ read = 0
  /\ prepared = {}
  /\ submitted = {}
  /\ applied = {}
  /\ installed = {}
  /\ now = 0

Goto(from, to) == at = from /\ at' = to
Holder == IF lesson = "preAuthorized" THEN "account" ELSE "bob"

-----------------------------------------------------------------------------
(* The scripts. *)

Fund ==
  /\ Goto("fund", IF lesson = "hashX" THEN "send" ELSE "read")
  /\ UNCHANGED <<lesson, sequence, read, prepared, submitted, applied,
                 installed, now>>

ReadAccount ==
  /\ Goto("read", "finalize")
  /\ read' = sequence[Holder]
  /\ UNCHANGED <<lesson, sequence, prepared, submitted, applied, installed,
                 now>>

\* Mutant of FuturePayment: no room for the transaction that installs it.
FuturePaymentAtOnce ==
  Tx("future", "account", read + 1, now + timeout, {}, {})

\* The builder adds one to the sequence number it is given; the script has
\* added one for the setup transaction that comes before.
FuturePayment == Tx("future", "account", read + 2, now + timeout, {}, {})

TransactionC == Tx("C", "bob", read + 1, now + timeoutC, {}, {})

Finalize ==
  /\ Goto("finalize", "send")
  /\ prepared' = {IF lesson = "preAuthorized" THEN FuturePayment
                  ELSE TransactionC}
  /\ UNCHANGED <<lesson, sequence, read, submitted, applied, installed, now>>

Install ==
  Tx("install", "account", sequence["account"] + 1, now + timeout, {},
     {"account"})

\* Bob's signer adds what the extra signer requires: his signature of C.
TransactionD ==
  Tx("D", "alice", sequence["alice"] + 1, now + timeout, {"bob over C"},
     {"alice", "bob over C"})

HashXPayment ==
  Tx("payment", "sender", sequence["sender"] + 1, now + timeout,
     {"preimage"}, {"sender", "preimage"})

First ==
  CASE lesson = "preAuthorized" -> Install
    [] lesson = "signedPayload" -> TransactionD
    [] lesson = "hashX"         -> HashXPayment

Send ==
  /\ Goto("send", "confirm")
  /\ submitted' = submitted \cup {First}
  /\ UNCHANGED <<lesson, sequence, read, prepared, applied, installed, now>>

\* What the script learns from the confirmed envelope.
Confirm ==
  /\ Goto("confirm", IF lesson = "hashX" THEN "done" ELSE "sign")
  /\ \E tx \in submitted : tx.name \in applied
  /\ UNCHANGED <<lesson, sequence, read, prepared, submitted, applied,
                 installed, now>>

Disclosed == UNION {tx.signatures : tx \in {t \in submitted : t.name \in applied}}

\* The pre-authorized signer adds no signature; C gets the one D disclosed.
SignAndSend ==
  /\ Goto("sign", "confirmPrepared")
  /\ \E tx \in prepared :
       \/ /\ lesson = "preAuthorized"
          /\ submitted' = submitted \cup {tx}
       \/ /\ lesson = "signedPayload"
          /\ "bob over C" \in Disclosed
          /\ submitted' = submitted
               \cup {[tx EXCEPT !.signatures = {"bob over C"}]}
  /\ UNCHANGED <<lesson, sequence, read, prepared, applied, installed, now>>

ConfirmPrepared ==
  /\ Goto("confirmPrepared", "done")
  /\ \E tx \in prepared : tx.name \in applied
  /\ UNCHANGED <<lesson, sequence, read, prepared, submitted, applied,
                 installed, now>>

\* A call throws, times out, or is refused.
Throw ==
  /\ at \notin {"done", "failed"}
  /\ at' = "failed"
  /\ UNCHANGED <<lesson, sequence, read, prepared, submitted, applied,
                 installed, now>>

-----------------------------------------------------------------------------
(* The network. *)

\* Its own key signed it, Bob's signature is of its hash, or its hash is one
\* of its account's signers; and what it requires besides is there.
Authorized(tx) ==
  /\ \/ tx.source \in tx.signatures
     \/ tx.name = "C" /\ "bob over C" \in tx.signatures
     \/ tx.name \in installed
  /\ tx.requires \subseteq tx.signatures

\* The transaction's own hash is no signer afterwards.
Apply(tx) ==
  /\ tx \in submitted
  /\ Authorized(tx)
  /\ tx.sequence = sequence[tx.source] + 1
  /\ now <= tx.until
  /\ sequence' = [sequence EXCEPT ![tx.source] = @ + 1]
  /\ applied' = applied \cup {tx.name}
  /\ installed' = (installed \ {tx.name})
       \cup {t.name : t \in IF tx.name = "install" THEN prepared ELSE {}}
  /\ UNCHANGED <<lesson, at, read, prepared, submitted, now>>

Tick ==
  /\ now < MaxTime
  /\ now' = now + 1
  /\ UNCHANGED <<lesson, at, sequence, read, prepared, submitted, applied,
                 installed>>

Script ==
  \/ Fund \/ ReadAccount \/ Finalize \/ Send \/ Confirm \/ SignAndSend
  \/ ConfirmPrepared \/ Throw

Next == Script \/ (\E tx \in submitted : Apply(tx)) \/ Tick

Spec == Init /\ [][Next]_vars

-----------------------------------------------------------------------------
\* The transaction finalized first still fits its account when what
\* authorizes it is on the ledger: the transaction that put it there has used
\* the sequence number it was meant to, or another account's.
PreparedTransactionFits ==
  \A tx \in prepared :
    (tx.name \in installed \/ "bob over C" \in Disclosed)
      /\ tx.name \notin applied
      => tx.sequence = sequence[tx.source] + 1

\* A payment made to disclose something has disclosed it once it is applied,
\* and what it discloses is not used before.
PaymentDiscloses ==
  /\ "D" \in applied => "bob over C" \in Disclosed
  /\ "payment" \in applied => "preimage" \in Disclosed
  /\ "C" \in applied => "D" \in applied
=============================================================================
