---------------------------- MODULE ChannelPayments ---------------------------
(***************************************************************************)
(* The two lessons of src/examples/channel-accounts/: a sender's payments  *)
(* are submitted at once, each with a channel account for its transaction  *)
(* source, and the channels are merged back into their sponsor.            *)
(*   - parallel-payments.ts funds the channels' fees and closes them in a  *)
(*     finally block;                                                      *)
(*   - sponsored-muxed-transfers.ts has a sponsor bump the fees.           *)
(* The pool of channels is the plugin's: a run keeps its channel until it  *)
(* settles.  A run that gives up may leave its transaction with the        *)
(* network, which applies it later or never.                               *)
(***************************************************************************)
EXTENDS Naturals, FiniteSets

CONSTANTS Channels, Payments, NoChannel

VARIABLES
  bumped,    \* the sponsored lesson runs, and not the other
  at,        \* the call the script awaits
  open,      \* the channel accounts on the ledger
  funded,    \* they have XLM for fees
  sequence,  \* their sequence numbers
  status,    \* of each payment's run
  channel,   \* the channel a run holds
  submitted, \* transactions the network has been given
  paid,      \* payments it has applied
  lost       \* an answer of open, or the closing, that failed

ledger == <<open, funded, sequence, paid>>
runs == <<status, channel, submitted>>
vars == <<bumped, at, open, funded, sequence, status, channel, submitted,
          paid, lost>>

Init ==
  /\ bumped \in BOOLEAN
  /\ at = "fund"
  /\ open = {}
  /\ funded = {}
  /\ sequence = [c \in Channels |-> 0]
  /\ status = [p \in Payments |-> "none"]
  /\ channel = [p \in Payments |-> NoChannel]
  /\ submitted = {}
  /\ paid = {}
  /\ lost = FALSE

Ended == at \in {"done", "failed"}
Settled(p) == status[p] \in {"confirmed", "rejected"}

-----------------------------------------------------------------------------
(* The script. *)

\* Friendbot funds the accounts; a refusal ends the script.
Fund ==
  /\ at = "fund"
  /\ at' \in {"open", "failed"}
  /\ UNCHANGED <<bumped, ledger, runs, lost>>

\* One transaction creates every channel with a sponsored reserve and no XLM.
Open ==
  /\ at = "open"
  /\ \/ open' = Channels /\ at' = IF bumped THEN "pay" ELSE "fundFees"
     \/ open' = Channels /\ at' = "failed"
     \/ open' = open /\ at' = "failed"
  /\ lost' = (open' # {} /\ at' = "failed")
  /\ UNCHANGED <<bumped, funded, sequence, runs, paid>>

\* A failure goes to the finally block.
FundChannelFees ==
  /\ at = "fundFees"
  /\ \/ funded' = open /\ at' \in {"pay", "close"}
     \/ funded' = funded /\ at' = "close"
  /\ UNCHANGED <<bumped, open, sequence, runs, paid, lost>>

\* Every payment is requested before any of them is awaited.
RequestAll ==
  /\ at = "pay"
  /\ at' = "settle"
  /\ status' = [p \in Payments |-> "waiting"]
  /\ UNCHANGED <<bumped, ledger, channel, submitted, lost>>

\* Mutant of AllSettled: Promise.all stops at the first rejection.
AllSettledOrOneRejected ==
  /\ at = "settle"
  /\ \/ \A p \in Payments : Settled(p)
     \/ \E p \in Payments : status[p] = "rejected"
  /\ at' = "close"
  /\ UNCHANGED <<bumped, ledger, runs, lost>>

AllSettled ==
  /\ at = "settle"
  /\ \A p \in Payments : Settled(p)
  /\ at' = "close"
  /\ UNCHANGED <<bumped, ledger, runs, lost>>

\* Merges the channels into their sponsor.  A rejected payment is thrown
\* once they are closed.
Close ==
  /\ at = "close"
  /\ \/ open' = {} /\ at' \in {"done", "failed"} /\ UNCHANGED lost
     \/ UNCHANGED open /\ at' = "failed" /\ lost' = TRUE
  /\ at' = "done" => \A p \in Payments : status[p] = "confirmed"
  /\ UNCHANGED <<bumped, funded, sequence, runs, paid>>

-----------------------------------------------------------------------------
(* The runs of the pipeline, and the network. *)

Free(c) == \A p \in Payments : channel[p] # c

\* A run leases a channel, reads its sequence number, and has the payment
\* signed and submitted; the payment's own source stays the sender.
Submit(p, c) ==
  /\ status[p] = "waiting"
  /\ c \in open
  /\ Free(c)
  /\ status' = [status EXCEPT ![p] = "sent"]
  /\ channel' = [channel EXCEPT ![p] = c]
  /\ submitted' = submitted \cup
       {[payment |-> p, source |-> c, sequence |-> sequence[c] + 1]}
  /\ UNCHANGED <<bumped, at, ledger, lost>>

\* The channel pays the fee, unless the sponsor's envelope does.
Apply(tx) ==
  /\ tx.source \in open
  /\ tx.sequence = sequence[tx.source] + 1
  /\ bumped \/ tx.source \in funded
  /\ sequence' = [sequence EXCEPT ![tx.source] = @ + 1]
  /\ paid' = paid \cup {tx.payment}
  /\ UNCHANGED <<bumped, at, open, funded, runs, lost>>

Settle(p, outcome) ==
  /\ status' = [status EXCEPT ![p] = outcome]
  /\ channel' = [channel EXCEPT ![p] = NoChannel]
  /\ UNCHANGED <<bumped, at, ledger, submitted, lost>>

Confirm(p) ==
  /\ status[p] = "sent"
  /\ p \in paid
  /\ Settle(p, "confirmed")

\* Refused, or no answer in time: what it submitted stays submitted.
Reject(p) ==
  /\ status[p] \in {"waiting", "sent"}
  /\ Settle(p, "rejected")

Script == Fund \/ Open \/ FundChannelFees \/ RequestAll \/ AllSettled \/ Close

SettleSubmitted(p) == status[p] = "sent" /\ (Confirm(p) \/ Reject(p))

Run(p) == (\E c \in Channels : Submit(p, c)) \/ Confirm(p)

Next ==
  \/ Script
  \/ \E p \in Payments : Run(p) \/ Reject(p)
  \/ \E tx \in submitted : Apply(tx)

\* A run that has submitted settles one way or the other; one that waits for
\* a channel only has the pool to wait for.
Fairness ==
  /\ WF_vars(Script)
  /\ \A p \in Payments :
       /\ WF_vars(\E c \in Channels : Submit(p, c))
       /\ WF_vars(SettleSubmitted(p))

Spec == Init /\ [][Next]_vars /\ Fairness

-----------------------------------------------------------------------------
\* Channels are left behind only by an opening whose answer was lost or by a
\* closing that failed, and by nothing that happens between the two.
ChannelsAreClosed == Ended /\ open # {} => lost

\* No channel is merged under a run that still holds it or waits for one.
RunsKeepTheirChannel ==
  \A p \in Payments : status[p] \in {"waiting", "sent"} => open = Channels

\* The batch ends, whatever becomes of its payments, with more of them than
\* there are channels.
BatchEnds == <>Ended
=============================================================================
