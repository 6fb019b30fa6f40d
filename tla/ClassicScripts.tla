---------------------------- MODULE ClassicScripts ----------------------------
(***************************************************************************)
(* What the lessons about Stellar's own operations ask of Testnet: for     *)
(* each script, the calls it awaits, in order.  TestnetLesson runs them.   *)
(*                                                                         *)
(* Accounts are named by their role.  Amounts are in tenths of a unit, so  *)
(* that XLM(1) = 10; bids are in stroops.  "demo" is the asset the         *)
(* lesson's issuer issues, "pool" the shares of the lesson's pool.         *)
(***************************************************************************)
EXTENDS Naturals, Sequences, TLC

XLM(n) == 10 * n

(***************************************************************************)
(* A transaction unless its fields say otherwise: one operation, for which *)
(* its source signs and bids the base fee, and which the network accepts.  *)
(***************************************************************************)
From(source, op) ==
  op @@ [source |-> source, signers |-> {source}, needs |-> {source},
         payer |-> source, bid |-> 100, operations |-> 1,
         expects |-> "accepted"]

Friendbot(accounts) ==
  [i \in DOMAIN accounts |-> [call |-> "fund", account |-> accounts[i]]]

Pay(from, to, asset, amount) ==
  From(from, [call |-> "pay", from |-> from, to |-> to, asset |-> asset,
              amount |-> amount, memo |-> FALSE])

Trust(owner, asset) ==
  From(owner, [call |-> "trust", owner |-> owner, asset |-> asset,
               sponsor |-> owner])

SetFlags(flags) == From("issuer", [call |-> "setFlags", flags |-> flags])

Authorize(yes) ==
  From("issuer", [call |-> "authorize", holder |-> "holder", yes |-> yes])

Clawback(amount) ==
  From("issuer", [call |-> "clawback", holder |-> "holder",
                  amount |-> amount])

ManageData(account, name) ==
  From(account, [call |-> "manageData", account |-> account, name |-> name])

Offer(call, sells, amount) ==
  From("trader", [call |-> call, seller |-> "trader", sells |-> sells,
                  amount |-> amount])

\* Reads show a value the script compares or prints; they cost nothing.
ReadBalance(account, asset, shown) ==
  [call |-> "balance", account |-> account, asset |-> asset,
   shows |-> shown]
ReadAuthorized(shown) ==
  [call |-> "authorized", account |-> "holder", asset |-> "demo",
   shows |-> shown]

-----------------------------------------------------------------------------
NativePayment ==
  Friendbot(<<"sender", "recipient">>) \o
  <<Pay("sender", "recipient", "xlm", XLM(1))>>

\* The asset's contract is deployed before anything is minted through it.
IssueAsset ==
  Friendbot(<<"issuer", "holder">>) \o
  <<From("issuer", [call |-> "deployAssetContract"]),
    Trust("holder", "demo"), ReadBalance("holder", "demo", 0),
    [Pay("issuer", "holder", "demo", 1000) EXCEPT !.call = "mint"],
    ReadBalance("holder", "demo", 1000)>>

ContractTransfer ==
  Friendbot(<<"sender", "recipient">>) \o
  <<ReadBalance("recipient", "xlm", XLM(10000)),
    Pay("sender", "recipient", "xlm", XLM(50)),
    ReadBalance("recipient", "xlm", XLM(10050))>>

\* Refused for its bid before its accounts, which do not exist, matter.
HandlingErrors ==
  <<[Pay("sender", "recipient", "xlm", XLM(1)) EXCEPT
       !.bid = 0, !.expects = "refused"]>>

MintTransferBurn ==
  Friendbot(<<"issuer", "alice", "bob">>) \o
  <<Trust("alice", "demo"), Trust("bob", "demo"),
    Pay("issuer", "alice", "demo", 1000),
    Pay("alice", "bob", "demo", 250),
    Pay("bob", "issuer", "demo", 50),  \* a burn pays the issuer
    ReadBalance("alice", "demo", 750), ReadBalance("bob", "demo", 200)>>

Authorization ==
  Friendbot(<<"issuer", "holder">>) \o
  <<SetFlags({"required", "revocable"}), Trust("holder", "demo"),
    ReadAuthorized(FALSE), Authorize(TRUE),
    Pay("issuer", "holder", "demo", 100),
    ReadBalance("holder", "demo", 100),
    Authorize(FALSE), ReadAuthorized(FALSE)>>

ClawbackLesson ==
  Friendbot(<<"issuer", "holder">>) \o
  <<SetFlags({"revocable", "clawback"}), Trust("holder", "demo"),
    Pay("issuer", "holder", "demo", 100), Clawback(30),
    ReadBalance("holder", "demo", 70)>>

SponsoredTrustline ==
  Friendbot(<<"issuer", "holder">>) \o
  <<[Trust("holder", "demo") EXCEPT
       !.sponsor = "issuer", !.source = "issuer", !.payer = "issuer",
       !.bid = 300, !.operations = 3,  \* begin, change trust, end
       !.signers = {"issuer", "holder"}, !.needs = {"issuer", "holder"}],
    ReadBalance("holder", "demo", 0)>>

\* The plugin wraps the signed payment; its own envelope counts as one more
\* operation, and the sponsor pays for both.
SponsoredPayment ==
  Friendbot(<<"sender", "recipient", "sponsor">>) \o
  <<[Pay("sender", "recipient", "xlm", XLM(1)) EXCEPT
       !.payer = "sponsor", !.bid = 1000, !.operations = 2,
       !.signers = {"sender", "sponsor"}, !.needs = {"sender", "sponsor"}]>>

MissingMemo ==
  Friendbot(<<"sender", "recipient">>) \o
  <<ManageData("recipient", "memo required"),
    [Pay("sender", "recipient", "xlm", XLM(1)) EXCEPT
       !.expects = "refused"]>>

PaymentWithMemo ==
  Friendbot(<<"sender", "recipient">>) \o
  <<ManageData("recipient", "memo required"),
    [Pay("sender", "recipient", "xlm", XLM(1)) EXCEPT !.memo = TRUE]>>

\* 1 and 2 XLM in one transaction.
TwoPayments(bid) ==
  [Pay("sender", "recipient", "xlm", XLM(3)) EXCEPT
     !.bid = bid, !.operations = 2]

BaseFee ==
  Friendbot(<<"sender", "recipient">>) \o <<TwoPayments(2 * 100)>>

InclusionFee ==
  Friendbot(<<"sender", "recipient">>) \o <<TwoPayments(205)>>

SorobanMaxFee ==
  Friendbot(<<"sender", "recipient">>) \o
  <<[Pay("sender", "recipient", "xlm", XLM(1)) EXCEPT !.bid = 1000000]>>

-----------------------------------------------------------------------------
\* The trader's 100 units of a freshly issued asset.
Market(account) ==
  Friendbot(<<"issuer", account>>) \o
  <<Trust(account, "demo"), Pay("issuer", account, "demo", 1000)>>

\* 5 units at up to 2 XLM, then 3 at up to 1.5, then none.
BuyOffer ==
  Market("trader") \o
  <<Offer("offer", "xlm", XLM(10)), Offer("update", "xlm", 45),
    Offer("cancel", "xlm", 0)>>

SellOffer ==
  Market("trader") \o
  <<Offer("offer", "demo", 100), [call |-> "getOffer"],
    Offer("update", "demo", 50), Offer("cancel", "demo", 0)>>

PoolDeposit(demo, xlm, minimum, maximum) ==
  From("provider", [call |-> "deposit", account |-> "provider",
                    demo |-> demo, xlm |-> xlm,
                    minimum |-> minimum, maximum |-> maximum])

PoolWithdrawal(demo, xlm) ==
  From("provider", [call |-> "withdraw", account |-> "provider",
                    demo |-> demo, xlm |-> xlm])

\* Prices in tenths of an XLM.  The withdrawal is of every share.
LiquidityPool ==
  Market("provider") \o
  <<Trust("provider", "pool"), PoolDeposit(100, XLM(20), 19, 21),
    [call |-> "position", owned |-> TRUE],
    PoolWithdrawal(99, 199), [call |-> "position", owned |-> FALSE]>>

-----------------------------------------------------------------------------
(***************************************************************************)
(* Claimable balances.  Time is in units of 30 seconds; the recipient may  *)
(* claim before the deadline, the sender from then on.                     *)
(***************************************************************************)
Create == From("sender", [call |-> "create", amount |-> XLM(1)])
Claim(account) == From(account, [call |-> "claim", account |-> account])

ClaimBeforeExpiry ==
  Friendbot(<<"sender", "recipient">>) \o
  <<[Create EXCEPT !.call = "createRelative"], Claim("recipient")>>

RefundAfterExpiry ==
  Friendbot(<<"sender", "recipient">>) \o
  <<[call |-> "setDeadline"], Create, [call |-> "setLimit"],
    [call |-> "waitForLedger"], Claim("sender")>>

relativeDeadline == 20  \* 600 s
absoluteDeadline == 1   \* 30 s
waitLimit == 4          \* 120 s

-----------------------------------------------------------------------------
(***************************************************************************)
(* The recorded tests: a test that throws does not keep the next one from  *)
(* running.                                                                *)
(***************************************************************************)
ClassicRecording ==
  Friendbot(<<"sender">>) \o
  <<From("sender", [call |-> "createAndPay", from |-> "sender",
                    to |-> "recipient", amount |-> XLM(3), bid |-> 200,
                    operations |-> 2]),
    [call |-> "nextTest"], ManageData("sender", "other")>>

TokenRecording ==
  Friendbot(<<"sender", "recipient">>) \o
  [sample \in 1..3 |-> ReadBalance("recipient", "xlm", XLM(10000))] \o
  <<[call |-> "nextTest"], ReadBalance("recipient", "xlm", XLM(10000)),
    [Pay("sender", "recipient", "xlm", XLM(1)) EXCEPT !.bid = 100000],
    ReadBalance("recipient", "xlm", XLM(10001))>>

ClassicLessons ==
  {NativePayment, IssueAsset, ContractTransfer, HandlingErrors,
   MintTransferBurn, Authorization, ClawbackLesson, SponsoredTrustline,
   SponsoredPayment, MissingMemo, PaymentWithMemo, BaseFee, InclusionFee,
   SorobanMaxFee, BuyOffer, SellOffer, LiquidityPool, ClaimBeforeExpiry,
   RefundAfterExpiry, ClassicRecording, TokenRecording}
=============================================================================
