----------------------------- MODULE TestnetLesson ----------------------------
(***************************************************************************)
(* A linear lesson and the network it talks to.  A lesson is a script that *)
(* awaits one call after another and stops where one throws.  The network  *)
(* is modelled by what the scripts rely on: who must have signed and can   *)
(* pay, which entries an operation needs and changes, and the closing of   *)
(* ledgers, which the script's own clock does not follow exactly.          *)
(*                                                                         *)
(* A call may fail, or take effect and lose its answer: the script ends.   *)
(***************************************************************************)
EXTENDS ContractScripts, Integers, FiniteSets, Functions

CONSTANTS
  MaxClock,  \* bound: units of 30 s until a script starts to wait
  Skew,      \* how far ledger time may be ahead of the script's clock
  None

VARIABLES
  lesson,   \* the script
  step,     \* the call it awaits, past the last when it is done
  failed,   \* the calls that threw
  seen,     \* what it keeps between calls
  ledger,   \* the entries
  sequence, \* transactions an account has been the source of
  fees,     \* transactions it has paid for
  closed,   \* close time of the last ledger
  clock     \* the script's clock

network == <<ledger, sequence, fees>>
time == <<closed, clock>>
vars == <<lesson, step, failed, seen, ledger, sequence, fees, closed, clock>>

Roles == {"issuer", "holder", "alice", "bob", "sender", "recipient", "sponsor",
          "trader", "provider", "deployer", "owner", "spender", "server"}

\* .env.local before the setup: what another run of it wrote, and a setting
\* of the reader's own.
FixtureNames == {"ACCOUNT", "ISSUER", "COUNTER"}
OldEnvironment == {<<"COUNTER", "old">>, <<"OTHER", "kept">>}

Init ==
  /\ lesson \in ClassicLessons \cup ContractLessons
  /\ step = 1
  /\ failed = {}
  /\ seen = [deadline |-> None, limit |-> None, sequence |-> None,
             verdict |-> None, evidence |-> FALSE, listening |-> FALSE,
             environment |-> OldEnvironment]
  /\ ledger =
       [xlm |-> <<>>, lines |-> <<>>, flags |-> {}, memoRequired |-> {},
        assetContract |-> FALSE, offer |-> None, pool |-> None, claimable |-> None,
        templates |-> {}, contract |-> None, allowance |-> 0,
        event |-> None]
  /\ sequence = [role \in Roles |-> 0]
  /\ fees = [role \in Roles |-> 0]
  /\ closed = 1
  /\ clock = 1

-----------------------------------------------------------------------------
Done == step > Len(lesson)
Stopped == step \in failed
Running == ~Done /\ ~Stopped
Call == lesson[step]
Awaits(call) == Running /\ Call.call = call

\* The call throws.  A script ends there, but for what its finally clause
\* closes; of the recorded tests, the next one runs, unless what they share
\* could not be set up.
Thrown ==
  /\ failed' = failed \cup {step}
  /\ LET next == {i \in DOMAIN lesson :
                    /\ i > step
                    /\ \/ lesson[i].call = "nextTest"
                       \/ lesson[i].call = "close" /\ seen.listening}
     IN  step' \in IF next = {} \/ Call.call = "fund" THEN {step} ELSE next

Answered == step' = step + 1 /\ UNCHANGED failed

(***************************************************************************)
(* The network's own conditions on a transaction: its source and the       *)
(* sources of its operations have signed, they exist, and the fee payer    *)
(* bids enough and has some XLM.                                           *)
(***************************************************************************)
Signed(c) == c.needs \subseteq c.signers
FeeCovered(c) ==
  c.bid >= 100 * c.operations /\ ledger.xlm[c.payer] >= XLM(1)
Valid(c) ==
  /\ c.signers \subseteq DOMAIN ledger.xlm
  /\ Signed(c)
  /\ FeeCovered(c)

\* An entry an account pays the reserve of, two entries to an XLM.
OwnEntries(l, account) ==
  Cardinality({line \in DOMAIN l.lines : l.lines[line].sponsor = account})
KeepsReserve(l, account) ==
  l.xlm[account] >= 5 * (2 + OwnEntries(l, account))

\* What an account holds of an asset.  The issuer issues what it pays.
Holds(l, account, asset) ==
  IF asset = "xlm" THEN l.xlm[account]
  ELSE IF account = "issuer" THEN 1000000
  ELSE l.lines[<<account, asset>>].balance

CanHold(l, account, asset) ==
  \/ asset = "xlm"
  \/ account = "issuer"
  \/ /\ <<account, asset>> \in DOMAIN l.lines
     /\ l.lines[<<account, asset>>].authorized

Add(l, account, asset, amount) ==
  IF asset = "xlm" THEN [l EXCEPT !.xlm[account] = @ + amount]
  ELSE IF account = "issuer" THEN l
  ELSE [l EXCEPT !.lines[<<account, asset>>].balance = @ + amount]

Paid(l, from, to, asset, amount) ==
  Add(Add(l, from, asset, -amount), to, asset, amount)

CanPay(l, c) ==
  /\ CanHold(l, c.from, c.asset) /\ CanHold(l, c.to, c.asset)
  /\ Holds(l, c.from, c.asset) >= c.amount
  \* the SEP-29 guard
  /\ c.to \in l.memoRequired => c.memo

-----------------------------------------------------------------------------
(* Operations on classic entries. *)

Account(l, account, balance) ==
  [l EXCEPT !.xlm = account :> balance @@ @]

\* One transaction creates the account and pays it: the sum of both.
CreateAndPay ==
  /\ Awaits("createAndPay")
  /\ Call.to \notin DOMAIN ledger.xlm
  /\ ledger.xlm[Call.from] >= Call.amount
  /\ ledger' = Account(Add(ledger, Call.from, "xlm", -Call.amount),
                       Call.to, Call.amount)

\* A mint goes through the asset's contract.
PayAccepted ==
  /\ Awaits("pay") \/ (Awaits("mint") /\ ledger.assetContract)
  /\ CanPay(ledger, Call)
  /\ ledger' = Paid(ledger, Call.from, Call.to, Call.asset, Call.amount)

DeployAssetContract ==
  /\ Awaits("deployAssetContract")
  /\ ledger' = [ledger EXCEPT !.assetContract = TRUE]

Trusting(l, owner, asset, sponsor) ==
  [l EXCEPT !.lines =
     <<owner, asset>> :>
       [balance |-> 0, sponsor |-> sponsor,
        authorized |-> "required" \notin l.flags,
        clawback |-> "clawback" \in l.flags] @@ @]

ChangeTrust ==
  /\ Awaits("trust")
  /\ ledger' = Trusting(ledger, Call.owner, Call.asset, Call.sponsor)
  /\ KeepsReserve(ledger', Call.sponsor)

\* One transaction opens the line and pays into it, in this order.
TrustAndPay ==
  /\ Awaits("trustAndPay")
  /\ LET open == Trusting(ledger, Call.to, Call.asset, Call.to)
     IN  /\ CanPay(open, Call)
         /\ ledger' = Paid(open, Call.from, Call.to, Call.asset, Call.amount)

SetFlagsAccepted ==
  /\ Awaits("setFlags")
  /\ "clawback" \in Call.flags => "revocable" \in Call.flags
  /\ ledger' = [ledger EXCEPT !.flags = @ \cup Call.flags]

AuthorizeAccepted ==
  /\ Awaits("authorize")
  /\ Call.yes \/ "revocable" \in ledger.flags
  /\ ledger' = [ledger EXCEPT
                  !.lines[<<Call.holder, "demo">>].authorized = Call.yes]

ClawbackAccepted ==
  /\ Awaits("clawback")
  /\ ledger.lines[<<Call.holder, "demo">>].clawback
  /\ Holds(ledger, Call.holder, "demo") >= Call.amount
  /\ ledger' = Add(ledger, Call.holder, "demo", -Call.amount)

\* One data entry asks for a memo on every payment to its account.
ManageDataAccepted ==
  /\ Awaits("manageData")
  /\ ledger' = [ledger EXCEPT !.memoRequired =
                  @ \cup {a \in {Call.account} : Call.name = "memo required"}]

\* Nobody else trades the fresh asset, so an offer rests until its seller
\* changes it; one for nothing is taken off.
PlaceOffer ==
  /\ \/ Awaits("offer") /\ ledger.offer = None
     \/ Awaits("update") /\ ledger.offer # None
  /\ Holds(ledger, Call.seller, Call.sells) >= Call.amount
  /\ ledger' = [ledger EXCEPT !.offer = Call.amount]

CancelOffer ==
  /\ Awaits("cancel")
  /\ ledger.offer # None
  /\ ledger' = [ledger EXCEPT !.offer = None]

\* The first deposit sets the price; the pool is the depositor's alone.
Deposit ==
  /\ Awaits("deposit")
  /\ CanHold(ledger, Call.account, "pool")
  /\ Holds(ledger, Call.account, "demo") >= Call.demo
  /\ Holds(ledger, Call.account, "xlm") >= Call.xlm
  /\ Call.minimum * Call.demo <= 10 * Call.xlm
  /\ 10 * Call.xlm <= Call.maximum * Call.demo
  /\ ledger' = [Add(Add(ledger, Call.account, "demo", -Call.demo),
                    Call.account, "xlm", -Call.xlm)
                EXCEPT !.pool = [demo |-> Call.demo, xlm |-> Call.xlm]]

Withdraw ==
  /\ Awaits("withdraw")
  /\ ledger.pool # None
  /\ ledger.pool.demo >= Call.demo /\ ledger.pool.xlm >= Call.xlm
  /\ ledger' = [Add(Add(ledger, Call.account, "demo", ledger.pool.demo),
                    Call.account, "xlm", ledger.pool.xlm)
                EXCEPT !.pool = None]

-----------------------------------------------------------------------------
(* Claimable balances. *)

\* The recipient's predicate, and its negation for the sender.
ClaimantTerms(deadline) ==
  [before |-> [recipient |-> deadline, sender |-> deadline],
   negated |-> [recipient |-> FALSE, sender |-> TRUE]]

MayClaim(account) ==
  /\ ledger.claimable # None
  /\ (closed < ledger.claimable.before[account])
       # ledger.claimable.negated[account]

CreateClaimable ==
  /\ Awaits("create") \/ Awaits("createRelative")
  /\ LET deadline == IF Call.call = "create" THEN seen.deadline
                     ELSE closed + relativeDeadline
     IN  ledger' = [Add(ledger, "sender", "xlm", -Call.amount)
                    EXCEPT !.claimable = ClaimantTerms(deadline)]

ClaimAccepted ==
  /\ Awaits("claim")
  /\ MayClaim(Call.account)
  /\ ledger' = [Add(ledger, Call.account, "xlm", XLM(1))
                EXCEPT !.claimable = None]

-----------------------------------------------------------------------------
(* Contracts. *)

Upload ==
  /\ Awaits("upload")
  /\ ledger' = [ledger EXCEPT !.templates = @ \cup {Call.template}]

DeployAccepted ==
  /\ Awaits("deploy")
  /\ Call.template \in ledger.templates
  /\ ledger' = [ledger EXCEPT !.contract =
                  [template |-> Call.template, count |-> 0,
                   tokens |-> [owner |-> supply, recipient |-> 0]]]

Answer == Invocation(ledger.contract.template, Call.method,
                     ledger.contract.count, Call.by)

\* `send' submits a transaction built before, with its sequence number.
InvokeAccepted ==
  /\ Awaits("invoke") \/ Awaits("send")
  /\ Call.call = "send" =>
       seen.sequence = sequence[Call.source] + 1
  /\ Call.instructions >= needed
  /\ Answer.accepted
  /\ ledger' = [ledger EXCEPT
                  !.contract.count = Answer.kept,
                  !.event = <<ledger.contract.count, Answer.kept>>]

ApproveAccepted ==
  /\ Awaits("approve")
  /\ ledger' = [ledger EXCEPT !.allowance = Call.amount]

TransferFromAccepted ==
  /\ Awaits("transferFrom")
  /\ ledger.allowance >= Call.amount
  /\ ledger.contract.tokens.owner >= Call.amount
  /\ ledger' = [ledger EXCEPT !.allowance = @ - Call.amount,
                              !.contract.tokens.owner = @ - Call.amount,
                              !.contract.tokens[Call.to] = @ + Call.amount]

-----------------------------------------------------------------------------
Operation ==
  \/ CreateAndPay \/ PayAccepted \/ DeployAssetContract \/ ChangeTrust
  \/ TrustAndPay \/ SetFlagsAccepted \/ AuthorizeAccepted
  \/ ClawbackAccepted \/ ManageDataAccepted
  \/ PlaceOffer \/ CancelOffer \/ Deposit \/ Withdraw
  \/ CreateClaimable \/ ClaimAccepted
  \/ Upload \/ DeployAccepted \/ InvokeAccepted \/ ApproveAccepted
  \/ TransferFromAccepted

\* The network or the plugin says no.
Refusal ==
  \/ /\ Awaits("pay")
     /\ Call.bid >= 100 * Call.operations => ~CanPay(ledger, Call)
  \/ Awaits("invoke") /\ ~Answer.accepted

Submit ==
  /\ Running
  /\ "expects" \in DOMAIN Call /\ Call.expects = "accepted"
  /\ Valid(Call)
  /\ Operation
  /\ sequence' = [sequence EXCEPT ![Call.source] = @ + 1]
  /\ fees' = [fees EXCEPT ![Call.payer] = @ + 1]
  /\ Answered \/ Thrown
  /\ UNCHANGED <<lesson, seen, time>>

\* The script expects the refusal and catches it.
CatchRefusal ==
  /\ Refusal
  /\ Call.expects = "refused"
  /\ Answered
  /\ UNCHANGED <<lesson, seen, network, time>>

Fund ==
  /\ Awaits("fund")
  /\ Call.account \notin DOMAIN ledger.xlm
  /\ ledger' = Account(ledger, Call.account, XLM(10000))
  /\ Answered \/ Thrown
  /\ UNCHANGED <<lesson, seen, sequence, fees, time>>

\* What a read returns.
Reading ==
  LET c == Call
  IN  CASE c.call = "balance"    -> Holds(ledger, c.account, c.asset)
        [] c.call = "authorized" ->
             ledger.lines[<<c.account, c.asset>>].authorized
        [] c.call = "count"      -> ledger.contract.count
        [] c.call = "preview"    ->
             Invocation(ledger.contract.template, "increment",
                        ledger.contract.count, c.by).kept
        [] c.call = "event"      -> ledger.event
        [] c.call = "allowance"  -> ledger.allowance
        [] c.call = "tokens"     -> ledger.contract.tokens[c.account]

\* A script that compares what it reads throws on another value, one that
\* prints it goes on: NoSurprises says there is none.
Read ==
  /\ Running
  /\ "shows" \in DOMAIN Call
  /\ Reading = Call.shows
  /\ Answered
  /\ UNCHANGED <<lesson, seen, network, time>>

\* The offer and the pool position, which the script needs to go on.
ReadEntry ==
  /\ \/ Awaits("getOffer") /\ ledger.offer # None
     \/ Awaits("position") /\ (ledger.pool # None) = Call.owned
  /\ Answered
  /\ UNCHANGED <<lesson, seen, network, time>>

\* Steps of the script's own.
SetDeadline ==
  /\ Awaits("setDeadline")
  /\ seen' = [seen EXCEPT !.deadline = clock + absoluteDeadline]

SetLimit ==
  /\ Awaits("setLimit")
  /\ seen' = [seen EXCEPT !.limit = clock + waitLimit]

Build ==
  /\ Awaits("build")
  /\ seen' = [seen EXCEPT !.sequence = sequence[Call.account] + 1]

Verify ==
  /\ Awaits("verify")
  /\ \E verdict \in {"verified", "mismatch", "notApplicable"} :
       seen' = [seen EXCEPT !.verdict = verdict]

WriteEvidence ==
  /\ Awaits("writeEvidence")
  /\ seen' = [seen EXCEPT !.evidence = TRUE]

\* Mutant of WriteEnvironment: the lines of the last setup stay.
AppendEnvironment ==
  /\ Awaits("writeEnvironment")
  /\ seen' = [seen EXCEPT !.environment =
                @ \cup (FixtureNames \X {"new"})]

NewEnvironment ==
  {line \in seen.environment : line[1] \notin FixtureNames}
    \cup (FixtureNames \X {"new"})

\* Replaces the lines of the last setup and keeps all others.
WriteEnvironment ==
  /\ Awaits("writeEnvironment")
  /\ seen' = [seen EXCEPT !.environment = NewEnvironment]

Listen ==
  /\ Awaits("listen")
  /\ seen' = [seen EXCEPT !.listening = TRUE]

\* The server is needed for both, the account's contract for the second.
Answers ==
  /\ Awaits("discover") \/ Awaits("authenticate")
  /\ Call.domain = "local" =>
       seen.listening /\ ledger.contract.template = "passkey"
  /\ UNCHANGED seen

CloseServer ==
  /\ Awaits("close")
  /\ seen' = [seen EXCEPT !.listening = FALSE]

OwnStep ==
  /\ \/ SetDeadline \/ SetLimit \/ Build \/ Verify \/ WriteEvidence
     \/ WriteEnvironment \/ Listen \/ Answers \/ CloseServer
     \/ /\ \E call \in {"download", "reportVerdict", "nextTest"} : Awaits(call)
        /\ UNCHANGED seen
  /\ Answered
  /\ UNCHANGED <<lesson, network, time>>

RequireVerified ==
  /\ Awaits("requireVerified")
  /\ IF seen.verdict = "verified" THEN Answered ELSE Thrown
  /\ UNCHANGED <<lesson, seen, network, time>>

\* Mutant of WaitForLedger: the loop has no limit of its own.
WaitForLedgerForever ==
  /\ Awaits("waitForLedger")
  /\ closed >= seen.deadline
  /\ Answered
  /\ UNCHANGED <<lesson, seen, network, time>>

\* Every two seconds: the last closed ledger, then the script's own limit.
WaitForLedger ==
  /\ Awaits("waitForLedger")
  /\ \/ closed >= seen.deadline /\ Answered
     \/ closed < seen.deadline /\ clock > seen.limit /\ Thrown
  /\ UNCHANGED <<lesson, seen, network, time>>

Perform ==
  \/ Fund \/ Submit \/ CatchRefusal \/ Read \/ ReadEntry \/ OwnStep
  \/ RequireVerified \/ WaitForLedger

\* A call that throws before it has an effect, or is refused; a file that is
\* written in place may be left cut off.
Throw ==
  /\ Running
  /\ Thrown
  /\ \/ UNCHANGED seen
     \/ /\ Awaits("writeEnvironment")
        /\ \E written \in SUBSET NewEnvironment :
             seen' = [seen EXCEPT !.environment = written]
  /\ UNCHANGED <<lesson, network, time>>

-----------------------------------------------------------------------------
(* Time, where a lesson depends on it. *)

\* Only the refund's script looks at its own clock.
Tick ==
  /\ lesson = RefundAfterExpiry
  /\ Running
  /\ clock < IF seen.limit = None THEN MaxClock ELSE seen.limit + 1
  /\ clock' = clock + 1
  /\ UNCHANGED <<lesson, step, failed, seen, network, closed>>

\* Ledgers close near the script's clock, where it has one, or stop closing.
\* While a relative deadline runs they close well before it or at it.
CloseLedger ==
  /\ \/ /\ lesson = RefundAfterExpiry
        /\ closed' \in (closed + 1)..(clock + Skew)
     \/ /\ lesson = ClaimBeforeExpiry
        /\ ledger.claimable # None
        /\ closed < relativeDeadline
        /\ closed' \in {closed + 1, closed + relativeDeadline - 1,
                       closed + relativeDeadline}
  /\ UNCHANGED <<lesson, step, failed, seen, network, clock>>

Next == Perform \/ Throw \/ Tick \/ CloseLedger

\* Every awaited call settles, and the script's clock goes on.
Settles == Perform \/ (Throw /\ ~Awaits("waitForLedger"))
Fairness == WF_vars(Settles) /\ WF_vars(Tick)

Spec == Init /\ [][Next]_vars /\ Fairness

-----------------------------------------------------------------------------
\* Every call gets the answer its lesson is about: what must be accepted is,
\* what must be refused is, and reads show the value the script compares or
\* prints.  Only the time a claim is good for may run out.
NoSurprises ==
  LET late == Awaits("claim") /\ lesson = ClaimBeforeExpiry
                /\ ~MayClaim("recipient")
  IN  Running /\ failed = {} /\ ~late /\ ~Awaits("waitForLedger")
        => ENABLED Perform

\* A lesson that reaches its end has left nothing locked in an offer, a pool
\* or a claimable balance; sponsored accounts have paid neither fee nor
\* reserve; verdicts have their evidence; and Vite is given each fixture
\* once.  However a lesson ends, its server listens no longer, unless the
\* closing itself threw.
LeavesNothingBehind ==
  /\ Done => ~seen.listening
  /\ Stopped /\ seen.listening => Call.call = "close"
  /\ Done /\ failed = {} =>
    /\ ledger.offer = None /\ ledger.pool = None /\ ledger.claimable = None
    /\ lesson = SponsoredPayment => fees["sender"] = 0
    /\ lesson = SponsoredTrustline => OwnEntries(ledger, "holder") = 0
    /\ seen.verdict # None => seen.evidence
    /\ lesson = WebSetup =>
         /\ \A name \in FixtureNames :
              Cardinality({l \in seen.environment : l[1] = name}) = 1
         /\ OldEnvironment \ (FixtureNames \X {"old"}) \subseteq
              seen.environment

\* Every lesson ends, even where ledgers stop closing.
LessonEnds == <>(Done \/ Stopped)
=============================================================================
