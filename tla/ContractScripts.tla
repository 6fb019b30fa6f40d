---------------------------- MODULE ContractScripts ---------------------------
(***************************************************************************)
(* What the lessons about contracts ask of Testnet, as in ClassicScripts,  *)
(* and what the contracts they deploy answer.                              *)
(***************************************************************************)
EXTENDS ClassicScripts

(***************************************************************************)
(* The two counters.  `kept' is the count an invocation leaves; a refused  *)
(* one keeps what was there.                                               *)
(***************************************************************************)
\* A panic at 2^32 is out of the lessons' reach.
Counter(method, count, by) ==
  CASE method = "increment" -> [accepted |-> TRUE, kept |-> count + by]
    [] method = "reject"    -> [accepted |-> FALSE, kept |-> count]

BoundCounter(method, count, by) ==
  LET fits == by > 0 /\ count + by <= 100
  IN  [accepted |-> fits, kept |-> IF fits THEN count + by ELSE count]

Invocation(template, method, count, by) ==
  IF template = "counter" THEN Counter(method, count, by)
  ELSE BoundCounter(method, count, by)

-----------------------------------------------------------------------------
\* What the simulation of an increment reports; any number does.
needed == 1000000

UploadAndDeploy(by, template) ==
  <<From(by, [call |-> "upload", template |-> template]),
    From(by, [call |-> "deploy", template |-> template])>>

Deployed(by, template) == Friendbot(<<by>>) \o UploadAndDeploy(by, template)

\* `instructions' is what the transaction allows for, of what it needs.
Invoke(method, by) ==
  From("deployer", [call |-> "invoke", method |-> method, by |-> by,
                    instructions |-> needed])
Refused(invocation) == [invocation EXCEPT !.expects = "refused"]

\* A read simulates: it shows what the call would return and keeps nothing.
ReadCount(shown) == [call |-> "count", shows |-> shown]
Preview(by, shown) == [call |-> "preview", by |-> by, shows |-> shown]

CounterLesson ==
  Deployed("deployer", "counter") \o
  <<ReadCount(0), Invoke("increment", 3), ReadCount(3)>>

KnownError ==
  Deployed("deployer", "counter") \o <<Refused(Invoke("reject", 0))>>

RawInvocation ==
  Deployed("deployer", "counter") \o
  <<Invoke("increment", 2), ReadCount(2)>>

BindingsCalls ==
  Deployed("deployer", "bound") \o
  <<ReadCount(0), Preview(3, 3), ReadCount(0), Invoke("increment", 3),
    ReadCount(3)>>

BindingsErrors ==
  Deployed("deployer", "bound") \o
  <<Refused(Invoke("increment", 0)), ReadCount(0)>>

\* The event of the invocation, which the node may not have indexed yet.
BindingsEvents ==
  Deployed("deployer", "bound") \o
  <<Invoke("increment", 5), [call |-> "event", shows |-> <<0, 5>>]>>

(***************************************************************************)
(* The invocations that adjust their resources: one replaces the limit on  *)
(* instructions, the others add a tenth to what the simulation found.      *)
(***************************************************************************)
Padded(instructions) == instructions + instructions \div 10

ResourceOverride ==
  Deployed("deployer", "counter") \o
  <<[Invoke("increment", 1) EXCEPT !.instructions = 12000000,
                                   !.bid = 100 + 100000],
    ReadCount(1)>>

ResourcePadding ==
  Deployed("deployer", "counter") \o
  <<[Invoke("increment", 1) EXCEPT !.instructions = Padded(needed)],
    ReadCount(1)>>

\* The transaction is built, with its sequence number, before it is
\* simulated, padded, signed and sent.
ResourceCalculator ==
  Deployed("deployer", "counter") \o
  <<[call |-> "build", account |-> "deployer"], Preview(1, 1),
    [Invoke("increment", 1) EXCEPT !.call = "send", !.bid = 1000000,
                                   !.instructions = Padded(needed)],
    ReadCount(1)>>

-----------------------------------------------------------------------------
(***************************************************************************)
(* The SEP-41 token: its constructor mints 100 units for the owner.        *)
(***************************************************************************)
supply == 1000

Approve(amount) ==
  From("owner", [call |-> "approve", amount |-> amount])
TransferFrom(amount) ==
  From("spender", [call |-> "transferFrom", to |-> "recipient",
                   amount |-> amount])
ReadAllowance(shown) == [call |-> "allowance", shows |-> shown]

Allowance ==
  Friendbot(<<"spender", "recipient">>) \o Deployed("owner", "token") \o
  <<Approve(100), ReadAllowance(100), TransferFrom(30), ReadAllowance(70),
    [call |-> "tokens", account |-> "recipient", shows |-> 30]>>

-----------------------------------------------------------------------------
(***************************************************************************)
(* Build verification: the verifier's verdict and its evidence.            *)
(***************************************************************************)
Verification ==
  <<[call |-> "verify"], [call |-> "writeEvidence"]>>

VerifyFromGithub ==
  Verification \o <<[call |-> "reportVerdict"]>>

VerifySep58 ==
  Friendbot(<<"deployer">>) \o
  <<[call |-> "download"], [call |-> "download"]>> \o
  UploadAndDeploy("deployer", "upgradeable") \o Verification \o
  <<[call |-> "requireVerified"]>>

-----------------------------------------------------------------------------
(***************************************************************************)
(* Setup for the web lessons, and the two authentication clients.          *)
(***************************************************************************)
\* The holder's trustline and 25 units from the issuer in one transaction,
\* a counter, and the names of all three for Vite.
WebSetup ==
  Friendbot(<<"holder", "issuer">>) \o
  <<[Pay("issuer", "holder", "demo", 250) EXCEPT
       !.call = "trustAndPay", !.source = "holder", !.payer = "holder",
       !.bid = 200, !.operations = 2,
       !.signers = {"holder", "issuer"}, !.needs = {"holder", "issuer"}]>> \o
  UploadAndDeploy("holder", "bound") \o
  <<[call |-> "writeEnvironment"]>>

Ask(call, domain) == [call |-> call, domain |-> domain]

\* The anchor is a public one and the account need not exist.
Sep10Client == <<Ask("discover", "anchor"), Ask("authenticate", "anchor")>>

DeployTestnetContracts ==
  Friendbot(<<"deployer", "server">>) \o
  UploadAndDeploy("deployer", "webAuth") \o
  UploadAndDeploy("deployer", "passkey") \o
  <<[call |-> "listen"]>>

\* `close' is in a finally clause.
Sep45Client ==
  DeployTestnetContracts \o
  <<Ask("discover", "local"), Ask("authenticate", "local"),
    [call |-> "close"]>>

ContractLessons ==
  {CounterLesson, KnownError, RawInvocation, BindingsCalls, BindingsErrors,
   BindingsEvents, ResourceOverride, ResourcePadding, ResourceCalculator,
   Allowance, VerifyFromGithub, VerifySep58,
   WebSetup, Sep10Client, Sep45Client}
=============================================================================
