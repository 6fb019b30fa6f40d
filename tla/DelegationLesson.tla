--------------------------- MODULE DelegationLesson ---------------------------
(***************************************************************************)
(* The four scripts of src/examples/delegated-signers/: each deploys its   *)
(* contracts on Testnet, repeats their topology in a tree of signers, and  *)
(* withdraws 1 XLM of the 2 it deposited.  The scripts differ in their     *)
(* data only; one sequence of awaited calls stands for all four.           *)
(*                                                                         *)
(* A call may fail, or take effect and lose its answer: either way the     *)
(* script ends, and its keys with it.                                      *)
(***************************************************************************)
EXTENDS Naturals, Sequences, Functions, TLC

CONSTANTS
  admin, recipient, leafA, leafB,  \* accounts the scripts generate
  assetAccount, nodeA, nodeB       \* contracts they deploy

ASSUME LessonAssumption ==
  IsInjective(<<admin, recipient, leafA, leafB, assetAccount, nodeA, nodeB>>)

-----------------------------------------------------------------------------
(* The scripts' data: the accounts they fund, the templates they upload,   *)
(* what they deploy, the tree of DelegatedSigners, and whose keys sign.    *)

Deployment(node, template, delegates) ==
  [node |-> node, template |-> template, delegates |-> delegates]

DirectLesson ==
  [accounts |-> <<admin, recipient, leafA>>,
   templates |-> <<"asset">>,
   deployments |-> <<Deployment(assetAccount, "asset", <<leafA>>)>>,
   tree |-> assetAccount :> <<leafA>>,
   keys |-> {leafA}]

RecursiveLesson ==
  [accounts |-> <<admin, recipient, leafA>>,
   templates |-> <<"asset", "recursive">>,
   deployments |-> <<Deployment(nodeA, "recursive", <<leafA>>),
                     Deployment(assetAccount, "asset", <<nodeA>>)>>,
   tree |-> nodeA :> <<leafA>> @@ assetAccount :> <<nodeA>>,
   keys |-> {leafA}]

\* Mutant of NestedLesson: the signers skip the inner contract.
NestedLessonSkipping ==
  [accounts |-> <<admin, recipient, leafA>>,
   templates |-> <<"asset", "recursive">>,
   deployments |-> <<Deployment(nodeA, "recursive", <<leafA>>),
                     Deployment(nodeB, "recursive", <<nodeA>>),
                     Deployment(assetAccount, "asset", <<nodeB>>)>>,
   tree |-> nodeA :> <<leafA>> @@ nodeB :> <<leafA>>
              @@ assetAccount :> <<nodeB>>,
   keys |-> {leafA}]

\* nodeA is the inner contract, nodeB the outer one.
NestedLesson ==
  [accounts |-> <<admin, recipient, leafA>>,
   templates |-> <<"asset", "recursive">>,
   deployments |-> <<Deployment(nodeA, "recursive", <<leafA>>),
                     Deployment(nodeB, "recursive", <<nodeA>>),
                     Deployment(assetAccount, "asset", <<nodeB>>)>>,
   tree |-> nodeA :> <<leafA>> @@ nodeB :> <<nodeA>>
              @@ assetAccount :> <<nodeB>>,
   keys |-> {leafA}]

BranchingLesson ==
  [accounts |-> <<admin, recipient, leafA, leafB>>,
   templates |-> <<"asset", "recursive">>,
   deployments |-> <<Deployment(nodeA, "recursive", <<leafA>>),
                     Deployment(nodeB, "recursive", <<leafB>>),
                     Deployment(assetAccount, "asset", <<nodeA, nodeB>>)>>,
   tree |-> nodeA :> <<leafA>> @@ nodeB :> <<leafB>>
              @@ assetAccount :> <<nodeA, nodeB>>,
   keys |-> {leafA, leafB}]

Lessons == {DirectLesson, RecursiveLesson, NestedLesson, BranchingLesson}

deposit == 2

withdrawal == 1

\* The awaited calls in their order.
Script(l) ==
  LET each(op, list) == [i \in DOMAIN list |-> [call |-> op, of |-> list[i]]]
      one(op)        == <<[call |-> op, of |-> admin]>>
  IN  one("getLatestLedger") \o each("fund", l.accounts)
      \o each("upload", l.templates) \o each("deploy", l.deployments)
      \o one("deposit") \o one("balance") \o one("withdraw")
      \o one("balance")

-----------------------------------------------------------------------------
VARIABLES
  lesson,     \* the script that runs
  step,       \* the call it awaits, past the last when it is done
  failed,     \* a call threw
  uploaded,   \* the templates on the ledger
  nested_delegates, funded, balance, signed  \* DelegatedAccount's

ledger == <<uploaded, nested_delegates, funded, balance, signed>>
vars == <<lesson, step, failed, uploaded, nested_delegates, funded, balance,
          signed>>

Account == INSTANCE DelegatedAccount
  WITH Leaves <- {admin, recipient, leafA, leafB},
       Nodes <- {assetAccount, nodeA, nodeB},
       Root <- assetAccount,
       Lists <- UNION {Range(l.tree) : l \in Lessons},
       Amounts <- {deposit, withdrawal},
       MaxBalance <- deposit

Init ==
  /\ Account!Init
  /\ lesson \in Lessons
  /\ step = 1
  /\ failed = FALSE
  /\ uploaded = {}

Done == step > Len(Script(lesson))
Running == ~failed /\ ~Done
Awaits(call) == Running /\ Script(lesson)[step].call = call
Argument == Script(lesson)[step].of

\* What the withdrawal presents: the whole tree, signed by its keys.
Credential == [delegates |-> lesson.tree, signatures |-> lesson.keys]

\* The answer arrives, or the script throws without it.
Settle ==
  /\ UNCHANGED lesson
  /\ \/ step' = step + 1 /\ UNCHANGED failed
     \/ failed' = TRUE /\ UNCHANGED step

-----------------------------------------------------------------------------
Read ==
  /\ Awaits("getLatestLedger") \/ Awaits("balance")
  /\ Settle
  /\ UNCHANGED ledger

Fund ==
  /\ Awaits("fund")
  /\ Account!Fund(Argument)
  /\ Settle
  /\ UNCHANGED uploaded

\* Every transaction has the admin for its source and needs its account.
Upload ==
  /\ Awaits("upload")
  /\ admin \in funded
  /\ uploaded' = uploaded \cup {Argument}
  /\ Settle
  /\ UNCHANGED <<nested_delegates, funded, balance, signed>>

Deploy ==
  /\ Awaits("deploy")
  /\ admin \in funded
  /\ Argument.template \in uploaded
  /\ Account!Construct(Argument.node, Argument.delegates)
  /\ Settle
  /\ UNCHANGED uploaded

Deposit ==
  /\ Awaits("deposit")
  /\ Account!Deposit(admin, deposit)
  /\ Settle
  /\ UNCHANGED uploaded

Withdraw ==
  /\ Awaits("withdraw")
  /\ admin \in funded
  /\ Account!Withdraw(recipient, withdrawal, Credential)
  /\ Settle
  /\ UNCHANGED uploaded

\* A call that throws before it has an effect, or is refused.
Throw ==
  /\ Running
  /\ failed' = TRUE
  /\ UNCHANGED <<lesson, step>>
  /\ UNCHANGED ledger

Perform == Read \/ Fund \/ Upload \/ Deploy \/ Deposit \/ Withdraw

Next == Perform \/ Throw

Spec == Init /\ [][Next]_vars

-----------------------------------------------------------------------------
\* No script ever awaits a call that the ledger must refuse: accounts are
\* funded, code is uploaded and delegates are deployed before they are
\* needed, and the signer tree is the one the stored lists ask for.
NoCallIsRefused == Running => ENABLED Perform

\* A script that ends has 1 XLM left in the account, and its withdrawal
\* carries the signatures the account's tree requires and no other.
EndsWithOneXlm ==
  Done => /\ balance = 1
          /\ signed = Account!Required(assetAccount)
=============================================================================
