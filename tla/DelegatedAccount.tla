--------------------------- MODULE DelegatedAccount ---------------------------
(***************************************************************************)
(* Custom accounts that sign through other addresses:                      *)
(* src/examples/delegated-signers/contracts/delegated-asset-account/ and   *)
(* recursive-delegate-account/ (the two __check_auth are the same code).   *)
(*                                                                         *)
(* Root is a DelegatedAssetAccount that owns native XLM; the other Nodes   *)
(* are RecursiveDelegateAccounts.  Each stores a list of delegates in its  *)
(* constructor: accounts with a key (Leaves) or contracts again, deployed  *)
(* or not, in any number, itself included.                                 *)
(***************************************************************************)
EXTENDS Naturals, FiniteSets, Sequences, Functions

CONSTANTS
  Leaves,      \* the addresses of ordinary accounts
  Nodes,       \* the addresses of contract accounts
  Root,        \* the one that owns XLM
  Lists,       \* the lists of delegates in use
  Amounts,     \* amounts to deposit and withdraw
  MaxBalance   \* bound on the balance

Addresses == Leaves \cup Nodes

ASSUME DelegatedAccountAssumption ==
  /\ Root \in Nodes
  /\ Leaves \cap Nodes = {}
  /\ Lists \subseteq Seq(Addresses)
  /\ Amounts \subseteq Nat
  /\ MaxBalance \in Nat

VARIABLES
  nested_delegates,  \* the stored list of each deployed contract
  funded,            \* the leaves that are accounts of the ledger
  balance,           \* Root's XLM
  signed             \* who signed the last withdrawal          (history)

vars == <<nested_delegates, funded, balance, signed>>

Deployed == DOMAIN nested_delegates

TypeOK ==
  /\ Deployed \subseteq Nodes
  /\ nested_delegates \in [Deployed -> Lists]
  /\ funded \subseteq Leaves
  /\ balance \in 0..MaxBalance
  /\ signed \subseteq Leaves

Init ==
  /\ nested_delegates = [n \in {} |-> <<>>]
  /\ funded = {}
  /\ balance = 0
  /\ signed = {}

-----------------------------------------------------------------------------
(* Authorization.  What a transaction presents: for each contract the      *)
(* delegates supplied to it, and the leaves that signed.  The host takes   *)
(* no list that names an address twice (CAP-71).                           *)

Presentable(list) == IsInjective(list)

Credentials ==
  [delegates : [Deployed -> {list \in Lists : Presentable(list)}],
   signatures : SUBSET Leaves]

\* Mutants of CheckAuth: only membership is checked; the two lists are
\* compared as sets; they are compared as lists.
CheckAuthUncounted(supplied, expected) ==
  Range(supplied) \subseteq Range(expected)

CheckAuthOfSets(supplied, expected) == Range(supplied) = Range(expected)

CheckAuthInOrder(supplied, expected) == supplied = expected

\* The loops of __check_auth: as many as expected, and every one expected.
CheckAuth(supplied, expected) ==
  /\ Len(supplied) = Len(expected)
  /\ Range(supplied) \subseteq Range(expected)

\* delegate_auth(d) of every delegate, given the contracts that authorize.
DelegateAuth(credential, contracts, d) ==
  \/ d \in credential.signatures \cap funded
  \/ d \in contracts

Approves(credential, contracts, n) ==
  LET supplied == credential.delegates[n]
  IN  /\ CheckAuth(supplied, nested_delegates[n])
      /\ \A d \in Range(supplied) : DelegateAuth(credential, contracts, d)

\* Contracts authorize bottom-up, each once its delegates have: n is in
\* every set that is closed under approval.
Authorized(credential, n) ==
  \A contracts \in SUBSET Deployed :
    (\A m \in Deployed : Approves(credential, contracts, m) => m \in contracts)
    => n \in contracts

-----------------------------------------------------------------------------
(* What the stored lists ask for.                                          *)

\* The sets of addresses that hold the delegates of their contracts.
DownClosed ==
  {T \in SUBSET Addresses : \A n \in T \cap Deployed :
                              Range(nested_delegates[n]) \subseteq T}

\* The leaves at the end of every branch under an address.
Required(a) == {l \in Leaves : \A T \in DownClosed : a \in T => l \in T}

\* No list under n names an address twice or a contract that is missing,
\* and no branch comes back to where it was.
Usable(contracts, n) ==
  /\ IsInjective(nested_delegates[n])
  /\ Range(nested_delegates[n]) \subseteq Leaves \cup contracts

WellFormed(n) ==
  \A contracts \in SUBSET Deployed :
    (\A m \in Deployed : Usable(contracts, m) => m \in contracts)
    => n \in contracts

\* A credential that mirrors the stored lists, in whatever order.
Mirrors(credential) ==
  \A n \in Deployed :
    Range(credential.delegates[n]) = Range(nested_delegates[n])

-----------------------------------------------------------------------------
\* Friendbot.
Fund(l) ==
  /\ l \notin funded
  /\ funded' = funded \cup {l}
  /\ UNCHANGED <<nested_delegates, balance, signed>>

\* __constructor: a contract is constructed once.
Construct(n, list) ==
  /\ n \notin Deployed
  /\ nested_delegates' =
       [m \in Deployed \cup {n} |-> IF m = n THEN list ELSE nested_delegates[m]]
  /\ UNCHANGED <<funded, balance, signed>>

\* A transfer of native XLM to Root, by any account.
Deposit(from, amount) ==
  /\ from \in funded
  /\ amount > 0
  /\ balance + amount <= MaxBalance
  /\ balance' = balance + amount
  /\ UNCHANGED <<nested_delegates, funded, signed>>

\* Everything else that withdraw could answer leaves the ledger as it was.
Withdraw(to, amount, credential) ==
  /\ Root \in Deployed
  /\ amount > 0
  /\ to \in funded
  /\ amount <= balance
  /\ Authorized(credential, Root)
  /\ balance' = balance - amount
  /\ signed' = credential.signatures
  /\ UNCHANGED <<nested_delegates, funded>>

Next ==
  \/ \E l \in Leaves : Fund(l)
  \/ \E n \in Nodes, list \in Lists : Construct(n, list)
  \/ \E from \in Leaves, amount \in Amounts : Deposit(from, amount)
  \/ \E to \in Leaves, amount \in Amounts, credential \in Credentials :
       Withdraw(to, amount, credential)

Spec == Init /\ [][Next]_vars

-----------------------------------------------------------------------------
\* XLM leaves Root only if every leaf its tree ends in signed the withdrawal:
\* counting the supplied delegates and finding each among the expected ones
\* is enough at every level.
AllLeavesSign == [][balance' < balance => Required(Root) \subseteq signed']_vars

\* A list that names an address twice, a missing contract or a cycle keeps
\* what Root owns for good: no credential can satisfy it.
MalformedTreesKeepFunds == [][balance' < balance => WellFormed(Root)]_vars

\* The converse of both: over a well-formed tree, a credential that mirrors
\* it authorizes in any order of delegates, once every leaf is on the ledger
\* and signs.
MirrorsAreAccepted ==
  Root \in Deployed /\ WellFormed(Root) =>
    \A credential \in Credentials :
      Mirrors(credential) /\ Required(Root) \subseteq
                               credential.signatures \cap funded
      => Authorized(credential, Root)

=============================================================================
