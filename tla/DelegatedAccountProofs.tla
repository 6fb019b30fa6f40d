----------------------- MODULE DelegatedAccountProofs -----------------------
(***************************************************************************)
(* Proofs about DelegatedAccount: what the loops of __check_auth decide at *)
(* one contract, what that means for a tree of contracts, and the two      *)
(* action properties, for every tree.                                      *)
(***************************************************************************)
EXTENDS DelegatedAccount, FiniteSetTheorems, TLAPS

USE DelegatedAccountAssumption

\* A list has at most as many members as entries, and exactly as many when it
\* names nothing twice.
LEMMA MembersOfList ==
  ASSUME NEW list \in Seq(Addresses)
  PROVE  /\ IsFiniteSet(Range(list))
         /\ Cardinality(Range(list)) \in Nat
         /\ Cardinality(Range(list)) <= Len(list)
         /\ Cardinality(Range(list)) = Len(list) <=> IsInjective(list)
<1> DEFINE D == 1..Len(list)
<1>1. Len(list) \in Nat /\ DOMAIN list = D /\ list \in [D -> Range(list)]
  BY DEF Range
<1>2. IsFiniteSet(D) /\ Cardinality(D) = Len(list)
  BY <1>1, FS_Interval
<1>3. list \in Surjection(D, Range(list))
  BY <1>1 DEF Surjection, Range
<1>4. list \in Injection(D, Range(list)) <=> IsInjective(list)
  BY <1>1 DEF Injection
<1> HIDE DEF D
<1>5. /\ IsFiniteSet(Range(list))
      /\ Cardinality(Range(list)) <= Cardinality(D)
      /\ Cardinality(Range(list)) = Cardinality(D)
           <=> list \in Injection(D, Range(list))
  BY <1>2, <1>3, FS_Surjection
<1> QED
  BY <1>2, <1>4, <1>5, FS_CardinalityType

\* Counting and membership decide equality: of a list without repetitions,
\* __check_auth accepts the reorderings of the expected one and nothing else,
\* and nothing at all when the expected one repeats an address.
THEOREM CheckAuthDecides ==
  ASSUME NEW supplied \in Seq(Addresses), NEW expected \in Seq(Addresses),
         Presentable(supplied)
  PROVE  CheckAuth(supplied, expected) <=>
           IsInjective(expected) /\ Range(supplied) = Range(expected)
<1>1. /\ IsFiniteSet(Range(supplied)) /\ IsFiniteSet(Range(expected))
      /\ Cardinality(Range(supplied)) = Len(supplied)
      /\ Cardinality(Range(supplied)) \in Nat
      /\ Cardinality(Range(expected)) \in Nat
      /\ Cardinality(Range(expected)) <= Len(expected)
      /\ Cardinality(Range(expected)) = Len(expected) <=> IsInjective(expected)
  BY MembersOfList DEF Presentable
<1>2. ASSUME CheckAuth(supplied, expected)
      PROVE  IsInjective(expected) /\ Range(supplied) = Range(expected)
  <2>1. /\ Len(supplied) = Len(expected)
        /\ Range(supplied) \in SUBSET Range(expected)
    BY <1>2 DEF CheckAuth
  <2>2. Cardinality(Range(supplied)) <= Cardinality(Range(expected))
    BY <1>1, <2>1, FS_Subset
  <2>3. Cardinality(Range(expected)) = Cardinality(Range(supplied))
    BY <1>1, <2>1, <2>2
  <2> QED
    BY <1>1, <2>1, <2>3, FS_Subset
<1>3. ASSUME IsInjective(expected), Range(supplied) = Range(expected)
      PROVE  CheckAuth(supplied, expected)
  BY <1>1, <1>3 DEF CheckAuth
<1> QED
  BY <1>2, <1>3

-----------------------------------------------------------------------------
\* What a contract that approves knows about its delegates.
LEMMA Approval ==
  ASSUME TypeOK, NEW credential \in Credentials, NEW n \in Deployed,
         NEW contracts \in SUBSET Deployed
  PROVE  Approves(credential, contracts, n) <=>
           /\ IsInjective(nested_delegates[n])
           /\ Range(credential.delegates[n]) = Range(nested_delegates[n])
           /\ \A d \in Range(nested_delegates[n]) :
                DelegateAuth(credential, contracts, d)
<1>1. /\ credential.delegates[n] \in Seq(Addresses)
      /\ nested_delegates[n] \in Seq(Addresses)
      /\ Presentable(credential.delegates[n])
  BY DEF TypeOK, Credentials
<1> QED
  BY <1>1, CheckAuthDecides, Zenon DEF Approves

\* The delegates of a contract that approves are leaves or contracts.
LEMMA DelegatesAreAddresses ==
  ASSUME TypeOK, NEW n \in Deployed
  PROVE  Range(nested_delegates[n]) \subseteq Addresses
<1>1. nested_delegates[n] \in Seq(Addresses)
  BY DEF TypeOK
<1> QED
  BY <1>1 DEF Range

\* The addresses an address leads to: in every set that holds it.
Reach(a) == {b \in Addresses : \A T \in DownClosed : a \in T => b \in T}

LEMMA ReachIsDownClosed ==
  ASSUME TypeOK, NEW a \in Addresses
  PROVE  /\ a \in Reach(a)
         /\ Reach(a) \in DownClosed
<1>1. ASSUME NEW n \in Reach(a) \cap Deployed,
             NEW d \in Range(nested_delegates[n])
      PROVE  d \in Reach(a)
  <2>1. d \in Addresses
    BY DelegatesAreAddresses
  <2>2. ASSUME NEW T \in DownClosed, a \in T
        PROVE  d \in T
    BY <2>2 DEF Reach, DownClosed
  <2> QED
    BY <2>1, <2>2 DEF Reach
<1> QED
  BY <1>1 DEF Reach, DownClosed

\* A leaf leads to itself only.
LEMMA LeafReachesItself ==
  ASSUME TypeOK, NEW l \in Leaves, NEW m \in Required(l)
  PROVE  m = l
<1>1. {l} \in DownClosed
  BY DEF TypeOK, DownClosed, Addresses, Deployed
<1> QED
  BY <1>1 DEF Required

\* What a contract requires, one of its delegates requires.
LEMMA RequiredOfDelegates ==
  ASSUME TypeOK, NEW n \in Deployed, NEW l \in Required(n)
  PROVE  \E d \in Range(nested_delegates[n]) : l \in Required(d)
<1> DEFINE T == {n} \cup {a \in Addresses :
                    \E d \in Range(nested_delegates[n]) : a \in Reach(d)}
<1>1. n \in Nodes /\ n \in Addresses
  BY DEF TypeOK, Addresses
<1>2. T \in DownClosed
  <2>1. T \in SUBSET Addresses
    BY <1>1
  <2>2. ASSUME NEW m \in T \cap Deployed, NEW b \in Range(nested_delegates[m])
        PROVE  b \in T
    <3>1. b \in Addresses
      BY DelegatesAreAddresses
    <3>2. CASE m = n
      <4>1. b \in Reach(b)
        BY <3>1, ReachIsDownClosed
      <4> QED
        BY <3>1, <3>2, <4>1
    <3>3. CASE m # n
      <4>1. PICK d \in Range(nested_delegates[n]) : m \in Reach(d)
        BY <3>3
      <4>2. d \in Addresses
        BY DelegatesAreAddresses
      <4>3. b \in Reach(d)
        BY <4>1, <4>2, ReachIsDownClosed DEF DownClosed
      <4> QED
        BY <3>1, <4>3
    <3> QED
      BY <3>2, <3>3
  <2> QED
    BY <2>1, <2>2 DEF DownClosed
<1>3. l \in T /\ l \in Leaves
  BY <1>2 DEF Required
<1>4. PICK d \in Range(nested_delegates[n]) : l \in Reach(d)
  BY <1>1, <1>3
<1> QED
  BY <1>3, <1>4 DEF Reach, Required

\* What a delegate requires, its contract requires.
LEMMA RequiredThroughDelegate ==
  ASSUME NEW n \in Deployed, NEW d \in Range(nested_delegates[n])
  PROVE  Required(d) \subseteq Required(n)
BY DEF Required, DownClosed

-----------------------------------------------------------------------------
\* A contract that authorizes has the signature of every leaf it requires.
THEOREM AuthorizedBySignatures ==
  ASSUME TypeOK, NEW credential \in Credentials, NEW n \in Deployed,
         Authorized(credential, n)
  PROVE  Required(n) \subseteq credential.signatures \cap funded
<1> DEFINE live == credential.signatures \cap funded
           S == {m \in Deployed : Required(m) \subseteq live}
<1>1. ASSUME NEW m \in Deployed, Approves(credential, S, m),
             NEW l \in Required(m)
      PROVE  l \in live
  <2>1. PICK d \in Range(nested_delegates[m]) : l \in Required(d)
    BY RequiredOfDelegates
  <2>2. DelegateAuth(credential, S, d)
    BY <1>1, Approval
  <2>3. CASE d \in live
    <3>1. d \in Leaves
      BY <2>3 DEF TypeOK
    <3> QED
      BY <2>1, <2>3, <3>1, LeafReachesItself
  <2>4. CASE d \in S
    BY <2>1, <2>4
  <2> QED
    BY <2>2, <2>3, <2>4 DEF DelegateAuth
<1>2. S \in SUBSET Deployed
  OBVIOUS
<1>3. n \in S
  BY <1>1, <1>2, Zenon DEF Authorized
<1> QED
  BY <1>3

\* A contract that authorizes has a well-formed tree.
THEOREM AuthorizedIsWellFormed ==
  ASSUME TypeOK, NEW credential \in Credentials, NEW n \in Deployed,
         Authorized(credential, n)
  PROVE  WellFormed(n)
<1> SUFFICES ASSUME NEW S \in SUBSET Deployed,
                    \A m \in Deployed : Usable(S, m) => m \in S
             PROVE  n \in S
  BY DEF WellFormed
<1>1. ASSUME NEW m \in Deployed, Approves(credential, S, m)
      PROVE  m \in S
  <2>1. \A d \in Range(nested_delegates[m]) : d \in Leaves \cup S
    BY <1>1, Approval DEF DelegateAuth, TypeOK
  <2>2. IsInjective(nested_delegates[m])
    BY <1>1, Approval
  <2> QED
    BY <2>1, <2>2 DEF Usable
<1> QED
  BY <1>1 DEF Authorized

\* Over a well-formed tree, a credential that mirrors it and has the required
\* signatures authorizes.
THEOREM MirrorAuthorizes ==
  ASSUME TypeOK, NEW credential \in Credentials, NEW n \in Deployed,
         WellFormed(n), Mirrors(credential),
         Required(n) \subseteq credential.signatures \cap funded
  PROVE  Authorized(credential, n)
<1> DEFINE live == credential.signatures \cap funded
<1> SUFFICES ASSUME NEW S \in SUBSET Deployed,
                    \A m \in Deployed : Approves(credential, S, m) => m \in S
             PROVE  n \in S
  BY DEF Authorized
<1> DEFINE C == {m \in Deployed : Required(m) \subseteq live => m \in S}
<1>1. ASSUME NEW m \in Deployed, Usable(C, m), Required(m) \subseteq live
      PROVE  m \in S
  <2>1. ASSUME NEW d \in Range(nested_delegates[m])
        PROVE  DelegateAuth(credential, S, d)
    <3>1. Required(d) \subseteq live
      BY <1>1, <2>1, RequiredThroughDelegate
    <3>2. CASE d \in Leaves
      <4>1. d \in Required(d)
        BY <3>2 DEF Required
      <4> QED
        BY <3>1, <4>1 DEF DelegateAuth
    <3>3. CASE d \in C
      BY <3>1, <3>3 DEF DelegateAuth
    <3> QED
      BY <1>1, <2>1, <3>2, <3>3 DEF Usable
  <2>2. Approves(credential, S, m)
    BY <1>1, <2>1, Approval DEF Usable, Mirrors
  <2> QED
    BY <2>2
<1>2. n \in C
  BY <1>1, Zenon DEF WellFormed
<1> QED
  BY <1>2

-----------------------------------------------------------------------------
\* The state keeps its type: TypeOK is inductive.
LEMMA TypeInit == Init => TypeOK
BY DEF Init, TypeOK, Deployed

LEMMA TypeStep == TypeOK /\ [Next]_vars => TypeOK'
<1> SUFFICES ASSUME TypeOK, [Next]_vars
             PROVE  TypeOK'
  OBVIOUS
<1> USE DEF TypeOK, Deployed
<1>1. ASSUME NEW l \in Leaves, Fund(l)
      PROVE  TypeOK'
  BY <1>1 DEF Fund
<1>2. ASSUME NEW n \in Nodes, NEW list \in Lists, Construct(n, list)
      PROVE  TypeOK'
  <2>1. DOMAIN nested_delegates' = DOMAIN nested_delegates \cup {n}
    BY <1>2 DEF Construct
  <2>2. nested_delegates' \in [DOMAIN nested_delegates' -> Lists]
    BY <1>2 DEF Construct
  <2> QED
    BY <1>2, <2>1, <2>2 DEF Construct
<1>3. ASSUME NEW from \in Leaves, NEW amount \in Amounts, Deposit(from, amount)
      PROVE  TypeOK'
  BY <1>3 DEF Deposit
<1>4. ASSUME NEW to \in Leaves, NEW amount \in Amounts,
             NEW credential \in Credentials, Withdraw(to, amount, credential)
      PROVE  TypeOK'
  BY <1>4 DEF Withdraw, Credentials
<1>5. CASE UNCHANGED vars
  BY <1>5 DEF vars
<1> QED
  BY <1>1, <1>2, <1>3, <1>4, <1>5 DEF Next

\* The accounts' state keeps its type, for every set of lists and amounts.
THEOREM TypeCorrect == Spec => []TypeOK
BY TypeInit, TypeStep, PTL DEF Spec

\* A step that takes XLM from Root is a withdrawal that Root authorized.
LEMMA OnlyWithdrawalsPay ==
  ASSUME TypeOK, [Next]_vars, balance' < balance
  PROVE  /\ Root \in Deployed
         /\ \E credential \in Credentials :
              Authorized(credential, Root) /\ signed' = credential.signatures
<1>1. /\ \A l \in Leaves : ~Fund(l)
      /\ \A n \in Nodes, list \in Lists : ~Construct(n, list)
      /\ \A from \in Leaves, amount \in Amounts : ~Deposit(from, amount)
      /\ ~UNCHANGED vars
  BY DEF TypeOK, Fund, Construct, Deposit, vars
<1>2. PICK to \in Leaves, amount \in Amounts, credential \in Credentials :
        Withdraw(to, amount, credential)
  BY <1>1 DEF Next
<1> QED
  BY <1>2 DEF Withdraw

\* XLM leaves Root only if every leaf of its tree signed, for every tree.
THEOREM EveryLeafSigns == Spec => AllLeavesSign
<1>1. TypeOK /\ [Next]_vars
        => [balance' < balance => Required(Root) \subseteq signed']_vars
  BY OnlyWithdrawalsPay, AuthorizedBySignatures
<1> QED
  BY <1>1, TypeCorrect, PTL DEF Spec, AllLeavesSign

\* A malformed tree keeps Root's XLM, for every list a constructor can store.
THEOREM MalformedTreesPayNothing == Spec => MalformedTreesKeepFunds
<1>1. TypeOK /\ [Next]_vars
        => [balance' < balance => WellFormed(Root)]_vars
  BY OnlyWithdrawalsPay, AuthorizedIsWellFormed
<1> QED
  BY <1>1, TypeCorrect, PTL DEF Spec, MalformedTreesKeepFunds

\* A signed mirror of a well-formed tree is always accepted.
THEOREM SignedMirrorsAuthorize == Spec => []MirrorsAreAccepted
<1>1. TypeOK => MirrorsAreAccepted
  BY MirrorAuthorizes DEF MirrorsAreAccepted
<1> QED
  BY <1>1, TypeCorrect, PTL
=============================================================================
