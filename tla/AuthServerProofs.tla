-------------------------- MODULE AuthServerProofs --------------------------
(***************************************************************************)
(* Proofs about the SEP-10 fixture, for any number of accounts, challenges *)
(* and exchanges, any capacity and any lifetimes: its state is well typed, *)
(* a challenge is redeemed at most once, and the server implements         *)
(* ChallengeService.                                                       *)
(***************************************************************************)
EXTENDS AuthServer, FiniteSetTheorems, WellFoundedInduction, TLAPS

\* The inductive invariant.  TypeOK alone is not inductive: the second RPC
\* call looks up the account of the presented challenge, which must have been
\* built.
IInv == TypeOK /\ Bookkeeping /\ SingleRedemption

\* An exchange settles in one of two ways: it takes its challenge out of the
\* table and gets a token, or it changes nothing but its own progress.
LEMMA SettleCases ==
  ASSUME NEW r \in Requests, NEW state, Settle(r, state)
  PROVE  \/ Fail(r)
         \/ /\ exchange[r].chal \in challenges
            /\ exchange' = [exchange EXCEPT ![r].pc = "token"]
            /\ challenges' = challenges \ {exchange[r].chal}
  BY DEF Settle, Outcome, Fail, Consumable

\* The three outcomes of an answered RPC call.
SecondCall(r) ==
  /\ exchange[r].pc = "entries"
  /\ Enter(r, exchange[r].chal, exchange[r].sigs, "account")
  /\ challenges' = challenges

GetsToken(r) ==
  /\ exchange[r].chal \in challenges
  /\ exchange' = [exchange EXCEPT ![r].pc = "token"]
  /\ challenges' = challenges \ {exchange[r].chal}

LEMMA RpcOutcomes ==
  ASSUME NEW r \in Requests, RpcAnswers(r)
  PROVE  /\ UNCHANGED <<serverKey, issued, ledger>>
         /\ InFlight(r)
         /\ Fail(r) \/ GetsToken(r) \/ SecondCall(r)
<1>1. CASE EntriesReturned(r)
  <2>1. CASE Settle(r, Unfunded)
    BY <1>1, <2>1, SettleCases DEF EntriesReturned, GetsToken, InFlight
  <2>2. CASE ~Settle(r, Unfunded)
    BY <1>1, <2>2 DEF EntriesReturned, SecondCall, InFlight
  <2> QED  BY <2>1, <2>2
<1>2. CASE AccountReturned(r)
  <2>1. PICK state \in exchange[r].seen :
          IF state = Unfunded THEN Fail(r) ELSE Settle(r, state)
    BY <1>2 DEF AccountReturned
  <2> QED
    BY <1>2, <2>1, SettleCases DEF AccountReturned, GetsToken, InFlight
<1>3. CASE RpcFails(r)
  BY <1>3 DEF RpcFails
<1> QED  BY <1>1, <1>2, <1>3 DEF RpcAnswers

\* POST /auth before its first await: the exchange remembers what it presents,
\* and the table only shrinks.
LEMMA PostOutcomes ==
  ASSUME NEW r \in Requests, NEW c \in Challenges,
         NEW sigs \in SignatureSets, PostAuth(r, c, sigs)
  PROVE  /\ UNCHANGED <<serverKey, issued, ledger>>
         /\ exchange[r].pc = "idle"
         /\ issued[c] # NotIssued
         /\ challenges' \subseteq challenges
         /\ \E p \in {"refused", "entries"} : Enter(r, c, sigs, p)
  BY DEF PostAuth, RejectUnreadable, RejectUnknown, LookUp, Unexpired

-----------------------------------------------------------------------------

\* The constants, as far as the state and the steps are built from them.
LEMMA ConstantTypes ==
  /\ SignatureSets \subseteq SUBSET Keys
  /\ NoChallenge \notin Challenges
  /\ MaxRestarts \in Nat
  /\ Lifetime \in Nat \ {0}
  /\ Grace \in Nat
  BY AuthAssumption

LEMMA InitIInv == Init => IInv
  BY AuthAssumption
  DEF Init, IInv, TypeOK, Idle, Exchange, Progress, Bookkeeping,
      PendingWasBuilt, PresentedWasBuilt, RedeemedHasLeft, SingleRedemption,
      HasToken

LEMMA EnterTypeOK ==
  ASSUME TypeOK, NEW r \in Requests, NEW c \in Challenges,
         NEW sigs \in SUBSET Keys, NEW p \in Progress,
         issued[c] # NotIssued, Enter(r, c, sigs, p)
  PROVE  exchange' \in [Requests -> Exchange]
<1> DEFINE x == [pc |-> p, chal |-> c, sigs |-> sigs,
                 seen |-> IF p = "refused" THEN {}
                          ELSE {ledger[issued[c].account]}]
<1>1. issued[c] \in Built
  BY DEF TypeOK
<1>2. {ledger[issued[c].account]} \subseteq LedgerStates
  BY <1>1 DEF TypeOK, Built
<1>3. x \in Exchange
  BY <1>2 DEF Exchange
<1>4. exchange' = [exchange EXCEPT ![r] = x]
  BY DEF Enter
<1> QED  BY <1>3, <1>4 DEF TypeOK

LEMMA NextTypeOK == IInv /\ [Next]_vars => TypeOK'
<1> USE ConstantTypes
<1> SUFFICES ASSUME TypeOK, PresentedWasBuilt, [Next]_vars
             PROVE  TypeOK'
  BY DEF IInv, Bookkeeping
<1>1. ASSUME NEW a \in Accounts, GetAuth(a)
      PROVE  TypeOK'
  <2>1. CASE IssueChallenge(a)
    <3>1. [account |-> a, key |-> serverKey, age |-> 0] \in Built
      BY DEF TypeOK, Built, Stale
    <3> QED  BY <2>1, <3>1 DEF IssueChallenge, NewRecord, Unexpired, TypeOK
  <2>2. CASE RejectAtCapacity
    BY <2>2 DEF RejectAtCapacity, Unexpired, TypeOK
  <2> QED  BY <1>1, <2>1, <2>2 DEF GetAuth
<1>2. ASSUME NEW r \in Requests, NEW c \in Challenges,
             NEW sigs \in SignatureSets, PostAuth(r, c, sigs)
      PROVE  TypeOK'
  <2>1. PICK p \in {"refused", "entries"} : Enter(r, c, sigs, p)
    BY <1>2, PostOutcomes
  <2>2. exchange' \in [Requests -> Exchange]
    BY <1>2, <2>1, EnterTypeOK, PostOutcomes DEF Progress
  <2> QED  BY <1>2, <2>2, PostOutcomes DEF TypeOK
<1>3. ASSUME NEW r \in Requests, RpcAnswers(r)
      PROVE  TypeOK'
  <2>1. CASE Fail(r)
    BY <1>3, <2>1, RpcOutcomes DEF Fail, TypeOK, Exchange, Progress
  <2>2. CASE GetsToken(r)
    BY <1>3, <2>2, RpcOutcomes DEF GetsToken, TypeOK, Exchange, Progress
  <2>3. CASE SecondCall(r)
    <3>1. /\ exchange[r].chal \in Challenges
          /\ issued[exchange[r].chal] # NotIssued
      BY <2>3 DEF SecondCall, PresentedWasBuilt
    <3>2. exchange[r].sigs \in SUBSET Keys
      BY DEF TypeOK, Exchange
    <3>3. exchange' \in [Requests -> Exchange]
      BY <2>3, <3>1, <3>2, EnterTypeOK DEF SecondCall, Progress
    <3> QED  BY <1>3, <2>3, <3>3, RpcOutcomes DEF SecondCall, TypeOK
  <2> QED  BY <1>3, <2>1, <2>2, <2>3, RpcOutcomes
<1>4. CASE Tick
  <2>1. ASSUME NEW c \in Challenges, issued[c] # NotIssued,
               issued[c].age # Stale
        PROVE  [issued[c] EXCEPT !.age = @ + 1] \in Built
    BY <2>1 DEF TypeOK, Built, Stale
  <2> QED  BY <1>4, <2>1 DEF Tick, TypeOK
<1>5. ASSUME NEW a \in Accounts, LedgerChanges(a)
      PROVE  TypeOK'
  BY <1>5 DEF LedgerChanges, TypeOK, Exchange
<1>6. CASE Restart
  BY <1>6 DEF Restart, TypeOK, Exchange, Progress
<1>7. CASE UNCHANGED vars
  BY <1>7 DEF vars, TypeOK
<1> QED
  BY <1>1, <1>2, <1>3, <1>4, <1>5, <1>6, <1>7 DEF Next

LEMMA NextBookkeeping == IInv /\ [Next]_vars => Bookkeeping'
<1> SUFFICES ASSUME TypeOK, Bookkeeping, [Next]_vars
             PROVE  Bookkeeping'
  BY DEF IInv
<1> USE DEF Bookkeeping, PendingWasBuilt, PresentedWasBuilt, RedeemedHasLeft,
            HasToken
<1>1. ASSUME NEW a \in Accounts, GetAuth(a)
      PROVE  Bookkeeping'
  <2>1. CASE IssueChallenge(a)
    <3>1. PICK c \in Challenges :
            /\ issued[c] = NotIssued
            /\ challenges' = Unexpired \cup {c}
            /\ issued' = [issued EXCEPT ![c] =
                 [account |-> a, key |-> serverKey, age |-> 0]]
      BY <2>1 DEF IssueChallenge, NewRecord
    <3>2. [account |-> a, key |-> serverKey, age |-> 0] # NotIssued
      BY AuthAssumption DEF TypeOK
    <3>3. UNCHANGED exchange
      BY <2>1 DEF IssueChallenge
    <3> QED  BY <3>1, <3>2, <3>3 DEF Unexpired, TypeOK
  <2>2. CASE RejectAtCapacity
    BY <2>2 DEF RejectAtCapacity, Unexpired
  <2> QED  BY <1>1, <2>1, <2>2 DEF GetAuth
<1>2. ASSUME NEW r \in Requests, NEW c \in Challenges,
             NEW sigs \in SignatureSets, PostAuth(r, c, sigs)
      PROVE  Bookkeeping'
  BY <1>2, PostOutcomes DEF Enter, TypeOK
<1>3. ASSUME NEW r \in Requests, RpcAnswers(r)
      PROVE  Bookkeeping'
  <2>1. exchange[r].pc \in {"entries", "account"}
    BY <1>3, RpcOutcomes DEF InFlight
  <2>2. CASE Fail(r)
    BY <1>3, <2>1, <2>2, RpcOutcomes DEF Fail, TypeOK, Exchange
  <2>3. CASE GetsToken(r)
    BY <1>3, <2>1, <2>3, RpcOutcomes DEF GetsToken, TypeOK, Exchange
  <2>4. CASE SecondCall(r)
    BY <1>3, <2>1, <2>4, RpcOutcomes DEF SecondCall, Enter, TypeOK, Exchange
  <2> QED  BY <1>3, <2>2, <2>3, <2>4, RpcOutcomes
<1>4. CASE Tick
  <2>1. ASSUME NEW c \in Challenges, issued[c] # NotIssued
        PROVE  issued'[c] # NotIssued
    BY <1>4, <2>1, AuthAssumption DEF Tick, TypeOK, Built, Stale
  <2> QED  BY <1>4, <2>1 DEF Tick, TypeOK
<1>5. ASSUME NEW a \in Accounts, LedgerChanges(a)
      PROVE  Bookkeeping'
  BY <1>5 DEF LedgerChanges, TypeOK, Exchange
<1>6. CASE Restart
  BY <1>6 DEF Restart, InFlight, TypeOK, Exchange
<1>7. CASE UNCHANGED vars
  BY <1>7 DEF vars
<1> QED
  BY <1>1, <1>2, <1>3, <1>4, <1>5, <1>6, <1>7 DEF Next

\* Only a challenge still in the table becomes a token, and the exchanges that
\* hold one hold challenges that have left it.
LEMMA NextSingleRedemption == IInv /\ [Next]_vars => SingleRedemption'
<1> SUFFICES ASSUME TypeOK, RedeemedHasLeft, SingleRedemption, [Next]_vars
             PROVE  SingleRedemption'
  BY DEF IInv, Bookkeeping
<1> USE DEF SingleRedemption, HasToken
<1>1. ASSUME NEW a \in Accounts, GetAuth(a)
      PROVE  SingleRedemption'
  BY <1>1 DEF GetAuth, IssueChallenge, RejectAtCapacity
<1>2. ASSUME NEW r \in Requests, NEW c \in Challenges,
             NEW sigs \in SignatureSets, PostAuth(r, c, sigs)
      PROVE  SingleRedemption'
  BY <1>2, PostOutcomes DEF Enter, TypeOK
<1>3. ASSUME NEW r \in Requests, RpcAnswers(r)
      PROVE  SingleRedemption'
  <2>1. CASE Fail(r)
    BY <1>3, <2>1, RpcOutcomes DEF Fail, TypeOK, Exchange
  <2>2. CASE GetsToken(r)
    BY <1>3, <2>2, RpcOutcomes
    DEF GetsToken, RedeemedHasLeft, TypeOK, Exchange
  <2>3. CASE SecondCall(r)
    BY <1>3, <2>3, RpcOutcomes DEF SecondCall, Enter, TypeOK, Exchange
  <2> QED  BY <1>3, <2>1, <2>2, <2>3, RpcOutcomes
<1>4. CASE Tick
  BY <1>4 DEF Tick
<1>5. ASSUME NEW a \in Accounts, LedgerChanges(a)
      PROVE  SingleRedemption'
  BY <1>5 DEF LedgerChanges, TypeOK, Exchange
<1>6. CASE Restart
  BY <1>6 DEF Restart, InFlight, TypeOK, Exchange
<1>7. CASE UNCHANGED vars
  BY <1>7 DEF vars
<1> QED
  BY <1>1, <1>2, <1>3, <1>4, <1>5, <1>6, <1>7 DEF Next

LEMMA Inductive == Spec => []IInv
<1>1. IInv /\ [Next]_vars => IInv'
  BY NextTypeOK, NextBookkeeping, NextSingleRedemption DEF IInv
<1> QED  BY <1>1, InitIInv, PTL DEF Spec

-----------------------------------------------------------------------------

\* Every reachable state is well typed: exchanges hold known challenges,
\* built challenges carry an account, a key and a bounded age.
THEOREM TypeCorrect == Spec => []TypeOK
<1>1. IInv => TypeOK
  BY DEF IInv
<1> QED  BY <1>1, Inductive, PTL

\* Every challenge in the table or on its way was built here, and one that
\* became a token has left the table.
THEOREM TableCorrect == Spec => []Bookkeeping
<1>1. IInv => Bookkeeping
  BY DEF IInv
<1> QED  BY <1>1, Inductive, PTL

\* Whatever the interleaving of concurrent exchanges, expiry, ledger changes
\* and restarts, no challenge is redeemed twice (server.ts:117).
THEOREM RedeemedOnce == Spec => []SingleRedemption
<1>1. IInv => SingleRedemption
  BY DEF IInv
<1> QED  BY <1>1, Inductive, PTL

(* Capacity.                                                               *)

LEMMA NextCapacity ==
  IInv /\ IsFiniteSet(challenges) /\ PendingWithinCapacity /\ [Next]_vars
    => (IsFiniteSet(challenges) /\ PendingWithinCapacity)'
<1> SUFFICES ASSUME TypeOK, IsFiniteSet(challenges), PendingWithinCapacity,
                    [Next]_vars
             PROVE  IsFiniteSet(challenges') /\ Cardinality(challenges') <= MaxPending
  BY DEF IInv, PendingWithinCapacity
<1> USE AuthAssumption DEF PendingWithinCapacity
\* Dropping entries keeps the table small.
<1>1. ASSUME challenges' \subseteq challenges
      PROVE  IsFiniteSet(challenges') /\ Cardinality(challenges') <= MaxPending
  <2>1. IsFiniteSet(challenges') /\ Cardinality(challenges') <= Cardinality(challenges)
    BY <1>1, FS_Subset
  <2> QED  BY <2>1, FS_CardinalityType
<1>2. ASSUME NEW a \in Accounts, IssueChallenge(a)
      PROVE  IsFiniteSet(challenges') /\ Cardinality(challenges') <= MaxPending
  <2>1. PICK c \in Challenges : challenges' = Unexpired \cup {c}
    BY <1>2 DEF IssueChallenge
  <2>2. IsFiniteSet(Unexpired) /\ Cardinality(Unexpired) \in Nat
    BY FS_Subset, FS_CardinalityType DEF Unexpired
  <2>3. /\ IsFiniteSet(Unexpired \cup {c})
        /\ Cardinality(Unexpired \cup {c}) = IF c \in Unexpired
                                            THEN Cardinality(Unexpired)
                                            ELSE Cardinality(Unexpired) + 1
    BY <2>2, FS_AddElement, Zenon
  <2>4. Cardinality(Unexpired \cup {c}) <= Cardinality(Unexpired) + 1
    BY <2>2, <2>3
  <2>5. Cardinality(Unexpired) < MaxPending
    BY <1>2 DEF IssueChallenge, HasCapacity
  <2>6. Cardinality(Unexpired \cup {c}) \in Nat
    BY <2>3, FS_CardinalityType
  <2>7. Cardinality(Unexpired \cup {c}) <= MaxPending
    BY <2>2, <2>4, <2>5, <2>6
  <2> QED  BY <2>1, <2>3, <2>7
<1>3. ASSUME NEW r \in Requests, RpcAnswers(r)
      PROVE  challenges' \subseteq challenges
  BY <1>3, RpcOutcomes DEF Fail, GetsToken, SecondCall
<1>4. ASSUME NEW r \in Requests, NEW c \in Challenges,
             NEW sigs \in SignatureSets, PostAuth(r, c, sigs)
      PROVE  challenges' \subseteq challenges
  BY <1>4, PostOutcomes
<1>5. RejectAtCapacity => challenges' \subseteq challenges
  BY DEF RejectAtCapacity, Unexpired
<1>6. ASSUME Tick \/ Restart \/ (\E a \in Accounts : LedgerChanges(a))
             \/ UNCHANGED vars
      PROVE  challenges' \subseteq challenges
  BY <1>6 DEF Tick, Restart, LedgerChanges, vars
<1> QED  BY <1>1, <1>2, <1>3, <1>4, <1>5, <1>6 DEF Next, GetAuth

\* The table of pending challenges never exceeds its limit (server.ts:154).
THEOREM CapacityHolds == Spec => []PendingWithinCapacity
<1>1. Init => IsFiniteSet(challenges) /\ PendingWithinCapacity
  BY FS_EmptySet, AuthAssumption DEF Init, PendingWithinCapacity
<1> QED  BY <1>1, Inductive, NextCapacity, PTL DEF Spec

\* The table of pending challenges is well formed and within its limit
\* (server.ts:154-174), for every limit.
THEOREM TableStaysOK == Spec => []TableOK
<1>1. TypeOK /\ PendingWithinCapacity => TableOK
  BY DEF TableOK
<1> QED  BY <1>1, TypeCorrect, CapacityHolds, PTL

-----------------------------------------------------------------------------

(* Action properties.                                                      *)

\* A token is the answer to an RPC call of its own exchange, and the challenge
\* was read once more at that moment.
LEMMA NewTokens ==
  ASSUME IInv, [Next]_vars, NEW r \in Requests, InFlight(r), HasToken(r)'
  PROVE  Readable(exchange[r].chal)
<1> USE DEF IInv, TypeOK, Exchange, HasToken, InFlight
<1>1. PICK q \in Requests : RpcAnswers(q)
  <2>1. ASSUME NEW p \in Requests, NEW c \in Challenges,
               NEW sigs \in SignatureSets, PostAuth(p, c, sigs)
        PROVE  FALSE
    BY <2>1, PostOutcomes DEF Enter
  <2>2. ~UNCHANGED exchange
    OBVIOUS
  <2>3. ASSUME NEW a \in Accounts PROVE ~GetAuth(a) /\ ~LedgerChanges(a)
    BY <2>2, <2>3 DEF GetAuth, IssueChallenge, RejectAtCapacity, LedgerChanges
  <2>4. ~Tick /\ ~Restart /\ ~UNCHANGED vars
    BY <2>2 DEF Tick, Restart, vars
  <2> QED  BY <2>1, <2>3, <2>4 DEF Next
<1>2. q = r
  BY <1>1, RpcOutcomes DEF Fail, GetsToken, SecondCall, Enter
<1>3. PICK state : Settle(r, state)
  BY <1>1, <1>2 DEF RpcAnswers, EntriesReturned, AccountReturned, RpcFails,
                    Fail, Enter
<1>4. Verified(r, state)
  BY <1>3 DEF Settle, Outcome
<1> QED  BY <1>4 DEF Verified, VerifyThreshold

\* An exchange that outlives its challenge gets no token past the SDK's grace
\* period, however slow the RPC node is.
THEOREM LateRedemption == Spec => LateRedemptionBounded
<1>1. IInv /\ [Next]_vars =>
        [\A r \in Requests :
           InFlight(r) /\ HasToken(r)' =>
             issued[exchange[r].chal].age <= Lifetime + Grace]_vars
  BY NewTokens DEF Readable
<1> QED  BY <1>1, Inductive, PTL DEF Spec, LateRedemptionBounded

\* A live challenge leaves the table with its own token or with the process.
LEMMA NextKeeps ==
  ASSUME IInv, [Next]_vars, NEW c \in Unexpired \ challenges',
         serverKey' = serverKey
  PROVE  \E r \in Requests :
           InFlight(r) /\ HasToken(r)' /\ exchange[r].chal = c
<1>1. c \in challenges
  BY DEF Unexpired
<1>2. ASSUME NEW a \in Accounts PROVE ~GetAuth(a)
  BY DEF GetAuth, IssueChallenge, RejectAtCapacity
<1>3. ASSUME NEW p \in Requests, NEW d \in Challenges, NEW sigs \in SignatureSets
      PROVE  ~PostAuth(p, d, sigs)
  BY <1>1 DEF PostAuth, RejectUnreadable, RejectUnknown, LookUp
<1>4. ~Tick /\ ~UNCHANGED vars /\ \A a \in Accounts : ~LedgerChanges(a)
  BY <1>1 DEF Tick, LedgerChanges, vars
<1>5. ~Restart
  BY DEF Restart, IInv, TypeOK
<1>6. PICK r \in Requests : RpcAnswers(r)
  BY <1>2, <1>3, <1>4, <1>5 DEF Next
<1>7. InFlight(r) /\ GetsToken(r)
  BY <1>1, <1>6, RpcOutcomes DEF Fail, SecondCall
<1>8. exchange[r].chal = c
  BY <1>1, <1>7 DEF GetsToken
<1>9. HasToken(r)'
  BY <1>7 DEF GetsToken, HasToken, IInv, TypeOK, Exchange
<1> QED  BY <1>7, <1>8, <1>9

\* No rejected exchange and no pruning takes a live challenge from its owner.
THEOREM LiveChallengesStay == Spec => LiveChallengesAreKept
<1>1. IInv /\ [Next]_vars =>
        [\A c \in Unexpired \ challenges' :
           \/ serverKey' # serverKey
           \/ \E r \in Requests : /\ InFlight(r)
                                  /\ HasToken(r)'
                                  /\ exchange[r].chal = c]_vars
  BY NextKeeps
<1> QED  BY <1>1, Inductive, PTL DEF Spec, LiveChallengesAreKept

-----------------------------------------------------------------------------

(* Refinement.                                                             *)

\* The open challenges of the service are the table of the server.
LEMMA OpenIsTable ==
  ASSUME IInv
  PROVE  Service!Open = challenges
<1>1. ASSUME NEW c \in Challenges
      PROVE  StatusOf(c) = "open" <=> c \in challenges
  BY DEF StatusOf, IInv, Bookkeeping, RedeemedHasLeft
<1>2. challenges \subseteq Challenges
  BY DEF IInv, TypeOK
<1> QED  BY <1>1, <1>2 DEF Service!Open

\* The instance brings its own copy of the library's Cardinality.
LEMMA SameCardinality ==
  \A S : Service!Cardinality(S) = Cardinality(S)
  BY DEF Service!Cardinality, Cardinality

LEMMA InitRefines == Init => Service!Init
  BY DEF Init, Idle, Service!Init, StatusOf, HolderOf, HasToken

\* What a step shows to the service when no exchange gets or loses a token.
LEMMA SameHolders ==
  ASSUME IInv, \A r \in Requests : HasToken(r)' = HasToken(r),
         \A r \in Requests : HasToken(r) => exchange'[r].chal = exchange[r].chal
  PROVE  /\ [r \in Requests |-> HolderOf(r)]' = [r \in Requests |-> HolderOf(r)]
         /\ \A c \in Challenges :
              (\E r \in Requests : HasToken(r) /\ exchange[r].chal = c)'
              <=> (\E r \in Requests : HasToken(r) /\ exchange[r].chal = c)
  BY DEF HolderOf, HasToken

\* Challenges that leave the table without a token lapse.
LEMMA LapseRefines ==
  ASSUME IInv, \A r \in Requests : HasToken(r)' = HasToken(r),
         \A r \in Requests : HasToken(r) => exchange'[r].chal = exchange[r].chal,
         challenges' \subseteq challenges,
         \A c \in Challenges : issued'[c] = NotIssued <=> issued[c] = NotIssued
  PROVE  Service!Next
<1> DEFINE gone == challenges \ challenges'
<1>1. gone \in SUBSET Service!Open
  BY OpenIsTable
<1>2. ASSUME NEW c \in Challenges
      PROVE  StatusOf(c)' = IF c \in gone THEN "lapsed" ELSE StatusOf(c)
  BY SameHolders DEF StatusOf, IInv, Bookkeeping, RedeemedHasLeft,
     PendingWasBuilt, TypeOK
<1>3. [c \in Challenges |-> StatusOf(c)]' = Service!Lapse(gone)
  BY <1>2 DEF Service!Lapse
<1>4. Service!Forget(gone)
  BY <1>3, SameHolders DEF Service!Forget
<1> QED  BY <1>1, <1>4 DEF Service!Next

LEMMA NextRefines == IInv /\ [Next]_vars => [Service!Next]_(Service!vars)
<1> SUFFICES ASSUME IInv, [Next]_vars
             PROVE  [Service!Next]_(Service!vars)
  OBVIOUS
<1> USE DEF IInv
<1>1. ASSUME NEW a \in Accounts, GetAuth(a)
      PROVE  Service!Next
  <2>1. CASE IssueChallenge(a)
    <3>1. PICK c \in Challenges :
            /\ issued[c] = NotIssued
            /\ challenges' = Unexpired \cup {c}
            /\ issued' = [issued EXCEPT ![c] =
                 [account |-> a, key |-> serverKey, age |-> 0]]
      BY <2>1 DEF IssueChallenge, NewRecord
    <3>2. UNCHANGED exchange
      BY <2>1 DEF IssueChallenge
    <3> DEFINE gone == challenges \ Unexpired
    <3>3. gone \in SUBSET Service!Open
      BY OpenIsTable
    <3>4. Service!Open \ gone = Unexpired
      BY OpenIsTable DEF Unexpired
    <3>5. [account |-> a, key |-> serverKey, age |-> 0] # NotIssued
      BY AuthAssumption DEF TypeOK
    <3>6. \A r \in Requests : HasToken(r)' = HasToken(r)
      BY <3>2 DEF HasToken
    <3>7. c \notin challenges /\ ~\E r \in Requests :
                                  HasToken(r) /\ exchange[r].chal = c
      BY <3>1 DEF Bookkeeping, PendingWasBuilt, PresentedWasBuilt, HasToken
    <3>8. ASSUME NEW d \in Challenges
          PROVE  StatusOf(d)' = IF d = c THEN "open"
                                ELSE IF d \in gone THEN "lapsed"
                                ELSE StatusOf(d)
      <4>1. (\E r \in Requests : HasToken(r) /\ exchange[r].chal = d)'
            <=> (\E r \in Requests : HasToken(r) /\ exchange[r].chal = d)
        BY <3>2 DEF HasToken
      <4>2. d # c => issued'[d] = issued[d]
        BY <3>1 DEF TypeOK
      <4>3. CASE d = c
        BY <3>1, <3>7, <4>1, <4>3 DEF StatusOf
      <4>4. CASE d # c
        BY <3>1, <4>1, <4>2, <4>4
        DEF StatusOf, Unexpired, Bookkeeping, RedeemedHasLeft, PendingWasBuilt
      <4> QED  BY <4>3, <4>4
    <3>9. StatusOf(c) = "unissued"
      BY <3>1, <3>7 DEF StatusOf
    <3>10. [d \in Challenges |-> StatusOf(d)]' =
             [Service!Lapse(gone) EXCEPT ![c] = "open"]
      BY <3>8 DEF Service!Lapse
    <3>11. [r \in Requests |-> HolderOf(r)]' = [r \in Requests |-> HolderOf(r)]
      BY <3>2 DEF HolderOf, HasToken
    <3>12. Cardinality(Service!Open \ gone) < MaxPending
      BY <2>1, <3>4 DEF IssueChallenge, HasCapacity
    <3>13. Service!Issue(gone, c)
      BY <3>9, <3>10, <3>11, <3>12, SameCardinality DEF Service!Issue
    <3> QED  BY <3>3, <3>13 DEF Service!Next
  <2>2. CASE RejectAtCapacity
    <3>1. /\ UNCHANGED <<issued, exchange>>
          /\ challenges' \subseteq challenges
      BY <2>2 DEF RejectAtCapacity, Unexpired
    <3> QED  BY <3>1, LapseRefines DEF HasToken
  <2> QED  BY <1>1, <2>1, <2>2 DEF GetAuth
<1>2. ASSUME NEW r \in Requests, NEW c \in Challenges,
             NEW sigs \in SignatureSets, PostAuth(r, c, sigs)
      PROVE  Service!Next
  <2>1. PICK p \in {"refused", "entries"} : Enter(r, c, sigs, p)
    BY <1>2, PostOutcomes
  <2>2. \A s \in Requests : /\ HasToken(s)' = HasToken(s)
                            /\ HasToken(s) => exchange'[s] = exchange[s]
    BY <1>2, <2>1, PostOutcomes DEF Enter, HasToken, TypeOK
  <2> QED  BY <1>2, <2>2, LapseRefines, PostOutcomes
<1>3. ASSUME NEW r \in Requests, RpcAnswers(r)
      PROVE  Service!Next
  <2>1. exchange[r].pc \in {"entries", "account"} /\ UNCHANGED issued
    BY <1>3, RpcOutcomes DEF InFlight
  <2>2. CASE GetsToken(r)
    <3> DEFINE c == exchange[r].chal
    <3>1. c \in challenges /\ c \in Challenges
      BY <2>2 DEF GetsToken, TypeOK
    <3>2. ASSUME NEW s \in Requests
          PROVE  /\ exchange'[s].chal = exchange[s].chal
                 /\ s # r => HasToken(s)' = HasToken(s)
                 /\ s = r => ~HasToken(s) /\ HasToken(s)'
      BY <2>1, <2>2 DEF GetsToken, HasToken, TypeOK, Exchange
    <3>3. ASSUME NEW d \in Challenges
          PROVE  StatusOf(d)' = IF d = c THEN "redeemed" ELSE StatusOf(d)
      <4>1. CASE d = c
        BY <3>2, <4>1 DEF StatusOf
      <4>2. CASE d # c
        <5>1. (\E s \in Requests : HasToken(s) /\ exchange[s].chal = d)'
              <=> (\E s \in Requests : HasToken(s) /\ exchange[s].chal = d)
          BY <3>2, <4>2
        <5> QED  BY <2>1, <2>2, <4>2, <5>1 DEF StatusOf, GetsToken
      <4> QED  BY <4>1, <4>2
    <3>4. [d \in Challenges |-> StatusOf(d)]' =
            [[d \in Challenges |-> StatusOf(d)] EXCEPT ![c] = "redeemed"]
      BY <3>3
    <3>5. [s \in Requests |-> HolderOf(s)]' =
            [[s \in Requests |-> HolderOf(s)] EXCEPT ![r] = c]
      BY <3>2 DEF HolderOf
    <3>6. StatusOf(c) = "open"
      BY <3>1, OpenIsTable DEF Service!Open
    <3>7. HolderOf(r) = NoChallenge
      BY <3>2 DEF HolderOf
    <3>8. Service!Redeem(r, c)
      BY <3>1, <3>4, <3>5, <3>6, <3>7 DEF Service!Redeem
    <3> QED  BY <3>1, <3>8 DEF Service!Next
  <2>3. CASE Fail(r) \/ SecondCall(r)
    <3>1. \A s \in Requests : /\ HasToken(s)' = HasToken(s)
                              /\ HasToken(s) => exchange'[s] = exchange[s]
      BY <2>1, <2>3 DEF Fail, SecondCall, Enter, HasToken, TypeOK, Exchange
    <3>2. UNCHANGED challenges
      BY <2>3 DEF Fail, SecondCall
    <3> QED  BY <2>1, <3>1, <3>2, LapseRefines
  <2> QED  BY <1>3, <2>2, <2>3, RpcOutcomes
<1>4. CASE Tick
  <2>1. \A c \in Challenges : issued'[c] = NotIssued <=> issued[c] = NotIssued
    <3>1. ASSUME NEW c \in Challenges, issued[c] # NotIssued
          PROVE  issued'[c] # NotIssued
      BY <1>4, <3>1, AuthAssumption DEF Tick, TypeOK, Built, Stale
    <3> QED  BY <1>4, <3>1 DEF Tick
  <2>2. UNCHANGED <<challenges, exchange>>
    BY <1>4 DEF Tick
  <2> QED  BY <2>1, <2>2, LapseRefines DEF HasToken
<1>5. ASSUME NEW a \in Accounts, LedgerChanges(a)
      PROVE  Service!Next
  <2>1. \A s \in Requests : /\ HasToken(s)' = HasToken(s)
                            /\ exchange'[s].chal = exchange[s].chal
    BY <1>5 DEF LedgerChanges, HasToken, TypeOK, Exchange
  <2> QED  BY <1>5, <2>1, LapseRefines DEF LedgerChanges
<1>6. CASE Restart
  <2>1. \A s \in Requests : /\ HasToken(s)' = HasToken(s)
                            /\ exchange'[s].chal = exchange[s].chal
    BY <1>6 DEF Restart, InFlight, HasToken, TypeOK, Exchange
  <2> QED  BY <1>6, <2>1, LapseRefines DEF Restart
<1>7. CASE UNCHANGED vars
  BY <1>7 DEF vars, Service!vars, StatusOf, HolderOf, HasToken
<1> QED
  BY <1>1, <1>2, <1>3, <1>4, <1>5, <1>6, <1>7 DEF Next

\* The server implements ChallengeService: to its clients each interleaving of
\* the handlers is a sequence of atomic issues, redemptions and lapses.
THEOREM Refinement == Spec => ImplementsService
<1>1. Init => Service!Init
  BY InitRefines
<1>2. IInv /\ [Next]_vars => [Service!Next]_(Service!vars)
  BY NextRefines
<1>3. Spec => Service!Spec
  BY <1>1, <1>2, Inductive, PTL DEF Spec, Service!Spec
<1> QED  BY <1>3 DEF ImplementsService

(* The weight of a set of signers.                                         *)

\* Induction on the natural numbers, said of sets.
LEMMA NatIsInductive ==
  ASSUME NEW T \in SUBSET Nat, 0 \in T, \A n \in T : n + 1 \in T
  PROVE  T = Nat
<1> DEFINE R == OpToRel(<, Nat)
           Rest == Nat \ T
<1>1. IsWellFoundedOn(R, Nat)
  BY NatLessThanWellFounded
<1>2. \A m, n \in Nat : m < n => <<m, n>> \in R
  BY Zenon DEF R, OpToRel
<1> HIDE DEF R
<1>3. SUFFICES ASSUME Rest # {} PROVE FALSE
  OBVIOUS
<1>4. PICK n \in Rest : \A m \in Rest : ~(<<m, n>> \in R)
  BY <1>1, <1>3, WFMin, Zenon
<1>5. n - 1 \in Nat /\ n - 1 < n /\ (n - 1) + 1 = n
  BY <1>4
<1>6. n - 1 \in T
  BY <1>2, <1>4, <1>5
<1> QED  BY <1>4, <1>5, <1>6

\* One step of the library's sum over a set, and the sets it is summed over.
SumStep(w, it, s) ==
  IF s = {} THEN 0
  ELSE w[CHOOSE x \in s : TRUE] + it[s \ {CHOOSE x \in s : TRUE}]

Sums(w, S, it) == it = [s \in SUBSET S |-> SumStep(w, it, s)]

UpTo(S, n) == {s \in SUBSET S : Cardinality(s) <= n}

\* What VerifyThreshold and Satisfied add up.
Total(w, S) == MapThenSumSet(LAMBDA k : w[k], S)

LEMMA TotalUnfolds ==
  ASSUME NEW w, NEW S
  PROVE  Total(w, S) = (CHOOSE it : Sums(w, S, it))[S]
  BY Zenon DEF Total, MapThenSumSet, MapThenFoldSet, Sums, SumStep

\* The sum depends on the weights of the summed keys only.
LEMMA TotalsAgree ==
  ASSUME NEW S, NEW v, NEW w, \A k \in S : v[k] = w[k]
  PROVE  Total(v, S) = Total(w, S)
<1>1. ASSUME NEW it, NEW s \in SUBSET S
      PROVE  SumStep(v, it, s) = SumStep(w, it, s)
  <2>1. s # {} => (CHOOSE x \in s : TRUE) \in s
    BY Zenon
  <2> QED  BY <2>1 DEF SumStep
<1>2. ASSUME NEW it PROVE Sums(v, S, it) <=> Sums(w, S, it)
  BY <1>1, Zenon DEF Sums
<1>3. (CHOOSE it : Sums(v, S, it)) = (CHOOSE it : Sums(w, S, it))
  BY <1>2, Zenon
<1> QED  BY <1>3, TotalUnfolds, Zenon

\* What is left of a set of at most n + 1 keys after its first has been added.
LEMMA RestIsSmaller ==
  ASSUME NEW S, IsFiniteSet(S), NEW n \in Nat, NEW s \in UpTo(S, n + 1), s # {}
  PROVE  /\ (CHOOSE x \in s : TRUE) \in S
         /\ s \ {CHOOSE x \in s : TRUE} \in UpTo(S, n)
<1> DEFINE x == CHOOSE x \in s : TRUE
<1>1. x \in s /\ s \in SUBSET S /\ Cardinality(s) <= n + 1
  BY Zenon DEF UpTo
<1>2. IsFiniteSet(s)
  BY <1>1, FS_Subset
<1> HIDE DEF x
<1>3. Cardinality(s \ {x}) = Cardinality(s) - 1 /\ Cardinality(s) \in Nat
  BY <1>1, <1>2, FS_RemoveElement, FS_CardinalityType
<1>4. x \in S /\ s \ {x} \in UpTo(S, n)
  BY <1>1, <1>3 DEF UpTo
<1> QED  BY <1>4 DEF x

\* The recursion has a solution, built up by the size of the sets.
LEMMA SumExists ==
  ASSUME NEW S, IsFiniteSet(S), NEW w, \A k \in S : w[k] \in Nat
  PROVE  \E it : Sums(w, S, it)
<1> DEFINE P(n) == \E g \in [UpTo(S, n) -> Nat] :
                     \A s \in UpTo(S, n) : g[s] = SumStep(w, g, s)
           T == {n \in Nat : P(n)}
<1>0. \A s \in SUBSET S : /\ Cardinality(s) \in Nat
                          /\ Cardinality(s) = 0 <=> s = {}
                          /\ Cardinality(s) <= Cardinality(S)
  BY FS_Subset, FS_CardinalityType, FS_EmptySet
<1>1. P(0)
  <2> DEFINE g == [s \in UpTo(S, 0) |-> 0]
  <2>1. \A s \in UpTo(S, 0) : s = {}
    BY <1>0 DEF UpTo
  <2>2. /\ g \in [UpTo(S, 0) -> Nat]
        /\ \A s \in UpTo(S, 0) : g[s] = SumStep(w, g, s)
    BY <2>1 DEF SumStep
  <2> HIDE DEF g
  <2> QED  BY <2>2
<1>2. ASSUME NEW n \in Nat, P(n) PROVE P(n + 1)
  <2>1. PICK g \in [UpTo(S, n) -> Nat] :
               \A s \in UpTo(S, n) : g[s] = SumStep(w, g, s)
    BY <1>2
  <2> DEFINE h == [s \in UpTo(S, n + 1) |->
                     IF s \in UpTo(S, n) THEN g[s] ELSE SumStep(w, g, s)]
  <2>2. UpTo(S, n) \subseteq UpTo(S, n + 1)
    BY <1>0 DEF UpTo
  <2>3. ASSUME NEW s \in UpTo(S, n + 1)
        PROVE  SumStep(w, g, s) \in Nat /\ SumStep(w, h, s) = SumStep(w, g, s)
    <3>1. CASE s = {}
      BY <3>1 DEF SumStep
    <3>2. CASE s # {}
      <4> DEFINE x == CHOOSE x \in s : TRUE
      <4>1. x \in S /\ s \ {x} \in UpTo(S, n)
        BY <3>2, RestIsSmaller
      <4> HIDE DEF x
      <4>2. h[s \ {x}] = g[s \ {x}] /\ g[s \ {x}] \in Nat /\ w[x] \in Nat
        BY <2>2, <4>1
      <4> HIDE DEF h
      <4>3. w[x] + g[s \ {x}] \in Nat /\ w[x] + h[s \ {x}] = w[x] + g[s \ {x}]
        BY <4>2
      <4> QED  BY <3>2, <4>3, Zenon DEF SumStep, x
    <3> QED  BY <3>1, <3>2
  <2>4. h \in [UpTo(S, n + 1) -> Nat]
    BY <2>1, <2>3
  <2>5. ASSUME NEW s \in UpTo(S, n + 1) PROVE h[s] = SumStep(w, h, s)
    <3>1. h[s] = SumStep(w, g, s)
      BY <2>1
    <3> QED  BY <2>3, <3>1, Zenon
  <2> HIDE DEF h
  <2> QED  BY <2>4, <2>5
<1> HIDE DEF P
<1>3. T = Nat
  <2>1. T \in SUBSET Nat /\ 0 \in T /\ \A n \in T : n + 1 \in T
    BY <1>1, <1>2
  <2> HIDE DEF T
  <2> QED  BY <2>1, NatIsInductive
<1>4. P(Cardinality(S)) /\ UpTo(S, Cardinality(S)) = SUBSET S
  BY <1>0, <1>3, FS_CardinalityType DEF UpTo
<1>5. PICK g \in [SUBSET S -> Nat] : \A s \in SUBSET S : g[s] = SumStep(w, g, s)
  BY <1>4, Zenon DEF P
<1> QED  BY <1>5 DEF Sums

\* Weights of finitely many keys add up to a number.
LEMMA TotalIsNat ==
  ASSUME NEW S, IsFiniteSet(S), NEW w, \A k \in S : w[k] \in Nat
  PROVE  Total(w, S) \in Nat
<1> DEFINE it == CHOOSE it : Sums(w, S, it)
           T == {n \in Nat : \A s \in UpTo(S, n) : it[s] \in Nat}
<1>0. \A s \in SUBSET S : /\ Cardinality(s) \in Nat
                          /\ Cardinality(s) = 0 <=> s = {}
  BY FS_Subset, FS_CardinalityType, FS_EmptySet
<1>1. it = [s \in SUBSET S |-> SumStep(w, it, s)]
  <2>1. Sums(w, S, it)
    BY SumExists, Zenon
  <2> HIDE DEF it
  <2> QED  BY <2>1, Zenon DEF Sums
<1> HIDE DEF it
<1>2. \A s \in SUBSET S : it[s] = SumStep(w, it, s)
  BY <1>1
<1>3. 0 \in T
  <2>1. \A s \in UpTo(S, 0) : s = {}
    BY <1>0 DEF UpTo
  <2>2. \A s \in UpTo(S, 0) : it[s] = 0
    BY <1>2, <2>1 DEF SumStep, UpTo
  <2> QED  BY <2>2
<1>4. ASSUME NEW n \in T PROVE n + 1 \in T
  <2>1. ASSUME NEW s \in UpTo(S, n + 1) PROVE it[s] \in Nat
    <3>1. CASE s = {}
      BY <1>2, <3>1 DEF SumStep
    <3>2. CASE s # {}
      <4> DEFINE x == CHOOSE x \in s : TRUE
      <4>1. x \in S /\ s \ {x} \in UpTo(S, n)
        BY <3>2, RestIsSmaller
      <4>2. s \in SUBSET S
        BY DEF UpTo
      <4>3. it[s] = w[x] + it[s \ {x}]
        BY <1>2, <3>2, <4>2, Zenon DEF SumStep
      <4> HIDE DEF x
      <4> QED  BY <4>1, <4>3
    <3> QED  BY <3>1, <3>2
  <2> QED  BY <2>1
<1>5. T = Nat
  <2> HIDE DEF T
  <2>1. T \in SUBSET Nat
    BY DEF T
  <2> QED  BY <1>3, <1>4, <2>1, NatIsInductive
<1>6. S \in UpTo(S, Cardinality(S)) /\ Cardinality(S) \in Nat
  BY <1>0 DEF UpTo
<1>7. it[S] \in Nat
  BY <1>5, <1>6
<1> QED  BY <1>7, TotalUnfolds, Zenon DEF it

-----------------------------------------------------------------------------

(* Authorization.                                                          *)

\* What the code verifies of an account as it was read is SEP-10's rule.
LEMMA VerifiedSatisfies ==
  ASSUME IInv, NEW r \in Requests, NEW state \in LedgerStates,
         IsFiniteSet(exchange[r].sigs), Verified(r, state)
  PROVE  Satisfied(issued[exchange[r].chal].account, state, exchange[r].sigs)
<1> DEFINE account == issued[exchange[r].chal].account
           sigs == exchange[r].sigs
           w == Signers(account, state)
<1>1. /\ sigs # {}
      /\ sigs \subseteq DOMAIN w
      /\ Total(w, sigs) >= Threshold(state)
  BY Zenon DEF Verified, VerifyThreshold, Total
<1> HIDE DEF w, sigs, account
<1>2. CASE state = Unfunded
  <2>1. sigs \subseteq {account}
    BY <1>1, <1>2 DEF w, Signers
  <2> QED  BY <1>1, <1>2, <2>1 DEF Satisfied, account, sigs
<1>3. CASE state # Unfunded
  <2>1. state.medium \in Nat /\ state.weight \in [Keys -> Nat]
    BY <1>3, AuthAssumption DEF LedgerStates
  <2>2. \A k \in sigs : w[k] = state.weight[k]
    BY <1>1, <1>3 DEF w, Signers
  <2>3. sigs \subseteq Keys
    BY DEF IInv, TypeOK, Exchange, sigs
  <2> DEFINE total == Total(state.weight, sigs)
             least == Max({1, state.medium})
  <2>4. total = Total(w, sigs)
    BY <2>2, TotalsAgree
  <2>5. total \in Nat
    BY <2>1, <2>3, TotalIsNat DEF sigs
  <2>6. least \in Nat /\ least >= 1 /\ least >= state.medium
    <3>1. \E x \in {1, state.medium} : \A y \in {1, state.medium} : x >= y
      BY <2>1
    <3>2. /\ least \in {1, state.medium}
          /\ \A y \in {1, state.medium} : least >= y
      BY <3>1, Zenon DEF Max
    <3> HIDE DEF least
    <3> QED  BY <2>1, <3>2
  <2>7. total >= least
    BY <1>1, <1>3, <2>4 DEF Threshold
  <2> HIDE DEF total, least
  <2>8. total > 0 /\ total >= state.medium
    BY <2>1, <2>5, <2>6, <2>7
  <2>9. MapThenSumSet(LAMBDA k : state.weight[k], sigs) = total
    BY Zenon DEF total, Total
  <2> QED  BY <1>3, <2>8, <2>9, Zenon DEF Satisfied, account, sigs
<1> QED  BY <1>2, <1>3

\* A submission carries finitely many signatures, which it keeps.
AuthorizationInv ==
  /\ \A r \in Requests : IsFiniteSet(exchange[r].sigs)
  /\ AuthorizedWhileOutstanding

\* A step that gives no token and leaves what was accepted as it was.
LEMMA AuthorizationKept ==
  ASSUME AuthorizationInv,
         \A r \in Requests : IsFiniteSet(exchange'[r].sigs),
         \A r \in Requests : HasToken(r)' =>
           HasToken(r) /\ exchange'[r] = exchange[r],
         \A r \in Requests : HasToken(r) =>
           issued'[exchange[r].chal].account = issued[exchange[r].chal].account
  PROVE  AuthorizationInv'
<1>1. ASSUME NEW r \in Requests, HasToken(r)'
      PROVE  \E state \in exchange'[r].seen :
               Satisfied(issued'[exchange'[r].chal].account, state,
                         exchange'[r].sigs)
  <2>1. HasToken(r) /\ exchange'[r] = exchange[r]
    BY <1>1
  <2>2. PICK state \in exchange[r].seen :
          Satisfied(issued[exchange[r].chal].account, state, exchange[r].sigs)
    BY <2>1 DEF AuthorizationInv, AuthorizedWhileOutstanding
  <2>3. issued'[exchange'[r].chal].account = issued[exchange[r].chal].account
    BY <2>1
  <2> QED  BY <2>1, <2>2, <2>3
<1> QED  BY <1>1 DEF AuthorizationInv, AuthorizedWhileOutstanding

LEMMA NextAuthorization ==
  IInv /\ AuthorizationInv /\ [Next]_vars => AuthorizationInv'
<1> SUFFICES ASSUME IInv, AuthorizationInv, [Next]_vars
             PROVE  AuthorizationInv'
  OBVIOUS
<1>0. /\ exchange \in [Requests -> Exchange]
      /\ issued \in [Challenges -> Built \cup {NotIssued}]
      /\ \A r \in Requests : IsFiniteSet(exchange[r].sigs)
      /\ \A r \in Requests : HasToken(r) =>
           /\ exchange[r].chal \in Challenges
           /\ issued[exchange[r].chal] # NotIssued
  BY DEF IInv, TypeOK, AuthorizationInv, Bookkeeping, PresentedWasBuilt, HasToken
<1>1. ASSUME NEW a \in Accounts, GetAuth(a)
      PROVE  AuthorizationInv'
  <2>1. UNCHANGED exchange
    BY <1>1 DEF GetAuth, IssueChallenge, RejectAtCapacity
  <2>2. \A c \in Challenges : issued[c] # NotIssued => issued'[c] = issued[c]
    BY <1>0, <1>1 DEF GetAuth, IssueChallenge, RejectAtCapacity
  <2> QED  BY <1>0, <2>1, <2>2, AuthorizationKept DEF HasToken
<1>2. ASSUME NEW r \in Requests, NEW c \in Challenges,
             NEW sigs \in SignatureSets, PostAuth(r, c, sigs)
      PROVE  AuthorizationInv'
  <2>1. PICK p \in {"refused", "entries"} : Enter(r, c, sigs, p)
    BY <1>2, PostOutcomes
  <2>2. IsFiniteSet(sigs)
    BY AuthAssumption
  <2>3. /\ exchange'[r].sigs = sigs
        /\ ~HasToken(r)'
        /\ \A q \in Requests \ {r} : exchange'[q] = exchange[q]
    BY <1>0, <2>1 DEF Enter, HasToken
  <2>4. UNCHANGED issued
    BY <1>2, PostOutcomes
  <2>5. \A q \in Requests : IsFiniteSet(exchange'[q].sigs)
    BY <1>0, <2>2, <2>3
  <2>6. \A q \in Requests : HasToken(q)' =>
          HasToken(q) /\ exchange'[q] = exchange[q]
    BY <2>3 DEF HasToken
  <2> QED  BY <2>4, <2>5, <2>6, AuthorizationKept
<1>3. ASSUME NEW r \in Requests, RpcAnswers(r)
      PROVE  AuthorizationInv'
  <2>1. UNCHANGED issued /\ exchange[r].pc \in {"entries", "account"}
    BY <1>3, RpcOutcomes DEF InFlight
  <2>2. /\ exchange'[r].sigs = exchange[r].sigs
        /\ \A q \in Requests \ {r} : exchange'[q] = exchange[q]
    BY <1>0, <1>3, RpcOutcomes DEF Fail, GetsToken, SecondCall, Enter, Exchange
  <2>3. \A q \in Requests : IsFiniteSet(exchange'[q].sigs)
    BY <1>0, <2>2
  <2>4. CASE ~HasToken(r)'
    <3>1. \A q \in Requests : HasToken(q)' =>
            HasToken(q) /\ exchange'[q] = exchange[q]
      BY <2>2, <2>4 DEF HasToken
    <3> QED  BY <2>1, <2>3, <3>1, AuthorizationKept
  <2>5. CASE HasToken(r)'
    <3>1. PICK state \in exchange[r].seen : Verified(r, state)
                                            /\ Settle(r, state)
      BY <1>0, <1>3, <2>1, <2>5
      DEF RpcAnswers, EntriesReturned, AccountReturned, RpcFails, Fail, Enter,
          HasToken, Settle, Outcome, Exchange
    <3>2. state \in LedgerStates
      BY <1>0 DEF Exchange
    <3>3. Satisfied(issued[exchange[r].chal].account, state, exchange[r].sigs)
      BY <1>0, <3>1, <3>2, VerifiedSatisfies
    <3>4. exchange'[r].chal = exchange[r].chal /\ exchange'[r].seen = exchange[r].seen
      BY <1>0, <3>1 DEF Settle, Outcome, Exchange
    <3>5. ASSUME NEW q \in Requests, HasToken(q)'
          PROVE  \E s \in exchange'[q].seen :
                   Satisfied(issued'[exchange'[q].chal].account, s,
                             exchange'[q].sigs)
      <4>1. CASE q = r
        BY <2>1, <2>2, <3>3, <3>4, <4>1
      <4>2. CASE q # r
        <5>1. HasToken(q) /\ exchange'[q] = exchange[q]
          BY <2>2, <3>5, <4>2 DEF HasToken
        <5>2. PICK s \in exchange[q].seen :
                Satisfied(issued[exchange[q].chal].account, s, exchange[q].sigs)
          BY <5>1 DEF AuthorizationInv, AuthorizedWhileOutstanding
        <5> QED  BY <2>1, <5>1, <5>2
      <4> QED  BY <4>1, <4>2
    <3> QED
      BY <2>3, <3>5 DEF AuthorizationInv, AuthorizedWhileOutstanding
  <2> QED  BY <2>4, <2>5
<1>4. CASE Tick
  <2>1. UNCHANGED exchange
    BY <1>4 DEF Tick
  <2>2. ASSUME NEW c \in Challenges, issued[c] # NotIssued
        PROVE  issued'[c].account = issued[c].account
    <3>1. issued[c] \in Built
      BY <1>0, <2>2
    <3> QED  BY <1>4, <3>1 DEF Tick, Built
  <2> QED  BY <1>0, <2>1, <2>2, AuthorizationKept DEF HasToken
<1>5. ASSUME NEW a \in Accounts, LedgerChanges(a)
      PROVE  AuthorizationInv'
  <2>1. /\ UNCHANGED issued
        /\ \A q \in Requests : /\ exchange'[q].sigs = exchange[q].sigs
                               /\ exchange'[q].pc = exchange[q].pc
                               /\ ~InFlight(q) => exchange'[q] = exchange[q]
    BY <1>0, <1>5 DEF LedgerChanges, Exchange
  <2> QED
    BY <1>0, <2>1, AuthorizationKept DEF HasToken, InFlight
<1>6. CASE Restart
  <2>1. /\ UNCHANGED issued
        /\ \A q \in Requests :
             /\ exchange'[q].sigs = exchange[q].sigs
             /\ exchange'[q].pc = "dropped" \/ exchange'[q] = exchange[q]
    BY <1>0, <1>6 DEF Restart, Exchange
  <2> QED
    BY <1>0, <2>1, AuthorizationKept DEF HasToken
<1>7. CASE UNCHANGED vars
  BY <1>0, <1>7, AuthorizationKept DEF vars, HasToken
<1> QED
  BY <1>1, <1>2, <1>3, <1>4, <1>5, <1>6, <1>7 DEF Next

\* A token is given only on signatures the account accepted at some moment
\* while the deciding RPC call was outstanding, whatever its configurations
\* and however they change (server.ts:79).
THEOREM TokensAreAuthorized == Spec => []AuthorizedWhileOutstanding
<1>1. Init => AuthorizationInv
  <2>1. Init => \A r \in Requests : exchange[r].sigs = {} /\ ~HasToken(r)
    BY DEF Init, Idle, HasToken
  <2> QED
    BY <2>1, FS_EmptySet DEF AuthorizationInv, AuthorizedWhileOutstanding
<1>2. AuthorizationInv => AuthorizedWhileOutstanding
  BY DEF AuthorizationInv
<1> QED  BY <1>1, <1>2, Inductive, NextAuthorization, PTL DEF Spec

-----------------------------------------------------------------------------

(* The service by itself, with a status and a holder of its own: whatever  *)
(* the server behind it, a challenge buys one authentication.              *)

VARIABLES status, holder

Promise == INSTANCE ChallengeService

\* A challenge somebody holds is redeemed, so no later step can redeem it.
PromiseInv == Promise!TypeOK /\ Promise!HeldIsRedeemed /\ Promise!AtMostOnce

LEMMA PromiseInit == Promise!Init => PromiseInv
  BY DEF Promise!Init, PromiseInv, Promise!TypeOK, Promise!Status,
     Promise!HeldIsRedeemed, Promise!AtMostOnce

LEMMA PromiseStep == PromiseInv /\ [Promise!Next]_(Promise!vars) => PromiseInv'
<1> SUFFICES ASSUME PromiseInv, [Promise!Next]_(Promise!vars) PROVE PromiseInv'
  OBVIOUS
<1> USE DEF PromiseInv, Promise!TypeOK, Promise!Status,
            Promise!HeldIsRedeemed, Promise!AtMostOnce
<1>1. ASSUME NEW gone \in SUBSET Promise!Open,
             NEW c \in Challenges, Promise!Issue(gone, c)
      PROVE  PromiseInv'
  <2>1. /\ holder' = holder
        /\ status' \in [Challenges -> Promise!Status]
    BY <1>1 DEF Promise!Issue, Promise!Lapse
  <2>2. \A d \in Challenges : status[d] = "redeemed" => status'[d] = "redeemed"
    BY <1>1 DEF Promise!Issue, Promise!Lapse, Promise!Open
  <2> QED
    BY <2>1, <2>2
<1>2. ASSUME NEW gone \in SUBSET Promise!Open, Promise!Forget(gone)
      PROVE  PromiseInv'
  <2>1. /\ holder' = holder
        /\ status' \in [Challenges -> Promise!Status]
        /\ \A d \in Challenges : status[d] = "redeemed" => status'[d] = "redeemed"
    BY <1>2 DEF Promise!Forget, Promise!Lapse, Promise!Open
  <2> QED
    BY <2>1
<1>3. ASSUME NEW r \in Requests, NEW c \in Challenges, Promise!Redeem(r, c)
      PROVE  PromiseInv'
  BY <1>3 DEF Promise!Redeem
<1>4. CASE UNCHANGED Promise!vars
  BY <1>4 DEF Promise!vars
<1> QED
  BY <1>1, <1>2, <1>3, <1>4 DEF Promise!Next

\* A challenge buys one authentication: so it does on every server that
\* implements the service.
THEOREM OneAuthentication == Promise!Spec => []Promise!AtMostOnce
<1>1. PromiseInv => Promise!AtMostOnce
  BY DEF PromiseInv
<1> QED
  BY <1>1, PromiseInit, PromiseStep, PTL DEF Promise!Spec

=============================================================================
