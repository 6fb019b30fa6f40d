-------------------------- MODULE Sep45ServerProofs --------------------------
(***************************************************************************)
(* A SEP-45 challenge yields one token at most, for any number of          *)
(* challenges, exchanges and restarts and any signature lifetime.          *)
(***************************************************************************)
EXTENDS Sep45Server, FiniteSetTheorems, TLAPS

IInv ==
  /\ TypeOK
  /\ Bookkeeping
  /\ SingleToken
  /\ NonceBuysToken
  /\ TokenWasLive

LEMMA Initially == Init => IInv
BY Sep45Assumption
DEF Init, IInv, TypeOK, Ledgers, Building, Exchange, Bookkeeping, SpentIsGone,
    PresentedWasDelivered, IssuedWasDrawn, SingleToken, NonceBuysToken,
    TokenWasLive, Spender

-----------------------------------------------------------------------------
(* What the steps of a GET change.                                         *)

LEMMA GetSteps ==
  ASSUME TypeOK, NEW n \in Nonces, Get(n)
  PROVE  /\ UNCHANGED <<ledger, epoch, listening, used, exchange>>
         /\ building' \in [Nonces -> Building]
         /\ \A m \in Nonces : m # n => building'[m] = building[m]
         /\ building[n].pc # "delivered"
         /\ \/ /\ issued' = issued
               /\ building[n].pc # "recording" => building'[n].pc \in {"latest", "failed"}
            \/ issued' = issued \cup {n} /\ building'[n].pc = "recording"
         /\ building[n].pc = "recording" => building'[n].pc \in {"delivered", "lost"}
<1>0. building[n] \in Building /\ ledger \in 0..MaxLedger /\ epoch \in 0..MaxRestarts
  BY DEF TypeOK, Ledgers
<1>1. CASE sep45Get(n)
  <2>1. [pc |-> "latest", since |-> ledger, expiration |-> 0, epoch |-> epoch] \in Building
    BY <1>0, Sep45Assumption DEF Building, Ledgers
  <2> QED
    BY <1>1, <2>1 DEF sep45Get, TypeOK
<1>2. CASE IssueNonce(n)
  <2>1. PICK latest \in AnsweredAt(building[n].since) :
          building' = [building EXCEPT
            ![n] = [pc |-> "recording", since |-> ledger,
                    expiration |-> latest + Lifetime, epoch |-> epoch]]
    BY <1>2 DEF IssueNonce
  <2>2. [pc |-> "recording", since |-> ledger,
         expiration |-> latest + Lifetime, epoch |-> epoch] \in Building
    BY <1>0, Sep45Assumption DEF Building, Ledgers, AnsweredAt
  <2> QED
    BY <1>2, <2>1, <2>2 DEF IssueNonce, TypeOK
<1>3. CASE DeliverChallenge(n)
  BY <1>0, <1>3 DEF DeliverChallenge, TypeOK, Building
<1>4. CASE GetFails(n)
  BY <1>0, <1>4 DEF GetFails, GetUnderWay, Abandoned, TypeOK, Building
<1> QED
  BY <1>1, <1>2, <1>3, <1>4 DEF Get

(* What the steps of a POST change: its own exchange and, in one step, the *)
(* store.                                                                  *)

PostEffect(r) ==
  /\ UNCHANGED <<ledger, epoch, issued, building>>
  /\ exchange' \in [Requests -> Exchange]
  /\ \A q \in Requests : q # r => exchange'[q] = exchange[q]
  /\ \/ /\ ~Spender(r) /\ ~Spender(r)'
        /\ used' = used
        /\ exchange'[r].pc \in {"latest", "simulating"} =>
             /\ exchange'[r].nonce \in Nonces
             /\ building[exchange'[r].nonce].pc = "delivered"
     \/ /\ exchange[r].pc = "simulating" /\ exchange'[r].pc = "issuing"
        /\ exchange'[r].nonce = exchange[r].nonce
        /\ exchange[r].nonce \in issued /\ exchange[r].nonce \notin used
        /\ used' = used \cup {exchange[r].nonce}
        /\ exchange'[r].signed
        /\ exchange'[r].since <= exchange'[r].until
        /\ exchange'[r].since <= building[exchange'[r].nonce].expiration
     \/ /\ exchange[r].pc = "issuing" /\ exchange'[r].pc = "token"
        /\ used' = used
        /\ exchange'[r].nonce = exchange[r].nonce
        /\ exchange'[r].signed = exchange[r].signed
        /\ exchange'[r].until = exchange[r].until
        /\ exchange'[r].since = exchange[r].since

LEMMA PostSteps ==
  ASSUME TypeOK, Bookkeeping, NEW r \in Requests, Post(r)
  PROVE  PostEffect(r)
<1>0. exchange[r] \in Exchange /\ ledger \in Ledgers
  BY DEF TypeOK
<1>1. ASSUME NEW n \in Nonces, NEW signed \in BOOLEAN, NEW until \in Ledgers,
             sep45Post(r, n, signed, until)
      PROVE  PostEffect(r)
  <2>1. [pc |-> "latest", nonce |-> n, signed |-> signed, until |-> until,
         since |-> ledger] \in Exchange
    BY <1>0 DEF Exchange
  <2> QED
    BY <1>1, <2>1 DEF sep45Post, PostEffect, Spender, TypeOK
<1>2. CASE Malformed(r)
  BY <1>0, <1>2 DEF Malformed, PostEffect, Spender, TypeOK, Exchange
<1>3. CASE LatestReturned(r)
  <2>1. exchange[r].nonce \in Nonces /\ building[exchange[r].nonce].pc = "delivered"
    BY <1>3 DEF LatestReturned, Bookkeeping, PresentedWasDelivered
  <2>2. CASE exchange' = [exchange EXCEPT ![r].pc = "refused"]
    BY <1>0, <1>3, <2>2 DEF LatestReturned, PostEffect, Spender, TypeOK, Exchange
  <2> DEFINE next == [pc |-> "simulating", nonce |-> exchange[r].nonce,
                      signed |-> exchange[r].signed, until |-> exchange[r].until,
                      since |-> ledger]
  <2>3. CASE exchange' = [exchange EXCEPT ![r] = next]
    <3>1. next \in Exchange
      BY <1>0 DEF Exchange
    <3> QED
      BY <1>3, <2>1, <2>3, <3>1 DEF LatestReturned, PostEffect, Spender, TypeOK
  <2> QED
    BY <1>3, <2>2, <2>3 DEF LatestReturned
<1>4. CASE SimulationReturned(r)
  <2>1. PICK at \in AnsweredAt(exchange[r].since) :
          IF Authorized(r, at) /\ Consumable(exchange[r].nonce)
          THEN Accept(r) ELSE Refuse(r)
    BY <1>4 DEF SimulationReturned
  <2>2. CASE Authorized(r, at) /\ Consumable(exchange[r].nonce)
    <3>1. /\ exchange[r].nonce \in Nonces
          /\ building[exchange[r].nonce] \in Building
      BY <1>4 DEF SimulationReturned, Bookkeeping, PresentedWasDelivered, TypeOK
    <3>2. /\ exchange[r].signed
          /\ exchange[r].since <= exchange[r].until
          /\ exchange[r].since <= building[exchange[r].nonce].expiration
      BY <1>0, <2>2, <3>1, Sep45Assumption
      DEF Authorized, AnsweredAt, Exchange, Building, Ledgers
    <3>3. Accept(r)
      BY <2>1, <2>2
    <3>4. /\ exchange' = [exchange EXCEPT ![r].pc = "issuing"]
          /\ used' = used \cup {exchange[r].nonce}
          /\ exchange[r].nonce \in issued /\ exchange[r].nonce \notin used
      BY <2>2, <3>3 DEF Accept, Consumable
    <3>5. /\ exchange' \in [Requests -> Exchange]
          /\ \A q \in Requests : q # r => exchange'[q] = exchange[q]
          /\ exchange'[r] = [exchange[r] EXCEPT !.pc = "issuing"]
      BY <1>0, <3>4 DEF TypeOK, Exchange
    <3>6. /\ exchange'[r].pc = "issuing"
          /\ exchange'[r].nonce = exchange[r].nonce
          /\ exchange'[r].signed = exchange[r].signed
          /\ exchange'[r].until = exchange[r].until
          /\ exchange'[r].since = exchange[r].since
      BY <1>0, <3>5 DEF Exchange
    <3> QED
      BY <1>4, <3>2, <3>4, <3>5, <3>6 DEF SimulationReturned, PostEffect
  <2>3. CASE ~(Authorized(r, at) /\ Consumable(exchange[r].nonce))
    BY <1>0, <1>4, <2>1, <2>3
    DEF SimulationReturned, Refuse, PostEffect, Spender, TypeOK, Exchange
  <2> QED
    BY <2>2, <2>3
<1>5. CASE PostFails(r)
  BY <1>0, <1>5 DEF PostFails, Refuse, PostEffect, Spender, TypeOK, Exchange
<1>6. CASE issueJwt(r)
  BY <1>0, <1>6 DEF issueJwt, PostEffect, TypeOK, Exchange
<1> QED
  BY <1>1, <1>2, <1>3, <1>4, <1>5, <1>6 DEF Post

-----------------------------------------------------------------------------
(* The invariant, for each kind of step.                                   *)

LEMMA GetKeeps ==
  ASSUME IInv, NEW n \in Nonces, Get(n)
  PROVE  IInv'
<1>1. TypeOK /\ Bookkeeping
  BY DEF IInv
<1>2. /\ UNCHANGED <<ledger, epoch, listening, used, exchange>>
      /\ building' \in [Nonces -> Building]
      /\ \A m \in Nonces : m # n => building'[m] = building[m]
      /\ building[n].pc # "delivered"
      /\ \/ /\ issued' = issued
            /\ building[n].pc # "recording" => building'[n].pc \in {"latest", "failed"}
         \/ issued' = issued \cup {n} /\ building'[n].pc = "recording"
      /\ building[n].pc = "recording" => building'[n].pc \in {"delivered", "lost"}
  BY <1>1, GetSteps
<1>3. TypeOK'
  BY <1>1, <1>2 DEF TypeOK
<1>4. IssuedWasDrawn'
  <2>1. n \in issued => building[n].pc \in {"recording", "lost"}
    BY <1>1, <1>2 DEF Bookkeeping, IssuedWasDrawn
  <2>2. building[n].pc # "lost"
    BY DEF Get, sep45Get, IssueNonce, DeliverChallenge, GetFails, GetUnderWay
  <2> QED
    BY <1>1, <1>2, <2>1, <2>2 DEF Bookkeeping, IssuedWasDrawn, TypeOK
<1>5. SpentIsGone' /\ PresentedWasDelivered'
  <2>1. \A m \in Nonces : building[m].pc = "delivered" =>
          m # n /\ building'[m] = building[m]
    BY <1>2
  <2>2. \A m \in Nonces : m # n /\ m \in issued' => m \in issued
    BY <1>2
  <2> QED
    BY <1>1, <1>2, <2>1, <2>2
    DEF Bookkeeping, SpentIsGone, PresentedWasDelivered, Spender
<1>6. SingleToken' /\ NonceBuysToken'
  BY <1>2 DEF IInv, SingleToken, NonceBuysToken, Spender
<1>7. TokenWasLive'
  <2>1. \A r \in Requests : Spender(r) =>
          building'[exchange[r].nonce] = building[exchange[r].nonce]
    BY <1>1, <1>2 DEF Bookkeeping, SpentIsGone
  <2> QED
    BY <1>2, <2>1 DEF IInv, TokenWasLive, Spender
<1> QED
  BY <1>3, <1>4, <1>5, <1>6, <1>7 DEF IInv, Bookkeeping

LEMMA PostKeeps ==
  ASSUME IInv, NEW r \in Requests, Post(r), listening' \in BOOLEAN
  PROVE  IInv'
<1>1. TypeOK /\ Bookkeeping /\ PostEffect(r)
  BY PostSteps DEF IInv
<1>2. /\ UNCHANGED <<ledger, epoch, issued, building>>
      /\ exchange' \in [Requests -> Exchange]
      /\ \A q \in Requests : q # r => exchange'[q] = exchange[q]
  BY <1>1 DEF PostEffect
<1>3. CASE /\ ~Spender(r) /\ ~Spender(r)'
           /\ used' = used
           /\ exchange'[r].pc \in {"latest", "simulating"} =>
                /\ exchange'[r].nonce \in Nonces
                /\ building[exchange'[r].nonce].pc = "delivered"
  <2>1. TypeOK'
    BY <1>1, <1>2, <1>3 DEF TypeOK
  <2>2. \A q \in Requests : Spender(q)' =>
          q # r /\ Spender(q) /\ exchange'[q] = exchange[q]
    BY <1>2, <1>3 DEF Spender
  <2>3. \A q \in Requests : Spender(q) => Spender(q)' /\ exchange'[q] = exchange[q]
    BY <1>2, <1>3 DEF Spender
  <2>4. SpentIsGone' /\ SingleToken' /\ TokenWasLive'
    BY <1>2, <1>3, <2>2
    DEF IInv, Bookkeeping, SpentIsGone, SingleToken, TokenWasLive
  <2>5. NonceBuysToken'
    BY <1>3, <2>3 DEF IInv, NonceBuysToken
  <2>6. PresentedWasDelivered' /\ IssuedWasDrawn'
    BY <1>1, <1>2, <1>3 DEF Bookkeeping, PresentedWasDelivered, IssuedWasDrawn
  <2> QED
    BY <2>1, <2>4, <2>5, <2>6 DEF IInv, Bookkeeping
<1>4. CASE /\ exchange[r].pc = "simulating" /\ exchange'[r].pc = "issuing"
           /\ exchange'[r].nonce = exchange[r].nonce
           /\ exchange[r].nonce \in issued /\ exchange[r].nonce \notin used
           /\ used' = used \cup {exchange[r].nonce}
           /\ exchange'[r].signed
           /\ exchange'[r].since <= exchange'[r].until
           /\ exchange'[r].since <= building[exchange'[r].nonce].expiration
  <2>0. /\ exchange[r].nonce \in Nonces
        /\ building[exchange[r].nonce].pc = "delivered"
    BY <1>1, <1>4 DEF Bookkeeping, PresentedWasDelivered
  <2>1. TypeOK'
    BY <1>1, <1>2, <1>4 DEF TypeOK
  <2>2. \A q \in Requests : Spender(q)' =>
          q = r \/ (Spender(q) /\ exchange'[q] = exchange[q])
    BY <1>2 DEF Spender
  <2>3. \A q \in Requests : Spender(q) => Spender(q)' /\ exchange'[q] = exchange[q]
    BY <1>2, <1>4 DEF Spender
  <2>4. \A q \in Requests : Spender(q) => exchange[q].nonce # exchange[r].nonce
    BY <1>1, <1>4 DEF Bookkeeping, SpentIsGone
  <2>5. SpentIsGone'
    BY <1>1, <1>2, <1>4, <2>0, <2>2 DEF Bookkeeping, SpentIsGone
  <2>6. SingleToken'
    BY <1>4, <2>2, <2>4 DEF IInv, SingleToken
  <2>7. NonceBuysToken'
    <3>1. Spender(r)'
      BY <1>4 DEF Spender
    <3> QED
      BY <1>4, <2>3, <3>1 DEF IInv, NonceBuysToken
  <2>8. TokenWasLive'
    BY <1>2, <1>4, <2>2 DEF IInv, TokenWasLive
  <2>9. PresentedWasDelivered' /\ IssuedWasDrawn'
    BY <1>1, <1>2, <1>4 DEF Bookkeeping, PresentedWasDelivered, IssuedWasDrawn
  <2> QED
    BY <2>1, <2>5, <2>6, <2>7, <2>8, <2>9 DEF IInv, Bookkeeping
<1>5. CASE /\ exchange[r].pc = "issuing" /\ exchange'[r].pc = "token"
           /\ used' = used
           /\ exchange'[r].nonce = exchange[r].nonce
           /\ exchange'[r].signed = exchange[r].signed
           /\ exchange'[r].until = exchange[r].until
           /\ exchange'[r].since = exchange[r].since
  <2>1. TypeOK'
    BY <1>1, <1>2, <1>5 DEF TypeOK
  <2>2. \A q \in Requests :
          /\ Spender(q)' <=> Spender(q)
          /\ exchange'[q].nonce = exchange[q].nonce
          /\ exchange'[q].signed = exchange[q].signed
          /\ exchange'[q].until = exchange[q].until
          /\ exchange'[q].since = exchange[q].since
    BY <1>2, <1>5 DEF Spender
  <2>3. SpentIsGone' /\ SingleToken' /\ TokenWasLive'
    BY <1>2, <1>5, <2>2
    DEF IInv, Bookkeeping, SpentIsGone, SingleToken, TokenWasLive
  <2>4. NonceBuysToken'
    BY <1>5, <2>2 DEF IInv, NonceBuysToken
  <2>5. PresentedWasDelivered' /\ IssuedWasDrawn'
    BY <1>1, <1>2, <1>5 DEF Bookkeeping, PresentedWasDelivered, IssuedWasDrawn
  <2> QED
    BY <2>1, <2>3, <2>4, <2>5 DEF IInv, Bookkeeping
<1> QED
  BY <1>1, <1>3, <1>4, <1>5 DEF PostEffect

\* A restart empties the store and settles what was under way.
LEMMA RestartEffect ==
  ASSUME TypeOK, Restart
  PROVE  /\ building' \in [Nonces -> Building]
         /\ exchange' \in [Requests -> Exchange]
         /\ \A n \in Nonces :
              /\ building'[n].expiration = building[n].expiration
              /\ building[n].pc = "delivered" => building'[n].pc = "delivered"
              /\ building[n].pc \in {"idle", "latest", "failed"}
                   <=> building'[n].pc \in {"idle", "latest", "failed"}
         /\ \A r \in Requests :
              /\ Spender(r)' <=> Spender(r)
              /\ exchange'[r].pc \notin {"latest", "simulating"}
              /\ exchange'[r].nonce = exchange[r].nonce
              /\ exchange'[r].signed = exchange[r].signed
              /\ exchange'[r].until = exchange[r].until
              /\ exchange'[r].since = exchange[r].since
<1>1. ASSUME NEW n \in Nonces
      PROVE  /\ building'[n] \in Building
             /\ building'[n].expiration = building[n].expiration
             /\ building[n].pc = "delivered" => building'[n].pc = "delivered"
             /\ building[n].pc \in {"idle", "latest", "failed"}
                  <=> building'[n].pc \in {"idle", "latest", "failed"}
  <2>1. building[n] \in Building
    BY DEF TypeOK
  <2>2. building'[n] = IF GetUnderWay(n) THEN Abandoned(building[n]) ELSE building[n]
    BY DEF Restart
  <2> QED
    BY <2>1, <2>2 DEF GetUnderWay, Abandoned, Building
<1>2. ASSUME NEW r \in Requests
      PROVE  /\ exchange'[r] \in Exchange
             /\ Spender(r)' <=> Spender(r)
             /\ exchange'[r].pc \notin {"latest", "simulating"}
             /\ exchange'[r].nonce = exchange[r].nonce
             /\ exchange'[r].signed = exchange[r].signed
             /\ exchange'[r].until = exchange[r].until
             /\ exchange'[r].since = exchange[r].since
  <2>1. exchange[r] \in Exchange
    BY DEF TypeOK
  <2>2. exchange'[r] =
          CASE exchange[r].pc \in {"latest", "simulating"} ->
                 [exchange[r] EXCEPT !.pc = "dropped"]
            [] exchange[r].pc = "issuing" ->
                 [exchange[r] EXCEPT !.pc = "tokenLost"]
            [] OTHER -> exchange[r]
    BY DEF Restart
  <2>3. CASE exchange[r].pc \in {"latest", "simulating"}
    BY <2>1, <2>2, <2>3 DEF Exchange, Spender
  <2>4. CASE exchange[r].pc = "issuing"
    BY <2>1, <2>2, <2>4 DEF Exchange, Spender
  <2>5. CASE exchange[r].pc \notin {"latest", "simulating", "issuing"}
    BY <2>1, <2>2, <2>5 DEF Exchange, Spender
  <2> QED
    BY <2>3, <2>4, <2>5
<1>3. building' \in [Nonces -> Building]
  BY <1>1 DEF Restart
<1>4. exchange' \in [Requests -> Exchange]
  BY <1>2 DEF Restart
<1> QED
  BY <1>1, <1>2, <1>3, <1>4

\* A step that leaves the store, the GETs and the POSTs alone.
LEMMA Untouched ==
  ASSUME IInv, TypeOK', UNCHANGED <<issued, used, building, exchange>>
  PROVE  IInv'
<1>1. Bookkeeping'
  BY DEF IInv, Bookkeeping, SpentIsGone, PresentedWasDelivered, IssuedWasDrawn,
         Spender
<1>2. SingleToken' /\ NonceBuysToken' /\ TokenWasLive'
  BY DEF IInv, SingleToken, NonceBuysToken, TokenWasLive, Spender
<1> QED
  BY <1>1, <1>2 DEF IInv

LEMMA Step == IInv /\ [Next]_vars => IInv'
<1> SUFFICES ASSUME IInv, [Next]_vars PROVE IInv'
  OBVIOUS
<1>0. TypeOK /\ Bookkeeping
  BY DEF IInv
<1>1. ASSUME NEW n \in Nonces, Get(n) PROVE IInv'
  BY <1>1, GetKeeps
<1>2. ASSUME NEW r \in Requests, Post(r) PROVE IInv'
  <2>1. listening' = listening
    BY <1>2 DEF Post, sep45Post, Malformed, LatestReturned, SimulationReturned,
                PostFails, issueJwt
  <2> QED
    BY <1>0, <1>2, <2>1, PostKeeps DEF TypeOK
<1>3. CASE LedgerCloses
  <2>1. TypeOK'
    BY <1>0, <1>3, Sep45Assumption DEF LedgerCloses, TypeOK, Ledgers
  <2>2. UNCHANGED <<issued, used, building, exchange>>
    BY <1>3 DEF LedgerCloses
  <2> QED
    BY <2>1, <2>2, Untouched
<1>4. CASE close
  <2>1. TypeOK'
    BY <1>0, <1>4 DEF close, TypeOK
  <2>2. UNCHANGED <<issued, used, building, exchange>>
    BY <1>4 DEF close
  <2> QED
    BY <2>1, <2>2, Untouched
<1>5. CASE Restart
  <2>1. /\ issued' = {} /\ used' = {} /\ listening' = TRUE /\ ledger' = ledger
        /\ epoch' \in 0..MaxRestarts
    BY <1>0, <1>5, Sep45Assumption DEF Restart, TypeOK
  <2>2. TypeOK'
    BY <1>0, <1>5, <2>1, RestartEffect DEF TypeOK
  <2>3. SpentIsGone' /\ SingleToken'
    BY <1>0, <1>5, <2>1, RestartEffect DEF IInv, Bookkeeping, SpentIsGone, SingleToken
  <2>4. PresentedWasDelivered' /\ IssuedWasDrawn' /\ NonceBuysToken'
    BY <1>0, <1>5, <2>1, RestartEffect
    DEF PresentedWasDelivered, IssuedWasDrawn, NonceBuysToken
  <2>5. TokenWasLive'
    BY <1>0, <1>5, RestartEffect DEF IInv, TokenWasLive, Bookkeeping, SpentIsGone
  <2> QED
    BY <2>2, <2>3, <2>4, <2>5 DEF IInv, Bookkeeping
<1>6. CASE UNCHANGED vars
  <2>1. TypeOK'
    BY <1>0, <1>6 DEF vars, TypeOK
  <2>2. UNCHANGED <<issued, used, building, exchange>>
    BY <1>6 DEF vars
  <2> QED
    BY <2>1, <2>2, Untouched
<1> QED
  BY <1>1, <1>2, <1>3, <1>4, <1>5, <1>6 DEF Next

LEMMA Invariance == Spec => []IInv
BY Initially, Step, PTL DEF Spec

\* The store and the exchanges keep their types; a used nonce was issued.
THEOREM TypeCorrect == Spec => []TypeOK
<1>1. IInv => TypeOK
  BY DEF IInv
<1> QED
  BY <1>1, Invariance, PTL

\* A challenge yields one token at most, across restarts included.
THEOREM TokenOnce == Spec => []SingleToken
<1>1. IInv => SingleToken
  BY DEF IInv
<1> QED
  BY <1>1, Invariance, PTL

\* Only the exchange that gets the token uses a nonce up.
THEOREM RefusalsKeepTheNonce == Spec => []NonceBuysToken
<1>1. IInv => NonceBuysToken
  BY DEF IInv
<1> QED
  BY <1>1, Invariance, PTL

\* The signatures behind a token were valid when the simulation was sent.
THEOREM TokensWereLive == Spec => []TokenWasLive
<1>1. IInv => TokenWasLive
  BY DEF IInv
<1> QED
  BY <1>1, Invariance, PTL

\* Every token of sep45Post is the only one of its challenge and was earned
\* while both signatures were valid.
THEOREM TokensEarned == Spec => []TokensAreEarned
<1>1. SingleToken /\ TokenWasLive => TokensAreEarned
  BY DEF TokensAreEarned
<1> QED
  BY <1>1, TokenOnce, TokensWereLive, PTL

-----------------------------------------------------------------------------
(* The refinement.                                                         *)

Redeemed(n) == \E r \in Requests : Spender(r) /\ exchange[r].nonce = n

Undrawn(n) == building[n].pc \in {"idle", "latest", "failed"}

\* The open challenges are the nonces issued and not used.
LEMMA OpenIsUnused ==
  ASSUME IInv
  PROVE  Service!Open = issued \ used
<1>1. ASSUME NEW n \in issued
      PROVE  Redeemed(n) <=> n \in used
  BY DEF IInv, NonceBuysToken, Bookkeeping, SpentIsGone, Redeemed
<1>2. \A n \in Nonces : StatusOf(n) = "open" <=> ~Redeemed(n) /\ n \in issued
  BY DEF StatusOf, Redeemed
<1>3. issued \subseteq Nonces
  BY DEF IInv, TypeOK
<1> QED
  BY <1>1, <1>2, <1>3 DEF Service!Open

LEMMA SameCardinality == \A S : Service!Cardinality(S) = Cardinality(S)
BY DEF Service!Cardinality, Cardinality

LEMMA InitRefines == Init => Service!Init
BY DEF Init, Service!Init, StatusOf, HolderOf, Spender

\* The holders do not change when the spenders do not.
LEMMA SameHolders ==
  ASSUME \A r \in Requests : Spender(r)' <=> Spender(r),
         \A r \in Requests : Spender(r) => exchange'[r].nonce = exchange[r].nonce
  PROVE  /\ [r \in Requests |-> HolderOf(r)]' = [r \in Requests |-> HolderOf(r)]
         /\ \A n \in Nonces : Redeemed(n)' <=> Redeemed(n)
<1>1. \A r \in Requests : HolderOf(r)' = HolderOf(r)
  BY DEF HolderOf
<1> QED
  BY <1>1 DEF Redeemed

\* Steps that issue and redeem nothing are forgettings.
LEMMA LapseRefines ==
  ASSUME IInv, \A r \in Requests : Spender(r)' <=> Spender(r),
         \A r \in Requests : Spender(r) => exchange'[r].nonce = exchange[r].nonce,
         issued' \subseteq issued,
         \A n \in Nonces : Undrawn(n)' <=> Undrawn(n)
  PROVE  Service!Next
<1> DEFINE gone == (issued \ used) \ issued'
<1>1. gone \in SUBSET Service!Open
  BY OpenIsUnused
<1>2. ASSUME NEW n \in Nonces
      PROVE  StatusOf(n)' = IF n \in gone THEN "lapsed" ELSE StatusOf(n)
  <2>1. Redeemed(n)' <=> Redeemed(n)
    BY SameHolders
  <2>2. n \in issued => ~Undrawn(n) /\ (Redeemed(n) <=> n \in used)
    BY DEF IInv, Bookkeeping, IssuedWasDrawn, SpentIsGone, NonceBuysToken,
           Undrawn, Redeemed
  <2>3. StatusOf(n) = IF Redeemed(n) THEN "redeemed"
                      ELSE IF n \in issued THEN "open"
                      ELSE IF Undrawn(n) THEN "unissued" ELSE "lapsed"
    BY DEF StatusOf, Redeemed, Undrawn
  <2>4. StatusOf(n)' = IF Redeemed(n)' THEN "redeemed"
                       ELSE IF n \in issued' THEN "open"
                       ELSE IF Undrawn(n)' THEN "unissued" ELSE "lapsed"
    BY DEF StatusOf, Redeemed, Undrawn
  <2> QED
    BY <2>1, <2>2, <2>3, <2>4
<1>3. [n \in Nonces |-> StatusOf(n)]' = Service!Lapse(gone)
  BY <1>2 DEF Service!Lapse
<1>4. Service!Forget(gone)
  BY <1>3, SameHolders DEF Service!Forget
<1> QED
  BY <1>1, <1>4 DEF Service!Next

LEMMA IssueRefines ==
  ASSUME IInv, NEW n \in Nonces, IssueNonce(n)
  PROVE  Service!Next
<1> DEFINE gone == {}
<1>1. /\ building[n].pc = "latest" /\ building'[n].pc = "recording"
      /\ issued' = issued \cup {n} /\ UNCHANGED exchange
      /\ \A m \in Nonces : m # n => building'[m] = building[m]
  BY DEF IssueNonce, IInv, TypeOK
<1>2. n \notin issued /\ ~Redeemed(n)
  BY <1>1 DEF IInv, Bookkeeping, IssuedWasDrawn, SpentIsGone, Redeemed
<1>3. \A m \in Nonces : Redeemed(m)' <=> Redeemed(m)
  BY <1>1 DEF Redeemed, Spender
<1>4. StatusOf(n) = "unissued" /\ StatusOf(n)' = "open"
  BY <1>1, <1>2, <1>3 DEF StatusOf, Redeemed
<1>5. ASSUME NEW m \in Nonces, m # n
      PROVE  StatusOf(m)' = StatusOf(m)
  BY <1>1, <1>3, <1>5 DEF StatusOf, Redeemed
<1>6. [m \in Nonces |-> StatusOf(m)]' = [Service!Lapse(gone) EXCEPT ![n] = "open"]
  BY <1>4, <1>5 DEF Service!Lapse
<1>7. [r \in Requests |-> HolderOf(r)]' = [r \in Requests |-> HolderOf(r)]
  BY <1>1 DEF HolderOf, Spender
<1>8. Service!Cardinality(Service!Open \ gone) < Cardinality(Nonces) + 1
  <2>1. Service!Open \ gone = issued \ used
    BY OpenIsUnused
  <2>2. issued \ used \subseteq Nonces
    BY DEF IInv, TypeOK
  <2>3. /\ Cardinality(issued \ used) \in Nat /\ Cardinality(Nonces) \in Nat
        /\ Cardinality(issued \ used) <= Cardinality(Nonces)
    BY <2>2, FS_Subset, FS_CardinalityType, Sep45Assumption
  <2>4. Cardinality(issued \ used) < Cardinality(Nonces) + 1
    BY <2>3
  <2>5. Service!Cardinality(Service!Open \ gone) = Cardinality(issued \ used)
    BY <2>1, SameCardinality
  <2> QED
    BY <2>4, <2>5
<1>9. Service!Issue(gone, n)
  <2>1. Service!Cardinality(Service!Open \ gone) < Service!Cardinality(Nonces) + 1
    BY <1>8, SameCardinality
  <2> QED
    BY <1>4, <1>6, <1>7, <1>8, <2>1 DEF Service!Issue
<1>10. gone \in SUBSET Service!Open
  OBVIOUS
<1> QED
  BY <1>9, <1>10 DEF Service!Next

LEMMA RedeemRefines ==
  ASSUME IInv, NEW r \in Requests,
         UNCHANGED <<issued, building>>,
         \A q \in Requests : q # r => exchange'[q] = exchange[q],
         exchange[r].pc = "simulating", exchange'[r].pc = "issuing",
         exchange'[r].nonce = exchange[r].nonce,
         exchange[r].nonce \in issued, exchange[r].nonce \notin used
  PROVE  Service!Next
<1> DEFINE n == exchange[r].nonce
<1>1. n \in Nonces /\ n \in Service!Open
  BY OpenIsUnused DEF IInv, TypeOK
<1>2. \A q \in Requests : /\ q # r => (Spender(q)' <=> Spender(q))
                          /\ exchange'[q].nonce = exchange[q].nonce
  BY DEF Spender
<1>3. Spender(r)' /\ ~Spender(r)
  BY DEF Spender
<1>4. \A m \in Nonces : Redeemed(m)' <=> Redeemed(m) \/ m = n
  BY <1>2, <1>3 DEF Redeemed
<1>5. ASSUME NEW m \in Nonces
      PROVE  StatusOf(m)' = IF m = n THEN "redeemed" ELSE StatusOf(m)
  BY <1>4 DEF StatusOf, Redeemed
<1>6. [m \in Nonces |-> StatusOf(m)]'
        = [[m \in Nonces |-> StatusOf(m)] EXCEPT ![n] = "redeemed"]
  BY <1>5
<1>7. [q \in Requests |-> HolderOf(q)]'
        = [[q \in Requests |-> HolderOf(q)] EXCEPT ![r] = n]
  BY <1>2, <1>3 DEF HolderOf
<1>8. HolderOf(r) = NoNonce /\ StatusOf(n) = "open"
  BY <1>1, <1>3 DEF HolderOf, Service!Open
<1>9. Service!Redeem(r, n)
  BY <1>1, <1>6, <1>7, <1>8 DEF Service!Redeem
<1> QED
  BY <1>1, <1>9 DEF Service!Next

LEMMA NextRefines == IInv /\ [Next]_vars => [Service!Next]_(Service!vars)
<1> SUFFICES ASSUME IInv, [Next]_vars
             PROVE  [Service!Next]_(Service!vars)
  OBVIOUS
<1>0. TypeOK /\ Bookkeeping
  BY DEF IInv
<1>1. ASSUME NEW n \in Nonces, Get(n) PROVE Service!Next
  <2>1. CASE IssueNonce(n)
    BY <2>1, IssueRefines
  <2>2. CASE sep45Get(n) \/ DeliverChallenge(n) \/ GetFails(n)
    <3>1. UNCHANGED <<issued, exchange>>
      BY <2>2 DEF sep45Get, DeliverChallenge, GetFails
    <3>2. \A m \in Nonces : Undrawn(m)' <=> Undrawn(m)
      BY <1>0, <2>2
      DEF sep45Get, DeliverChallenge, GetFails, GetUnderWay, Abandoned, Undrawn,
          TypeOK, Building
    <3> QED
      BY <3>1, <3>2, LapseRefines DEF Spender
  <2> QED
    BY <1>1, <2>1, <2>2 DEF Get
<1>2. ASSUME NEW r \in Requests, Post(r) PROVE Service!Next
  <2>1. PostEffect(r)
    BY <1>0, <1>2, PostSteps
  <2>2. /\ UNCHANGED <<issued, building>>
        /\ \A q \in Requests : q # r => exchange'[q] = exchange[q]
    BY <2>1 DEF PostEffect
  <2>3. CASE /\ exchange[r].pc = "simulating" /\ exchange'[r].pc = "issuing"
             /\ exchange'[r].nonce = exchange[r].nonce
             /\ exchange[r].nonce \in issued /\ exchange[r].nonce \notin used
    BY <2>2, <2>3, RedeemRefines
  <2>4. CASE \/ ~Spender(r) /\ ~Spender(r)'
             \/ /\ exchange[r].pc = "issuing" /\ exchange'[r].pc = "token"
                /\ exchange'[r].nonce = exchange[r].nonce
    <3>1. \A q \in Requests : /\ Spender(q)' <=> Spender(q)
                              /\ Spender(q) => exchange'[q].nonce = exchange[q].nonce
      BY <2>2, <2>4 DEF Spender
    <3>2. \A n \in Nonces : Undrawn(n)' <=> Undrawn(n)
      BY <2>2 DEF Undrawn
    <3> QED
      BY <2>2, <3>1, <3>2, LapseRefines
  <2> QED
    BY <2>1, <2>3, <2>4 DEF PostEffect
<1>3. CASE LedgerCloses \/ close
  BY <1>3 DEF LedgerCloses, close, Service!vars, StatusOf, HolderOf, Spender
<1>4. CASE Restart
  <2>1. \A n \in Nonces : Undrawn(n)' <=> Undrawn(n)
    BY <1>0, <1>4, RestartEffect DEF Undrawn
  <2>2. issued' \subseteq issued
    BY <1>4 DEF Restart
  <2> QED
    BY <1>0, <1>4, <2>1, <2>2, RestartEffect, LapseRefines
<1>5. CASE UNCHANGED vars
  BY <1>5 DEF vars, Service!vars, StatusOf, HolderOf, Spender
<1> QED
  BY <1>1, <1>2, <1>3, <1>4, <1>5 DEF Next

\* The SEP-45 server implements ChallengeService, with no limit on how many
\* challenges are open.
THEOREM Refinement == Spec => ImplementsService
<1>1. Init => Service!Init
  BY InitRefines
<1>2. IInv /\ [Next]_vars => [Service!Next]_(Service!vars)
  BY NextRefines
<1>3. Spec => Service!Spec
  BY <1>1, <1>2, Invariance, PTL DEF Spec, Service!Spec
<1> QED
  BY <1>3 DEF ImplementsService

=============================================================================
