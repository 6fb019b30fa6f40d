-------------------------- MODULE LessonScriptsProofs --------------------------
(***************************************************************************)
(* Of the command-line lessons, for any number of channels, payments and   *)
(* terminals, any clock and any hashes: the pool of channel accounts, the  *)
(* prepared authorizations, the ledger's commands and the passkey account  *)
(* with its client keep what they promise.                                 *)
(*                                                                         *)
(* Each program has an inductive invariant of its own; ScriptsIInv says    *)
(* that the one of the program that runs holds.                            *)
(***************************************************************************)
EXTENDS LessonScripts, SequenceTheorems, TLAPS

-----------------------------------------------------------------------------
(* Channel accounts.                                                       *)

\* Runs are under way only while their settling is awaited, and all channels
\* are open from the answer of open to the call of close.
PoolIInv ==
  /\ cAt \in {"fund", "open", "fundFees", "pay", "settle", "close", "done",
              "failed"}
  /\ cStatus = [p \in Payments |-> cStatus[p]]
  /\ cLost \in BOOLEAN
  /\ cAt \in {"fund", "open"} => cOpen = {}
  /\ cAt \in {"fundFees", "pay", "settle"} => cOpen = Channels
  /\ cAt # "settle" =>
       \A p \in Payments : cStatus[p] \notin {"waiting", "sent"}
  /\ Pool!ChannelsAreClosed

LEMMA PoolInitially == Pool!Init => PoolIInv
  BY DEF Pool!Init, PoolIInv, Pool!ChannelsAreClosed

LEMMA PoolStep == PoolIInv /\ [Pool!Next]_poolVars => PoolIInv'
<1> SUFFICES ASSUME PoolIInv, [Pool!Next]_poolVars PROVE PoolIInv'
  OBVIOUS
<1> USE DEF PoolIInv, Pool!ChannelsAreClosed, Pool!Ended, Pool!ledger, Pool!runs
<1>1. CASE Pool!Fund
  BY <1>1 DEF Pool!Fund
<1>2. CASE Pool!Open
  BY <1>2 DEF Pool!Open
<1>3. CASE Pool!FundChannelFees
  BY <1>3 DEF Pool!FundChannelFees
<1>4. CASE Pool!RequestAll
  BY <1>4 DEF Pool!RequestAll
<1>5. CASE Pool!AllSettled
  BY <1>5 DEF Pool!AllSettled, Pool!Settled
<1>6. CASE Pool!Close
  BY <1>6 DEF Pool!Close
<1>7. ASSUME NEW p \in Payments, Pool!Run(p) \/ Pool!Reject(p)
      PROVE  PoolIInv'
  <2>1. /\ UNCHANGED <<cAt, cOpen, cLost>>
        /\ cStatus[p] \in {"waiting", "sent"}
        /\ cStatus' = [q \in Payments |-> cStatus'[q]]
    BY <1>7 DEF Pool!Run, Pool!Submit, Pool!Confirm, Pool!Reject, Pool!Settle
  <2> QED  BY <2>1
<1>8. ASSUME NEW tx \in cSubmitted, Pool!Apply(tx)
      PROVE  PoolIInv'
  BY <1>8 DEF Pool!Apply
<1>9. CASE UNCHANGED poolVars
  BY <1>9 DEF poolVars
<1> QED  BY <1>1, <1>2, <1>3, <1>4, <1>5, <1>6, <1>7, <1>8, <1>9
         DEF Pool!Next, Pool!Script

LEMMA PoolServes ==
  PoolIInv => Pool!ChannelsAreClosed /\ Pool!RunsKeepTheirChannel
  BY DEF PoolIInv, Pool!RunsKeepTheirChannel

-----------------------------------------------------------------------------
(* Prepared authorizations.                                                *)

Of(kind) == pLesson = kind

\* What a lesson finalizes.
Finalized(tx) ==
  \/ /\ Of("preAuthorized")
     /\ \E u : tx = Prepared!Tx("future", "account", pRead + 2, u, {}, {})
  \/ /\ Of("signedPayload")
     /\ \E u : tx = Prepared!Tx("C", "bob", pRead + 1, u, {}, {})

\* What a lesson gives to the network.
Given(tx) ==
  \/ /\ Of("preAuthorized") /\ tx.source = "account"
     /\ \/ /\ tx.name = "install" /\ tx.sequence = pRead + 1
           /\ tx.signatures = {"account"}
        \/ tx.name = "future" /\ tx.signatures = {}
  \/ /\ Of("signedPayload")
     /\ \/ /\ tx.name = "D" /\ tx.source = "alice"
           /\ tx.signatures = {"alice", "bob over C"}
        \/ /\ tx.name = "C" /\ tx.source = "bob"
           /\ tx.signatures = {"bob over C"} /\ "D" \in pApplied
  \/ /\ Of("hashX") /\ tx.name = "payment" /\ tx.source = "sender"
     /\ tx.signatures = {"sender", "preimage"}

\* What is finalized, and what the network may have been given.
PreparedForms ==
  /\ pAt \in {"fund", "read", "finalize"} => pPrepared = {}
  /\ pAt \in {"fund", "read", "finalize", "send"} =>
       pSubmitted = {} /\ pApplied = {}
  /\ Of("hashX") => pAt \notin {"read", "finalize"}
  /\ \A tx \in pPrepared : Finalized(tx)
  /\ \A tx \in pSubmitted : Given(tx)

\* A sequence number that was read stays that of its account until what was
\* read for is applied.
NumbersFit ==
  /\ Of("preAuthorized") =>
       /\ "install" \notin pApplied => pSequence["account"] = pRead
       /\ "install" \in pApplied => pSequence["account"] >= pRead + 1
       /\ "install" \in pApplied /\ "future" \notin pApplied =>
            pSequence["account"] = pRead + 1
  /\ Of("signedPayload") /\ "C" \notin pApplied => pSequence["bob"] = pRead

Accounts == {"account", "alice", "bob", "sender"}

PreparedIInv ==
  /\ pLesson \in {"preAuthorized", "signedPayload", "hashX"}
  /\ pSequence \in [Accounts -> Nat] /\ pRead \in Nat
  /\ PreparedForms /\ NumbersFit
  /\ \A n \in pApplied : \E tx \in pSubmitted : tx.name = n
  /\ "future" \in pApplied => "install" \in pApplied
  /\ pInstalled \subseteq {"future"}
  /\ pInstalled # {} => Of("preAuthorized") /\ "install" \in pApplied

LEMMA PreparedInitially == Prepared!Init => PreparedIInv
  BY DEF Prepared!Init, PreparedIInv, PreparedForms, NumbersFit, Accounts, Of

\* What is left as it was by a step that only moves the script on.
LEMMA FormsKept ==
  ASSUME UNCHANGED <<pLesson, pRead, pApplied>>, NEW tx
  PROVE  /\ Finalized(tx) <=> Finalized(tx)'
         /\ Given(tx) <=> Given(tx)'
  BY DEF Finalized, Given, Of

LEMMA SignedTx ==
  ASSUME NEW n, NEW s, NEW q, NEW u, NEW r, NEW g, NEW h
  PROVE  [Prepared!Tx(n, s, q, u, r, g) EXCEPT !.signatures = h]
           = Prepared!Tx(n, s, q, u, r, h)
  BY DEF Prepared!Tx

LEMMA PreparedStep ==
  PreparedIInv /\ [Prepared!Next]_preparedVars => PreparedIInv'
<1> SUFFICES ASSUME PreparedIInv, [Prepared!Next]_preparedVars
             PROVE  PreparedIInv'
  OBVIOUS
<1>1. CASE Prepared!Fund
  BY <1>1, FormsKept DEF Prepared!Fund, Prepared!Goto, PreparedIInv,
     PreparedForms, NumbersFit, Of
<1>2. CASE Prepared!ReadAccount
  <2>1. pPrepared = {} /\ pSubmitted = {} /\ pApplied = {} /\ pInstalled = {}
    BY <1>2 DEF Prepared!ReadAccount, Prepared!Goto, PreparedIInv,
                PreparedForms
  <2>2. pRead' = pSequence[Prepared!Holder] /\ pRead' \in Nat
    BY <1>2 DEF Prepared!ReadAccount, PreparedIInv, Prepared!Holder, Accounts
  <2> QED  BY <1>2, <2>1, <2>2 DEF Prepared!ReadAccount, Prepared!Goto,
              Prepared!Holder, PreparedIInv, PreparedForms, NumbersFit, Of
<1>3. CASE Prepared!Finalize
  <2>1. pSubmitted' = {} /\ pApplied' = {} /\ pAt' = "send"
    BY <1>3 DEF Prepared!Finalize, Prepared!Goto, PreparedIInv, PreparedForms
  <2>2. ASSUME NEW tx \in pPrepared' PROVE Finalized(tx)'
    <3>1. CASE Of("preAuthorized")
      BY <1>3, <2>2, <3>1 DEF Prepared!Finalize, Prepared!FuturePayment,
         Finalized, Of
    <3>2. CASE Of("signedPayload")
      BY <1>3, <2>2, <3>2 DEF Prepared!Finalize, Prepared!TransactionC,
         Finalized, Of
    <3>3. CASE Of("hashX")
      BY <1>3, <3>3 DEF Prepared!Finalize, Prepared!Goto, PreparedIInv,
         PreparedForms
    <3> QED  BY <3>1, <3>2, <3>3 DEF PreparedIInv, Of
  <2> QED  BY <1>3, <2>1, <2>2 DEF Prepared!Finalize, PreparedIInv,
              PreparedForms, NumbersFit, Of
<1>4. CASE Prepared!Send
  <2>1. Given(Prepared!First)
    <3>1. CASE Of("preAuthorized")
      <4>1. pSequence["account"] = pRead
        BY <1>4, <3>1 DEF Prepared!Send, Prepared!Goto, PreparedIInv,
           PreparedForms, NumbersFit
      <4>2. Prepared!First = Prepared!Install
        BY <3>1 DEF Of, Prepared!First
      <4> QED  BY <3>1, <4>1, <4>2 DEF Given, Prepared!Install, Prepared!Tx
    <3>2. CASE Of("signedPayload")
      <4>1. Prepared!First = Prepared!TransactionD
        BY <3>2 DEF Of, Prepared!First
      <4> QED  BY <3>2, <4>1 DEF Given, Prepared!TransactionD, Prepared!Tx
    <3>3. CASE Of("hashX")
      <4>1. Prepared!First = Prepared!HashXPayment
        BY <3>3 DEF Of, Prepared!First
      <4> QED  BY <3>3, <4>1 DEF Given, Prepared!HashXPayment, Prepared!Tx
    <3> QED  BY <3>1, <3>2, <3>3 DEF PreparedIInv, Of
  <2> QED  BY <1>4, <2>1, FormsKept DEF Prepared!Send, Prepared!Goto,
              PreparedIInv, PreparedForms, NumbersFit, Of
<1>5. CASE Prepared!SignAndSend
  <2>1. PICK tx \in pPrepared :
          \/ /\ pLesson = "preAuthorized"
             /\ pSubmitted' = pSubmitted \cup {tx}
          \/ /\ pLesson = "signedPayload"
             /\ "bob over C" \in Prepared!Disclosed
             /\ pSubmitted' = pSubmitted
                  \cup {[tx EXCEPT !.signatures = {"bob over C"}]}
    BY <1>5 DEF Prepared!SignAndSend
  <2>2. \A t \in pSubmitted' \ pSubmitted : Given(t)
    <3>1. CASE pLesson = "preAuthorized"
      <4>1. tx.name = "future" /\ tx.source = "account" /\ tx.signatures = {}
        BY <3>1 DEF PreparedIInv, PreparedForms, Finalized, Of, Prepared!Tx
      <4> QED  BY <2>1, <3>1, <4>1 DEF Given, Of
    <3>2. CASE pLesson = "signedPayload"
      <4>1. PICK u : tx = Prepared!Tx("C", "bob", pRead + 1, u, {}, {})
        BY <3>2 DEF PreparedIInv, PreparedForms, Finalized, Of
      <4> DEFINE number == pRead + 1
                 disclosed == {"bob over C"}
      <4>2. [tx EXCEPT !.signatures = disclosed]
              = Prepared!Tx("C", "bob", number, u, {}, disclosed)
        <5> HIDE DEF number, disclosed
        <5>1. [Prepared!Tx("C", "bob", number, u, {}, {})
                 EXCEPT !.signatures = disclosed]
                = Prepared!Tx("C", "bob", number, u, {}, disclosed)
          BY SignedTx
        <5>2. tx = Prepared!Tx("C", "bob", number, u, {}, {})
          BY <4>1 DEF number
        <5> QED  BY <5>1, <5>2
      <4>3. "D" \in pApplied
        <5>1. PICK t \in pSubmitted : t.name \in pApplied
          BY <2>1, <3>2 DEF Prepared!Disclosed
        <5>2. Given(t)
          BY DEF PreparedIInv, PreparedForms
        <5> QED  BY <3>2, <5>1, <5>2 DEF Given, Of
      <4>4. Given(Prepared!Tx("C", "bob", number, u, {}, disclosed))
        BY <3>2, <4>3 DEF Given, Of, Prepared!Tx
      <4>5. pSubmitted' = pSubmitted \cup {[tx EXCEPT !.signatures = disclosed]}
        BY <2>1, <3>2
      <4> QED  BY <4>2, <4>4, <4>5
    <3> QED  BY <2>1, <3>1, <3>2
  <2>3. UNCHANGED <<pLesson, pSequence, pRead, pPrepared, pApplied, pInstalled>>
        /\ pAt' = "confirmPrepared"
    BY <1>5 DEF Prepared!SignAndSend, Prepared!Goto
  <2>4. pSubmitted \subseteq pSubmitted'
    BY <2>1
  <2>5. PreparedForms'
    BY <2>2, <2>3, FormsKept DEF PreparedIInv, PreparedForms
  <2> QED  BY <2>3, <2>4, <2>5 DEF PreparedIInv, NumbersFit, Of
<1>6. CASE Prepared!Confirm \/ Prepared!ConfirmPrepared \/ Prepared!Throw
           \/ Prepared!Tick \/ UNCHANGED preparedVars
  <2>1. /\ UNCHANGED <<pLesson, pSequence, pRead, pPrepared, pSubmitted,
                       pApplied, pInstalled>>
        /\ pAt' = pAt \/ pAt' \notin {"fund", "read", "finalize", "send"}
    BY <1>6 DEF Prepared!Confirm, Prepared!ConfirmPrepared, Prepared!Throw,
              Prepared!Tick, preparedVars, Prepared!Goto
  <2> QED  BY <2>1, FormsKept DEF PreparedIInv, PreparedForms, NumbersFit, Of
<1>7. ASSUME NEW tx \in pSubmitted, Prepared!Apply(tx)
      PROVE  PreparedIInv'
  <2>1. /\ UNCHANGED <<pLesson, pAt, pRead, pPrepared, pSubmitted>>
        /\ pSequence' = [pSequence EXCEPT ![tx.source] = @ + 1]
        /\ pApplied' = pApplied \cup {tx.name}
        /\ pInstalled' = (pInstalled \ {tx.name})
             \cup {t.name : t \in IF tx.name = "install" THEN pPrepared
                                                         ELSE {}}
        /\ tx.sequence = pSequence[tx.source] + 1
        /\ \/ tx.source \in tx.signatures
           \/ tx.name = "C" /\ "bob over C" \in tx.signatures
           \/ tx.name \in pInstalled
    BY <1>7 DEF Prepared!Apply, Prepared!Authorized
  <2>2. Given(tx) /\ pSubmitted # {}
    BY DEF PreparedIInv, PreparedForms
  <2>3. PreparedForms'
    <3>1. \A t : Finalized(t) => Finalized(t)'
      BY <2>1 DEF Finalized, Of
    <3>2. \A t : Given(t) => Given(t)'
      BY <2>1 DEF Given, Of
    <3> QED  BY <2>1, <2>2, <3>1, <3>2 DEF PreparedIInv, PreparedForms
  <2>4. tx.source \in Accounts /\ pSequence' \in [Accounts -> Nat]
    <3>1. tx.source \in Accounts
      BY <2>2 DEF Given, Accounts
    <3>2. pSequence \in [Accounts -> Nat]
      BY DEF PreparedIInv
    <3>3. pSequence' = [pSequence EXCEPT ![tx.source] = @ + 1]
      BY <2>1
    <3> QED  BY <3>1, <3>2, <3>3
  <2>5. \A t \in pPrepared : Of("preAuthorized") => t.name = "future"
    BY DEF PreparedIInv, PreparedForms, Finalized, Of, Prepared!Tx
  <2>6. CASE Of("preAuthorized") /\ tx.name = "install"
    <3>1. "install" \notin pApplied /\ pSequence["account"] = pRead
      BY <2>1, <2>2, <2>6 DEF Given, PreparedIInv, NumbersFit, Accounts, Of
    <3>2. pSequence'["account"] = pRead + 1 /\ "install" \in pApplied'
      BY <2>1, <2>2, <2>6, <3>1 DEF Given, PreparedIInv, Accounts, Of
    <3>3. pInstalled' \subseteq {"future"}
      BY <2>1, <2>5, <2>6 DEF PreparedIInv
    <3>4. NumbersFit'
      BY <2>1, <2>6, <3>2 DEF NumbersFit, Of, PreparedIInv
    <3> QED  BY <2>1, <2>3, <2>4, <2>6, <3>2, <3>3, <3>4
                DEF PreparedIInv, Of
  <2>7. CASE Of("preAuthorized") /\ tx.name # "install"
    <3>1. tx.name = "future" /\ tx.source = "account" /\ tx.signatures = {}
      BY <2>2, <2>7 DEF Given, Of
    <3>2. "install" \in pApplied
      BY <2>1, <3>1 DEF PreparedIInv
    <3>3. pSequence["account"] >= pRead + 1
      BY <2>7, <3>2 DEF PreparedIInv, NumbersFit
    <3>4. pSequence'["account"] >= pRead + 1
      BY <2>1, <3>1, <3>3 DEF PreparedIInv, Accounts
    <3>5. NumbersFit'
      BY <2>1, <2>7, <3>1, <3>2, <3>4 DEF NumbersFit, Of
    <3>6. pInstalled' \subseteq pInstalled
      BY <2>1, <3>1
    <3> QED  BY <2>1, <2>3, <2>4, <2>7, <3>1, <3>2, <3>5, <3>6
                DEF PreparedIInv, Of
  <2>8. CASE ~Of("preAuthorized")
    <3>1. tx.name \in {"D", "C", "payment"} /\ pInstalled' = {}
      BY <2>1, <2>2, <2>8 DEF Given, PreparedIInv, Of
    <3>2. Of("signedPayload") /\ tx.source = "bob" => tx.name = "C"
      BY <2>2, <2>8 DEF Given, Of
    <3>3. "bob" # tx.source => pSequence'["bob"] = pSequence["bob"]
      BY <2>1, <2>4 DEF PreparedIInv, Accounts
    <3>4. NumbersFit'
      BY <2>1, <2>8, <3>2, <3>3 DEF NumbersFit, Of, PreparedIInv
    <3> QED  BY <2>1, <2>3, <2>4, <3>1, <3>4 DEF PreparedIInv, Of
  <2> QED  BY <2>6, <2>7, <2>8
<1> QED  BY <1>1, <1>2, <1>3, <1>4, <1>5, <1>6, <1>7
         DEF Prepared!Next, Prepared!Script

LEMMA NotOfC ==
  ASSUME NEW x, x = {"account"} \/ x = {}
  PROVE  "bob over C" \notin x
<1>1. CASE x = {"account"}
  BY <1>1
<1>2. CASE x = {}
  BY <1>2
<1> QED  BY <1>1, <1>2

LEMMA PreparedWorks ==
  PreparedIInv => Prepared!PreparedTransactionFits /\ Prepared!PaymentDiscloses
<1> SUFFICES ASSUME PreparedIInv
             PROVE  /\ Prepared!PreparedTransactionFits
                    /\ Prepared!PaymentDiscloses
  OBVIOUS
<1>1. ASSUME NEW tx \in pPrepared,
             tx.name \in pInstalled \/ "bob over C" \in Prepared!Disclosed,
             tx.name \notin pApplied
      PROVE  tx.sequence = pSequence[tx.source] + 1
  <2>1. CASE Of("preAuthorized")
    <3>1. tx.name = "future" /\ tx.source = "account" /\ tx.sequence = pRead + 2
      BY <2>1 DEF PreparedIInv, PreparedForms, Finalized, Of, Prepared!Tx
    <3>2. "bob over C" \notin Prepared!Disclosed
      <4>1. \A t \in pSubmitted : "bob over C" \notin t.signatures
        <5>1. \A t \in pSubmitted : Given(t)
          BY DEF PreparedIInv, PreparedForms
        <5>2. ASSUME NEW t \in pSubmitted PROVE "bob over C" \notin t.signatures
          <6>1. t.signatures = {"account"} \/ t.signatures = {}
            BY <2>1, <5>1 DEF Given, Of
          <6> QED  BY <6>1, NotOfC
        <5> QED  BY <5>2
      <4> QED  BY <4>1 DEF Prepared!Disclosed
    <3>3. pSequence["account"] = pRead + 1
      BY <1>1, <2>1, <3>1, <3>2 DEF PreparedIInv, NumbersFit
    <3> QED  BY <3>1, <3>3 DEF PreparedIInv
  <2>2. CASE ~Of("preAuthorized")
    <3>1. /\ Of("signedPayload")
          /\ tx.name = "C" /\ tx.source = "bob" /\ tx.sequence = pRead + 1
      BY <2>2 DEF PreparedIInv, PreparedForms, Finalized, Of, Prepared!Tx
    <3> QED  BY <1>1, <3>1 DEF PreparedIInv, NumbersFit
  <2> QED  BY <2>1, <2>2
<1>2. ASSUME NEW n \in pApplied
      PROVE  \E tx \in pSubmitted : tx.name = n /\ Given(tx)
                 /\ tx.signatures \subseteq Prepared!Disclosed
  BY DEF PreparedIInv, PreparedForms, Prepared!Disclosed
<1>3. /\ "D" \in pApplied => "bob over C" \in Prepared!Disclosed
      /\ "payment" \in pApplied => "preimage" \in Prepared!Disclosed
      /\ "C" \in pApplied => "D" \in pApplied
  BY <1>2 DEF Given
<1> QED  BY <1>1, <1>3
         DEF Prepared!PreparedTransactionFits, Prepared!PaymentDiscloses
-----------------------------------------------------------------------------
(* The calls of the ledger's commands.                                     *)

CallNames ==
  {"start", "attach", "follow", "restart", "stop", "destroy", "details",
   "fund sender", "fund receiver", "pay 25", "pay 5 back", "set options",
   "test payment", "test settings"}

LEMMA Concatenated ==
  ASSUME NEW u \in Seq(CallNames), NEW v \in Seq(CallNames)
  PROVE  /\ u \o v \in Seq(CallNames)
         /\ Len(u \o v) = Len(u) + Len(v)
         /\ \A i \in 1 .. Len(u) : (u \o v)[i] = u[i]
         /\ \A i \in 1 .. Len(v) : (u \o v)[Len(u) + i] = v[i]
<1>1. /\ u \o v \in Seq(CallNames) /\ Len(u \o v) = Len(u) + Len(v)
      /\ \A i \in 1 .. Len(u) + Len(v) :
           (u \o v)[i] = IF i <= Len(u) THEN u[i] ELSE v[i - Len(u)]
  BY ConcatProperties
<1>2. Len(u) \in Nat /\ Len(v) \in Nat
  OBVIOUS
<1>3. ASSUME NEW i \in 1 .. Len(u) PROVE (u \o v)[i] = u[i]
  BY <1>1, <1>2
<1>4. ASSUME NEW i \in 1 .. Len(v) PROVE (u \o v)[Len(u) + i] = v[i]
  <2>1. /\ Len(u) + i \in 1 .. Len(u) + Len(v) /\ ~(Len(u) + i <= Len(u))
        /\ Len(u) + i - Len(u) = i
    BY <1>2
  <2> QED  BY <1>1, <2>1
<1> QED  BY <1>1, <1>3, <1>4



LEMMA Single == ASSUME NEW S, NEW a \in S PROVE <<a>> \in Seq(S)
  OBVIOUS

LEMMA Pair ==
  ASSUME NEW S, NEW a \in S, NEW b \in S PROVE <<a, b>> \in Seq(S)
  OBVIOUS

LEMMA Sixfold ==
  ASSUME NEW S, NEW a \in S, NEW b \in S, NEW c \in S, NEW d \in S,
         NEW e \in S, NEW f \in S
  PROVE  <<a, b, c, d, e, f>> \in Seq(S)
  OBVIOUS

\* The parts that commands are put together from.
LEMMA PartsAreCalls ==
  /\ <<"attach">> \in Seq(CallNames) /\ <<"restart">> \in Seq(CallNames)
  /\ <<"follow">> \in Seq(CallNames) /\ <<>> \in Seq(CallNames)
  /\ <<"attach", "details">> \in Seq(CallNames)
<1>1. /\ "attach" \in CallNames /\ "restart" \in CallNames
      /\ "follow" \in CallNames /\ "details" \in CallNames
  BY DEF CallNames
<1>2. /\ <<"attach">> \in Seq(CallNames) /\ <<"restart">> \in Seq(CallNames)
      /\ <<"follow">> \in Seq(CallNames)
  BY <1>1, Single, Zenon
<1>3. <<"attach", "details">> \in Seq(CallNames)
  BY <1>1, Pair, Zenon
<1>4. <<>> \in Seq(CallNames)
  OBVIOUS
<1> QED  BY <1>2, <1>3, <1>4

LEMMA PartsAre ==
  /\ Len(<<"attach">>) = 1 /\ <<"attach">>[1] = "attach"
  /\ Len(<<"restart">>) = 1 /\ <<"restart">>[1] = "restart"
  /\ Len(<<"follow">>) = 1 /\ <<"follow">>[1] = "follow"
  /\ Len(<<>>) = 0
  /\ Len(<<"attach", "details">>) = 2
  /\ <<"attach", "details">>[1] = "attach"
  /\ <<"attach", "details">>[2] = "details"
  OBVIOUS

QuietRestart == Ledger!RestartLedger(FALSE)
FollowedRestart == Ledger!RestartLedger(TRUE)

\* A restart without --logs.
LEMMA QuietCalls ==
  /\ Len(QuietRestart) = 4
  /\ QuietRestart[1] = "attach"
  /\ QuietRestart[2] = "restart"
  /\ QuietRestart[3] = "attach"
  /\ QuietRestart[4] = "details"
<1> DEFINE a == <<"attach">>
           r == <<"restart">>
           d == <<"attach", "details">>
           n == Ledger!Logs(FALSE)
           s2 == a \o n
           s3 == s2 \o r
           s4 == s3 \o n
           s5 == s4 \o d
<1>1. QuietRestart = s5
  BY DEF QuietRestart, Ledger!RestartLedger
<1>2. n = <<>>
  BY DEF Ledger!Logs
<1>3. /\ a \in Seq(CallNames) /\ Len(a) = 1 /\ a[1] = "attach"
      /\ r \in Seq(CallNames) /\ Len(r) = 1 /\ r[1] = "restart"
      /\ d \in Seq(CallNames) /\ Len(d) = 2 /\ d[1] = "attach"
      /\ d[2] = "details"
      /\ n \in Seq(CallNames) /\ Len(n) = 0
  BY PartsAreCalls, PartsAre, <1>2
<1> HIDE DEF a, r, d, n
<1>4. s2 \in Seq(CallNames) /\ Len(s2) = 1 /\ s2[1] = "attach"
  BY <1>3, Concatenated
<1> HIDE DEF s2
<1>5. /\ s3 \in Seq(CallNames) /\ Len(s3) = 2
      /\ s3[1] = "attach" /\ s3[2] = "restart"
  BY <1>3, <1>4, Concatenated
<1> HIDE DEF s3
<1>6. /\ s4 \in Seq(CallNames) /\ Len(s4) = 2
      /\ s4[1] = "attach" /\ s4[2] = "restart"
  BY <1>3, <1>5, Concatenated
<1> HIDE DEF s4
<1>7. Len(s5) = 4 /\ s5[1] = "attach" /\ s5[2] = "restart" /\ s5[3] = "attach"
      /\ s5[4] = "details"
  BY <1>3, <1>6, Concatenated
<1> QED  BY <1>1, <1>7


\* And with --logs.
LEMMA FollowedCalls ==
  /\ Len(FollowedRestart) = 6
  /\ FollowedRestart[1] = "attach"
  /\ FollowedRestart[2] = "follow"
  /\ FollowedRestart[3] = "restart"
  /\ FollowedRestart[4] = "follow"
  /\ FollowedRestart[5] = "attach"
  /\ FollowedRestart[6] = "details"
<1> DEFINE a == <<"attach">>
           r == <<"restart">>
           d == <<"attach", "details">>
           n == Ledger!Logs(TRUE)
           s2 == a \o n
           s3 == s2 \o r
           s4 == s3 \o n
           s5 == s4 \o d
<1>1. FollowedRestart = s5
  BY DEF FollowedRestart, Ledger!RestartLedger
<1>2. n = <<"follow">>
  BY DEF Ledger!Logs
<1>3. /\ a \in Seq(CallNames) /\ Len(a) = 1 /\ a[1] = "attach"
      /\ r \in Seq(CallNames) /\ Len(r) = 1 /\ r[1] = "restart"
      /\ d \in Seq(CallNames) /\ Len(d) = 2 /\ d[1] = "attach"
      /\ d[2] = "details"
      /\ n \in Seq(CallNames) /\ Len(n) = 1 /\ n[1] = "follow"
  BY PartsAreCalls, PartsAre, <1>2
<1> HIDE DEF a, r, d, n
<1>4. /\ s2 \in Seq(CallNames) /\ Len(s2) = 2
      /\ s2[1] = "attach" /\ s2[2] = "follow"
  BY <1>3, Concatenated
<1> HIDE DEF s2
<1>5. /\ s3 \in Seq(CallNames) /\ Len(s3) = 3
      /\ s3[1] = "attach" /\ s3[2] = "follow" /\ s3[3] = "restart"
  BY <1>3, <1>4, Concatenated
<1> HIDE DEF s3
<1>6. /\ s4 \in Seq(CallNames) /\ Len(s4) = 4
      /\ s4[1] = "attach" /\ s4[2] = "follow" /\ s4[3] = "restart"
      /\ s4[4] = "follow"
  <2>1. s3 \in Seq(CallNames) /\ n \in Seq(CallNames)
    BY <1>3, <1>5
  <2>2. /\ s3 \o n \in Seq(CallNames)
        /\ Len(s3 \o n) = Len(s3) + Len(n)
        /\ \A i \in 1 .. Len(s3) : (s3 \o n)[i] = s3[i]
        /\ \A i \in 1 .. Len(n) : (s3 \o n)[Len(s3) + i] = n[i]
    BY <2>1, Concatenated, Zenon
  <2>3. s4 \in Seq(CallNames) /\ Len(s4) = 4
    BY <1>3, <1>5, <2>2
  <2>4. \A i \in 1 .. 3 : s4[i] = s3[i]
    BY <1>5, <2>2
  <2>5. s4[4] = n[1]
    <3>1. 3 + 1 = 4 /\ 1 \in 1 .. 1
      OBVIOUS
    <3> QED  BY <1>3, <1>5, <2>2, <3>1
  <2> HIDE DEF s4
  <2> QED  BY <1>3, <1>5, <2>3, <2>4, <2>5
<1> HIDE DEF s4
<1>7. /\ Len(s5) = 6
      /\ s5[1] = "attach" /\ s5[2] = "follow" /\ s5[3] = "restart"
      /\ s5[4] = "follow" /\ s5[5] = "attach" /\ s5[6] = "details"
  <2>1. s4 \in Seq(CallNames) /\ d \in Seq(CallNames)
    BY <1>3, <1>6
  <2>2. /\ s4 \o d \in Seq(CallNames)
        /\ Len(s4 \o d) = Len(s4) + Len(d)
        /\ \A i \in 1 .. Len(s4) : (s4 \o d)[i] = s4[i]
        /\ \A i \in 1 .. Len(d) : (s4 \o d)[Len(s4) + i] = d[i]
    BY <2>1, Concatenated, Zenon
  <2>3. Len(s5) = 6
    BY <1>3, <1>6, <2>2
  <2>4. \A i \in 1 .. 4 : s5[i] = s4[i]
    BY <1>6, <2>2
  <2>5. s5[5] = d[1] /\ s5[6] = d[2]
    <3>1. 4 + 1 = 5 /\ 4 + 2 = 6 /\ 1 \in 1 .. 2 /\ 2 \in 1 .. 2
      OBVIOUS
    <3> QED  BY <1>3, <1>6, <2>2, <3>1
  <2> HIDE DEF s5
  <2> QED  BY <1>3, <1>6, <2>3, <2>4, <2>5
<1> QED  BY <1>1, <1>7

LEMMA TestIs ==
  /\ Len(Ledger!IntegrationTest) = 6
  /\ Ledger!IntegrationTest[1] = "start"
  /\ Ledger!IntegrationTest[2] = "details"
  /\ Ledger!IntegrationTest[3] = "test payment"
  /\ Ledger!IntegrationTest[4] = "test settings"
  /\ Ledger!IntegrationTest[5] = "stop"
  /\ Ledger!IntegrationTest[6] = "destroy"
  BY DEF Ledger!IntegrationTest

LEMMA TestIsNoRestart ==
  /\ FollowedRestart # Ledger!IntegrationTest
  /\ QuietRestart # Ledger!IntegrationTest
<1>1. FollowedRestart # Ledger!IntegrationTest
  BY FollowedCalls, TestIs
<1>2. QuietRestart # Ledger!IntegrationTest
  BY QuietCalls, TestIs
<1> QED  BY <1>1, <1>2

LEMMA RestartsDiffer ==
  FollowedRestart # QuietRestart
  BY FollowedCalls, QuietCalls

\* The other commands put no restart together.
LEMMA OthersDoNotRestart ==
  LET Quiet == CallNames \ {"restart"}
  IN  /\ Ledger!StartLedger \in Seq(Quiet)
      /\ Ledger!IntegrationTest \in Seq(Quiet)
      /\ \A logs \in BOOLEAN : /\ Ledger!RunTransactions(logs) \in Seq(Quiet)
                               /\ Ledger!StopLedger(logs) \in Seq(Quiet)
<1> DEFINE Quiet == CallNames \ {"restart"}
<1>1. /\ "start" \in Quiet /\ "attach" \in Quiet /\ "follow" \in Quiet
      /\ "stop" \in Quiet /\ "destroy" \in Quiet /\ "details" \in Quiet
      /\ "fund sender" \in Quiet /\ "fund receiver" \in Quiet
      /\ "pay 25" \in Quiet /\ "pay 5 back" \in Quiet
      /\ "set options" \in Quiet /\ "test payment" \in Quiet
      /\ "test settings" \in Quiet
  BY DEF CallNames
<1> HIDE DEF Quiet
<1>2. <<"start", "details">> \in Seq(Quiet)
  BY <1>1, Pair, Zenon
<1>3. <<"start", "details", "test payment", "test settings", "stop",
        "destroy">> \in Seq(Quiet)
  BY <1>1, Sixfold, Zenon
<1>4. <<"details", "fund sender", "fund receiver", "pay 25", "pay 5 back",
        "set options">> \in Seq(Quiet)
  BY <1>1, Sixfold, Zenon
<1>5. /\ <<"attach">> \in Seq(Quiet) /\ <<"follow">> \in Seq(Quiet)
      /\ <<"stop">> \in Seq(Quiet)
  BY <1>1, Single, Zenon
<1>6. <<>> \in Seq(Quiet)
  OBVIOUS
<1>7. \A logs \in BOOLEAN : Ledger!Logs(logs) \in Seq(Quiet)
  BY <1>5, <1>6, Zenon DEF Ledger!Logs
<1>8. ASSUME NEW logs \in BOOLEAN
      PROVE  /\ Ledger!RunTransactions(logs) \in Seq(Quiet)
             /\ Ledger!StopLedger(logs) \in Seq(Quiet)
  <2> DEFINE attached == <<"attach">> \o Ledger!Logs(logs)
  <2>1. attached \in Seq(Quiet)
    BY <1>5, <1>7, ConcatProperties
  <2> HIDE DEF attached
  <2>2. attached \o <<"stop">> \in Seq(Quiet)
    BY <1>5, <2>1, ConcatProperties, Zenon
  <2>3. attached \o <<"details", "fund sender", "fund receiver", "pay 25",
                      "pay 5 back", "set options">> \in Seq(Quiet)
    BY <1>4, <2>1, ConcatProperties, Zenon
  <2> QED  BY <2>2, <2>3, Zenon
              DEF attached, Ledger!RunTransactions, Ledger!StopLedger
<1>9. /\ Ledger!StartLedger \in Seq(Quiet)
      /\ Ledger!IntegrationTest \in Seq(Quiet)
  BY <1>2, <1>3, Zenon DEF Ledger!StartLedger, Ledger!IntegrationTest
<1> QED  BY <1>8, <1>9, Zenon DEF Quiet

LEMMA CommandKinds ==
  ASSUME NEW c \in Ledger!Commands
  PROVE  /\ Len(c) \in Nat
         /\ \A i \in 1 .. Len(c) :
              c[i] = "restart" =>
                \/ c = FollowedRestart /\ i = 3
                \/ c = QuietRestart /\ i = 2
<1>1. \/ c \in Seq(CallNames \ {"restart"})
      \/ c = FollowedRestart
      \/ c = QuietRestart
  <2>1. \/ c \in {Ledger!StartLedger, Ledger!IntegrationTest}
        \/ \E logs \in BOOLEAN :
             c \in {Ledger!RunTransactions(logs), Ledger!RestartLedger(logs),
                   Ledger!StopLedger(logs)}
    BY Zenon DEF Ledger!Commands
  <2>2. \A logs \in BOOLEAN : \/ Ledger!RestartLedger(logs) = FollowedRestart
                              \/ Ledger!RestartLedger(logs) = QuietRestart
    BY Zenon DEF FollowedRestart, QuietRestart
  <2> QED  BY <2>1, <2>2, OthersDoNotRestart, Zenon
<1>2. CASE c \in Seq(CallNames \ {"restart"})
  <2> DEFINE Quiet == CallNames \ {"restart"}
  <2>1. "restart" \notin Quiet
    OBVIOUS
  <2> HIDE DEF Quiet
  <2>2. c \in Seq(Quiet)
    BY <1>2 DEF Quiet
  <2>3. Len(c) \in Nat /\ \A i \in 1 .. Len(c) : c[i] \in Quiet
    BY <2>2
  <2> QED  BY <2>1, <2>3
<1>3. CASE c = FollowedRestart
  <2>1. Len(c) = 6 /\ \A i \in 1 .. 6 : c[i] = "restart" => i = 3
    <3>1. \A i \in 1 .. 6 : i \in {1, 2, 3, 4, 5, 6}
      OBVIOUS
    <3>2. /\ Len(c) = 6 /\ c[1] # "restart" /\ c[2] # "restart"
          /\ c[4] # "restart" /\ c[5] # "restart" /\ c[6] # "restart"
      BY <1>3, FollowedCalls
    <3> QED  BY <3>1, <3>2
  <2> QED  BY <1>3, <2>1
<1>4. CASE c = QuietRestart
  <2>1. Len(c) = 4 /\ \A i \in 1 .. 4 : c[i] = "restart" => i = 2
    <3>1. \A i \in 1 .. 4 : i \in {1, 2, 3, 4}
      OBVIOUS
    <3>2. /\ Len(c) = 4 /\ c[1] # "restart" /\ c[3] # "restart"
          /\ c[4] # "restart"
      BY <1>4, QuietCalls
    <3> QED  BY <3>1, <3>2
  <2> QED  BY <1>4, <2>1
<1> QED  BY <1>1, <1>2, <1>3, <1>4

-----------------------------------------------------------------------------
(* The reusable ledger and the test's disposable one.                      *)

\* A test that is past its last call has destroyed its container or tried to,
\* or its beforeAll failed.
Spared(t) == lThrew[t] \cap (Ledger!BeforeAll \cup {"destroy"}) = {}

TestCleansUp(t) ==
  Ledger!IsTest(t) /\ lStep[t] > 6 /\ Spared(t)
    => lState["disposable"] = "absent"

\* Only a restart command restarts, and its ledger may be restarted again.
RestartIsPast(t) ==
  /\ lRestarted[t] <= lStarts["reusable"]
  /\ lRestarted[t] > 0 =>
       \/ lCommand[t] = FollowedRestart /\ lStep[t] > 3
       \/ lCommand[t] = QuietRestart /\ lStep[t] > 2

\* The call after a restart attaches: its details are of the new start.
RestartIsSeen(t) ==
  lRestarted[t] > 0 /\ lThrew[t] = {} /\ lStep[t] >= Len(lCommand[t])
    => lReady[t] >= lRestarted[t]

\* The second follower of a restart comes within FollowDelay of the lines of
\* the new start, and asks for the second before.
RestartIsFollowed(t) ==
  /\ lCommand[t] = QuietRestart => lSince[t] = 0
  /\ FollowDelay <= 1 /\ lCommand[t] = FollowedRestart
       /\ lRestarted[t] > 0 /\ lRestarted[t] = lStarts["reusable"]
     => /\ lStep[t] = 4 =>
             \A line \in lOutput["reusable"] : lNow - line <= FollowDelay
        /\ lStep[t] \in {5, 6} =>
             \A line \in lOutput["reusable"] : line >= lSince[t]

LedgerTypes ==
  /\ lCommand \in [Terminals -> Ledger!Commands]
  /\ lStep \in [Terminals -> Nat \ {0}]
  /\ lThrew = [t \in Terminals |-> lThrew[t]]
  /\ lReady \in [Terminals -> Nat] /\ lRestarted \in [Terminals -> Nat]
  /\ lSince \in [Terminals -> Nat]
  /\ lState \in [Ledger!Containers ->
                   {"absent", "stopped", "starting", "ready"}]
  /\ lStarts \in [Ledger!Containers -> Nat]
  /\ lOutput \in [Ledger!Containers -> SUBSET Nat]
  /\ lNow \in Nat \ {0}

TestIsUnique ==
  \A t, u \in Terminals : Ledger!IsTest(t) /\ Ledger!IsTest(u) => t = u

LedgerIInv ==
  /\ LedgerTypes
  /\ TestIsUnique
  /\ lStarts["reusable"] = 0 => lOutput["reusable"] = {}
  /\ \A t \in Terminals :
       TestCleansUp(t) /\ RestartIsPast(t) /\ RestartIsSeen(t)
         /\ RestartIsFollowed(t)


\* What the container and the clock look like to a terminal whose own state
\* a step leaves alone.
LEMMA RestartsKept ==
  ASSUME NEW u \in Terminals, LedgerTypes, RestartIsPast(u),
         RestartIsSeen(u), RestartIsFollowed(u),
         lCommand'[u] = lCommand[u], lStep'[u] = lStep[u],
         lThrew'[u] = lThrew[u], lReady'[u] = lReady[u],
         lRestarted'[u] = lRestarted[u], lSince'[u] = lSince[u],
         lNow' = lNow,
         \/ /\ lStarts'["reusable"] = lStarts["reusable"]
            /\ lOutput'["reusable"] = lOutput["reusable"]
         \/ lStarts'["reusable"] = lStarts["reusable"] + 1
  PROVE  RestartIsPast(u)' /\ RestartIsSeen(u)' /\ RestartIsFollowed(u)'
<1>1. lRestarted[u] \in Nat /\ lStarts["reusable"] \in Nat
  BY DEF LedgerTypes, Ledger!Containers
<1>2. RestartIsPast(u)'
  BY <1>1 DEF RestartIsPast
<1>3. RestartIsSeen(u)'
  BY DEF RestartIsSeen
<1>4. RestartIsFollowed(u)'
  <2>1. CASE lStarts'["reusable"] = lStarts["reusable"] + 1
    <3>1. lRestarted'[u] # lStarts'["reusable"]
      BY <1>1, <2>1 DEF RestartIsPast
    <3> QED  BY <3>1 DEF RestartIsFollowed
  <2>2. CASE /\ lStarts'["reusable"] = lStarts["reusable"]
             /\ lOutput'["reusable"] = lOutput["reusable"]
    BY <2>2 DEF RestartIsFollowed
  <2> QED  BY <2>1, <2>2
<1> QED  BY <1>2, <1>3, <1>4

LEMMA TestsKept ==
  ASSUME NEW u \in Terminals, TestCleansUp(u),
         lCommand'[u] = lCommand[u], lStep'[u] = lStep[u],
         lThrew'[u] = lThrew[u],
         lState'["disposable"] = lState["disposable"]
  PROVE  TestCleansUp(u)'
  BY DEF TestCleansUp, Spared, Ledger!IsTest

LEMMA StepsOn ==
  ASSUME LedgerTypes, NEW t \in Terminals, Ledger!Answered(t)
  PROVE  /\ lStep' \in [Terminals -> Nat \ {0}]
         /\ lStep'[t] = lStep[t] + 1
         /\ \A u \in Terminals \ {t} : lStep'[u] = lStep[u]
         /\ lCommand' = lCommand /\ lThrew' = lThrew
<1>1. lStep \in [Terminals -> Nat \ {0}]
  BY DEF LedgerTypes
<1>2. lStep' = [lStep EXCEPT ![t] = @ + 1]
  BY DEF Ledger!Answered
<1>3. lStep[t] + 1 \in Nat \ {0}
  BY <1>1
<1> QED  BY <1>1, <1>2, <1>3 DEF Ledger!Answered

\* Where a test stands is known from what it awaits.
LEMMA TestAwaits ==
  ASSUME LedgerTypes, NEW t \in Terminals, Ledger!IsTest(t), NEW call,
         Ledger!Awaits(t, call)
  PROVE  /\ lStep[t] \in 1 .. 6
         /\ call # "restart"
         /\ lStep[t] = 6 <=> call = "destroy"
         /\ call = "destroy" => lStep[t] = 6
<1>1. lStep[t] \in 1 .. 6 /\ Ledger!IntegrationTest[lStep[t]] = call
  <2>1. lStep[t] \in Nat \ {0}
    BY DEF LedgerTypes
  <2>2. lCommand[t] = Ledger!IntegrationTest
    BY DEF Ledger!IsTest
  <2>3. ~(lStep[t] > Len(lCommand[t])) /\ lCommand[t][lStep[t]] = call
    BY DEF Ledger!Awaits, Ledger!Ended
  <2>4. ~(lStep[t] > 6)
    BY <2>2, <2>3, TestIs
  <2> QED  BY <2>1, <2>2, <2>3, <2>4
<1>2. lStep[t] \in {1, 2, 3, 4, 5, 6}
  BY <1>1
<1> QED  BY <1>1, <1>2, TestIs

\* What a restarting command awaits once it has restarted.
LEMMA RestartAwaits ==
  ASSUME LedgerTypes, NEW t \in Terminals, RestartIsPast(t),
         lRestarted[t] > 0, NEW call, Ledger!Awaits(t, call)
  PROVE  /\ ~Ledger!IsTest(t)
         /\ \/ /\ lCommand[t] = FollowedRestart
               /\ Len(lCommand[t]) = 6
               /\ \/ lStep[t] = 4 /\ call = "follow"
                  \/ lStep[t] = 5 /\ call = "attach"
                  \/ lStep[t] = 6 /\ call = "details"
            \/ /\ lCommand[t] = QuietRestart
               /\ lCommand[t] # FollowedRestart
               /\ Len(lCommand[t]) = 4
               /\ \/ lStep[t] = 3 /\ call = "attach"
                  \/ lStep[t] = 4 /\ call = "details"
<1>1. lStep[t] \in Nat
  BY DEF LedgerTypes
<1>2. ~Ledger!IsTest(t)
  BY TestIsNoRestart DEF RestartIsPast, Ledger!IsTest
<1>3. lStep[t] <= Len(lCommand[t]) /\ lCommand[t][lStep[t]] = call
  <2>1. Len(lCommand[t]) \in Nat
    BY CommandKinds DEF LedgerTypes
  <2>2. ~(lStep[t] > Len(lCommand[t])) /\ lCommand[t][lStep[t]] = call
    BY DEF Ledger!Awaits, Ledger!Ended
  <2> QED  BY <1>1, <2>1, <2>2
<1>4. CASE lCommand[t] = FollowedRestart /\ lStep[t] > 3
  <2>1. lStep[t] \in {4, 5, 6} /\ Len(lCommand[t]) = 6
    BY <1>1, <1>3, <1>4, FollowedCalls
  <2>2. FollowedRestart[lStep[t]] = call
    BY <1>3, <1>4
  <2> QED  BY <1>2, <1>4, <2>1, <2>2, FollowedCalls
<1>5. CASE lCommand[t] = QuietRestart /\ lStep[t] > 2
  <2>1. lStep[t] \in {3, 4} /\ Len(lCommand[t]) = 4
    BY <1>1, <1>3, <1>5, QuietCalls
  <2>2. QuietRestart[lStep[t]] = call
    BY <1>3, <1>5
  <2> QED  BY <1>2, <1>5, <2>1, <2>2, QuietCalls, RestartsDiffer
<1> QED  BY <1>4, <1>5 DEF RestartIsPast

LEMMA LedgerInitially == Ledger!Init => LedgerIInv
<1> SUFFICES ASSUME Ledger!Init PROVE LedgerIInv
  OBVIOUS
<1>1. LedgerTypes
  <2>1. /\ lStarts \in [Ledger!Containers -> Nat]
        /\ lOutput \in [Ledger!Containers -> SUBSET Nat]
    BY DEF Ledger!Init
  <2>2. lState \in [Ledger!Containers ->
                      {"absent", "stopped", "starting", "ready"}]
    BY DEF Ledger!Init, Ledger!Containers
  <2>3. /\ lStep \in [Terminals -> Nat \ {0}]
        /\ lThrew = [t \in Terminals |-> lThrew[t]]
        /\ lReady \in [Terminals -> Nat]
        /\ lRestarted \in [Terminals -> Nat]
        /\ lSince \in [Terminals -> Nat]
    BY DEF Ledger!Init
  <2> QED  BY <2>1, <2>2, <2>3 DEF Ledger!Init, LedgerTypes
<1>2. TestIsUnique
  BY DEF Ledger!Init, TestIsUnique
<1>3. lOutput["reusable"] = {} /\ lStarts["reusable"] = 0
  BY DEF Ledger!Init, Ledger!Containers
<1>4. ASSUME NEW t \in Terminals
      PROVE  /\ TestCleansUp(t) /\ RestartIsPast(t) /\ RestartIsSeen(t)
             /\ RestartIsFollowed(t)
  <2>1. lStep[t] = 1 /\ lRestarted[t] = 0 /\ lSince[t] = 0
    BY DEF Ledger!Init
  <2> QED  BY <1>3, <2>1 DEF TestCleansUp, Spared, RestartIsPast, RestartIsSeen,
              RestartIsFollowed
<1> QED  BY <1>1, <1>2, <1>3, <1>4 DEF LedgerIInv

\* An answer to what neither attaches nor follows nor restarts.
LEMMA RestartsStepOn ==
  ASSUME LedgerIInv, NEW t \in Terminals, Ledger!Answered(t), NEW call,
         Ledger!Awaits(t, call), call \notin {"attach", "follow", "restart"},
         UNCHANGED <<lReady, lRestarted, lSince, lStarts, lOutput, lNow>>
  PROVE  RestartIsPast(t)' /\ RestartIsSeen(t)' /\ RestartIsFollowed(t)'
<1>1. /\ LedgerTypes /\ RestartIsPast(t) /\ RestartIsSeen(t)
      /\ RestartIsFollowed(t)
  BY DEF LedgerIInv
<1>2. /\ lStep'[t] = lStep[t] + 1 /\ lStep[t] \in Nat
      /\ lCommand' = lCommand /\ lThrew' = lThrew
  BY <1>1, StepsOn DEF LedgerTypes
<1>3. CASE lRestarted[t] > 0
  <2>1. \/ /\ lCommand[t] = FollowedRestart /\ Len(lCommand[t]) = 6
           /\ lStep[t] = 6
        \/ /\ lCommand[t] = QuietRestart /\ lCommand[t] # FollowedRestart
           /\ Len(lCommand[t]) = 4 /\ lStep[t] = 4
    BY <1>1, <1>3, RestartAwaits
  <2>2. RestartIsPast(t)'
    BY <1>1, <1>2, <2>1 DEF RestartIsPast
  <2>3. RestartIsSeen(t)'
    <3>1. lStep[t] >= Len(lCommand[t])
      <4>1. lStep[t] = Len(lCommand[t])
        BY <2>1, Zenon
      <4> QED  BY <1>2, <4>1
    <3>2. /\ lThrew'[t] = lThrew[t] /\ lReady'[t] = lReady[t]
          /\ lRestarted'[t] = lRestarted[t]
      BY <1>2
    <3>3. lThrew[t] = {} => lReady[t] >= lRestarted[t]
      BY <1>1, <1>3, <3>1 DEF RestartIsSeen
    <3> QED  BY <3>2, <3>3 DEF RestartIsSeen
  <2>4. RestartIsFollowed(t)'
    BY <1>1, <1>2, <2>1 DEF RestartIsFollowed
  <2> QED  BY <2>2, <2>3, <2>4
<1>4. CASE ~(lRestarted[t] > 0)
  BY <1>1, <1>2, <1>4 DEF RestartIsPast, RestartIsSeen, RestartIsFollowed
<1> QED  BY <1>3, <1>4

\* A test that is answered what is not its last call still has that before it.
LEMMA TestsStepOn ==
  ASSUME LedgerIInv, NEW t \in Terminals, Ledger!Answered(t), NEW call,
         Ledger!Awaits(t, call),
         \/ call = "destroy"
              /\ lState' = [lState EXCEPT ![Ledger!Container(t)] = "absent"]
         \/ call # "destroy"
              /\ \E state : lState' =
                              [lState EXCEPT ![Ledger!Container(t)] = state]
         \/ call # "destroy" /\ lState' = lState
  PROVE  \A u \in Terminals : TestCleansUp(u)'
<1>1. /\ LedgerTypes /\ TestIsUnique
      /\ \A u \in Terminals : TestCleansUp(u)
  BY DEF LedgerIInv
<1>2. /\ lStep'[t] = lStep[t] + 1 /\ lStep[t] \in Nat
      /\ \A u \in Terminals \ {t} : lStep'[u] = lStep[u]
      /\ lCommand' = lCommand /\ lThrew' = lThrew
  BY <1>1, StepsOn DEF LedgerTypes
<1>3. DOMAIN lState = {"reusable", "disposable"}
  BY <1>1 DEF LedgerTypes, Ledger!Containers
<1>4. CASE Ledger!IsTest(t)
  <2>1. ASSUME NEW u \in Terminals, u # t PROVE TestCleansUp(u)'
    BY <1>1, <1>2, <1>4, <2>1 DEF TestIsUnique, TestCleansUp, Spared, Ledger!IsTest
  <2>2. TestCleansUp(t)'
    <3>1. CASE call = "destroy"
      BY <1>3, <1>4, <3>1 DEF TestCleansUp, Spared, Ledger!Container
    <3>2. CASE call # "destroy"
      <4>1. lStep[t] \in 1 .. 6 /\ lStep[t] # 6
        BY <1>1, <1>4, <3>2, TestAwaits
      <4>2. ~(lStep'[t] > 6)
        BY <1>2, <4>1
      <4> QED  BY <4>2 DEF TestCleansUp, Spared
    <3> QED  BY <3>1, <3>2
  <2> QED  BY <2>1, <2>2
<1>5. CASE ~Ledger!IsTest(t)
  <2>1. lState'["disposable"] = lState["disposable"]
    BY <1>3, <1>5 DEF Ledger!Container
  <2>2. ASSUME NEW u \in Terminals PROVE TestCleansUp(u)'
    <3>1. CASE u = t
      BY <1>2, <1>5, <3>1 DEF TestCleansUp, Spared, Ledger!IsTest
    <3>2. CASE u # t
      BY <1>1, <1>2, <2>1, <3>2, TestsKept
    <3> QED  BY <3>1, <3>2
  <2> QED  BY <2>2
<1> QED  BY <1>4, <1>5

\* What a step by one terminal leaves to show.
LEMMA OneTerminal ==
  ASSUME LedgerIInv, NEW t \in Terminals, LedgerTypes',
         lCommand' = lCommand, lNow' = lNow,
         \A u \in Terminals \ {t} :
           /\ lStep'[u] = lStep[u] /\ lThrew'[u] = lThrew[u]
           /\ lReady'[u] = lReady[u] /\ lRestarted'[u] = lRestarted[u]
           /\ lSince'[u] = lSince[u],
         \/ /\ lStarts'["reusable"] = lStarts["reusable"]
            /\ lOutput'["reusable"] = lOutput["reusable"]
         \/ lStarts'["reusable"] = lStarts["reusable"] + 1,
         RestartIsPast(t)' /\ RestartIsSeen(t)' /\ RestartIsFollowed(t)',
         \A u \in Terminals : TestCleansUp(u)'
  PROVE  LedgerIInv'
<1>1. LedgerTypes /\ TestIsUnique
  BY DEF LedgerIInv
<1>2. TestIsUnique'
  BY <1>1 DEF TestIsUnique, Ledger!IsTest
<1>3. lStarts'["reusable"] = 0 => lOutput'["reusable"] = {}
  <2>1. lStarts["reusable"] \in Nat
    BY <1>1 DEF LedgerTypes, Ledger!Containers
  <2> QED  BY <2>1 DEF LedgerIInv
<1>4. ASSUME NEW u \in Terminals
      PROVE  RestartIsPast(u)' /\ RestartIsSeen(u)' /\ RestartIsFollowed(u)'
  <2>1. CASE u # t
    <3>1. RestartIsPast(u) /\ RestartIsSeen(u) /\ RestartIsFollowed(u)
      BY DEF LedgerIInv
    <3> QED  BY <1>1, <2>1, <3>1, RestartsKept
  <2> QED  BY <2>1
<1> QED  BY <1>2, <1>3, <1>4 DEF LedgerIInv

LEMMA StartKeeps ==
  ASSUME LedgerIInv, NEW t \in Terminals, Ledger!StartContainer(t)
  PROVE  LedgerIInv'
<1> DEFINE c == Ledger!Container(t)
<1>1. LedgerTypes /\ TestIsUnique
  BY DEF LedgerIInv
<1>2. c \in Ledger!Containers
  BY DEF Ledger!Container, Ledger!Containers
<1>3. /\ UNCHANGED <<lCommand, lStep, lThrew, lReady, lRestarted, lSince, lNow>>
      /\ lState' = [lState EXCEPT ![c] = "starting"]
      /\ lStarts' = [lStarts EXCEPT ![c] = @ + 1]
      /\ lOutput' = [lOutput EXCEPT ![c] = {}]
  BY DEF Ledger!StartContainer, Ledger!terminals
<1>4. LedgerTypes'
  <2> HIDE DEF c
  <2>1. lStarts' \in [Ledger!Containers -> Nat]
    BY <1>1, <1>2, <1>3 DEF LedgerTypes
  <2>2. lOutput' \in [Ledger!Containers -> SUBSET Nat]
    BY <1>1, <1>2, <1>3 DEF LedgerTypes
  <2>3. lState' \in [Ledger!Containers ->
                       {"absent", "stopped", "starting", "ready"}]
    BY <1>1, <1>2, <1>3 DEF LedgerTypes
  <2> QED  BY <1>1, <1>3, <2>1, <2>2, <2>3 DEF LedgerTypes
<1>5. \/ /\ lStarts'["reusable"] = lStarts["reusable"]
         /\ lOutput'["reusable"] = lOutput["reusable"]
      \/ lStarts'["reusable"] = lStarts["reusable"] + 1
  BY <1>1, <1>2, <1>3 DEF LedgerTypes, Ledger!Containers
<1>6. RestartIsPast(t)' /\ RestartIsSeen(t)' /\ RestartIsFollowed(t)'
  <2>1. RestartIsPast(t) /\ RestartIsSeen(t) /\ RestartIsFollowed(t)
    BY DEF LedgerIInv
  <2> QED  BY <1>1, <1>3, <1>5, <2>1, RestartsKept
<1>7. ASSUME NEW u \in Terminals PROVE TestCleansUp(u)'
  <2>1. CASE Ledger!IsTest(t)
    <3>1. lStep[t] \in 1 .. 6
      BY <1>1, <2>1, TestAwaits DEF Ledger!StartContainer
    <3>2. ~(lStep[t] > 6)
      BY <3>1
    <3> QED  BY <1>1, <1>3, <2>1, <3>2
             DEF TestIsUnique, TestCleansUp, Spared, Ledger!IsTest
  <2>2. CASE ~Ledger!IsTest(t)
    <3>1. lState'["disposable"] = lState["disposable"]
      BY <1>1, <1>3, <2>2 DEF Ledger!Container, LedgerTypes, Ledger!Containers
    <3>2. TestCleansUp(u)
      BY DEF LedgerIInv
    <3> QED  BY <1>3, <3>1, <3>2, TestsKept
  <2> QED  BY <2>1, <2>2
<1> QED  BY <1>3, <1>4, <1>5, <1>6, <1>7, OneTerminal

LEMMA AttachKeeps ==
  ASSUME LedgerIInv, NEW t \in Terminals, Ledger!Attach(t)
  PROVE  LedgerIInv'
<1>1. /\ LedgerTypes /\ RestartIsPast(t) /\ RestartIsSeen(t)
      /\ RestartIsFollowed(t)
  BY DEF LedgerIInv
<1>2. PICK call \in {"start", "attach"} : Ledger!Awaits(t, call)
  BY DEF Ledger!Attach
<1>3. /\ Ledger!Answered(t)
      /\ UNCHANGED <<lRestarted, lSince, lState, lStarts, lOutput, lNow>>
      /\ lReady' = [lReady EXCEPT ![t] = lStarts[Ledger!Container(t)]]
  BY DEF Ledger!Attach, Ledger!containers
<1>4. /\ lStep' \in [Terminals -> Nat \ {0}]
      /\ lStep'[t] = lStep[t] + 1 /\ lStep[t] \in Nat
      /\ \A u \in Terminals \ {t} : lStep'[u] = lStep[u]
      /\ lCommand' = lCommand /\ lThrew' = lThrew
  BY <1>1, <1>3, StepsOn DEF LedgerTypes
<1>5. /\ lReady' \in [Terminals -> Nat]
      /\ lReady'[t] = lStarts[Ledger!Container(t)]
      /\ \A u \in Terminals \ {t} : lReady'[u] = lReady[u]
  <2>1. lStarts[Ledger!Container(t)] \in Nat
    BY <1>1 DEF LedgerTypes, Ledger!Containers, Ledger!Container
  <2>2. lReady \in [Terminals -> Nat]
    BY <1>1 DEF LedgerTypes
  <2> QED  BY <1>3, <2>1, <2>2
<1>6. LedgerTypes'
  BY <1>1, <1>3, <1>4, <1>5 DEF LedgerTypes
<1>7. RestartIsPast(t)' /\ RestartIsSeen(t)' /\ RestartIsFollowed(t)'
  <2>1. CASE lRestarted[t] > 0
    <3>1. ~Ledger!IsTest(t)
      BY <1>1, <1>2, <2>1, RestartAwaits
    <3>2. \/ /\ lCommand[t] = FollowedRestart /\ lStep[t] = 5
          \/ /\ lCommand[t] = QuietRestart /\ lCommand[t] # FollowedRestart
             /\ lStep[t] = 3
      BY <1>1, <1>2, <2>1, RestartAwaits
    <3>3. lReady'[t] >= lRestarted[t]
      BY <1>1, <1>5, <3>1 DEF Ledger!Container, RestartIsPast
    <3>4. RestartIsPast(t)'
      BY <1>1, <1>3, <1>4, <3>2 DEF RestartIsPast
    <3>5. RestartIsSeen(t)'
      BY <1>3, <3>3 DEF RestartIsSeen
    <3>6. RestartIsFollowed(t)'
      BY <1>1, <1>3, <1>4, <3>2 DEF RestartIsFollowed
    <3> QED  BY <3>4, <3>5, <3>6
  <2>2. CASE ~(lRestarted[t] > 0)
    BY <1>1, <1>3, <1>4, <2>2
       DEF RestartIsPast, RestartIsSeen, RestartIsFollowed
  <2> QED  BY <2>1, <2>2
<1>8. \A u \in Terminals : TestCleansUp(u)'
  <2>1. call # "destroy"
    BY <1>2
  <2> QED  BY <1>2, <1>3, <2>1, TestsStepOn
<1> QED  BY <1>3, <1>4, <1>5, <1>6, <1>7, <1>8, OneTerminal

LEMMA FollowKeeps ==
  ASSUME LedgerIInv, NEW t \in Terminals, Ledger!Follow(t)
  PROVE  LedgerIInv'
<1>1. /\ LedgerTypes /\ RestartIsPast(t) /\ RestartIsSeen(t)
      /\ RestartIsFollowed(t)
  BY DEF LedgerIInv
<1>2. /\ Ledger!Awaits(t, "follow") /\ Ledger!Answered(t)
      /\ UNCHANGED <<lReady, lRestarted, lState, lStarts, lOutput, lNow>>
      /\ lSince' = [lSince EXCEPT ![t] = lNow - 1]
  BY DEF Ledger!Follow, Ledger!containers
<1>3. /\ lStep' \in [Terminals -> Nat \ {0}]
      /\ lStep'[t] = lStep[t] + 1 /\ lStep[t] \in Nat
      /\ \A u \in Terminals \ {t} : lStep'[u] = lStep[u]
      /\ lCommand' = lCommand /\ lThrew' = lThrew
  BY <1>1, <1>2, StepsOn DEF LedgerTypes
<1>4. /\ lSince' \in [Terminals -> Nat] /\ lSince'[t] = lNow - 1
      /\ \A u \in Terminals \ {t} : lSince'[u] = lSince[u]
  <2>1. lNow - 1 \in Nat /\ lSince \in [Terminals -> Nat]
    BY <1>1 DEF LedgerTypes
  <2> QED  BY <1>2, <2>1
<1>5. LedgerTypes'
  BY <1>1, <1>2, <1>3, <1>4 DEF LedgerTypes
<1>6. lCommand[t] # QuietRestart
  <2>1. lStep[t] \in Nat \ {0} /\ ~(lStep[t] > Len(lCommand[t]))
        /\ lCommand[t][lStep[t]] = "follow"
    BY <1>1, <1>2 DEF Ledger!Awaits, Ledger!Ended, LedgerTypes
  <2>2. ASSUME lCommand[t] = QuietRestart PROVE FALSE
    <3>1. lStep[t] \in {1, 2, 3, 4}
      BY <2>1, <2>2, QuietCalls
    <3>2. QuietRestart[lStep[t]] = "follow"
      BY <2>1, <2>2
    <3> QED  BY <3>1, <3>2, QuietCalls
  <2> QED  BY <2>2
<1>7. RestartIsPast(t)' /\ RestartIsSeen(t)' /\ RestartIsFollowed(t)'
  <2>1. CASE lRestarted[t] > 0
    <3>1. /\ lCommand[t] = FollowedRestart /\ lStep[t] = 4
          /\ Len(lCommand[t]) = 6
      BY <1>1, <1>2, <1>6, <2>1, RestartAwaits
    <3>2. RestartIsPast(t)'
      BY <1>1, <1>2, <1>3, <3>1 DEF RestartIsPast
    <3>3. RestartIsSeen(t)'
      BY <1>2, <1>3, <3>1 DEF RestartIsSeen
    <3>4. ASSUME FollowDelay <= 1, lRestarted[t] = lStarts["reusable"],
                 NEW line \in lOutput["reusable"]
          PROVE  line >= lSince'[t]
      <4>1. lNow - line <= FollowDelay
        BY <1>1, <2>1, <3>1, <3>4 DEF RestartIsFollowed
      <4>2. line \in Nat /\ lNow \in Nat /\ FollowDelay \in Nat
        BY <1>1, <3>4, ScriptsAssumption DEF LedgerTypes, Ledger!Containers
      <4> QED  BY <1>4, <3>4, <4>1, <4>2
    <3>5. lStep'[t] = 5
      BY <1>3, <3>1
    <3>6. /\ UNCHANGED <<lStarts, lOutput>>
          /\ lRestarted'[t] = lRestarted[t] /\ lCommand'[t] # QuietRestart
      BY <1>2, <1>3, <1>6
    <3>7. FollowDelay <= 1 /\ lRestarted'[t] = lStarts'["reusable"]
            => \A line \in lOutput'["reusable"] : line >= lSince'[t]
      BY <3>4, <3>6
    <3>8. RestartIsFollowed(t)'
      BY <3>5, <3>6, <3>7 DEF RestartIsFollowed
    <3> QED  BY <3>2, <3>3, <3>8
  <2>2. CASE ~(lRestarted[t] > 0)
    BY <1>1, <1>2, <1>3, <1>6, <2>2
       DEF RestartIsPast, RestartIsSeen, RestartIsFollowed
  <2> QED  BY <2>1, <2>2
<1>8. \A u \in Terminals : TestCleansUp(u)'
  BY <1>2, TestsStepOn
<1> QED  BY <1>2, <1>3, <1>4, <1>5, <1>7, <1>8, OneTerminal

LEMMA RestartKeeps ==
  ASSUME LedgerIInv, NEW t \in Terminals, Ledger!Restart(t)
  PROVE  LedgerIInv'
<1>1. /\ LedgerTypes /\ RestartIsPast(t) /\ RestartIsSeen(t)
      /\ RestartIsFollowed(t)
  BY DEF LedgerIInv
<1>2. /\ Ledger!Awaits(t, "restart") /\ Ledger!Answered(t)
      /\ UNCHANGED <<lReady, lSince, lNow>>
      /\ lState' = [lState EXCEPT !["reusable"] = "starting"]
      /\ lStarts' = [lStarts EXCEPT !["reusable"] = @ + 1]
      /\ lOutput' = [lOutput EXCEPT !["reusable"] = {lNow}]
      /\ lRestarted' = [lRestarted EXCEPT ![t] = lStarts'["reusable"]]
  BY DEF Ledger!Restart
<1>3. /\ lStep' \in [Terminals -> Nat \ {0}]
      /\ lStep'[t] = lStep[t] + 1 /\ lStep[t] \in Nat \ {0}
      /\ \A u \in Terminals \ {t} : lStep'[u] = lStep[u]
      /\ lCommand' = lCommand /\ lThrew' = lThrew
  BY <1>1, <1>2, StepsOn DEF LedgerTypes
<1>4. /\ lStarts' \in [Ledger!Containers -> Nat]
      /\ lStarts'["reusable"] = lStarts["reusable"] + 1
      /\ lStarts["reusable"] \in Nat
  BY <1>1, <1>2 DEF LedgerTypes, Ledger!Containers
<1>5. /\ lOutput' \in [Ledger!Containers -> SUBSET Nat]
      /\ lOutput'["reusable"] = {lNow}
  <2>1. /\ lNow \in Nat /\ {lNow} \in SUBSET Nat
        /\ "reusable" \in Ledger!Containers
    BY <1>1 DEF LedgerTypes, Ledger!Containers
  <2>2. lOutput \in [Ledger!Containers -> SUBSET Nat]
    BY <1>1 DEF LedgerTypes
  <2> QED  BY <1>2, <2>1, <2>2
<1>6. /\ lState' \in [Ledger!Containers ->
                        {"absent", "stopped", "starting", "ready"}]
      /\ lState'["disposable"] = lState["disposable"]
  BY <1>1, <1>2 DEF LedgerTypes, Ledger!Containers
<1>7. /\ lRestarted' \in [Terminals -> Nat]
      /\ lRestarted'[t] = lStarts'["reusable"]
      /\ \A u \in Terminals \ {t} : lRestarted'[u] = lRestarted[u]
  <2>1. lStarts'["reusable"] \in Nat /\ lRestarted \in [Terminals -> Nat]
    BY <1>1, <1>4 DEF LedgerTypes
  <2> QED  BY <1>2, <2>1
<1>8. LedgerTypes'
  BY <1>1, <1>2, <1>3, <1>4, <1>5, <1>6, <1>7 DEF LedgerTypes
<1>9. \/ /\ lCommand[t] = FollowedRestart /\ lStep[t] = 3
         /\ lCommand[t] # QuietRestart /\ Len(lCommand[t]) = 6
      \/ /\ lCommand[t] = QuietRestart /\ lStep[t] = 2
         /\ lCommand[t] # FollowedRestart /\ Len(lCommand[t]) = 4
  <2>1. /\ ~(lStep[t] > Len(lCommand[t]))
        /\ lCommand[t][lStep[t]] = "restart"
    BY <1>2 DEF Ledger!Awaits, Ledger!Ended
  <2>2. lCommand[t] \in Ledger!Commands
    BY <1>1 DEF LedgerTypes
  <2>3. Len(lCommand[t]) \in Nat
    BY <2>2, CommandKinds
  <2>4. lStep[t] \in 1 .. Len(lCommand[t])
    BY <1>3, <2>1, <2>3
  <2> QED  BY <2>1, <2>2, <2>4, CommandKinds, RestartsDiffer, FollowedCalls,
              QuietCalls
<1>10. RestartIsPast(t)' /\ RestartIsSeen(t)' /\ RestartIsFollowed(t)'
  <2>1. RestartIsPast(t)'
    BY <1>3, <1>4, <1>7, <1>9 DEF RestartIsPast
  <2>2. RestartIsSeen(t)'
    <3>1. ~(lStep'[t] >= Len(lCommand'[t]))
      <4>1. \/ lStep'[t] = 4 /\ Len(lCommand'[t]) = 6
            \/ lStep'[t] = 3 /\ Len(lCommand'[t]) = 4
        BY <1>3, <1>9
      <4>2. CASE lStep'[t] = 4 /\ Len(lCommand'[t]) = 6
        BY <4>2
      <4>3. CASE lStep'[t] = 3 /\ Len(lCommand'[t]) = 4
        BY <4>3
      <4> QED  BY <4>1, <4>2, <4>3
    <3> QED  BY <3>1 DEF RestartIsSeen
  <2>3. RestartIsFollowed(t)'
    <3>1. lCommand'[t] = FollowedRestart => lStep'[t] = 4
      BY <1>3, <1>9
    <3>2. lCommand'[t] = QuietRestart => lSince'[t] = 0
      BY <1>1, <1>2, <1>3 DEF RestartIsFollowed
    <3>3. \A line \in lOutput'["reusable"] : lNow' - line <= FollowDelay
      BY <1>1, <1>2, <1>5, ScriptsAssumption DEF LedgerTypes
    <3> QED  BY <3>1, <3>2, <3>3 DEF RestartIsFollowed
  <2> QED  BY <2>1, <2>2, <2>3
<1>11. \A u \in Terminals : TestCleansUp(u)'
  <2>1. ~Ledger!IsTest(t)
    BY <1>9, TestIsNoRestart DEF Ledger!IsTest
  <2>2. ASSUME NEW u \in Terminals PROVE TestCleansUp(u)'
    <3>1. CASE u = t
      BY <1>3, <2>1, <3>1 DEF TestCleansUp, Spared, Ledger!IsTest
    <3>2. CASE u # t
      <4>1. TestCleansUp(u)
        BY DEF LedgerIInv
      <4> QED  BY <1>3, <1>6, <3>2, <4>1, TestsKept
    <3> QED  BY <3>1, <3>2
  <2> QED  BY <2>2
<1> QED  BY <1>2, <1>3, <1>4, <1>7, <1>8, <1>10, <1>11, OneTerminal

\* Stop, destroy, and what uses the services.
LEMMA OthersKeep ==
  ASSUME LedgerIInv, NEW t \in Terminals,
         Ledger!Stop(t) \/ Ledger!Destroy(t) \/ Ledger!Use(t)
  PROVE  LedgerIInv'
<1>1. LedgerTypes
  BY DEF LedgerIInv
<1>2. /\ Ledger!Answered(t)
      /\ UNCHANGED <<lReady, lRestarted, lSince, lStarts, lOutput, lNow>>
  BY DEF Ledger!Stop, Ledger!Destroy, Ledger!Use, Ledger!containers
<1>3. PICK call :
        /\ Ledger!Awaits(t, call)
        /\ call \notin {"attach", "follow", "restart"}
        /\ \/ call = "destroy"
                /\ lState' = [lState EXCEPT ![Ledger!Container(t)] = "absent"]
           \/ call # "destroy"
                /\ lState' = [lState EXCEPT ![Ledger!Container(t)] = "stopped"]
           \/ call # "destroy" /\ lState' = lState
  <2>1. CASE Ledger!Stop(t)
    BY <2>1 DEF Ledger!Stop
  <2>2. CASE Ledger!Destroy(t)
    BY <2>2 DEF Ledger!Destroy
  <2>3. CASE Ledger!Use(t)
    <3>1. PICK call \in {"details", "fund sender", "fund receiver", "pay 25",
                         "pay 5 back", "set options", "test payment",
                         "test settings"} : Ledger!Awaits(t, call)
      BY <2>3 DEF Ledger!Use
    <3>2. call \notin {"attach", "follow", "restart", "destroy"}
      BY <3>1
    <3>3. lState' = lState
      BY <2>3 DEF Ledger!Use, Ledger!containers
    <3> QED  BY <3>1, <3>2, <3>3
  <2> QED  BY <2>1, <2>2, <2>3
<1>4. /\ lStep' \in [Terminals -> Nat \ {0}]
      /\ \A u \in Terminals \ {t} : lStep'[u] = lStep[u]
      /\ lCommand' = lCommand /\ lThrew' = lThrew
  BY <1>1, <1>2, StepsOn
<1>5. lState' \in [Ledger!Containers ->
                     {"absent", "stopped", "starting", "ready"}]
  BY <1>1, <1>3 DEF LedgerTypes
<1>6. LedgerTypes'
  BY <1>1, <1>2, <1>4, <1>5 DEF LedgerTypes
<1>7. RestartIsPast(t)' /\ RestartIsSeen(t)' /\ RestartIsFollowed(t)'
  BY <1>2, <1>3, RestartsStepOn
<1>8. \A u \in Terminals : TestCleansUp(u)'
  BY <1>2, <1>3, TestsStepOn
<1> QED  BY <1>2, <1>4, <1>6, <1>7, <1>8, OneTerminal

LEMMA ThrowKeeps ==
  ASSUME LedgerIInv, NEW t \in Terminals, Ledger!Throw(t)
  PROVE  LedgerIInv'
<1>1. /\ LedgerTypes /\ RestartIsPast(t) /\ RestartIsSeen(t)
      /\ RestartIsFollowed(t) /\ TestIsUnique
  BY DEF LedgerIInv
<1> DEFINE after == Ledger!AfterThrow(t)
           throws == lThrew[t] \cup {lCommand[t][lStep[t]]}
<1>2. /\ ~Ledger!Ended(t)
      /\ lStep' = [lStep EXCEPT ![t] = after]
      /\ lThrew' = [lThrew EXCEPT ![t] = throws]
      /\ UNCHANGED <<lCommand, lReady, lRestarted, lSince, lState, lStarts,
                     lOutput, lNow>>
  BY DEF Ledger!Throw, Ledger!containers
<1>3. lStep[t] \in Nat \ {0} /\ Len(lCommand[t]) \in Nat
  BY <1>1, CommandKinds DEF LedgerTypes
<1>4. after \in Nat \ {0}
  BY <1>3 DEF Ledger!AfterThrow
<1>5. /\ lStep' \in [Terminals -> Nat \ {0}] /\ lStep'[t] = after
      /\ \A u \in Terminals \ {t} : lStep'[u] = lStep[u]
  <2> HIDE DEF after
  <2> QED  BY <1>1, <1>2, <1>4 DEF LedgerTypes
<1>6. /\ lThrew' = [u \in Terminals |-> lThrew'[u]] /\ lThrew'[t] = throws
      /\ \A u \in Terminals \ {t} : lThrew'[u] = lThrew[u]
  <2> HIDE DEF throws
  <2>1. lThrew = [u \in Terminals |-> lThrew[u]]
    BY <1>1 DEF LedgerTypes
  <2> QED  BY <1>2, <2>1, Zenon
<1>7. LedgerTypes'
  BY <1>1, <1>2, <1>5, <1>6 DEF LedgerTypes
<1>8. RestartIsPast(t)' /\ RestartIsSeen(t)' /\ RestartIsFollowed(t)'
  <2>1. throws # {}
    OBVIOUS
  <2>2. RestartIsSeen(t)'
    BY <1>6, <2>1 DEF RestartIsSeen
  <2>3. CASE lRestarted[t] > 0
    <3>1. ~Ledger!IsTest(t)
      BY <1>1, <2>3, TestIsNoRestart DEF RestartIsPast, Ledger!IsTest
    <3>2. lStep'[t] = Len(lCommand[t]) + 1
      BY <1>5, <3>1 DEF Ledger!AfterThrow, Ledger!GoesOn
    <3>3. \/ lCommand[t] = FollowedRestart /\ Len(lCommand[t]) = 6
          \/ lCommand[t] = QuietRestart /\ Len(lCommand[t]) = 4
               /\ lCommand[t] # FollowedRestart
      BY <1>1, <2>3, FollowedCalls, QuietCalls, RestartsDiffer
         DEF RestartIsPast
    <3>4. \/ lCommand[t] = FollowedRestart /\ lStep'[t] = 7
          \/ lCommand[t] = QuietRestart /\ lStep'[t] = 5
               /\ lCommand[t] # FollowedRestart
      <4>1. CASE lCommand[t] = FollowedRestart /\ Len(lCommand[t]) = 6
        BY <3>2, <4>1
      <4>2. CASE lCommand[t] = QuietRestart /\ Len(lCommand[t]) = 4
                   /\ lCommand[t] # FollowedRestart
        BY <3>2, <4>2
      <4> QED  BY <3>3, <4>1, <4>2
    <3>5. RestartIsPast(t)'
      BY <1>1, <1>2, <3>4 DEF RestartIsPast
    <3>6. RestartIsFollowed(t)'
      BY <1>1, <1>2, <3>4 DEF RestartIsFollowed
    <3> QED  BY <2>2, <3>5, <3>6
  <2>4. CASE ~(lRestarted[t] > 0)
    BY <1>1, <1>2, <2>2, <2>4 DEF RestartIsPast, RestartIsFollowed
  <2> QED  BY <2>3, <2>4
<1>9. ASSUME NEW u \in Terminals PROVE TestCleansUp(u)'
  <2>1. CASE u = t /\ Ledger!IsTest(t)
    <3>1. lStep[t] \in 1 .. 6
      BY <1>1, <1>2, <2>1, TestAwaits DEF Ledger!Awaits
    <3>2. lCommand[t] = Ledger!IntegrationTest
      BY <2>1 DEF Ledger!IsTest
    <3>3. CASE lStep[t] \in {1, 2, 6}
      <4>1. lCommand[t][lStep[t]] \in Ledger!BeforeAll \cup {"destroy"}
        BY <3>2, <3>3, TestIs DEF Ledger!BeforeAll
      <4>2. ~Spared(t)'
        BY <1>6, <4>1 DEF Spared
      <4> QED  BY <2>1, <4>2 DEF TestCleansUp, Spared
    <3>4. CASE lStep[t] \in {3, 4, 5}
      <4>1. lCommand[t][lStep[t]] \notin Ledger!BeforeAll
        BY <3>2, <3>4, TestIs DEF Ledger!BeforeAll
      <4>2. after = lStep[t] + 1
        BY <2>1, <4>1 DEF Ledger!AfterThrow, Ledger!GoesOn
      <4>3. ~(after > 6)
        BY <3>4, <4>2
      <4> HIDE DEF after
      <4> QED  BY <1>5, <2>1, <4>3 DEF TestCleansUp, Spared
    <3> QED  BY <3>1, <3>3, <3>4
  <2>2. CASE u = t /\ ~Ledger!IsTest(t)
    BY <1>2, <2>2 DEF TestCleansUp, Spared, Ledger!IsTest
  <2>3. CASE u # t
    <3>1. TestCleansUp(u)
      BY DEF LedgerIInv
    <3> QED  BY <1>2, <1>5, <1>6, <2>3, <3>1, TestsKept
  <2> QED  BY <2>1, <2>2, <2>3
<1> QED  BY <1>2, <1>5, <1>6, <1>7, <1>8, <1>9, OneTerminal

LEMMA ReadyKeeps ==
  ASSUME LedgerIInv, NEW c \in Ledger!Containers, Ledger!BecomeReady(c)
  PROVE  LedgerIInv'
<1>1. LedgerTypes
  BY DEF LedgerIInv
<1>2. /\ lState[c] = "starting" /\ lState' = [lState EXCEPT ![c] = "ready"]
      /\ UNCHANGED <<lCommand, lStep, lThrew, lReady, lRestarted, lSince,
                     lStarts, lOutput, lNow>>
  BY DEF Ledger!BecomeReady, Ledger!terminals
<1>3. LedgerTypes'
  BY <1>1, <1>2 DEF LedgerTypes
<1>4. lState["disposable"] = "absent" => lState'["disposable"] = "absent"
  BY <1>1, <1>2 DEF LedgerTypes, Ledger!Containers
<1>5. ASSUME NEW t \in Terminals
      PROVE  /\ TestCleansUp(t)' /\ RestartIsPast(t)' /\ RestartIsSeen(t)'
             /\ RestartIsFollowed(t)'
  <2>1. /\ TestCleansUp(t) /\ RestartIsPast(t) /\ RestartIsSeen(t)
        /\ RestartIsFollowed(t)
    BY DEF LedgerIInv
  <2>2. RestartIsPast(t)' /\ RestartIsSeen(t)' /\ RestartIsFollowed(t)'
    BY <1>2, <2>1 DEF RestartIsPast, RestartIsSeen, RestartIsFollowed
  <2>3. TestCleansUp(t)'
    BY <1>2, <1>4, <2>1 DEF TestCleansUp, Spared, Ledger!IsTest
  <2> QED  BY <2>2, <2>3
<1> QED  BY <1>2, <1>3, <1>5 DEF LedgerIInv, TestIsUnique, Ledger!IsTest

LEMMA TickKeeps ==
  ASSUME LedgerIInv, Ledger!Tick
  PROVE  LedgerIInv'
<1>1. LedgerTypes
  BY DEF LedgerIInv
<1>2. /\ lNow' = lNow + 1
      /\ UNCHANGED <<lCommand, lStep, lThrew, lReady, lRestarted, lSince,
                     lState, lStarts, lOutput>>
      /\ \A t \in Terminals :
           Ledger!FollowsRestart(t) =>
             \A line \in lOutput["reusable"] : lNow - line < FollowDelay
  BY DEF Ledger!Tick, Ledger!terminals, Ledger!containers
<1>3. LedgerTypes'
  BY <1>1, <1>2 DEF LedgerTypes
<1>4. ASSUME NEW t \in Terminals
      PROVE  /\ TestCleansUp(t)' /\ RestartIsPast(t)' /\ RestartIsSeen(t)'
             /\ RestartIsFollowed(t)'
  <2>1. /\ TestCleansUp(t) /\ RestartIsPast(t) /\ RestartIsSeen(t)
        /\ RestartIsFollowed(t)
    BY DEF LedgerIInv
  <2>2. /\ TestCleansUp(t)' /\ RestartIsPast(t)' /\ RestartIsSeen(t)'
    BY <1>2, <2>1 DEF TestCleansUp, Spared, RestartIsPast, RestartIsSeen,
                      Ledger!IsTest
  <2>3. ASSUME lCommand[t] = FollowedRestart, lRestarted[t] > 0,
               lStep[t] = 4, NEW line \in lOutput["reusable"]
        PROVE  lNow' - line <= FollowDelay
    <3>1. Ledger!FollowsRestart(t)
      BY <2>3, FollowedCalls
         DEF Ledger!FollowsRestart, Ledger!Awaits, Ledger!Ended
    <3>2. line \in Nat /\ lNow \in Nat /\ FollowDelay \in Nat
      BY <1>1, <2>3, ScriptsAssumption DEF LedgerTypes, Ledger!Containers
    <3>3. lNow - line < FollowDelay
      BY <1>2, <2>3, <3>1
    <3> QED  BY <1>2, <3>2, <3>3
  <2>4. RestartIsFollowed(t)'
    BY <1>2, <2>1, <2>3 DEF RestartIsFollowed
  <2> QED  BY <2>2, <2>4
<1> QED  BY <1>2, <1>3, <1>4 DEF LedgerIInv, TestIsUnique, Ledger!IsTest

LEMMA LedgerStep ==
  ASSUME LedgerIInv, [Ledger!Next]_ledgerVars
  PROVE  LedgerIInv'
<1>1. CASE \E t \in Terminals : Ledger!Command(t)
  BY <1>1, StartKeeps, AttachKeeps, FollowKeeps, RestartKeeps, OthersKeep,
     ThrowKeeps DEF Ledger!Command
<1>2. CASE \E c \in Ledger!Containers : Ledger!BecomeReady(c)
  BY <1>2, ReadyKeeps
<1>3. CASE Ledger!Tick
  BY <1>3, TickKeeps
<1>4. CASE UNCHANGED ledgerVars
  BY <1>4 DEF ledgerVars, LedgerIInv, LedgerTypes, TestIsUnique, TestCleansUp, Spared,
     RestartIsPast, RestartIsSeen, RestartIsFollowed, Ledger!IsTest
<1> QED  BY <1>1, <1>2, <1>3, <1>4 DEF Ledger!Next

LEMMA LedgerWorks ==
  LedgerIInv => /\ Ledger!EndsAsAnnounced
                /\ FollowDelay <= 1 => Ledger!NoLineIsMissed
<1> SUFFICES ASSUME LedgerIInv, NEW t \in Terminals
             PROVE  /\ Ledger!Ended(t) =>
                         /\ lRestarted[t] > 0 /\ lThrew[t] = {}
                              => lReady[t] >= lRestarted[t]
                         /\ Ledger!IsTest(t) /\ Spared(t)
                              => lState["disposable"] = "absent"
                    /\ /\ FollowDelay <= 1
                       /\ lRestarted[t] = lStarts["reusable"] /\ lSince[t] > 0
                       /\ \/ Ledger!Awaits(t, "attach")
                          \/ Ledger!Awaits(t, "details")
                       => \A line \in lOutput["reusable"] : line >= lSince[t]
  BY DEF Ledger!EndsAsAnnounced, Ledger!NoLineIsMissed, Spared
<1>1. /\ LedgerTypes /\ TestCleansUp(t) /\ RestartIsPast(t)
      /\ RestartIsSeen(t) /\ RestartIsFollowed(t)
  BY DEF LedgerIInv
<1>2. ASSUME Ledger!Ended(t)
      PROVE  /\ lRestarted[t] > 0 /\ lThrew[t] = {}
                  => lReady[t] >= lRestarted[t]
             /\ Ledger!IsTest(t) /\ Spared(t)
                  => lState["disposable"] = "absent"
  <2>1. lStep[t] \in Nat /\ Len(lCommand[t]) \in Nat
    BY <1>1, CommandKinds DEF LedgerTypes
  <2>2. lStep[t] >= Len(lCommand[t])
    BY <1>2, <2>1 DEF Ledger!Ended
  <2>3. Ledger!IsTest(t) => lStep[t] > 6
    BY <1>2, TestIs DEF Ledger!Ended, Ledger!IsTest
  <2> QED  BY <1>1, <2>2, <2>3 DEF RestartIsSeen, TestCleansUp, Spared
<1>3. ASSUME FollowDelay <= 1, lRestarted[t] = lStarts["reusable"],
             lSince[t] > 0,
             NEW call \in {"attach", "details"}, Ledger!Awaits(t, call)
      PROVE  \A line \in lOutput["reusable"] : line >= lSince[t]
  <2>1. CASE lRestarted[t] > 0
    <3>1. lCommand[t] # QuietRestart
      BY <1>1, <1>3 DEF RestartIsFollowed
    <3>2. lCommand[t] = FollowedRestart /\ lStep[t] \in {5, 6}
      BY <1>1, <1>3, <2>1, <3>1, RestartAwaits
    <3> QED  BY <1>1, <1>3, <2>1, <3>2 DEF RestartIsFollowed
  <2>2. CASE ~(lRestarted[t] > 0)
    <3>1. lStarts["reusable"] = 0
      BY <1>1, <1>3, <2>2 DEF LedgerTypes
    <3> QED  BY <3>1 DEF LedgerIInv
  <2> QED  BY <2>1, <2>2
<1> QED  BY <1>2, <1>3
-----------------------------------------------------------------------------
(* The passkey account: base64url of any payload, by both sides.           *)

\* The four characters of three bytes, by their number.
Cut(x, y, z, i) ==
  IF i = 1 THEN x \div 4
  ELSE IF i = 2 THEN (x % 4) * 16 + y \div 16
  ELSE IF i = 3 THEN (y % 16) * 4 + z \div 64
  ELSE z % 64

\* Each is a base64 digit.
LEMMA CutRange ==
  ASSUME NEW x \in 0..255, NEW y \in 0..255, NEW z \in 0..255, NEW i
  PROVE  Cut(x, y, z, i) \in 0..63
  BY SMT DEF Cut

\* The contract's shifts and masks of the 24-bit word give those.
LEMMA CharactersAre ==
  ASSUME NEW x \in 0..255, NEW y \in 0..255, NEW z \in 0..255, NEW i \in 1..4
  PROVE  Passkey!Character(Passkey!Word(x, y, z), i) = Cut(x, y, z, i)
<1> DEFINE w == x * 65536 + y * 256 + z
<1>1. Passkey!Word(x, y, z) = w /\ w \in Nat
  BY SMT DEF Passkey!Word, Passkey!Byte
<1> HIDE DEF w
<1>2. /\ Passkey!Digit ^ (4 - 1) = 262144 /\ Passkey!Digit ^ (4 - 2) = 4096
      /\ Passkey!Digit ^ (4 - 3) = 64 /\ Passkey!Digit ^ (4 - 4) = 1
  BY SMT DEF Passkey!Digit
<1>3. w \div 262144 = x \div 4
  BY SMT DEF w
<1>4. w \div 4096 = x * 16 + y \div 16
  BY SMT DEF w
<1>5. w \div 64 = x * 1024 + y * 4 + z \div 64
  BY SMT DEF w
<1>6. w % 64 = z % 64 /\ w \div 1 = w
  BY SMT DEF w
<1>7. (x \div 4) % 64 = x \div 4
  BY SMT
<1>8. (x * 16 + y \div 16) % 64 = (x % 4) * 16 + y \div 16
  BY SMT
<1>9. (x * 1024 + y * 4 + z \div 64) % 64 = (y % 16) * 4 + z \div 64
  BY SMT
<1>10. CASE i = 1
  BY <1>1, <1>2, <1>3, <1>7, <1>10 DEF Passkey!Character, Cut, Passkey!Digit
<1>11. CASE i = 2
  BY <1>1, <1>2, <1>4, <1>8, <1>11 DEF Passkey!Character, Cut, Passkey!Digit
<1>12. CASE i = 3
  BY <1>1, <1>2, <1>5, <1>9, <1>12 DEF Passkey!Character, Cut, Passkey!Digit
<1>13. CASE i = 4
  BY <1>1, <1>2, <1>6, <1>13 DEF Passkey!Character, Cut, Passkey!Digit
<1> QED  BY <1>10, <1>11, <1>12, <1>13

\* Past its end a value goes on with zeros.
LEMMA ByteRange ==
  ASSUME NEW value \in Seq(0..255), NEW j \in Nat
  PROVE  Passkey!ByteAt(value, j) \in 0..255
<1>1. Len(value) \in Nat
  OBVIOUS
<1>2. ASSUME j < Len(value) PROVE value[j + 1] \in 0..255
  <2>1. j + 1 \in 1..Len(value)
    BY <1>1, <1>2
  <2> QED  BY <2>1, ElementOfSeq
<1> QED  BY <1>1, <1>2 DEF Passkey!ByteAt

\* SixBits with its numbers.
LEMMA TwoBytes ==
  ASSUME NEW value, NEW i
  PROVE  Passkey!SixBits(value, i)
           = ((Passkey!ByteAt(value, i \div 8) * 256
               + Passkey!ByteAt(value, i \div 8 + 1))
                \div 2 ^ (10 - (i % 8))) % 64
  BY DEF Passkey!SixBits, Passkey!Byte, Passkey!Digit

\* btoa's six bits, wherever they lie in two bytes, are those characters.
LEMMA SixBitsAre ==
  ASSUME NEW value \in Seq(0..255), NEW g \in Nat, NEW r \in 1..4
  PROVE  Passkey!SixBits(value, 6 * (4 * g + r - 1))
           = Cut(Passkey!ByteAt(value, 3 * g), Passkey!ByteAt(value, 3 * g + 1),
                 Passkey!ByteAt(value, 3 * g + 2), r)
<1>1. \A j \in Nat : Passkey!ByteAt(value, j) \in 0..255
  BY ByteRange
<1> DEFINE x == Passkey!ByteAt(value, 3 * g)
           y == Passkey!ByteAt(value, 3 * g + 1)
           z == Passkey!ByteAt(value, 3 * g + 2)
           n == Passkey!ByteAt(value, 3 * g + 3)
<1>2. x \in 0..255 /\ y \in 0..255 /\ z \in 0..255 /\ n \in 0..255
  BY <1>1
<1> HIDE DEF x, y, z, n
<1>3. 2 ^ 10 = 1024 /\ 2 ^ 4 = 16 /\ 2 ^ 6 = 64 /\ 2 ^ 8 = 256
  BY SMT
<1>4. CASE r = 1
  <2> DEFINE i == 6 * (4 * g + 1 - 1)
             q == 3 * g
  <2>1. i \div 8 = q /\ 10 - (i % 8) = 10 /\ q + 1 = 3 * g + 1
    BY SMT
  <2> HIDE DEF i, q
  <2>2. Passkey!SixBits(value, i)
          = ((Passkey!ByteAt(value, q) * 256
              + Passkey!ByteAt(value, q + 1)) \div 2 ^ 10) % 64
    BY <2>1, TwoBytes, Zenon
  <2>3. Passkey!ByteAt(value, q) = x /\ Passkey!ByteAt(value, q + 1) = y
    BY <2>1 DEF q, x, y
  <2>4. ((x * 256 + y) \div 1024) % 64 = x \div 4
    BY <1>2, SMT
  <2>5. Passkey!SixBits(value, i) = Cut(x, y, z, 1)
    BY <1>3, <2>2, <2>3, <2>4 DEF Cut
  <2> QED  BY <1>4, <2>5 DEF i, x, y, z
<1>5. CASE r = 2
  <2> DEFINE i == 6 * (4 * g + 2 - 1)
             q == 3 * g
  <2>1. i \div 8 = q /\ 10 - (i % 8) = 4 /\ q + 1 = 3 * g + 1
    BY SMT
  <2> HIDE DEF i, q
  <2>2. Passkey!SixBits(value, i)
          = ((Passkey!ByteAt(value, q) * 256
              + Passkey!ByteAt(value, q + 1)) \div 2 ^ 4) % 64
    BY <2>1, TwoBytes, Zenon
  <2>3. Passkey!ByteAt(value, q) = x /\ Passkey!ByteAt(value, q + 1) = y
    BY <2>1 DEF q, x, y
  <2>4. ((x * 256 + y) \div 16) % 64 = (x % 4) * 16 + y \div 16
    BY <1>2, SMT
  <2>5. Passkey!SixBits(value, i) = Cut(x, y, z, 2)
    BY <1>3, <2>2, <2>3, <2>4 DEF Cut
  <2> QED  BY <1>5, <2>5 DEF i, x, y, z
<1>6. CASE r = 3
  <2> DEFINE i == 6 * (4 * g + 3 - 1)
             q == 3 * g + 1
  <2>1. i \div 8 = q /\ 10 - (i % 8) = 6 /\ q + 1 = 3 * g + 2
    BY SMT
  <2> HIDE DEF i, q
  <2>2. Passkey!SixBits(value, i)
          = ((Passkey!ByteAt(value, q) * 256
              + Passkey!ByteAt(value, q + 1)) \div 2 ^ 6) % 64
    BY <2>1, TwoBytes, Zenon
  <2>3. Passkey!ByteAt(value, q) = y /\ Passkey!ByteAt(value, q + 1) = z
    BY <2>1 DEF q, y, z
  <2>4. ((y * 256 + z) \div 64) % 64 = (y % 16) * 4 + z \div 64
    BY <1>2, SMT
  <2>5. Passkey!SixBits(value, i) = Cut(x, y, z, 3)
    BY <1>3, <2>2, <2>3, <2>4 DEF Cut
  <2> QED  BY <1>6, <2>5 DEF i, x, y, z
<1>7. CASE r = 4
  <2> DEFINE i == 6 * (4 * g + 4 - 1)
             q == 3 * g + 2
  <2>1. i \div 8 = q /\ 10 - (i % 8) = 8 /\ q + 1 = 3 * g + 3
    BY SMT
  <2> HIDE DEF i, q
  <2>2. Passkey!SixBits(value, i)
          = ((Passkey!ByteAt(value, q) * 256
              + Passkey!ByteAt(value, q + 1)) \div 2 ^ 8) % 64
    BY <2>1, TwoBytes, Zenon
  <2>3. Passkey!ByteAt(value, q) = z /\ Passkey!ByteAt(value, q + 1) = n
    BY <2>1 DEF q, z, n
  <2>4. ((z * 256 + n) \div 256) % 64 = z % 64
    BY <1>2, SMT
  <2>5. Passkey!SixBits(value, i) = Cut(x, y, z, 4)
    BY <1>3, <2>2, <2>3, <2>4 DEF Cut
  <2> QED  BY <1>7, <2>5 DEF i, x, y, z
<1> QED  BY <1>4, <1>5, <1>6, <1>7

\* What both sides write: the character of every six bits.
Encoded(value) ==
  [c \in 1..4 * (Len(value) \div 3) + 3 |-> Passkey!SixBits(value, 6 * (c - 1))]

\* What PayloadsOK assumes of each payload.
IsPayload(value) ==
  value \in Seq(0..255) /\ Len(value) >= 2 /\ (Len(value) - 2) % 3 = 0

\* So its bytes are n triples and two more.
LEMMA PayloadLength ==
  ASSUME NEW value, IsPayload(value)
  PROVE  \E n \in Nat : Len(value) = 3 * n + 2
<1>1. \A l \in Nat : l >= 2 /\ (l - 2) % 3 = 0
                    => (l - 2) \div 3 \in Nat /\ l = 3 * ((l - 2) \div 3) + 2
  BY SMT
<1>2. Len(value) \in Nat
  BY DEF IsPayload
<1> QED  BY <1>1, <1>2 DEF IsPayload

\* A position among the characters is one of four in a group.
LEMMA Groups ==
  ASSUME NEW c \in Nat \ {0}
  PROVE  \E g \in Nat, r \in 1..4 :
           /\ c = 4 * g + r
           /\ g = (c - 1) \div 4 /\ r = ((c - 1) % 4) + 1
<1> DEFINE g == (c - 1) \div 4
           r == ((c - 1) % 4) + 1
<1>1. g \in Nat /\ r \in 1..4 /\ c = 4 * g + r
  BY SMT
<1> QED  BY <1>1

\* passkey-account: the loop writes the groups, the tail the last three.
LEMMA ContractEncodes ==
  ASSUME NEW value, IsPayload(value)
  PROVE  Passkey!push_base64url(value) = Encoded(value)
<1>1. PICK n \in Nat : Len(value) = 3 * n + 2
  BY PayloadLength
<1>2. Len(value) \div 3 = n /\ value \in Seq(0..255)
  <2>1. (3 * n + 2) \div 3 = n
    BY SMT
  <2> QED  BY <1>1, <2>1 DEF IsPayload
<1>3. \A j \in 1..3 * n + 2 : value[j] \in 0..255
  BY <1>1, <1>2, ElementOfSeq
<1>4. \A j \in 0..3 * n + 1 : Passkey!ByteAt(value, j) = value[j + 1]
  BY <1>1 DEF Passkey!ByteAt
<1>5. Passkey!ByteAt(value, 3 * n + 2) = 0
  BY <1>1 DEF Passkey!ByteAt
<1>6. ASSUME NEW c \in 1..4 * n
      PROVE  Passkey!Triples(value)[c] = Encoded(value)[c]
  <2>1. PICK g \in Nat, r \in 1..4 :
             /\ c = 4 * g + r
             /\ g = (c - 1) \div 4 /\ r = ((c - 1) % 4) + 1
    BY Groups
  <2>2. g < n
    BY <2>1
  <2>3. /\ 3 * g + 1 \in 1..3 * n + 2 /\ 3 * g + 2 \in 1..3 * n + 2
        /\ 3 * g + 3 \in 1..3 * n + 2
    BY <2>2
  <2>4. Passkey!Triples(value)[c]
          = Passkey!Character(Passkey!Word(value[3 * g + 1], value[3 * g + 2],
                                           value[3 * g + 3]), r)
    BY <1>2, <2>1 DEF Passkey!Triples
  <2>5. /\ value[3 * g + 1] \in 0..255 /\ value[3 * g + 2] \in 0..255
        /\ value[3 * g + 3] \in 0..255
    BY <1>3, <2>3
  <2>9. Passkey!Triples(value)[c]
          = Cut(value[3 * g + 1], value[3 * g + 2], value[3 * g + 3], r)
    <3> DEFINE x == value[3 * g + 1]
               y == value[3 * g + 2]
               z == value[3 * g + 3]
    <3>1. x \in 0..255 /\ y \in 0..255 /\ z \in 0..255
      BY <2>5
    <3> HIDE DEF x, y, z
    <3>2. Passkey!Character(Passkey!Word(x, y, z), r) = Cut(x, y, z, r)
      BY <3>1, CharactersAre
    <3> QED  BY <2>4, <3>2 DEF x, y, z
  <2>6. /\ Passkey!ByteAt(value, 3 * g) = value[3 * g + 1]
        /\ Passkey!ByteAt(value, 3 * g + 1) = value[3 * g + 2]
        /\ Passkey!ByteAt(value, 3 * g + 2) = value[3 * g + 3]
    <3>1. /\ 3 * g \in 0..3 * n + 1
          /\ 3 * g + 1 \in 0..3 * n + 1
          /\ 3 * g + 2 \in 0..3 * n + 1
      BY <2>2
    <3>2. 3 * g + 1 + 1 = 3 * g + 2 /\ 3 * g + 2 + 1 = 3 * g + 3
      BY SMT
    <3> QED  BY <1>4, <3>1, <3>2
  <2>7. Passkey!SixBits(value, 6 * (c - 1)) = Passkey!Triples(value)[c]
    <3>1. Passkey!SixBits(value, 6 * (4 * g + r - 1))
            = Cut(Passkey!ByteAt(value, 3 * g),
                  Passkey!ByteAt(value, 3 * g + 1),
                  Passkey!ByteAt(value, 3 * g + 2), r)
      BY <1>2, SixBitsAre, Zenon
    <3>2. Passkey!SixBits(value, 6 * (4 * g + r - 1))
            = Cut(value[3 * g + 1], value[3 * g + 2], value[3 * g + 3], r)
      BY <2>6, <3>1, Zenon
    <3>3. c - 1 = 4 * g + r - 1
      BY <2>1
    <3> QED  BY <2>9, <3>2, <3>3
  <2>8. Encoded(value)[c] = Passkey!SixBits(value, 6 * (c - 1))
    BY <1>2 DEF Encoded
  <2> QED  BY <2>7, <2>8
<1>7. ASSUME NEW r \in 1..3
      PROVE  Passkey!Tail2(value, 3)[r] = Encoded(value)[4 * n + r]
  <2>1. /\ 3 * n + 1 \in 1..3 * n + 2 /\ 3 * n + 2 \in 1..3 * n + 2
        /\ Len(value) - 1 = 3 * n + 1 /\ Len(value) = 3 * n + 2
    BY <1>1
  <2>2. Passkey!Tail2(value, 3)[r]
          = Passkey!Character(Passkey!Word(value[3 * n + 1], value[3 * n + 2], 0),
                              r)
    BY <2>1 DEF Passkey!Tail2
  <2>3. Passkey!Tail2(value, 3)[r]
          = Cut(value[3 * n + 1], value[3 * n + 2], 0, r)
    <3>1. /\ value[3 * n + 1] \in 0..255 /\ value[3 * n + 2] \in 0..255
          /\ 0 \in 0..255 /\ r \in 1..4
      BY <1>3, <2>1
    <3> DEFINE x == value[3 * n + 1]
               y == value[3 * n + 2]
    <3>2. x \in 0..255 /\ y \in 0..255
      BY <3>1
    <3> HIDE DEF x, y
    <3>3. Passkey!Character(Passkey!Word(x, y, 0), r) = Cut(x, y, 0, r)
      BY <3>1, <3>2, CharactersAre
    <3> QED  BY <2>2, <3>3 DEF x, y
  <2>4. /\ Passkey!ByteAt(value, 3 * n) = value[3 * n + 1]
        /\ Passkey!ByteAt(value, 3 * n + 1) = value[3 * n + 2]
    <3>1. 3 * n \in 0..3 * n + 1 /\ 3 * n + 1 \in 0..3 * n + 1
      BY SMT
    <3>2. 3 * n + 1 + 1 = 3 * n + 2
      BY SMT
    <3> QED  BY <1>4, <3>1, <3>2
  <2>5. Passkey!SixBits(value, 6 * (4 * n + r - 1)) = Passkey!Tail2(value, 3)[r]
    <3>1. r \in 1..4
      OBVIOUS
    <3>2. Passkey!SixBits(value, 6 * (4 * n + r - 1))
            = Cut(Passkey!ByteAt(value, 3 * n),
                  Passkey!ByteAt(value, 3 * n + 1),
                  Passkey!ByteAt(value, 3 * n + 2), r)
      BY <1>2, <3>1, SixBitsAre, Zenon
    <3> QED  BY <1>5, <2>3, <2>4, <3>2, Zenon
  <2>6. Encoded(value)[4 * n + r] = Passkey!SixBits(value, 6 * (4 * n + r - 1))
    BY <1>2 DEF Encoded
  <2> QED  BY <2>5, <2>6
<1> DEFINE a == Passkey!Triples(value)
           b == Passkey!Tail2(value, 3)
           A == {a[c] : c \in 1..4 * n} \cup {b[c] : c \in 1..3}
<1>8. /\ a = [c \in 1..4 * n |-> a[c]]
      /\ b = [c \in 1..3 |-> b[c]]
  BY <1>2 DEF Passkey!Triples, Passkey!Tail2
<1> HIDE DEF a, b
<1>9. a \in Seq(A) /\ Len(a) = 4 * n /\ b \in Seq(A) /\ Len(b) = 3
  <2>1. a \in [1..4 * n -> A] /\ b \in [1..3 -> A]
    BY <1>8
  <2>2. 4 * n \in Nat /\ 3 \in Nat
    OBVIOUS
  <2>3. \A l \in Nat : \A f \in [1..l -> A] : f \in Seq(A) /\ Len(f) = l
    OBVIOUS
  <2> QED  BY <2>1, <2>2, <2>3
<1> HIDE DEF A
<1> DEFINE ab == a \o b
<1>10. /\ DOMAIN ab = 1..4 * n + 3
       /\ \A c \in 1..4 * n + 3 :
            ab[c] = IF c <= 4 * n THEN a[c] ELSE b[c - 4 * n]
       /\ ab \in Seq(A)
  <2>1. a \o b \in Seq(A) /\ Len(a \o b) = Len(a) + Len(b)
    BY <1>9, ConcatProperties, Zenon
  <2>2. \A c \in 1..Len(a) + Len(b) :
          (a \o b)[c] = IF c <= Len(a) THEN a[c] ELSE b[c - Len(a)]
    BY <1>9, ConcatProperties, Zenon
  <2> QED  BY <1>9, <2>1, <2>2
<1> HIDE DEF ab
<1>11. \A c \in 1..4 * n + 3 : ab[c] = Encoded(value)[c]
  <2> TAKE c \in 1..4 * n + 3
  <2>1. CASE c <= 4 * n
    <3>1. a[c] = Encoded(value)[c]
      BY <1>6, <2>1 DEF a
    <3> QED  BY <1>10, <2>1, <3>1
  <2>2. CASE c > 4 * n
    <3> DEFINE k == c - 4 * n
    <3>1. k \in 1..3 /\ 4 * n + k = c
      BY <2>2
    <3>2. ab[c] = b[k]
      BY <1>10, <2>2
    <3> HIDE DEF k
    <3>3. b[k] = Encoded(value)[4 * n + k]
      BY <1>7, <3>1 DEF b
    <3>4. Encoded(value)[4 * n + k] = Encoded(value)[c]
      BY <3>1, Zenon
    <3> QED  BY <3>2, <3>3, <3>4
  <2> QED  BY <2>1, <2>2
<1>12. Encoded(value) = [c \in 1..4 * n + 3 |-> Encoded(value)[c]]
  BY <1>2 DEF Encoded
<1>13. ab = Encoded(value)
  <2>1. ab = [c \in 1..4 * n + 3 |-> ab[c]]
    <3>1. \A t \in Seq(A) : t = [c \in DOMAIN t |-> t[c]]
      OBVIOUS
    <3> QED  BY <1>10, <3>1, Zenon
  <2> QED  BY <1>11, <1>12, <2>1
<1> QED  BY <1>13 DEF ab, a, b, Passkey!push_base64url

\* sep45.ts: btoa writes one group more, whose last character is cut off;
\* the two replacements undo the names btoa gives to 62 and 63.
LEMMA ClientEncodes ==
  ASSUME NEW value, IsPayload(value)
  PROVE  Passkey!challenge(value) = Encoded(value)
<1>1. PICK n \in Nat : Len(value) = 3 * n + 2
  BY PayloadLength
<1>2. /\ Len(value) \div 3 = n /\ value \in Seq(0..255)
      /\ 4 * ((Len(value) + 2) \div 3) = 4 * n + 4
  <2>1. (3 * n + 2) \div 3 = n /\ 4 * ((3 * n + 2 + 2) \div 3) = 4 * n + 4
    BY SMT
  <2> QED  BY <1>1, <2>1 DEF IsPayload
<1>3. \A c \in 1..4 * n + 4 : Passkey!SixBits(value, 6 * (c - 1)) \in 0..63
  <2> TAKE c \in 1..4 * n + 4
  <2>1. PICK g \in Nat, r \in 1..4 : c = 4 * g + r
    BY Groups
  <2>2. \A j \in Nat : Passkey!ByteAt(value, j) \in 0..255
    BY <1>2, ByteRange
  <2>3. 3 * g \in Nat /\ 3 * g + 1 \in Nat /\ 3 * g + 2 \in Nat
    OBVIOUS
  <2>4. Cut(Passkey!ByteAt(value, 3 * g), Passkey!ByteAt(value, 3 * g + 1),
            Passkey!ByteAt(value, 3 * g + 2), r) \in 0..63
    BY <2>2, <2>3, CutRange, Zenon
  <2>5. Passkey!SixBits(value, 6 * (4 * g + r - 1)) \in 0..63
    BY <1>2, <2>4, SixBitsAre, Zenon
  <2>6. c - 1 = 4 * g + r - 1
    BY <2>1
  <2> QED  BY <2>5, <2>6
<1> DEFINE s == Passkey!btoa(value)
<1>4. /\ DOMAIN s = 1..4 * n + 4
      /\ \A c \in 1..4 * n + 4 :
           s[c] = IF 6 * (c - 1) >= 8 * Len(value) THEN 66
                  ELSE IF Passkey!SixBits(value, 6 * (c - 1)) = 62 THEN 64
                  ELSE IF Passkey!SixBits(value, 6 * (c - 1)) = 63 THEN 65
                  ELSE Passkey!SixBits(value, 6 * (c - 1))
  BY <1>2 DEF Passkey!btoa, Passkey!Equals, Passkey!Plus, Passkey!Slash,
              Passkey!Digit
<1> HIDE DEF s
<1>5. s[4 * n + 4] = 66
  <2>1. 4 * n + 4 \in 1..4 * n + 4 /\ 6 * (4 * n + 4 - 1) >= 8 * Len(value)
    BY <1>1
  <2> QED  BY <1>4, <2>1
<1>6. ASSUME NEW c \in 1..4 * n + 3
      PROVE  /\ s[c] # 66
             /\ Passkey!Replaced(s[c]) = Passkey!SixBits(value, 6 * (c - 1))
  <2>1. ~(6 * (c - 1) >= 8 * Len(value))
    BY <1>1
  <2>2. Passkey!SixBits(value, 6 * (c - 1)) \in 0..63
    BY <1>3
  <2>3. s[c] = IF Passkey!SixBits(value, 6 * (c - 1)) = 62 THEN 64
               ELSE IF Passkey!SixBits(value, 6 * (c - 1)) = 63 THEN 65
               ELSE Passkey!SixBits(value, 6 * (c - 1))
    BY <1>4, <2>1
  <2> QED  BY <2>2, <2>3 DEF Passkey!Replaced, Passkey!Plus, Passkey!Slash,
                             Passkey!Digit
<1>7. {j \in DOMAIN s
         : \E k \in {i \in DOMAIN s : s[i] # Passkey!Equals} : j <= k}
        = 1..4 * n + 3
  BY <1>4, <1>5, <1>6 DEF Passkey!Equals, Passkey!Digit
<1>8. Passkey!challenge(value) = [c \in 1..4 * n + 3 |-> Passkey!Replaced(s[c])]
  BY <1>7 DEF Passkey!challenge, s
<1> QED  BY <1>2, <1>6, <1>8 DEF Encoded

\* The bytes read back: three characters give two, and the fourth the third.
ReadBack(x, y, z) ==
  /\ x = Cut(x, y, z, 1) * 4 + Cut(x, y, z, 2) \div 16
  /\ y = (Cut(x, y, z, 2) % 16) * 16 + Cut(x, y, z, 3) \div 4
  /\ z = (Cut(x, y, z, 3) % 4) * 64 + Cut(x, y, z, 4)

LEMMA CutDetermines ==
  ASSUME NEW x \in 0..255, NEW y \in 0..255, NEW z \in 0..255
  PROVE  ReadBack(x, y, z)
<1>1. /\ ((x % 4) * 16 + y \div 16) \div 16 = x % 4
      /\ ((x % 4) * 16 + y \div 16) % 16 = y \div 16
  BY SMT
<1>2. /\ ((y % 16) * 4 + z \div 64) \div 4 = y % 16
      /\ ((y % 16) * 4 + z \div 64) % 4 = z \div 64
  BY SMT
<1>3. /\ x = (x \div 4) * 4 + (x % 4) /\ y = (y \div 16) * 16 + (y % 16)
      /\ z = (z \div 64) * 64 + (z % 64)
  BY SMT
<1> QED  BY <1>1, <1>2, <1>3 DEF Cut, ReadBack

\* Different payloads are written differently.
LEMMA EncodingTells ==
  ASSUME NEW p, NEW q, IsPayload(p), IsPayload(q), Encoded(p) = Encoded(q)
  PROVE  p = q
<1>1. PICK n \in Nat : Len(p) = 3 * n + 2
  BY PayloadLength
<1>2. PICK m \in Nat : Len(q) = 3 * m + 2
  BY PayloadLength
<1>3. /\ (3 * n + 2) \div 3 = n /\ (3 * m + 2) \div 3 = m
      /\ p \in Seq(0..255) /\ q \in Seq(0..255)
  <2>1. (3 * n + 2) \div 3 = n /\ (3 * m + 2) \div 3 = m
    BY SMT
  <2> QED  BY <2>1 DEF IsPayload
<1>4. m = n
  <2>1. DOMAIN Encoded(p) = 1..4 * n + 3 /\ DOMAIN Encoded(q) = 1..4 * m + 3
    BY <1>1, <1>2, <1>3 DEF Encoded
  <2>2. 1..4 * n + 3 = 1..4 * m + 3
    BY <2>1
  <2>3. 4 * n + 3 \in 1..4 * n + 3 /\ 4 * m + 3 \in 1..4 * m + 3
    BY SMT
  <2>4. 4 * n + 3 \in 1..4 * m + 3 /\ 4 * m + 3 \in 1..4 * n + 3
    BY <2>2, <2>3, Zenon
  <2> QED  BY <2>4
<1>5. ASSUME NEW g \in 0..n, NEW r \in 1..4, g < n \/ r < 4
      PROVE  Cut(Passkey!ByteAt(p, 3 * g),
                 Passkey!ByteAt(p, 3 * g + 1),
                 Passkey!ByteAt(p, 3 * g + 2), r)
               = Cut(Passkey!ByteAt(q, 3 * g), Passkey!ByteAt(q, 3 * g + 1),
                     Passkey!ByteAt(q, 3 * g + 2), r)
  <2>1. 4 * g + r \in 1..4 * n + 3
    BY <1>5
  <2>2. /\ Encoded(p)[4 * g + r] = Passkey!SixBits(p, 6 * (4 * g + r - 1))
        /\ Encoded(q)[4 * g + r] = Passkey!SixBits(q, 6 * (4 * g + r - 1))
    BY <1>1, <1>2, <1>3, <1>4, <2>1 DEF Encoded
  <2>3. Passkey!SixBits(p, 6 * (4 * g + r - 1))
          = Passkey!SixBits(q, 6 * (4 * g + r - 1))
    BY <2>2
  <2>4. g \in Nat
    OBVIOUS
  <2>5. Passkey!SixBits(p, 6 * (4 * g + r - 1))
          = Cut(Passkey!ByteAt(p, 3 * g),
                Passkey!ByteAt(p, 3 * g + 1),
                Passkey!ByteAt(p, 3 * g + 2), r)
    BY <1>3, <2>4, SixBitsAre, Zenon
  <2>6. Passkey!SixBits(q, 6 * (4 * g + r - 1))
          = Cut(Passkey!ByteAt(q, 3 * g),
                Passkey!ByteAt(q, 3 * g + 1),
                Passkey!ByteAt(q, 3 * g + 2), r)
    BY <1>3, <2>4, SixBitsAre, Zenon
  <2> QED  BY <2>3, <2>5, <2>6, Zenon
<1>6. ASSUME NEW g \in 0..n
      PROVE  /\ Passkey!ByteAt(p, 3 * g) = Passkey!ByteAt(q, 3 * g)
             /\ Passkey!ByteAt(p, 3 * g + 1) = Passkey!ByteAt(q, 3 * g + 1)
             /\ g < n => Passkey!ByteAt(p, 3 * g + 2)
                            = Passkey!ByteAt(q, 3 * g + 2)
  <2> DEFINE x == Passkey!ByteAt(p, 3 * g)
             y == Passkey!ByteAt(p, 3 * g + 1)
             z == Passkey!ByteAt(p, 3 * g + 2)
             u == Passkey!ByteAt(q, 3 * g)
             v == Passkey!ByteAt(q, 3 * g + 1)
             w == Passkey!ByteAt(q, 3 * g + 2)
  <2>1. 3 * g \in Nat /\ 3 * g + 1 \in Nat /\ 3 * g + 2 \in Nat
    OBVIOUS
  <2>2. /\ x \in 0..255 /\ y \in 0..255 /\ z \in 0..255
        /\ u \in 0..255 /\ v \in 0..255 /\ w \in 0..255
    BY <1>3, <2>1, ByteRange
  <2>3. /\ Cut(x, y, z, 1) = Cut(u, v, w, 1)
        /\ Cut(x, y, z, 2) = Cut(u, v, w, 2)
        /\ Cut(x, y, z, 3) = Cut(u, v, w, 3)
        /\ g < n => Cut(x, y, z, 4) = Cut(u, v, w, 4)
    BY <1>5
  <2> HIDE DEF x, y, z, u, v, w
  <2>4. x = u /\ y = v /\ (g < n => z = w)
    <3>1. ReadBack(x, y, z)
      BY <2>2, CutDetermines
    <3>2. ReadBack(u, v, w)
      BY <2>2, CutDetermines
    <3>3. x = u
      BY <2>3, <3>1, <3>2, Zenon DEF ReadBack
    <3>4. y = v
      BY <2>3, <3>1, <3>2, Zenon DEF ReadBack
    <3>5. g < n => z = w
      BY <2>3, <3>1, <3>2, Zenon DEF ReadBack
    <3> QED  BY <3>3, <3>4, <3>5
  <2> QED  BY <2>4 DEF x, y, z, u, v, w
<1>7. ASSUME NEW i \in 1..3 * n + 2 PROVE p[i] = q[i]
  <2>1. PICK g \in 0..n : \/ i - 1 = 3 * g \/ i - 1 = 3 * g + 1
                          \/ i - 1 = 3 * g + 2 /\ g < n
    <3>1. /\ (i - 1) \div 3 \in 0..n
          /\ \/ i - 1 = 3 * ((i - 1) \div 3)
             \/ i - 1 = 3 * ((i - 1) \div 3) + 1
             \/ i - 1 = 3 * ((i - 1) \div 3) + 2 /\ (i - 1) \div 3 < n
      BY SMT
    <3> QED  BY <3>1
  <2>2. Passkey!ByteAt(p, i - 1) = Passkey!ByteAt(q, i - 1)
    BY <1>6, <2>1
  <2>3. Passkey!ByteAt(p, i - 1) = p[i] /\ Passkey!ByteAt(q, i - 1) = q[i]
    BY <1>1, <1>2, <1>4 DEF Passkey!ByteAt
  <2> QED  BY <2>2, <2>3
<1>8. \A i \in 1..Len(p) : p[i] = q[i]
  BY <1>1, <1>7
<1> QED  BY <1>1, <1>2, <1>3, <1>4, <1>8, SeqEqual

\* The client's authenticator data and its whole answer.
Here == Passkey!Authenticator("colibri.test", TRUE, TRUE)

Answer(value) ==
  Passkey!Signed("passkey", Here,
         Passkey!ClientData(Passkey!challenge(value),
                            "https://colibri.test", "exact"), FALSE)

\* LowS leaves the other fields as they are.
LEMMA HighReplaced ==
  ASSUME NEW by, NEW high, NEW low, NEW of, NEW r,
         r = [by |-> by, high |-> high, of |-> of]
  PROVE  [r EXCEPT !.high = low] = [by |-> by, high |-> low, of |-> of]
<1> DEFINE e == [r EXCEPT !.high = low]
<1>1. /\ DOMAIN r = {"by", "high", "of"}
      /\ r = [f \in {"by", "high", "of"} |-> r[f]]
  OBVIOUS
<1>2. e = [f \in {"by", "high", "of"} |-> IF f = "high" THEN low ELSE r[f]]
  BY <1>1
<1>3. e.by = by /\ e.of = of /\ e.high = low
  BY <1>1, <1>2
<1> HIDE DEF e
<1>4. e = [by |-> by, high |-> low, of |-> of]
  BY <1>2, <1>3
<1> QED  BY <1>4 DEF e

\* Whatever s the signature came with, the client's answer has the lower one.
LEMMA AssertionIsAnswer ==
  ASSUME NEW value, NEW high
  PROVE  Passkey!Assertion(value, high) = Answer(value)
<1> DEFINE data == Passkey!ClientData(Passkey!challenge(value),
                                      "https://colibri.test", "exact")
           digest == <<Here, data>>
<1>1. PICK low : low = FALSE
  OBVIOUS
<1>2. PICK made, sig :
        /\ made = Passkey!Signed("passkey", Here, data, high)
        /\ sig = [by |-> "passkey", high |-> high, of |-> digest]
  OBVIOUS
<1>3. Passkey!Assertion(value, high) 
        = [made EXCEPT !.signature = Passkey!LowS(@)]
  BY <1>2 DEF Passkey!Assertion, Here
<1>4. made = [authenticator_data |-> Here, client_data_json |-> data,
              signature |-> sig]
  BY <1>2 DEF Passkey!Signed
<1>5. Answer(value) = [authenticator_data |-> Here, client_data_json |-> data,
                       signature |-> [by |-> "passkey", high |-> low,
                                      of |-> digest]]
  BY <1>1, Zenon DEF Answer, Passkey!Signed
<1> HIDE DEF data, digest
<1>6. Passkey!LowS(sig) = [sig EXCEPT !.high = low]
  BY <1>1, Zenon DEF Passkey!LowS
<1>7. Passkey!LowS(sig) = [by |-> "passkey", high |-> low, of |-> digest]
  BY <1>2, <1>6, HighReplaced, Zenon
<1>8. [made EXCEPT !.signature = Passkey!LowS(@)]
        = [authenticator_data |-> Here, client_data_json |-> data,
           signature |-> Passkey!LowS(sig)]
  <2>1. made.signature = sig
    BY <1>4
  <2>2. PICK t : t = Passkey!LowS(sig)
    OBVIOUS
  <2>3. [made EXCEPT !.signature = t]
          = [authenticator_data |-> Here, client_data_json |-> data,
             signature |-> t]
    BY <1>4
  <2> QED  BY <2>1, <2>2, <2>3, Zenon
<1> QED  BY <1>3, <1>5, <1>7, <1>8, Zenon

LEMMA AnswersAre ==
  ASSUME NEW value
  PROVE  Passkey!AnswersFor(value) = {Answer(value)}
  BY AssertionIsAnswer DEF Passkey!AnswersFor

\* An answer contains its challenge.
LEMMA AnswersTell ==
  ASSUME NEW p, NEW q, Answer(p) = Answer(q)
  PROVE  Passkey!challenge(p) = Passkey!challenge(q)
<1>1. Answer(p).client_data_json = Answer(q).client_data_json
  OBVIOUS
<1>2. Passkey!ClientData(Passkey!challenge(p), "https://colibri.test", "exact")
        = Passkey!ClientData(Passkey!challenge(q),
                             "https://colibri.test", "exact")
  BY <1>1 DEF Answer, Passkey!Signed
<1> QED  BY <1>2 DEF Passkey!ClientData

\* The contract's checks, in any order.
Passes(value, s) ==
  /\ s.authenticator_data.length = 37
  /\ s.authenticator_data.rp = "colibri.test"
  /\ s.authenticator_data.present /\ s.authenticator_data.verified
  /\ s.client_data_json = Passkey!expected_client_data(value)
  /\ Passkey!secp256r1_verify(kPublicKey,
                              <<s.authenticator_data, s.client_data_json>>,
                              s.signature)

\* check_auth returns "ok" only past all of them.
LEMMA CheckPasses ==
  ASSUME NEW value, NEW s
  PROVE  Passkey!check_auth(value, s) = "ok" <=> Passes(value, s)
  BY DEF Passkey!check_auth, Passes, Passkey!ClientDataError

\* An answer passes for the payload the contract writes as its challenge.
LEMMA AnswerPasses ==
  ASSUME NEW p, NEW q, kPublicKey = "passkey"
  PROVE  Passes(p, Answer(q))
           <=> Passkey!challenge(q) = Passkey!push_base64url(p)
<1> DEFINE data == Passkey!ClientData(Passkey!challenge(q),
                                      "https://colibri.test", "exact")
<1>1. /\ Answer(q).authenticator_data = Here
      /\ Answer(q).client_data_json = data
      /\ Answer(q).signature
           = [by |-> "passkey", high |-> FALSE, of |-> <<Here, data>>]
  BY DEF Answer, Passkey!Signed
<1>2. /\ Here.length = 37 /\ Here.rp = "colibri.test"
      /\ Here.present /\ Here.verified
  BY DEF Here, Passkey!Authenticator
<1>3. data = Passkey!expected_client_data(p)
        <=> Passkey!challenge(q) = Passkey!push_base64url(p)
  BY DEF Passkey!expected_client_data, Passkey!ClientData
<1> HIDE DEF data
<1>4. Passkey!secp256r1_verify(kPublicKey, <<Here, data>>, Answer(q).signature)
  BY <1>1 DEF Passkey!secp256r1_verify
<1> QED  BY <1>1, <1>2, <1>3, <1>4 DEF Passes

\* Each of the others fails one of the checks, for whatever payload.
LEMMA OthersFail ==
  ASSUME NEW p, NEW q, NEW s \in Passkey!Others(q), kPublicKey = "passkey"
  PROVE  ~Passes(p, s)
<1> DEFINE data(origin, layout) == Passkey!ClientData(Passkey!challenge(q),
                                                      origin, layout)
           here == data("https://colibri.test", "exact")
<1>1. CASE s = Passkey!Signed("another", Here, here, FALSE)
  <2>1. s.signature.by = "another"
    BY <1>1 DEF Passkey!Signed
  <2> QED  BY <2>1 DEF Passes, Passkey!secp256r1_verify
<1>2. CASE \E d :
             s = Passkey!Signed("passkey",
                                Passkey!Authenticator("colibri.test", FALSE, TRUE),
                                d, FALSE)
  BY <1>2 DEF Passes, Passkey!Signed, Passkey!Authenticator
<1>3. CASE \E d :
             s = Passkey!Signed("passkey",
                                Passkey!Authenticator("colibri.test", TRUE, FALSE),
                                d, FALSE)
  BY <1>3 DEF Passes, Passkey!Signed, Passkey!Authenticator
<1>4. CASE \E d :
             s = Passkey!Signed("passkey",
                                Passkey!Authenticator("elsewhere", TRUE, TRUE),
                                d, FALSE)
  BY <1>4 DEF Passes, Passkey!Signed, Passkey!Authenticator
<1>5. CASE s = Passkey!Signed("passkey", Here,
                      data("https://sub.colibri.test", "exact"), FALSE)
  <2>1. s.client_data_json.origin = "https://sub.colibri.test"
    BY <1>5 DEF Passkey!Signed, Passkey!ClientData
  <2> QED  BY <2>1 DEF Passes, Passkey!expected_client_data, Passkey!ClientData
<1>6. CASE s = Passkey!Signed("passkey", Here,
                      data("https://colibri.test", "extended"), FALSE)
  <2>1. s.client_data_json.layout = "extended"
    BY <1>6 DEF Passkey!Signed, Passkey!ClientData
  <2> QED  BY <2>1 DEF Passes, Passkey!expected_client_data, Passkey!ClientData
<1>7. CASE s = Passkey!Signed("passkey", [Here EXCEPT !.length = 38],
                                here, FALSE)
  <2>1. s.authenticator_data.length = 38
    BY <1>7 DEF Passkey!Signed, Here, Passkey!Authenticator
  <2> QED  BY <2>1 DEF Passes
<1> QED  BY <1>1, <1>2, <1>3, <1>4, <1>5, <1>6, <1>7 DEF Passkey!Others, Here

\* The key is never replaced; with it the property is inductive.
PasskeyIInv == kPublicKey = "passkey" /\ Passkey!SimulationIsRight

LEMMA PasskeyInitially == Passkey!Init => PasskeyIInv
  BY DEF Passkey!Init, PasskeyIInv, Passkey!SimulationIsRight,
     Passkey!TypeOK, Passkey!AccountAcceptsItsClient,
     Passkey!NothingIsReplayed, Passkey!AllNamedAgree

\* The two writings of every payload agree.
LEMMA PayloadsAre ==
  ASSUME NEW p \in Payloads
  PROVE  IsPayload(p) /\ Passkey!challenge(p) = Passkey!push_base64url(p)
<1>1. IsPayload(p)
  BY PayloadsAssumption DEF Passkey!PayloadsOK, Passkey!Byte, IsPayload
<1> QED  BY <1>1, ContractEncodes, ClientEncodes

\* Answers for two entries are the same for one payload only.
LEMMA ChallengesTell ==
  ASSUME NEW p \in Payloads, NEW q \in Payloads,
         Passkey!challenge(p) = Passkey!challenge(q)
  PROVE  p = q
<1>1. IsPayload(p) /\ IsPayload(q)
  BY PayloadsAre
<1>2. Encoded(p) = Encoded(q)
  BY <1>1, ClientEncodes
<1> QED  BY <1>1, <1>2, EncodingTells

\* Of all that was ever signed only the answer to this payload passes.
LEMMA OnlyTheAnswerPasses ==
  ASSUME PasskeyIInv, NEW s \in Passkey!Assertions
  PROVE  Passkey!check_auth(kPayload, s) = "ok" <=> s = Answer(kPayload)
<1>1. /\ kPublicKey = "passkey"
      /\ kPayload \in Payloads
      /\ kAsked \subseteq Payloads
  BY DEF PasskeyIInv, Passkey!SimulationIsRight, Passkey!TypeOK
<1>2. PICK q \in kAsked : s = Answer(q) \/ s \in Passkey!Others(q)
  BY AssertionIsAnswer DEF Passkey!Assertions
<1>3. Passes(kPayload, Answer(kPayload))
  BY <1>1, AnswerPasses, PayloadsAre
<1>4. ASSUME Passes(kPayload, s) PROVE s = Answer(kPayload)
  <2>1. s \notin Passkey!Others(q)
    BY <1>1, <1>4, OthersFail
  <2>2. s = Answer(q) /\ Passkey!challenge(q) = Passkey!push_base64url(kPayload)
    BY <1>1, <1>2, <1>4, <2>1, AnswerPasses
  <2>3. q = kPayload
    BY <1>1, <2>2, PayloadsAre, ChallengesTell
  <2> QED  BY <2>2, <2>3
<1> QED  BY <1>3, <1>4, CheckPasses

LEMMA PasskeyStep == PasskeyIInv /\ [Passkey!Next]_passkeyVars => PasskeyIInv'
<1> SUFFICES ASSUME PasskeyIInv, [Passkey!Next]_passkeyVars PROVE PasskeyIInv'
  OBVIOUS
<1>1. /\ kPublicKey = "passkey" /\ kPayload \in Payloads
      /\ kPayload \in kAsked /\ kAsked \subseteq Payloads
  BY DEF PasskeyIInv, Passkey!SimulationIsRight, Passkey!TypeOK
<1>2. CASE Passkey!NextEntry
  BY <1>1, <1>2 DEF Passkey!NextEntry, PasskeyIInv,
     Passkey!SimulationIsRight, Passkey!TypeOK,
     Passkey!AccountAcceptsItsClient, Passkey!NothingIsReplayed,
     Passkey!AllNamedAgree
<1>3. ASSUME NEW s \in Passkey!Assertions,
             NEW names \in SUBSET {"client_domain_account"},
             NEW alsoSigned \in SUBSET {"web_auth_domain_account",
                                        "client_domain_account"},
             Passkey!Simulate(s, names, alsoSigned)
      PROVE  PasskeyIInv'
  <2> DEFINE accepted == Passkey!check_auth(kPayload, s)
             arguments == names \cup {"account", "web_auth_domain_account"}
             authorized == alsoSigned \cup
                             {n \in {"account"} : accepted = "ok"}
             verdict == Passkey!web_auth_verify(arguments, authorized)
  <2>1. /\ UNCHANGED <<kPublicKey, kPayload, kAsked>>
        /\ kSimulated' = [assertion |-> s, arguments |-> arguments,
                          authorized |-> authorized, account |-> accepted,
                          result |-> verdict]
    BY <1>3 DEF Passkey!Simulate
  <2>2. verdict = "ok" => accepted = "ok" /\ arguments \subseteq authorized
    BY DEF Passkey!web_auth_verify
  <2>3. accepted = "ok" <=> s = Answer(kPayload)
    BY OnlyTheAnswerPasses
  <2>4. accepted \in
          {"InvalidAuthenticatorData", "InvalidRpId", "UserPresenceRequired",
           "UserVerificationRequired", "InvalidClientDataType",
           "InvalidOrigin", "InvalidChallenge", "InvalidClientData", "ok",
           "trap"}
    BY DEF Passkey!check_auth, Passkey!ClientDataError
  <2> HIDE DEF accepted, arguments, authorized, verdict
  <2>5. /\ kSimulated'.account = accepted /\ kSimulated'.assertion = s
        /\ kSimulated'.result = verdict /\ kSimulated'.arguments = arguments
        /\ kSimulated'.authorized = authorized
    BY <2>1
  <2>6. Passkey!TypeOK'
    BY <1>1, <2>1, <2>4, <2>5 DEF Passkey!TypeOK
  <2>7. Passkey!AccountAcceptsItsClient'
    BY <2>1, <2>3, <2>5, AnswersAre DEF Passkey!AccountAcceptsItsClient
  <2>8. Passkey!NothingIsReplayed'
    <3>1. ASSUME accepted = "ok", NEW p \in kAsked \ {kPayload},
                 s \in Passkey!AnswersFor(p)
          PROVE  FALSE
      <4>1. Answer(p) = Answer(kPayload)
        BY <2>3, <3>1, AnswersAre
      <4> QED  BY <1>1, <3>1, <4>1, AnswersTell, ChallengesTell
    <3> QED  BY <2>1, <2>5, <3>1 DEF Passkey!NothingIsReplayed
  <2>9. Passkey!AllNamedAgree'
    BY <2>2, <2>5 DEF Passkey!AllNamedAgree
  <2> QED  BY <1>1, <2>1, <2>6, <2>7, <2>8, <2>9
           DEF PasskeyIInv, Passkey!SimulationIsRight
<1>4. CASE UNCHANGED passkeyVars
  BY <1>4 DEF passkeyVars, PasskeyIInv, Passkey!SimulationIsRight,
     Passkey!TypeOK, Passkey!AccountAcceptsItsClient,
     Passkey!NothingIsReplayed, Passkey!AllNamedAgree, Passkey!AnswersFor,
     Passkey!Assertion
<1> QED  BY <1>2, <1>3, <1>4 DEF Passkey!Next

-----------------------------------------------------------------------------
(* All of them together.                                                   *)

ScriptsIInv ==
  /\ program = "prepared" => PreparedIInv
  /\ program = "pool" => PoolIInv
  /\ program = "ledger" => LedgerIInv
  /\ program = "passkey" => PasskeyIInv

LEMMA ScriptsInitially == ScriptsInit => ScriptsIInv
  BY PreparedInitially, PoolInitially, LedgerInitially, PasskeyInitially
  DEF ScriptsInit, InitPrepared, InitPool, InitLedger, InitPasskey, ScriptsIInv

LEMMA ScriptsStep ==
  ASSUME ScriptsIInv, [ScriptsNext]_allVars
  PROVE  ScriptsIInv'
<1>1. UNCHANGED program
  BY DEF ScriptsNext, allVars
<1>2. /\ program = "prepared" => [Prepared!Next]_preparedVars
      /\ program = "pool" => [Pool!Next]_poolVars
      /\ program = "ledger" => [Ledger!Next]_ledgerVars
      /\ program = "passkey" => [Passkey!Next]_passkeyVars
  BY DEF ScriptsNext, allVars
<1> QED  BY <1>1, <1>2, PreparedStep, PoolStep, LedgerStep, PasskeyStep
         DEF ScriptsIInv

\* The steps that the four theorems share.
LEMMA ScriptsInvariant == ScriptsSpec => []ScriptsIInv
<1>1. ScriptsInit => ScriptsIInv
  BY ScriptsInitially
<1>2. ScriptsIInv /\ [ScriptsNext]_allVars => ScriptsIInv'
  BY ScriptsStep
<1> QED  BY <1>1, <1>2, PTL DEF ScriptsSpec

\* However many payments wait for however many channels, and whatever is lost
\* or rejected: the pool of channel-accounts/ has every channel while a run
\* may need one, and only a lost opening or a failed closing leaves some.
THEOREM ChannelsServe == ScriptsSpec => []ChannelsServeTheirRuns
<1>1. ScriptsIInv => ChannelsServeTheirRuns
  BY PoolServes DEF ScriptsIInv, ChannelsServeTheirRuns
<1> QED  BY <1>1, ScriptsInvariant, PTL

\* Whenever the network applies what the scripts have sent, and however late:
\* the transaction that pre-authorized.ts and signed-payload.ts finalize first
\* fits its account once what authorizes it is on the ledger, and what a
\* payment is made to disclose is disclosed by it and used only then.
THEOREM PreparedWork == ScriptsSpec => []PreparedPaymentsWork
<1>1. ScriptsIInv => PreparedPaymentsWork
  BY PreparedWorks DEF ScriptsIInv, PreparedPaymentsWork
<1> QED  BY <1>1, ScriptsInvariant, PTL

\* However many terminals run commands on the reusable ledger at once, with
\* however many restarts between: a restart that ends without a throw has seen
\* the start it made, or a later one, ready, and a test that got past beforeAll
\* destroys what it started, unless destroy itself throws; and where the second
\* follower comes within a second of the restart, which the second it asks back
\* allows for, no line is missed.
THEOREM LedgerCommands ==
  /\ ScriptsSpec => [](program = "ledger" => Ledger!EndsAsAnnounced)
  /\ FollowDelay <= 1 => (ScriptsSpec => []LedgerCommandsWork)
<1>1. ScriptsIInv => (program = "ledger" => Ledger!EndsAsAnnounced)
  BY LedgerWorks DEF ScriptsIInv
<1>2. ASSUME FollowDelay <= 1 PROVE ScriptsSpec => []LedgerCommandsWork
  <2>1. ScriptsIInv => LedgerCommandsWork
    BY <1>2, LedgerWorks DEF ScriptsIInv, LedgerCommandsWork
  <2> QED  BY <2>1, ScriptsInvariant, PTL
<1>3. ScriptsSpec => [](program = "ledger" => Ledger!EndsAsAnnounced)
  BY <1>1, ScriptsInvariant, PTL
<1> QED  BY <1>2, <1>3

\* The contract's push_base64url and the client's btoa with its replacements,
\* for hashes of any bytes: what the client writes for one is what the contract
\* expects for another only if they are the same hash.
THEOREM HashesAreTold ==
  \A p, q \in Payloads :
    Passkey!challenge(p) = Passkey!push_base64url(q) <=> p = q
<1>1. ASSUME NEW p \in Payloads, NEW q \in Payloads,
             Passkey!challenge(p) = Passkey!push_base64url(q)
      PROVE  p = q
  BY <1>1, PayloadsAre, ChallengesTell
<1> QED  BY <1>1, PayloadsAre

\* Whatever the entries hash to: the contract's base64url of a payload is the
\* client's, and another payload's is another.  So passkey-account accepts
\* what sep45.ts answers for the entry, whichever s the signature came with,
\* and nothing that was signed for another entry, site, layout or key or
\* without the reader; and web-auth succeeds only if all named accounts agree.
THEOREM PasskeyWorks == ScriptsSpec => []SimulationIsRight
<1>1. ScriptsIInv => SimulationIsRight
  BY DEF ScriptsIInv, PasskeyIInv, SimulationIsRight
<1> QED  BY <1>1, ScriptsInvariant, PTL
=============================================================================
