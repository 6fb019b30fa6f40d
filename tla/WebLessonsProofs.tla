--------------------------- MODULE WebLessonsProofs ---------------------------
(***************************************************************************)
(* The pages of the web application, each for any of its constants: the    *)
(* signer that lessons share, the sessions with their log, the schedule of *)
(* the network lesson, the lessons that write and the one that signs a     *)
(* message.  Each page has an inductive invariant; the last part puts them *)
(* together.                                                               *)
(***************************************************************************)
EXTENDS WebLessons, Sequences, FiniteSetTheorems, WellFoundedInduction, TLAPS

-----------------------------------------------------------------------------
(* The signer.                                                             *)

\* A choice of a local key has put its key in place, and the lesson has not
\* been remounted for it yet.
Replacing == choice.next = "local" /\ choice.at \in {"connected", "settled"}
Published == choice.next = "local" /\ choice.at = "settled"

Disposal == disposed => ~mounted /\ key = Nobody

WalletHasReleased ==
  /\ mounted /\ source = "wallet" /\ ~Replacing => key = Nobody
  /\ choice.next = "wallet" /\ choice.at = "settled" => key = Nobody

PublishedKey ==
  /\ key = Nobody => local = Nobody
  /\ choice.at # "connected" /\ local # Nobody => local = key

RequestsLock == \A q \in request : ~q.early => choice = Idle

LessonMatchesSigner ==
  LET shown == Selected(source, local, wallet)
  IN  mounted /\ ~Published /\ shown # Nobody
        => /\ receipt # Nobody => receipt = shown
           /\ \A q \in request : q.with = shown

IInv == /\ TypeOK /\ SingleKey /\ Disposal /\ WalletHasReleased
        /\ PublishedKey /\ RequestsLock /\ LessonMatchesSigner

LEMMA AddressIsSigner ==
  ASSUME NEW w, w \subseteq HeaderWallets
  PROVE  WalletAddress(w) \in Signers
<1>1. CASE w = {}
  BY <1>1 DEF WalletAddress, Signers
<1>2. CASE w # {}
  <2> DEFINE c == CHOOSE d \in w : TRUE
  <2>1. c \in w
    BY <1>2
  <2> QED BY <1>2, <2>1 DEF WalletAddress, Signers
<1> QED BY <1>1, <1>2

LEMMA SelectedIsSigner == TypeOK => Selected(source, local, wallet) \in Signers
  BY AddressIsSigner DEF TypeOK, Selected, Signers

LEMMA Initially == Init => IInv
<1> SUFFICES ASSUME Init PROVE IInv
  OBVIOUS
<1>1. choice \in Choices
  BY DEF Init, Choices
<1>2. receipt \in Signers
  BY DEF Init, Signers
<1>3. 0 \in 0 .. MaxReplays
  BY LessonAssumption
<1>4. TypeOK
  BY <1>1, <1>2, <1>3 DEF Init, TypeOK
<1> QED
  BY <1>4
  DEF Init, IInv, SingleKey, Disposal, WalletHasReleased, PublishedKey,
      RequestsLock, LessonMatchesSigner, Selected, Idle

\* Only a change of the provider's key, or nothing, happens to a lesson.
LEMMA RenderedKeepsType ==
  ASSUME TypeOK, NEW src, NEW gen, NEW w, Rendered(src, gen, w)
  PROVE  /\ request' \subseteq [with : Signers, early : BOOLEAN]
         /\ \A q, r \in request' : q = r
         /\ receipt' \in Signers
  BY DEF TypeOK, Rendered, Remounted, lesson, Signers

LEMMA TypeStep == TypeOK /\ [Next]_vars => TypeOK'
<1> SUFFICES ASSUME TypeOK, [Next]_vars PROVE TypeOK'
  OBVIOUS
<1> USE LessonAssumption DEF TypeOK, page, identity, lesson
<1>1. CASE UNCHANGED vars
  BY <1>1 DEF vars
<1>2. CASE chooseLocal
  BY <1>2 DEF chooseLocal, Choices
<1>3. CASE chooseWallet
  BY <1>3 DEF chooseWallet, Choices
<1>4. CASE Connect
  <2>1. choice' \in Choices
    BY <1>4 DEF Connect, Choices, Idle
  <2> QED BY <1>4, <2>1 DEF Connect, connectPractice, Idle
<1>5. CASE Publish
  <2>1. choice' \in Choices
    BY <1>5 DEF Publish, Choices, Idle
  <2> QED BY <1>5, <2>1 DEF Publish
<1>6. CASE DisconnectLocal
  <2>1. choice' \in Choices
    BY <1>6 DEF DisconnectLocal, Choices, Idle
  <2> QED BY <1>6, <2>1 DEF DisconnectLocal, release
<1>7. CASE Finish
  <2>1. choice' \in Choices
    BY <1>7 DEF Finish, Choices
  <2>2. choice.next \in {"local", "wallet"}
    BY <1>7 DEF Finish, Choices, Idle
  <2>3. CASE mounted
    BY <1>7, <2>1, <2>2, <2>3, RenderedKeepsType DEF Finish
  <2>4. CASE ~mounted
    BY <1>7, <2>1, <2>4 DEF Finish
  <2> QED BY <2>3, <2>4
<1>8. CASE Reject
  BY <1>8 DEF Reject, Choices
<1>9. CASE Replay
  BY <1>9 DEF Replay
<1>10. CASE Leave
  <2>1. Nobody \in Signers
    BY DEF Signers
  <2>2. cleanups' \in Nat
    BY <1>10 DEF Leave
  <2>3. mounted' \in BOOLEAN
    BY <1>10 DEF Leave
  <2>4. request' = {} /\ receipt' \in Signers
    BY <1>10, <2>1 DEF Leave, Remounted
  <2> QED BY <1>10, <2>2, <2>3, <2>4 DEF Leave
<1>11. CASE Cleanup
  <2>1. cleanups' \in Nat
    BY <1>11 DEF Cleanup
  <2>2. CASE mounted
    BY <1>11, <2>1, <2>2 DEF Cleanup
  <2>3. CASE ~mounted
    <3>1. key' \in Keys \cup {Nobody} /\ live' \subseteq Keys
      BY <1>11, <2>3 DEF Cleanup, release
    <3> QED BY <1>11, <2>1, <2>3, <3>1 DEF Cleanup
  <2> QED BY <2>2, <2>3
<1>12. CASE WalletChanges
  <2>1. PICK w \in {{}} \cup {{c} : c \in HeaderWallets} :
          wallet' = w /\ Rendered(source, generation, w)
    BY <1>12 DEF WalletChanges
  <2>2. w \subseteq HeaderWallets /\ \A u, v \in w : u = v
    OBVIOUS
  <2> QED BY <1>12, <2>1, <2>2, RenderedKeepsType DEF WalletChanges
<1>13. CASE Disconnect
  BY <1>13 DEF Disconnect, release
<1>14. CASE Request
  <2>1. Selected(source, local, wallet) \in Signers
    BY SelectedIsSigner
  <2>2. selecting \in BOOLEAN
    BY DEF selecting
  <2> QED BY <1>14, <2>1, <2>2 DEF Request
<1>15. CASE Settle
  BY <1>15 DEF Settle
<1> QED
  BY <1>1, <1>2, <1>3, <1>4, <1>5, <1>6, <1>7, <1>8, <1>9, <1>10, <1>11,
     <1>12, <1>13, <1>14, <1>15
  DEF Next

\* The state of a lesson keeps its type.
THEOREM TypeCorrect == Spec => []TypeOK
<1>1. Init => TypeOK
  BY Initially DEF IInv
<1> QED BY <1>1, TypeStep, PTL DEF Spec

\* The steps below leave key, live and local alone, or name what they do.
LEMMA SafetyStep == IInv /\ [Next]_vars => IInv'
<1> SUFFICES ASSUME IInv, [Next]_vars PROVE IInv'
  OBVIOUS
<1>t. TypeOK /\ TypeOK'
  BY TypeStep DEF IInv
<1>n. Nobody \notin Keys
  BY LessonAssumption
<1>a. SingleKey'
  <2>1. CASE UNCHANGED identity
    BY <2>1 DEF identity, SingleKey, IInv
  <2>2. CASE release
    BY <2>2 DEF release, SingleKey, IInv
  <2>3. ASSUME NEW k \in Keys, connectPractice(k) PROVE SingleKey'
    BY <2>3, <1>n DEF connectPractice, SingleKey, IInv
  <2> QED
    BY <2>1, <2>2, <2>3
    DEF Next, vars, identity, chooseLocal, chooseWallet, Connect, Publish,
        DisconnectLocal, Finish, Reject, Replay, Leave, Cleanup,
        WalletChanges, Disconnect, Request, Settle
<1>b. Disposal'
  BY <1>t
  DEF IInv, TypeOK, Disposal, Next, vars, identity, page, release,
      connectPractice, chooseLocal, chooseWallet, Connect, Publish,
      DisconnectLocal, Finish, Reject, Replay, Leave, Cleanup,
      WalletChanges, Disconnect, Request, Settle
<1>c. WalletHasReleased'
  BY <1>t
  DEF IInv, TypeOK, Disposal, WalletHasReleased, Replacing, Choices, Idle,
      Next, vars, identity, page, release, selecting,
      connectPractice, chooseLocal, chooseWallet, Connect, Publish,
      DisconnectLocal, Finish, Reject, Replay, Leave, Cleanup,
      WalletChanges, Disconnect, Request, Settle
<1>d. PublishedKey'
  BY <1>t, <1>n
  DEF IInv, TypeOK, Disposal, PublishedKey, Choices, Idle,
      Next, vars, identity, page, release, selecting,
      connectPractice, chooseLocal, chooseWallet, Connect, Publish,
      DisconnectLocal, Finish, Reject, Replay, Leave, Cleanup,
      WalletChanges, Disconnect, Request, Settle
\* A choice starts only when no request is pending; a finished one remounts.
<1>e. RequestsLock'
  <2>1. CASE UNCHANGED <<request, choice>> \/ request' = {}
    BY <2>1 DEF IInv, RequestsLock
  <2>2. CASE chooseLocal \/ chooseWallet
    BY <2>2 DEF chooseLocal, chooseWallet, pending, lesson, RequestsLock
  <2>3. CASE Connect \/ Publish \/ DisconnectLocal
    <3>1. choice # Idle /\ request' = request
      BY <2>3 DEF Connect, Publish, DisconnectLocal, lesson, Idle
    <3>2. \A q \in request : q.early
      BY <3>1 DEF IInv, TypeOK, RequestsLock
    <3> QED BY <3>1, <3>2 DEF RequestsLock
  <2>4. CASE Finish \/ Reject
    <3>1. choice' = Idle
      BY <2>4 DEF Finish, Reject
    <3> QED BY <3>1 DEF RequestsLock
  <2>5. CASE Request
    <3> SUFFICES ASSUME NEW q \in request', ~q.early PROVE choice' = Idle
      BY DEF RequestsLock
    <3>1. q = [with |-> Selected(source, local, wallet), early |-> selecting]
      BY <2>5 DEF Request
    <3>2. q.early = selecting
      BY <3>1, Zenon
    <3>3. choice' = choice
      BY <2>5 DEF Request
    <3> QED BY <3>2, <3>3, Zenon DEF selecting
  <2>6. CASE WalletChanges
    BY <2>1, <2>6 DEF WalletChanges, Rendered, Remounted, lesson
  <2>7. CASE Replay \/ Cleanup \/ Disconnect \/ UNCHANGED vars
    BY <2>1, <2>7 DEF Replay, Cleanup, Disconnect, vars, lesson
  <2>8. CASE Leave \/ Settle
    BY <2>1, <2>8 DEF Leave, Settle, Remounted
  <2> QED
    BY <2>2, <2>3, <2>4, <2>5, <2>6, <2>7, <2>8 DEF Next
<1>f. LessonMatchesSigner'
  <2>1. CASE UNCHANGED <<mounted, source, local, wallet, lesson>>
             /\ (Published => Published')
    BY <2>1 DEF IInv, LessonMatchesSigner, lesson
  <2>2. CASE request' = {} /\ receipt' = Nobody
    BY <2>2 DEF LessonMatchesSigner
  <2>3. CASE Publish
    <3>1. CASE choice'.at = "settled"
      <4>1. Published'
        BY <2>3, <3>1, <1>t DEF Publish, Published, TypeOK, Choices, Idle
      <4> QED BY <4>1 DEF LessonMatchesSigner
    <3>2. CASE UNCHANGED local
      <4>1. ~Published
        BY <2>3 DEF Publish, Published
      <4> QED
        BY <2>3, <3>2, <4>1 DEF Publish, page, lesson, IInv, LessonMatchesSigner
    <3> QED BY <2>3, <3>1, <3>2, <1>t DEF Publish, TypeOK, Choices, Idle
  <2>4. CASE DisconnectLocal \/ Disconnect \/ Cleanup
    <3>1. UNCHANGED <<source, wallet, lesson>>
      BY <2>4 DEF DisconnectLocal, Disconnect, Cleanup
    <3>2. ~mounted' \/ local' = local \/ local' = Nobody
      BY <2>4 DEF DisconnectLocal, Disconnect, Cleanup
    <3>3. (mounted' => mounted) /\ (Published => Published')
      BY <2>4, <1>t
      DEF DisconnectLocal, Disconnect, Cleanup, page, Published, TypeOK, Choices,
          Idle
    <3> QED
      BY <3>1, <3>2, <3>3 DEF IInv, LessonMatchesSigner, Selected, lesson
  <2>5. CASE Finish
    <3>1. CASE mounted
      <4>1. <<choice.next, generation + 1>> # <<source, generation>>
        BY <1>t DEF TypeOK
      <4>2. Remounted
        BY <2>5, <3>1, <4>1 DEF Finish, Rendered, ProviderKey
      <4> QED BY <2>2, <4>2 DEF Remounted
    <3>2. CASE ~mounted
      BY <2>5, <3>2 DEF Finish, page, LessonMatchesSigner
    <3> QED BY <3>1, <3>2
  <2>6. CASE WalletChanges
    <3>1. PICK w : wallet' = w /\ Rendered(source, generation, w)
      BY <2>6 DEF WalletChanges
    <3>2. CASE ProviderKey(source, generation, w)
                 = ProviderKey(source, generation, wallet)
      <4>1. Selected(source, local, w) = Selected(source, local, wallet)
        BY <3>2 DEF ProviderKey, Selected
      <4>2. UNCHANGED <<lesson, mounted, source, local, choice>>
        BY <2>6, <3>1, <3>2 DEF WalletChanges, Rendered, page
      <4> QED
        BY <3>1, <4>1, <4>2 DEF IInv, LessonMatchesSigner, Published, lesson
    <3>3. CASE ProviderKey(source, generation, w)
                 # ProviderKey(source, generation, wallet)
      BY <2>2, <3>1, <3>3 DEF Rendered, Remounted
    <3> QED BY <3>2, <3>3
  <2>7. CASE Request
    BY <2>7 DEF Request, page, IInv, LessonMatchesSigner, Published
  <2>8. CASE Settle
    BY <2>8 DEF Settle, page, IInv, LessonMatchesSigner, Published
  <2>9. CASE chooseLocal \/ chooseWallet \/ Connect \/ Reject \/ Replay
    <3>1. Published => Published'
      BY <2>9
      DEF chooseLocal, chooseWallet, selecting, Connect, Reject, Replay,
          Published, Idle
    <3> QED
      BY <2>1, <2>9, <3>1
      DEF chooseLocal, chooseWallet, Connect, Reject, Replay, page
  <2>10. CASE Leave
    BY <2>2, <2>10 DEF Leave, Remounted
  <2>11. CASE UNCHANGED vars
    BY <2>1, <2>11 DEF vars, lesson, Published
  <2> QED
    BY <2>3, <2>4, <2>5, <2>6, <2>7, <2>8, <2>9, <2>10, <2>11 DEF Next
<1> QED BY <1>t, <1>a, <1>b, <1>c, <1>d, <1>e, <1>f DEF IInv

LEMMA Invariant == Spec => []IInv
  BY Initially, SafetyStep, PTL DEF Spec

LEMMA WhatSignersKeep ==
  IInv => /\ SingleKey /\ ShownKeyIsLive /\ LocalKeyIsLive
          /\ UnusedKeysAreGone /\ RequestKeepsItsKey /\ ReceiptMatchesSigner
<1> SUFFICES ASSUME IInv
             PROVE  /\ SingleKey /\ ShownKeyIsLive /\ LocalKeyIsLive
                    /\ UnusedKeysAreGone /\ RequestKeepsItsKey
                    /\ ReceiptMatchesSigner
  OBVIOUS
<1>1. SingleKey
  BY DEF IInv
<1>2. ShownKeyIsLive
  BY DEF IInv, SingleKey, PublishedKey, ShownKeyIsLive, selecting, Idle
<1>3. disposed => live = {}
  BY DEF IInv, SingleKey, Disposal
<1>4. mounted /\ source = "wallet" /\ ~selecting => live = {}
  BY DEF IInv, SingleKey, WalletHasReleased, Replacing, selecting, Idle
<1>5. RequestKeepsItsKey
  BY DEF IInv, SingleKey, PublishedKey, RequestsLock, RequestKeepsItsKey, Idle
<1>6. ReceiptMatchesSigner
  BY DEF IInv, LessonMatchesSigner, ReceiptMatchesSigner, Published,
         selecting, Idle
<1> QED  BY <1>1, <1>2, <1>3, <1>4, <1>5, <1>6
         DEF LocalKeyIsLive, UnusedKeysAreGone

\* However often a local key is created, one of them can sign at most.
THEOREM OneKey == Spec => []SingleKey
  BY WhatSignersKeep, Invariant, PTL

\* A closed lesson holds no key, also when a connection was under way, and
\* choosing the wallet gives the lesson's key up.
THEOREM NoUnusedKey == Spec => []UnusedKeysAreGone
  BY WhatSignersKeep, Invariant, PTL

\* The local signer a lesson shows can sign.
THEOREM ShownKeysSign == Spec => []ShownKeyIsLive
  BY WhatSignersKeep, Invariant, PTL

\* practice-identity.ts and the effect of the provider together: one key at
\* most, and the shown one signs.
THEOREM LocalKeysLive == Spec => []LocalKeyIsLive
  BY WhatSignersKeep, Invariant, PTL

\* A pending request is not deprived of its key by a choice.
THEOREM RequestsKeepTheirKey == Spec => []RequestKeepsItsKey
  BY WhatSignersKeep, Invariant, PTL

\* A receipt on the page was made with the signer on the page.
THEOREM ReceiptsMatch == Spec => []ReceiptMatchesSigner
  BY WhatSignersKeep, Invariant, PTL

-----------------------------------------------------------------------------
(* The log.                                                                *)

Outcomes == {"discovered", "undiscovered"}

\* The newest outcome in a log, if there is one, is that of a success or not.
Tells(log, success) ==
  \A i \in 1 .. Len(log) :
    log[i] \in Outcomes /\ (\A j \in 1 .. Len(log) : j > i => log[j] \notin Outcomes)
      => (log[i] = "discovered") = success

Quiet(messages) == \A i \in 1 .. Len(messages) : messages[i] \notin Outcomes

\* What is kept of a log after some messages: its last entries.
Kept(log, messages, n) ==
  LET all == log \o messages
  IN  SubSeq(all, Len(all) - (IF Len(all) < n THEN Len(all) ELSE n) + 1,
             Len(all))

\* r is the log with the messages, without its first d entries.
Follows(r, log, messages, d) ==
  /\ Len(r) = Len(log) + Len(messages) - d
  /\ \A i \in 1 .. Len(r) :
       r[i] = IF i + d <= Len(log) THEN log[i + d]
              ELSE messages[i + d - Len(log)]

LEMMA SuffixOf ==
  ASSUME NEW S, NEW log \in Seq(S), NEW messages \in Seq(S), NEW n \in Nat
  PROVE  /\ Kept(log, messages, n) \in Seq(S)
         /\ Len(Kept(log, messages, n)) <= n
         /\ \E d \in Nat : Follows(Kept(log, messages, n), log, messages, d)
<1> DEFINE all == log \o messages
           kept == IF Len(all) < n THEN Len(all) ELSE n
           d == Len(all) - kept
           r == SubSeq(all, d + 1, Len(all))
<1>1. /\ all \in Seq(S) /\ Len(all) = Len(log) + Len(messages)
      /\ \A i \in 1 .. Len(all) :
           all[i] = IF i <= Len(log) THEN log[i] ELSE messages[i - Len(log)]
  OBVIOUS
<1>0. Kept(log, messages, n) = r
  BY DEF Kept
<1> HIDE DEF all
<1>2. Len(all) \in Nat /\ Len(log) \in Nat /\ Len(messages) \in Nat
  BY <1>1
<1>3. kept \in Nat /\ kept <= n /\ kept <= Len(all) /\ d \in Nat /\ d <= Len(all)
      /\ Len(all) - d = kept
  BY <1>2
<1> HIDE DEF d, kept
<1>4. /\ r \in Seq(S) /\ Len(r) = Len(all) - d
      /\ \A i \in 1 .. Len(r) : r[i] = all[i + d] /\ i + d \in 1 .. Len(all)
  BY <1>1, <1>2, <1>3
<1> HIDE DEF r
<1>5. /\ Len(r) <= n /\ Len(r) = Len(log) + Len(messages) - d
      /\ \A i \in 1 .. Len(r) :
           r[i] = IF i + d <= Len(log) THEN log[i + d]
                  ELSE messages[i + d - Len(log)]
  BY <1>1, <1>2, <1>3, <1>4
<1>6. Follows(r, log, messages, d)
  BY <1>5 DEF Follows
<1> QED  BY <1>0, <1>3, <1>4, <1>5, <1>6

LogOK(log) == log \in Seq(Session!Messages) /\ Len(log) <= Retained

LEMMA Recording ==
  ASSUME LogOK(sEntries), NEW m \in Seq(Session!Messages)
  PROVE  /\ LogOK(Session!Recorded(m))
         /\ \E d \in Nat : Follows(Session!Recorded(m), sEntries, m, d)
<1>1. sEntries \in Seq(Session!Messages) /\ Retained \in Nat
  BY WebAssumption DEF LogOK
<1>2. Session!Recorded(m) = Kept(sEntries, m, Retained)
  BY Zenon DEF Session!Recorded, Kept
<1> QED  BY <1>1, <1>2, SuffixOf DEF LogOK

\* Messages about anything else leave the newest outcome the newest.
LEMMA QuietRecord ==
  ASSUME LogOK(sEntries), NEW m \in Seq(Session!Messages), Quiet(m),
         Session!record(m), sShown \in BOOLEAN,
         NEW success \in BOOLEAN, Tells(sEntries, success)
  PROVE  LogOK(sEntries') /\ Tells(sEntries', success)
<1>1. CASE ~sShown
  <2>1. sEntries' = sEntries
    BY <1>1 DEF Session!record
  <2> QED  BY <2>1
<1>2. CASE sShown
  <2> DEFINE r == Session!Recorded(m)
  <2>1. sEntries' = r
    BY <1>2 DEF Session!record
  <2>2. PICK d \in Nat :
           /\ LogOK(r)
           /\ Len(r) = Len(sEntries) + Len(m) - d
           /\ \A i \in 1 .. Len(r) :
                r[i] = IF i + d <= Len(sEntries) THEN sEntries[i + d]
                       ELSE m[i + d - Len(sEntries)]
    BY Recording DEF Follows
  <2> HIDE DEF r
  <2>3. Len(r) \in Nat /\ Len(sEntries) \in Nat /\ Len(m) \in Nat
    BY <2>2 DEF LogOK
  <2>4. ASSUME NEW i \in 1 .. Len(r), r[i] \in Outcomes,
               \A j \in 1 .. Len(r) : j > i => r[j] \notin Outcomes
        PROVE  (r[i] = "discovered") = success
    <3>1. i + d <= Len(sEntries)
      <4> SUFFICES ASSUME ~(i + d <= Len(sEntries)) PROVE FALSE
        OBVIOUS
      <4>1. r[i] = m[i + d - Len(sEntries)]
        BY <2>2
      <4>2. i + d - Len(sEntries) \in 1 .. Len(m)
        BY <2>2, <2>3
      <4> QED  BY <4>1, <4>2, <2>4 DEF Quiet
    <3>2. r[i] = sEntries[i + d] /\ i + d \in 1 .. Len(sEntries)
      BY <2>2, <2>3, <3>1
    <3>3. ASSUME NEW k \in 1 .. Len(sEntries), k > i + d
          PROVE  sEntries[k] \notin Outcomes
      <4>1. k - d \in 1 .. Len(r) /\ k - d > i /\ (k - d) + d = k
        BY <2>2, <2>3, <3>3
      <4>2. r[k - d] = sEntries[k]
        BY <2>2, <4>1
      <4> QED  BY <2>4, <4>1, <4>2
    <3> QED  BY <2>4, <3>2, <3>3 DEF Tells
  <2> QED  BY <2>1, <2>2, <2>4 DEF Tells
<1> QED  BY <1>1, <1>2

\* An outcome, and what the effects tell after it.
LEMMA OutcomeRecord ==
  ASSUME LogOK(sEntries), NEW o \in Outcomes, NEW rest \in Seq(Session!Messages),
         Quiet(rest), Session!record(<<o>> \o rest), sShown
  PROVE  LogOK(sEntries') /\ Tells(sEntries', o = "discovered")
<1> DEFINE m == <<o>> \o rest
           r == Session!Recorded(m)
<1>0. o \in Session!Messages
  BY DEF Outcomes, Session!Messages
<1>1. /\ m \in Seq(Session!Messages) /\ Len(m) = Len(rest) + 1 /\ m[1] = o
      /\ \A i \in 2 .. Len(m) : m[i] = rest[i - 1]
  BY <1>0
<1>2. sEntries' = r
  BY DEF Session!record
<1> HIDE DEF m
<1>3. PICK d \in Nat :
         /\ LogOK(r)
         /\ Len(r) = Len(sEntries) + Len(m) - d
         /\ \A i \in 1 .. Len(r) :
              r[i] = IF i + d <= Len(sEntries) THEN sEntries[i + d]
                     ELSE m[i + d - Len(sEntries)]
  BY <1>1, Recording DEF Follows
<1> HIDE DEF r
<1>4. Len(r) \in Nat /\ Len(sEntries) \in Nat /\ Len(rest) \in Nat
  BY <1>3 DEF LogOK
<1>5. ASSUME NEW i \in 1 .. Len(r), r[i] \in Outcomes,
             \A j \in 1 .. Len(r) : j > i => r[j] \notin Outcomes
      PROVE  r[i] = o
  <2> DEFINE p == i + d - Len(sEntries)
  <2>1. CASE p = 1
    BY <1>1, <1>3, <1>4, <2>1
  <2>2. CASE p > 1
    <3>0. p \in 2 .. Len(m) /\ ~(i + d <= Len(sEntries))
      BY <1>1, <1>3, <1>4, <2>2
    <3>1. p \in 2 .. Len(m) /\ r[i] = m[p]
      BY <1>3, <3>0
    <3> HIDE DEF p
    <3>2. m[p] = rest[p - 1] /\ p - 1 \in 1 .. Len(rest)
      BY <1>1, <1>4, <3>1
    <3> QED  BY <1>5, <3>1, <3>2 DEF Quiet
  <2>3. CASE p < 1
    <3> DEFINE j == Len(sEntries) + 1 - d
    <3>0. Len(m) = Len(rest) + 1 /\ Len(r) = Len(sEntries) + Len(m) - d
      BY <1>1, <1>3
    <3>1. /\ j \in 1 .. Len(r) /\ j > i /\ ~(j + d <= Len(sEntries))
          /\ j + d - Len(sEntries) = 1
      BY <1>4, <2>3, <3>0
    <3>2. r[j] = m[j + d - Len(sEntries)]
      BY <1>3, <3>1, Zenon
    <3>3. r[j] = o
      BY <1>1, <3>1, <3>2, Zenon
    <3> HIDE DEF j
    <3>4. r[j] \notin Outcomes
      BY <1>5, <3>1
    <3> QED  BY <3>3, <3>4
  <2>4. p \in Int
    BY <1>4
  <2> HIDE DEF p
  <2> QED  BY <2>1, <2>2, <2>3, <2>4
<1> QED  BY <1>2, <1>3, <1>5 DEF Tells

-----------------------------------------------------------------------------
(* The session lessons.                                                    *)

UnusedClient ==
  sLesson = "client" =>
    sSession = 0 /\ \A c \in Session!Clients : sStatus[c] = "none"

NewestSession == sShown /\ sLesson = "session" => sSession = sDiscovery.data

RoomForClient == Session!isFetching => sDiscovery.data < MaxClients

OutcomeIsNewest ==
  sDiscovery.at = "idle" => Tells(sEntries, sDiscovery.status = "success")

SessionIInv ==
  /\ Session!TypeOK /\ Session!LessonOwnsItsSession /\ Session!BusyIsRight
  /\ UnusedClient /\ NewestSession /\ RoomForClient /\ OutcomeIsNewest

LEMMA QuietOne ==
  ASSUME NEW w \in Session!Messages \ Outcomes
  PROVE  <<w>> \in Seq(Session!Messages) /\ Quiet(<<w>>)
  BY DEF Quiet

LEMMA QuietTwice ==
  ASSUME NEW w \in Session!Messages \ Outcomes
  PROVE  <<w, w>> \in Seq(Session!Messages) /\ Quiet(<<w, w>>)
  BY DEF Quiet

LEMMA QuietNone == <<>> \in Seq(Session!Messages) /\ Quiet(<<>>)
  BY DEF Quiet

LEMMA QuietBoth ==
  ASSUME NEW m \in Seq(Session!Messages), NEW n \in Seq(Session!Messages),
         Quiet(m), Quiet(n)
  PROVE  m \o n \in Seq(Session!Messages) /\ Quiet(m \o n)
<1>1. Len(m) \in Nat /\ Len(n) \in Nat /\ Len(m \o n) = Len(m) + Len(n)
  OBVIOUS
<1>2. ASSUME NEW i \in 1 .. Len(m \o n) PROVE (m \o n)[i] \notin Outcomes
  <2>1. CASE i <= Len(m)
    <3>1. (m \o n)[i] = m[i] /\ i \in 1 .. Len(m)
      BY <1>1, <2>1
    <3> QED  BY <3>1 DEF Quiet
  <2>2. CASE i > Len(m)
    <3>1. (m \o n)[i] = n[i - Len(m)] /\ i - Len(m) \in 1 .. Len(n)
      BY <1>1, <2>2
    <3> QED  BY <3>1 DEF Quiet
  <2> QED  BY <1>1, <2>1, <2>2
<1> QED  BY <1>2 DEF Quiet

LEMMA WhatEnds ==
  ASSUME NEW before
  PROVE  Session!Ended(before) \in Seq(Session!Messages)
         /\ Quiet(Session!Ended(before))
<1>1. {"incomplete", "cleared"} \subseteq Session!Messages \ Outcomes
  BY DEF Session!Messages, Outcomes
<1> QED  BY <1>1, QuietOne, QuietNone DEF Session!Ended

LEMMA WhatIsObserved ==
  ASSUME NEW c, NEW before, NEW after,
         before # after =>
           after \in {"anonymous", "authenticating", "authenticated"}
  PROVE  Session!Observed(c, before, after) \in Seq(Session!Messages)
         /\ Quiet(Session!Observed(c, before, after))
<1>1. {"authenticating", "authenticated"} \subseteq Session!Messages \ Outcomes
  BY DEF Session!Messages, Outcomes
<1> QED  BY <1>1, QuietOne, QuietNone, WhatEnds DEF Session!Observed

\* What a step does to the log, and what it means for the discovery.
LEMMA LogSteps ==
  ASSUME SessionIInv, Session!Next
  PROVE  \/ sEntries' = <<>> /\ UNCHANGED sDiscovery
         \/ /\ \E m \in Seq(Session!Messages) : Quiet(m) /\ Session!record(m)
            /\ sDiscovery'.at = "idle" => UNCHANGED sDiscovery
         \/ /\ sShown /\ sDiscovery'.at = "idle"
            /\ \E o \in Outcomes, rest \in Seq(Session!Messages) :
                 /\ Quiet(rest) /\ Session!record(<<o>> \o rest)
                 /\ (sDiscovery'.status = "success") = (o = "discovered")
<1> DEFINE quietly ==
      /\ \E m \in Seq(Session!Messages) : Quiet(m) /\ Session!record(m)
      /\ sDiscovery'.at = "idle" => UNCHANGED sDiscovery
    outcome ==
      /\ sShown /\ sDiscovery'.at = "idle"
      /\ \E o \in Outcomes, rest \in Seq(Session!Messages) :
           /\ Quiet(rest) /\ Session!record(<<o>> \o rest)
           /\ (sDiscovery'.status = "success") = (o = "discovered")
<1>0. /\ Session!TypeOK
      /\ {"progress", "failed"} \subseteq Session!Messages \ Outcomes
      /\ {"discovered", "undiscovered"} = Outcomes
  BY DEF SessionIInv, Session!Messages, Outcomes
<1>p. <<"progress">> \in Seq(Session!Messages) /\ Quiet(<<"progress">>)
  BY <1>0, QuietOne
<1>f. <<"failed">> \in Seq(Session!Messages) /\ Quiet(<<"failed">>)
  BY <1>0, QuietOne
<1>1. CASE Session!clear \/ Session!Leave
  BY <1>1 DEF Session!clear, Session!Leave
<1>2. CASE Session!Refresh
  <2>1. sDiscovery'.at = "request"
    BY <1>0, <1>2 DEF Session!Refresh, Session!TypeOK
  <2> QED  BY <1>2, <1>p, <2>1 DEF Session!Refresh
<1>3. CASE Session!DiscoveryAnswered
  <2>1. sDiscovery'.at \in {"answered", "unanswered"}
    BY <1>0, <1>3 DEF Session!DiscoveryAnswered, Session!TypeOK
  <2> QED  BY <1>3, <1>p, <2>1 DEF Session!DiscoveryAnswered
<1>4. CASE Session!DiscoverySucceeds
  <2>1. sShown /\ sDiscovery'.at = "idle" /\ sDiscovery'.status = "success"
    BY <1>4 DEF Session!DiscoverySucceeds
  <2>2. \E rest \in Seq(Session!Messages) :
          Quiet(rest) /\ Session!record(<<"discovered">> \o rest)
    <3>1. CASE sLesson = "session"
      <4>1. CASE sSession = 0
        <5>1. Session!record(<<"discovered">> \o <<>>)
          BY <1>4, <3>1, <4>1 DEF Session!DiscoverySucceeds
        <5> QED  BY <5>1, QuietNone
      <4>2. CASE sSession # 0
        <5>1. Session!record(<<"discovered">> \o Session!Ended(sStatus[sSession]))
          BY <1>4, <3>1, <4>2 DEF Session!DiscoverySucceeds
        <5> QED  BY <5>1, WhatEnds
      <4> QED  BY <4>1, <4>2
    <3>2. CASE sLesson # "session"
      <4>1. Session!record(<<"discovered">>)
        BY <1>4, <3>2 DEF Session!DiscoverySucceeds
      <4>2. <<"discovered">> \o <<>> = <<"discovered">>
        OBVIOUS
      <4> QED  BY <4>1, <4>2, QuietNone
    <3> QED  BY <3>1, <3>2
  <2>3. outcome
    BY <1>0, <2>1, <2>2
  <2> QED  BY <2>3
<1>5. CASE Session!DiscoveryFails
  <2>1. sShown /\ sDiscovery'.at = "idle" /\ sDiscovery'.status = "error"
    BY <1>0, <1>5 DEF Session!DiscoveryFails, Session!TypeOK
  <2>2. Session!record(<<"undiscovered">>)
    BY <1>5 DEF Session!DiscoveryFails
  <2>3. <<"undiscovered">> \o <<>> = <<"undiscovered">>
    OBVIOUS
  <2>4. outcome
    BY <1>0, <2>1, <2>2, <2>3, QuietNone
  <2> QED  BY <2>4
<1>6. CASE Session!authenticate
  <2> DEFINE seen ==
        Session!Observed(sSession, sStatus[sSession], "authenticating")
  <2>1. seen \in Seq(Session!Messages) /\ Quiet(seen)
    BY WhatIsObserved
  <2>2. Session!record(seen \o <<"progress">>) /\ UNCHANGED sDiscovery
    BY <1>6 DEF Session!authenticate
  <2> HIDE DEF seen
  <2>3. seen \o <<"progress">> \in Seq(Session!Messages)
        /\ Quiet(seen \o <<"progress">>)
    BY <1>p, <2>1, QuietBoth
  <2> QED  BY <2>2, <2>3
<1>7. ASSUME NEW c \in Session!Clients,
             \/ Session!LoginRequestSettles(c) \/ Session!AskSigner(c)
             \/ Session!Exchange(c) \/ Session!Accept(c)
             \/ Session!LoginFails(c) \/ Session!SessionEnds(c)
      PROVE  quietly
  <2>1. UNCHANGED sDiscovery
    BY <1>7 DEF Session!LoginRequestSettles, Session!LoginAnswered,
         Session!LoginUnanswered, Session!AskSigner, Session!Exchange,
         Session!Accept, Session!LoginFails, Session!SessionEnds
  <2>2. CASE Session!LoginRequestSettles(c) \/ Session!AskSigner(c)
    BY <2>1, <2>2, <1>p DEF Session!LoginRequestSettles,
         Session!LoginAnswered, Session!LoginUnanswered, Session!AskSigner
  <2>3. CASE Session!Exchange(c)
    <3>1. <<"progress", "progress">> \in Seq(Session!Messages)
          /\ Quiet(<<"progress", "progress">>)
      BY <1>0, QuietTwice
    <3> QED  BY <2>1, <2>3, <3>1 DEF Session!Exchange
  <2>4. CASE Session!Accept(c)
    BY <2>1, <2>4, WhatIsObserved DEF Session!Accept
  <2>5. CASE Session!LoginFails(c)
    <3> DEFINE after == IF sStatus[c] = "authenticating" THEN "anonymous"
                        ELSE sStatus[c]
               seen == Session!Observed(c, sStatus[c], after)
    <3>1. seen \in Seq(Session!Messages) /\ Quiet(seen)
      BY WhatIsObserved
    <3>2. Session!record(<<"failed">> \o seen)
      BY <2>5 DEF Session!LoginFails
    <3> HIDE DEF seen
    <3>3. <<"failed">> \o seen \in Seq(Session!Messages)
          /\ Quiet(<<"failed">> \o seen)
      BY <1>f, <3>1, QuietBoth
    <3> QED  BY <2>1, <3>2, <3>3
  <2>6. CASE Session!SessionEnds(c)
    BY <2>1, <2>6, WhatIsObserved DEF Session!SessionEnds
  <2> QED  BY <1>7, <2>2, <2>3, <2>4, <2>5, <2>6
<1> QED  BY <1>1, <1>2, <1>3, <1>4, <1>5, <1>6, <1>7
         DEF Session!Next, Session!DiscoverySettles

LEMMA LogKept ==
  ASSUME SessionIInv, Session!Next
  PROVE  LogOK(sEntries') /\ OutcomeIsNewest'
<1>0. LogOK(sEntries) /\ sShown \in BOOLEAN
  BY DEF SessionIInv, Session!TypeOK, LogOK
<1>e. <<>> \in Seq(Session!Messages) /\ Len(<<>>) = 0 /\ Retained \in Nat
  BY WebAssumption
<1>1. CASE sEntries' = <<>> /\ UNCHANGED sDiscovery
  BY <1>1, <1>e DEF LogOK, OutcomeIsNewest, Tells
<1>2. ASSUME NEW m \in Seq(Session!Messages), Quiet(m), Session!record(m),
             sDiscovery'.at = "idle" => UNCHANGED sDiscovery
      PROVE  LogOK(sEntries') /\ OutcomeIsNewest'
  <2>1. LogOK(sEntries')
    <3>1. CASE sShown
      BY <1>0, <1>2, <3>1, Recording DEF Session!record
    <3>2. CASE ~sShown
      BY <1>0, <1>2, <3>2 DEF Session!record
    <3> QED  BY <1>0, <3>1, <3>2
  <2>2. ASSUME sDiscovery'.at = "idle"
        PROVE  Tells(sEntries', sDiscovery'.status = "success")
    <3> DEFINE success == sDiscovery.status = "success"
    <3>1. Tells(sEntries, success) /\ UNCHANGED sDiscovery
      BY <1>2, <2>2 DEF SessionIInv, OutcomeIsNewest
    <3>2. success \in BOOLEAN
      OBVIOUS
    <3>3. success = (sDiscovery'.status = "success")
      BY <3>1
    <3> HIDE DEF success
    <3>4. Tells(sEntries', success)
      BY <1>0, <1>2, <3>1, <3>2, QuietRecord
    <3> QED  BY <3>3, <3>4
  <2> QED  BY <2>1, <2>2 DEF OutcomeIsNewest
<1>3. ASSUME sShown, NEW o \in Outcomes, NEW rest \in Seq(Session!Messages),
             Quiet(rest), Session!record(<<o>> \o rest),
             (sDiscovery'.status = "success") = (o = "discovered")
      PROVE  LogOK(sEntries') /\ OutcomeIsNewest'
  <2>1. LogOK(sEntries') /\ Tells(sEntries', o = "discovered")
    BY <1>0, <1>3, OutcomeRecord
  <2> QED  BY <1>3, <2>1 DEF OutcomeIsNewest
<1> QED  BY <1>1, <1>2, <1>3, LogSteps

\* Everything but the log and the count.
LEMMA SessionTypes ==
  ASSUME SessionIInv, Session!Next
  PROVE  Session!TypeOK'
<1>0. /\ Session!TypeOK /\ RoomForClient /\ MaxClients \in Nat
      /\ LogOK(sEntries')
  BY LogKept, WebAssumption DEF SessionIInv
<1>1. CASE Session!clear \/ Session!Leave
  <2>1. /\ sPending' \in Int /\ sSession' \in 0 .. MaxClients /\ sShown' \in BOOLEAN
        /\ sStatus' \in [Session!Clients ->
                            {"none", "anonymous", "authenticating",
                             "authenticated", "destroyed"}]
    <3>1. CASE Session!clear
      BY <1>0, <3>1 DEF Session!clear, Session!TypeOK
    <3>2. CASE Session!Leave
      <4>1. sPending' = 0 /\ sSession' = 0 /\ sShown' = FALSE
        BY <3>2 DEF Session!Leave
      <4>2. sStatus' = [c \in Session!Clients |->
                          IF c = sSession THEN "destroyed" ELSE sStatus[c]]
        BY <3>2 DEF Session!Leave
      <4>3. \A c \in Session!Clients :
              sStatus[c] \in {"none", "anonymous", "authenticating",
                              "authenticated", "destroyed"}
        BY <1>0 DEF Session!TypeOK
      <4>4. sStatus' \in [Session!Clients ->
                            {"none", "anonymous", "authenticating",
                             "authenticated", "destroyed"}]
        BY <4>2, <4>3
      <4>5. sSession' \in 0 .. MaxClients /\ sPending' \in Int
        BY <1>0, <4>1
      <4>6. sShown' \in BOOLEAN
        BY <4>1
      <4> QED  BY <4>4, <4>5, <4>6
    <3> QED  BY <1>1, <3>1, <3>2
  <2> QED  BY <1>0, <1>1, <2>1
           DEF Session!clear, Session!Leave, Session!TypeOK, LogOK
<1>2. CASE Session!Refresh \/ Session!DiscoveryAnswered \/ Session!DiscoveryFails
  <2>1. sDiscovery' \in
           [at : {"off", "request", "answered", "unanswered", "idle"},
            status : {"pending", "success", "error"}, data : 0 .. MaxClients]
    BY <1>0, <1>2 DEF Session!Refresh, Session!DiscoveryAnswered,
       Session!DiscoveryFails, Session!TypeOK
  <2>2. sPending' \in Int
    BY <1>0, <1>2 DEF Session!Refresh, Session!DiscoveryAnswered,
       Session!DiscoveryFails, Session!Send, Session!Settled,
       Session!Rejected, Session!TypeOK
  <2>3. UNCHANGED <<sLesson, sShown, sSession, sStatus, sLogin>>
    BY <1>2 DEF Session!Refresh, Session!DiscoveryAnswered,
       Session!DiscoveryFails
  <2> QED  BY <1>0, <2>1, <2>2, <2>3 DEF Session!TypeOK, LogOK
<1>3. CASE Session!DiscoverySucceeds
  <2>1. sDiscovery.data + 1 \in 1 .. MaxClients
    BY <1>0, <1>3 DEF Session!DiscoverySucceeds, RoomForClient,
       Session!isFetching, Session!TypeOK
  <2>2. sDiscovery' \in
           [at : {"off", "request", "answered", "unanswered", "idle"},
            status : {"pending", "success", "error"}, data : 0 .. MaxClients]
    BY <1>0, <1>3, <2>1 DEF Session!DiscoverySucceeds
  <2>3. sSession' \in 0 .. MaxClients
    BY <1>0, <1>3, <2>1 DEF Session!DiscoverySucceeds, Session!SessionEffect,
       Session!TypeOK
  <2>4. sStatus' \in [Session!Clients ->
                       {"none", "anonymous", "authenticating",
                        "authenticated", "destroyed"}]
    BY <1>0, <1>3 DEF Session!DiscoverySucceeds, Session!SessionEffect,
       Session!TypeOK
  <2> QED  BY <1>0, <1>3, <2>2, <2>3, <2>4
           DEF Session!DiscoverySucceeds, Session!TypeOK, LogOK
<1>4. CASE Session!authenticate
  <2>1. sSession \in Session!Clients
    BY <1>0, <1>4 DEF Session!authenticate, Session!AuthenticationShown,
       Session!TypeOK, Session!Clients
  <2> QED  BY <1>0, <1>4, <2>1
           DEF Session!authenticate, Session!Send, Session!TypeOK, LogOK
<1>5. ASSUME NEW c \in Session!Clients,
             \/ Session!LoginRequestSettles(c) \/ Session!AskSigner(c)
             \/ Session!Exchange(c)
      PROVE  Session!TypeOK'
  <2>1. sPending' \in Int
    BY <1>0, <1>5 DEF Session!LoginRequestSettles, Session!LoginAnswered,
       Session!LoginUnanswered, Session!AskSigner, Session!Exchange,
       Session!Send, Session!Settled, Session!Rejected, Session!TypeOK
  <2>2. \E at \in {"answered", "unanswered", "signing", "exchange", "exchanged"} :
          sLogin' = [sLogin EXCEPT ![c] = at]
    BY <1>5 DEF Session!LoginRequestSettles, Session!LoginAnswered,
       Session!LoginUnanswered, Session!AskSigner, Session!Exchange
  <2>3. UNCHANGED <<sLesson, sShown, sDiscovery, sSession, sStatus>>
    BY <1>5 DEF Session!LoginRequestSettles, Session!LoginAnswered,
       Session!LoginUnanswered, Session!AskSigner, Session!Exchange
  <2> QED  BY <1>0, <2>1, <2>2, <2>3 DEF Session!TypeOK, LogOK
<1>6. ASSUME NEW c \in Session!Clients,
             \/ Session!Accept(c) \/ Session!LoginFails(c)
             \/ Session!SessionEnds(c)
      PROVE  Session!TypeOK'
  BY <1>0, <1>6 DEF Session!Accept, Session!LoginFails, Session!SessionEnds,
     Session!TypeOK, LogOK
<1> QED  BY <1>1, <1>2, <1>3, <1>4, <1>5, <1>6
         DEF Session!Next, Session!DiscoverySettles

LEMMA SessionOwnership ==
  ASSUME SessionIInv, Session!Next
  PROVE  /\ Session!LessonOwnsItsSession' /\ UnusedClient'
         /\ NewestSession' /\ RoomForClient'
<1> DEFINE Goal == /\ Session!LessonOwnsItsSession' /\ UnusedClient'
                   /\ NewestSession' /\ RoomForClient'
<1> USE DEF Session!LessonOwnsItsSession, UnusedClient, NewestSession,
            RoomForClient, Session!isFetching
<1>0. /\ Session!TypeOK /\ Session!LessonOwnsItsSession /\ UnusedClient
      /\ NewestSession /\ RoomForClient
  BY DEF SessionIInv
<1>1. CASE Session!clear \/ Session!Leave
  BY <1>0, <1>1 DEF Session!clear, Session!Leave, Session!TypeOK
<1>2. CASE Session!Refresh \/ Session!DiscoveryAnswered \/ Session!DiscoveryFails
  <2>1. /\ UNCHANGED <<sLesson, sShown, sSession, sStatus>>
        /\ sDiscovery'.data = sDiscovery.data
        /\ sDiscovery'.at # "idle" => sDiscovery.data < MaxClients
    BY <1>0, <1>2 DEF Session!Refresh, Session!DiscoveryAnswered,
       Session!DiscoveryFails, Session!TypeOK
  <2> QED  BY <1>0, <2>1
<1>3. CASE Session!DiscoverySucceeds
  <2> DEFINE client == sDiscovery.data + 1
  <2>1. /\ sDiscovery'.data = client /\ sDiscovery'.at = "idle" /\ sShown
        /\ UNCHANGED <<sLesson, sShown>>
    BY <1>3 DEF Session!DiscoverySucceeds
  <2>2. CASE sLesson = "session"
    <3>1. /\ sSession' = client
          /\ sStatus' = [c \in Session!Clients |->
                           CASE c = client   -> "anonymous"
                             [] c = sSession -> "destroyed"
                             [] OTHER        -> sStatus[c]]
      BY <1>3, <2>2 DEF Session!DiscoverySucceeds, Session!SessionEffect
    <3>2. ASSUME NEW c \in Session!Clients,
                 sStatus'[c] \notin {"none", "destroyed"}
          PROVE  c = client
      BY <1>0, <3>1, <3>2
    <3> QED  BY <1>0, <2>1, <2>2, <3>1, <3>2
  <2>3. CASE sLesson # "session"
    <3>1. UNCHANGED <<sSession, sStatus>> /\ sLesson = "client"
      BY <1>0, <1>3, <2>3 DEF Session!DiscoverySucceeds, Session!TypeOK
    <3> QED  BY <1>0, <2>1, <2>3, <3>1
  <2> QED  BY <2>2, <2>3
<1>4. CASE Session!authenticate
  <2>1. /\ UNCHANGED <<sLesson, sShown, sDiscovery, sSession>>
        /\ sStatus' = [sStatus EXCEPT ![sSession] = "authenticating"]
        /\ sShown /\ sSession # 0
    BY <1>4 DEF Session!authenticate, Session!AuthenticationShown
  <2>2. sLesson = "session"
    BY <1>0, <2>1 DEF Session!TypeOK
  <2> QED  BY <1>0, <2>1, <2>2 DEF Session!TypeOK
<1>5. ASSUME NEW c \in Session!Clients,
             \/ Session!LoginRequestSettles(c) \/ Session!AskSigner(c)
             \/ Session!Exchange(c)
      PROVE  Goal
  <2>1. UNCHANGED <<sLesson, sShown, sDiscovery, sSession, sStatus>>
    BY <1>5 DEF Session!LoginRequestSettles, Session!LoginAnswered,
       Session!LoginUnanswered, Session!AskSigner, Session!Exchange
  <2> QED  BY <1>0, <2>1
<1>6. ASSUME NEW c \in Session!Clients,
             \/ Session!Accept(c) \/ Session!LoginFails(c)
             \/ Session!SessionEnds(c)
      PROVE  Goal
  <2>1. UNCHANGED <<sLesson, sShown, sDiscovery, sSession>>
    BY <1>6 DEF Session!Accept, Session!LoginFails, Session!SessionEnds
  <2>2. \E s : /\ sStatus' = [sStatus EXCEPT ![c] = s]
               /\ sStatus[c] \in {"none", "destroyed"} => s = sStatus[c]
    BY <1>6 DEF Session!Accept, Session!LoginFails, Session!SessionEnds
  <2> QED  BY <1>0, <2>1, <2>2 DEF Session!TypeOK
<1> QED  BY <1>1, <1>2, <1>3, <1>4, <1>5, <1>6
         DEF Session!Next, Session!DiscoverySettles

Active(logins) == {c \in Session!Clients : logins[c] \in {"challenge", "exchange"}}

LEMMA SameCardinality == \A S : Session!Cardinality(S) = Cardinality(S)
  BY DEF Session!Cardinality, Cardinality

LEMMA ActiveIsFinite ==
  ASSUME NEW l
  PROVE  IsFiniteSet(Active(l)) /\ Cardinality(Active(l)) \in Nat
<1>1. IsFiniteSet(1 .. MaxClients)
  BY FS_Interval, WebAssumption
<1>2. IsFiniteSet(Active(l))
  BY <1>1, FS_Subset DEF Active, Session!Clients
<1> QED  BY <1>2, FS_CardinalityType

LEMMA OneMoreActive ==
  ASSUME NEW l, NEW m, NEW c \in Session!Clients,
         l[c] \notin {"challenge", "exchange"}, m[c] \in {"challenge", "exchange"},
         \A d \in Session!Clients \ {c} : m[d] = l[d]
  PROVE  Cardinality(Active(m)) = Cardinality(Active(l)) + 1
<1>1. Active(m) = Active(l) \cup {c} /\ c \notin Active(l)
  BY DEF Active
<1> QED  BY <1>1, ActiveIsFinite, FS_AddElement

LEMMA AsManyActive ==
  ASSUME NEW l, NEW m,
         \A d \in Session!Clients : m[d] \in {"challenge", "exchange"}
                                      <=> l[d] \in {"challenge", "exchange"}
  PROVE  Cardinality(Active(m)) = Cardinality(Active(l))
<1>1. Active(m) = Active(l)
  BY DEF Active
<1> QED  BY <1>1

Discovering(d) == IF d.at = "request" THEN 1 ELSE 0

LEMMA BusyMeans ==
  Session!BusyIsRight <=>
    (sShown => sPending = Cardinality(Active(sLogin)) + Discovering(sDiscovery))
  BY SameCardinality DEF Session!BusyIsRight, Active, Discovering

LEMMA BusyMeansNext ==
  Session!BusyIsRight' <=>
    (sShown' =>
       sPending' = Cardinality(Active(sLogin')) + Discovering(sDiscovery'))
  BY SameCardinality DEF Session!BusyIsRight, Active, Discovering

LEMMA BusyKept ==
  ASSUME SessionIInv, Session!Next
  PROVE  Session!BusyIsRight'
<1> DEFINE n == Cardinality(Active(sLogin))
           k == Discovering(sDiscovery)
<1>0. /\ Session!TypeOK /\ n \in Nat /\ k \in Nat
      /\ sShown => sPending = n + k
  BY ActiveIsFinite, BusyMeans DEF SessionIInv, Discovering
<1>p. sPending \in Int /\ sLogin = [c \in Session!Clients |-> sLogin[c]]
  BY <1>0 DEF Session!TypeOK
<1> HIDE DEF n, k
<1>1. CASE Session!clear \/ Session!Leave
  BY <1>0, <1>1, BusyMeansNext DEF Session!clear, Session!Leave, n, k
<1>2. CASE Session!Refresh
  <2>1. /\ sShown' = sShown /\ sLogin' = sLogin
        /\ sShown => sPending' = sPending + 1
        /\ k = 0 /\ Discovering(sDiscovery') = 1
    BY <1>0, <1>2 DEF Session!Refresh, Session!Send, Session!RefreshEnabled,
       Session!isFetching, Session!TypeOK, Discovering, k
  <2> QED  BY <1>0, <2>1, BusyMeansNext DEF n
<1>3. CASE Session!DiscoveryAnswered
  <2>1. /\ sShown' = sShown /\ sLogin' = sLogin
        /\ sShown => sPending' = sPending - 1
        /\ k = 1 /\ Discovering(sDiscovery') = 0
    BY <1>0, <1>3 DEF Session!DiscoveryAnswered, Session!Settled,
       Session!Rejected, Session!TypeOK, Discovering, k
  <2> QED  BY <1>0, <1>p, <2>1, BusyMeansNext DEF n
<1>4. CASE Session!DiscoverySettles
  <2>1. /\ sShown' = sShown /\ sLogin' = sLogin /\ sPending' = sPending
        /\ k = 0 /\ Discovering(sDiscovery') = 0
    <3>1. CASE Session!DiscoverySucceeds
      BY <3>1 DEF Session!DiscoverySucceeds, Discovering, k
    <3>2. CASE Session!DiscoveryFails
      BY <1>0, <3>2 DEF Session!DiscoveryFails, Session!TypeOK, Discovering, k
    <3> QED  BY <1>4, <3>1, <3>2 DEF Session!DiscoverySettles
  <2> QED  BY <1>0, <2>1, BusyMeansNext DEF n
<1>5. CASE Session!authenticate
  <2>1. /\ sShown' = sShown /\ sDiscovery' = sDiscovery
        /\ sShown => sPending' = sPending + 1
        /\ sLogin[sSession] = "none"
        /\ sLogin' = [sLogin EXCEPT ![sSession] = "challenge"]
        /\ sSession \in Session!Clients
    BY <1>0, <1>5 DEF Session!authenticate, Session!AuthenticationShown,
       Session!Send, Session!TypeOK, Session!Clients
  <2>2. /\ sLogin'[sSession] = "challenge"
        /\ \A d \in Session!Clients \ {sSession} : sLogin'[d] = sLogin[d]
    BY <1>p, <2>1
  <2>3. Cardinality(Active(sLogin')) = n + 1
    BY <2>1, <2>2, OneMoreActive DEF n
  <2> QED  BY <1>0, <1>p, <2>1, <2>3, BusyMeansNext DEF k
<1>6. ASSUME NEW c \in Session!Clients, Session!Exchange(c)
      PROVE  Session!BusyIsRight'
  <2>1. /\ sShown' = sShown /\ sDiscovery' = sDiscovery
        /\ sShown => sPending' = sPending + 1
        /\ sLogin[c] = "signing"
        /\ sLogin' = [sLogin EXCEPT ![c] = "exchange"]
    BY <1>6 DEF Session!Exchange, Session!Send
  <2>2. /\ sLogin'[c] = "exchange"
        /\ \A d \in Session!Clients \ {c} : sLogin'[d] = sLogin[d]
    BY <1>p, <2>1
  <2>3. Cardinality(Active(sLogin')) = n + 1
    BY <2>1, <2>2, OneMoreActive DEF n
  <2> QED  BY <1>0, <1>p, <2>1, <2>3, BusyMeansNext DEF k
<1>7. ASSUME NEW c \in Session!Clients, Session!LoginRequestSettles(c)
      PROVE  Session!BusyIsRight'
  <2>1. PICK at \in {"answered", "unanswered", "exchanged"} :
          /\ sShown' = sShown /\ sDiscovery' = sDiscovery
          /\ sShown => sPending' = sPending - 1
          /\ sLogin[c] \in {"challenge", "exchange"}
          /\ sLogin' = [sLogin EXCEPT ![c] = at]
    BY <1>7 DEF Session!LoginRequestSettles, Session!LoginAnswered,
       Session!LoginUnanswered, Session!Settled, Session!Rejected
  <2>2. /\ sLogin'[c] = at
        /\ \A d \in Session!Clients \ {c} : sLogin'[d] = sLogin[d]
    BY <1>p, <2>1
  <2>3. n = Cardinality(Active(sLogin')) + 1
    <3>1. sLogin'[c] \notin {"challenge", "exchange"}
      BY <2>2
    <3> QED  BY <2>1, <2>2, <3>1, OneMoreActive DEF n
  <2>4. Cardinality(Active(sLogin')) \in Nat
    BY ActiveIsFinite
  <2> QED  BY <1>0, <1>p, <2>1, <2>3, <2>4, BusyMeansNext DEF k
<1>8. ASSUME NEW c \in Session!Clients,
             \/ Session!AskSigner(c) \/ Session!Accept(c)
             \/ Session!LoginFails(c) \/ Session!SessionEnds(c)
      PROVE  Session!BusyIsRight'
  <2>1. UNCHANGED <<sShown, sDiscovery, sPending>>
    BY <1>8 DEF Session!AskSigner, Session!Accept, Session!LoginFails,
       Session!SessionEnds
  <2>2. \/ sLogin' = sLogin
        \/ /\ sLogin[c] \notin {"challenge", "exchange"}
           /\ \E at \in {"signing", "none"} :
                sLogin' = [sLogin EXCEPT ![c] = at]
    BY <1>8 DEF Session!AskSigner, Session!Accept, Session!LoginFails,
       Session!SessionEnds
  <2>3. \A d \in Session!Clients :
          sLogin'[d] \in {"challenge", "exchange"}
            <=> sLogin[d] \in {"challenge", "exchange"}
    BY <1>p, <2>2
  <2>4. Cardinality(Active(sLogin')) = n
    BY <2>3, AsManyActive DEF n
  <2> QED  BY <1>0, <2>1, <2>4, BusyMeansNext DEF k
<1> QED  BY <1>1, <1>2, <1>3, <1>4, <1>5, <1>6, <1>7, <1>8
         DEF Session!Next

LEMMA SessionInitially == Session!Init => SessionIInv
<1> SUFFICES ASSUME Session!Init PROVE SessionIInv
  OBVIOUS
<1>1. /\ MaxClients \in Nat \ {0} /\ Retained \in Nat \ {0}
      /\ sEntries \in Seq(Session!Messages) /\ Len(sEntries) <= 1
  <2>1. MaxClients \in Nat \ {0} /\ Retained \in Nat \ {0}
    BY WebAssumption
  <2>2. /\ <<>> \in Seq(Session!Messages) /\ <<"progress">> \in Seq(Session!Messages)
        /\ Len(<<>>) = 0 /\ Len(<<"progress">>) = 1
    BY DEF Session!Messages
  <2>3. CASE sEntries = <<"progress">>
    BY <2>1, <2>2, <2>3
  <2>4. CASE sEntries = <<>>
    BY <2>1, <2>2, <2>4
  <2> QED  BY <2>3, <2>4 DEF Session!Init
<1>2. Session!TypeOK
  BY <1>1 DEF Session!Init, Session!TypeOK
<1>3. Session!BusyIsRight
  <2>1. Active(sLogin) = {}
    BY DEF Session!Init, Active
  <2>2. sPending = Discovering(sDiscovery)
    BY DEF Session!Init, Discovering
  <2> QED  BY <2>1, <2>2, FS_EmptySet, BusyMeans DEF Discovering
<1>4. Session!LessonOwnsItsSession /\ UnusedClient /\ NewestSession /\ RoomForClient
  BY <1>1 DEF Session!Init, Session!LessonOwnsItsSession, UnusedClient,
     NewestSession, RoomForClient, Session!isFetching
<1>5. OutcomeIsNewest
  BY DEF Session!Init, OutcomeIsNewest
<1> QED  BY <1>2, <1>3, <1>4, <1>5 DEF SessionIInv

\* A set of positions that is not empty has a last one.
LEMMA LastExists ==
  ASSUME NEW n \in Nat, NEW S \in SUBSET (1 .. n), S # {}
  PROVE  \E i \in S : \A j \in S : j <= i
<1> DEFINE T == {n - i : i \in S}
<1>0. \A i \in S : i \in Int /\ i <= n /\ n - i \in Nat
  OBVIOUS
<1>t. \A k : k \in T <=> \E i \in S : k = n - i
  OBVIOUS
<1> HIDE DEF T
<1>1. T \subseteq Nat /\ T # {}
  BY <1>0, <1>t
<1>2. PICK m \in T : \A k \in T : m <= k
  <2> DEFINE R == OpToRel(<, Nat)
  <2>1. IsWellFoundedOn(R, Nat)
    BY NatLessThanWellFounded
  <2> HIDE DEF R
  <2>2. PICK m \in T : \A k \in T : ~(<<k, m>> \in R)
    BY <1>1, <2>1, WFMin, Zenon
  <2>3. \A k \in T : ~(k < m)
    BY <1>1, <2>2 DEF R, OpToRel
  <2> QED  BY <1>1, <2>3
<1>3. PICK i \in S : m = n - i
  BY <1>2, <1>t
<1>4. \A j \in S : m <= n - j
  BY <1>2, <1>t
<1> QED  BY <1>0, <1>3, <1>4

LEMMA LogTells == SessionIInv => Session!DiscoveryIsTold
<1> DEFINE told == {i \in DOMAIN sEntries :
                      sEntries[i] \in {"discovered", "undiscovered"}}
           newest == CHOOSE i \in told : \A j \in told : j <= i
<1> SUFFICES ASSUME SessionIInv, sDiscovery.at = "idle", told # {}
             PROVE  (sEntries[newest] = "discovered")
                      = (sDiscovery.status = "success")
  BY DEF Session!DiscoveryIsTold
<1>1. /\ Len(sEntries) \in Nat /\ DOMAIN sEntries = 1 .. Len(sEntries)
      /\ Tells(sEntries, sDiscovery.status = "success")
  BY DEF SessionIInv, Session!TypeOK, OutcomeIsNewest
<1>2. told \in SUBSET (1 .. Len(sEntries))
  BY <1>1
<1>t. \A i : i \in told <=> i \in 1 .. Len(sEntries) /\ sEntries[i] \in Outcomes
  BY <1>1 DEF Outcomes
<1> HIDE DEF told
<1>3. \E i \in told : \A j \in told : j <= i
  BY <1>1, <1>2, LastExists
<1>4. newest \in told /\ \A j \in told : j <= newest
  BY <1>3, Zenon
<1> HIDE DEF newest
<1>5. \A j \in 1 .. Len(sEntries) : j > newest => sEntries[j] \notin Outcomes
  BY <1>1, <1>2, <1>4, <1>t
<1> QED  BY <1>1, <1>4, <1>5, <1>t DEF Tells

LEMMA SessionStep == SessionIInv /\ [Session!Next]_sessionVars => SessionIInv'
<1>1. ASSUME SessionIInv, Session!Next PROVE SessionIInv'
  BY <1>1, LogKept, SessionTypes, SessionOwnership, BusyKept DEF SessionIInv
<1>2. ASSUME SessionIInv, UNCHANGED sessionVars PROVE SessionIInv'
  BY <1>2 DEF SessionIInv, sessionVars, Session!TypeOK,
     Session!LessonOwnsItsSession, Session!BusyIsRight, UnusedClient,
     NewestSession, RoomForClient, OutcomeIsNewest, Session!isFetching, Tells
<1> QED  BY <1>1, <1>2

LEMMA SessionConsistent == SessionIInv => Session!VisitIsConsistent
  BY LogTells DEF SessionIInv, Session!VisitIsConsistent

-----------------------------------------------------------------------------
(* The network lesson.                                                     *)

LEMMA ClockStep ==
  Network!OneClock /\ [Network!Next]_networkVars => Network!OneClock'
<1> SUFFICES ASSUME Network!OneClock, [Network!Next]_networkVars
             PROVE  Network!OneClock'
  OBVIOUS
<1> USE DEF Network!OneClock, Network!TypeOK
<1>0. Wait \in Nat \ {0}
  BY WebAssumption
<1>1. CASE Network!setAutoRefresh
  BY <1>0, <1>1 DEF Network!setAutoRefresh, Network!Effect
<1>2. CASE Network!Refetch
  BY <1>0, <1>2 DEF Network!Refetch, Network!Request, Network!Effect
<1>3. CASE Network!Tick
  BY <1>0, <1>3 DEF Network!Tick, Network!Request, Network!Effect
<1>4. CASE Network!Settles
  BY <1>0, <1>4 DEF Network!Settles, Network!isFetching, Network!Effect
<1>5. CASE Network!GoOffline
  BY <1>5 DEF Network!GoOffline
<1>6. CASE Network!GoOnline
  BY <1>6 DEF Network!GoOnline
<1>7. CASE Network!Leave
  <2>1. rShown' = FALSE /\ rTimer' = 0 /\ UNCHANGED <<rAuto, rFetch, rOnline>>
    BY <1>7 DEF Network!Leave
  <2>2. 0 \in 0 .. Wait /\ ~(0 > 0)
    BY <1>0
  <2> QED  BY <2>1, <2>2
<1>8. CASE UNCHANGED networkVars
  BY <1>8 DEF networkVars
<1> QED  BY <1>1, <1>2, <1>3, <1>4, <1>5, <1>6, <1>7, <1>8 DEF Network!Next

LEMMA ClockInitially == Network!Init => Network!OneClock
<1> SUFFICES ASSUME Network!Init PROVE Network!OneClock
  OBVIOUS
<1>1. /\ rShown = TRUE /\ rAuto = FALSE /\ rTimer = 0 /\ rOnline \in BOOLEAN
      /\ rFetch \in {"fetching", "paused"}
  BY DEF Network!Init
<1>2. 0 \in 0 .. Wait /\ ~(0 > 0)
  BY WebAssumption
<1> QED  BY <1>1, <1>2 DEF Network!OneClock, Network!TypeOK

-----------------------------------------------------------------------------
(* The lessons that write.                                                 *)

QueryType == [status : {"pending", "success", "missing", "failed"},
              data : BOOLEAN, value : 0 .. Cap, late : BOOLEAN,
              read : [running : BOOLEAN, since : 0 .. Cap]]

\* A query knows no more than there is; a read that will replace what is
\* shown began after the reader was told; and an account that was found once
\* is found ever after.
KeyIsSound(k, q, told, ledger) ==
  /\ q \in QueryType /\ told \in 0 .. Cap /\ ledger \in 0 .. Cap
  /\ told <= ledger /\ q.read.since <= ledger /\ q.value <= ledger
  /\ q.status = "success" => q.data
  /\ q.data /\ q.read.running => q.read.since >= told
  /\ k \in Writes!Accounts =>
       /\ ledger <= 1
       /\ q.data => q.value >= 1 /\ (q.read.running => q.read.since >= 1)

KeysAreSound ==
  \A k \in Writes!QueryKeys : KeyIsSound(k, wQuery[k], wTold[k], wLedger[k])

\* What a query at rest shows.
IsCurrent(q, told) ==
  ~q.read.running /\ q.status # "failed" /\ ~q.late => q.value >= told

\* What was submitted names accounts, and what was applied is on the ledger.
SubmissionIsSound ==
  /\ wTransaction.at \in {"pending", "applied"}
       /\ wLesson \in {"funding", "payment"} =>
         wTransaction.destination \in Writes!Accounts
  /\ wTransaction.at = "applied" /\ wLesson \notin {"payment", "soroban"} =>
       wTransaction.value <= wLedger[Writes!AffectedKey]

\* The ledger and what is known of it.
Knowledge ==
  /\ wQuery = [k \in Writes!QueryKeys |-> wQuery[k]]
  /\ wTold = [k \in Writes!QueryKeys |-> wTold[k]]
  /\ wLedger = [k \in Writes!QueryKeys |-> wLedger[k]]
  /\ KeysAreSound /\ Writes!ReadsFollowWrites

\* What was typed and started.
Forms ==
  /\ wLesson \in Writes!Lessons
  /\ wDestination \in Recipients
  /\ wFunding \in [Writes!Fundings ->
       [at : {"unused", "running", "ended"}, address : Writes!Accounts,
        slot : {"source", "recipient"}, own : BOOLEAN]]
  /\ wTransaction \in [at : {"idle", "pending", "applied", "reading"},
                       destination : Recipients \cup {Nothing},
                       value : 0 .. Cap]
  /\ SubmissionIsSound /\ Writes!SubmissionsHaveAccounts
  /\ Writes!FeedbackIsForTheAddress

WritesIInv == Forms /\ Knowledge

LEMMA KeysAreApart ==
  /\ Writes!Accounts \subseteq Writes!QueryKeys
  /\ Count \in Writes!QueryKeys /\ Count \notin Writes!Accounts
  /\ Source \in Writes!Accounts /\ Nothing \notin Writes!Accounts
  /\ Nothing \notin Writes!QueryKeys
  /\ \A r \in Recipients : r # Nothing => r \in Writes!Accounts
  /\ Cap \in Nat \ {0} /\ MaxFundings \in Nat
  BY WebAssumption DEF Writes!Accounts, Writes!QueryKeys

-----------------------------------------------------------------------------

\* A refetch leaves the data and ends up reading; a read that is new begins
\* at what the ledger has.
LEMMA RefetchIsSound ==
  ASSUME NEW k, NEW told, KeyIsSound(k, wQuery[k], told, wLedger[k]),
         NEW t \in 0 .. Cap, t <= wLedger[k]
  PROVE  /\ KeyIsSound(k, Writes!Refetched(k, wQuery[k]), t, wLedger[k])
         /\ IsCurrent(Writes!Refetched(k, wQuery[k]), t)
<1> DEFINE q == wQuery[k]
           l == wLedger[k]
           r == Writes!Refetched(k, q)
<1>0. Cap \in Nat
  BY WebAssumption
<1>1. q \in QueryType /\ l \in 0 .. Cap
  BY DEF KeyIsSound
<1>2. r = IF q.read.running /\ ~q.data THEN q
          ELSE [q EXCEPT !.read = [running |-> TRUE, since |-> l],
                         !.status = IF q.data THEN q.status ELSE "pending"]
  BY <1>1 DEF Writes!Refetched, Writes!Started, QueryType
<1>k. KeyIsSound(k, q, told, l)
  OBVIOUS
<1> HIDE DEF q, l, r
<1>3. CASE q.read.running /\ ~q.data
  <2>1. r = q
    BY <1>2, <1>3
  <2>2. KeyIsSound(k, q, t, l)
    BY <1>0, <1>3, <1>k DEF KeyIsSound, q, l
  <2> QED  BY <1>3, <2>1, <2>2 DEF IsCurrent, q, l, r
<1>4. CASE ~(q.read.running /\ ~q.data)
  <2>1. /\ r \in QueryType
        /\ r.data = q.data /\ r.value = q.value /\ r.late = q.late
        /\ r.read.running /\ r.read.since = l
        /\ r.status = "success" => q.data
    BY <1>0, <1>1, <1>2, <1>4, <1>k DEF QueryType, KeyIsSound
  <2>2. /\ q.value \in 0 .. Cap /\ t <= l
        /\ k \in Writes!Accounts => l <= 1 /\ (q.data => q.value >= 1)
        /\ q.value <= l
    BY <1>1, <1>k DEF KeyIsSound, QueryType, l
  <2>3. KeyIsSound(k, r, t, l)
    BY <1>0, <1>1, <2>1, <2>2 DEF KeyIsSound
  <2> QED  BY <2>1, <2>3 DEF IsCurrent, q, l, r
<1> QED  BY <1>3, <1>4

AnswerOf(q, v, found, told) ==
  [status |-> IF found THEN "success" ELSE "missing",
   data |-> found \/ q.data, value |-> v,
   late |-> ~q.data /\ q.read.since < told, read |-> Writes!NoRead]

\* An answer is no older than its read.
LEMMA AnswerIsSound ==
  ASSUME NEW k, NEW q, NEW told, NEW ledger,
         KeyIsSound(k, q, told, ledger), q.read.running,
         NEW v \in q.read.since .. ledger, NEW found \in BOOLEAN,
         found <=> (k = Count \/ v > 0), k \in Writes!QueryKeys
  PROVE  /\ KeyIsSound(k, AnswerOf(q, v, found, told), told, ledger)
         /\ IsCurrent(AnswerOf(q, v, found, told), told)
<1> DEFINE r == AnswerOf(q, v, found, told)
<1>0. Cap \in Nat
  BY WebAssumption
<1>1. /\ q \in QueryType /\ told \in 0 .. Cap /\ ledger \in 0 .. Cap
      /\ q.read.since \in 0 .. Cap /\ q.data \in BOOLEAN
  BY DEF KeyIsSound, QueryType
<1>2. v \in 0 .. Cap /\ v <= ledger /\ v >= q.read.since
  BY <1>0, <1>1
<1>3. /\ r.status = (IF found THEN "success" ELSE "missing")
      /\ r.data = (found \/ q.data) /\ r.value = v
      /\ r.late = (~q.data /\ q.read.since < told)
      /\ r.read = [running |-> FALSE, since |-> 0]
  BY DEF Writes!NoRead, AnswerOf
<1>4. r \in QueryType
  <2>1. Writes!NoRead \in [running : BOOLEAN, since : 0 .. Cap]
    BY <1>0 DEF Writes!NoRead
  <2>2. (~q.data /\ q.read.since < told) \in BOOLEAN /\ (found \/ q.data) \in BOOLEAN
    OBVIOUS
  <2> QED  BY <1>2, <2>1, <2>2 DEF QueryType, AnswerOf
<1> HIDE DEF r
<1>5. k \in Writes!Accounts => ledger <= 1 /\ (r.data => v >= 1)
  <2> SUFFICES ASSUME k \in Writes!Accounts
               PROVE  ledger <= 1 /\ (found \/ q.data => v >= 1)
    BY <1>3
  <2>1. ledger <= 1 /\ (q.data => q.read.since >= 1) /\ k # Count
    BY KeysAreApart DEF KeyIsSound
  <2> QED  BY <1>1, <1>2, <2>1
<1>6. KeyIsSound(k, r, told, ledger)
  <2>1. ~r.read.running /\ r.read.since = 0
    BY <1>3
  <2>2. r.status = "success" => r.data
    BY <1>3
  <2>3. told <= ledger
    BY DEF KeyIsSound
  <2>4. r.value = v
    BY <1>3
  <2>5. /\ r.read.since <= ledger /\ r.value <= ledger
        /\ k \in Writes!Accounts =>
             ledger <= 1 /\ (r.data => r.value >= 1)
    BY <1>0, <1>1, <1>2, <1>5, <2>1, <2>4
  <2> QED  BY <1>1, <1>4, <2>1, <2>2, <2>3, <2>5, Zenon DEF KeyIsSound
<1>7. ~r.late => v >= told
  <2>1. q.data => q.read.since >= told
    BY DEF KeyIsSound
  <2>2. ~r.late => ~(q.read.since < told)
    <3> DEFINE before == q.read.since < told
    <3>1. q.data => ~before
      BY <1>1, <2>1
    <3>2. r.late = (~q.data /\ before) /\ before \in BOOLEAN
      BY <1>3
    <3> HIDE DEF before
    <3>3. CASE q.data
      BY <3>1, <3>3 DEF before
    <3>4. CASE ~q.data
      <4>1. (~q.data /\ before) = before
        BY <3>2, <3>4
      <4> QED  BY <3>2, <4>1 DEF before
    <3> QED  BY <3>3, <3>4
  <2>3. ~(q.read.since < told) => v >= told
    BY <1>1, <1>2
  <2> QED  BY <2>2, <2>3
<1>8. IsCurrent(r, told)
  BY <1>3, <1>7 DEF IsCurrent
<1> QED  BY <1>6, <1>8 DEF r

LEMMA FailureIsSound ==
  ASSUME NEW k, NEW q, NEW told, NEW ledger, KeyIsSound(k, q, told, ledger),
         NEW r, r = [q EXCEPT !.status = "failed", !.read = Writes!NoRead]
  PROVE  KeyIsSound(k, r, told, ledger) /\ IsCurrent(r, told)
<1>0. Cap \in Nat
  BY WebAssumption
<1>1. q \in QueryType
  BY DEF KeyIsSound
<1>2. /\ r \in QueryType /\ r.status = "failed" /\ r.data = q.data
      /\ r.value = q.value /\ ~r.read.running /\ r.read.since = 0
  <2>1. Writes!NoRead \in [running : BOOLEAN, since : 0 .. Cap]
    BY <1>0 DEF Writes!NoRead
  <2>2. r \in QueryType
    BY <1>1, <2>1 DEF QueryType
  <2>3. /\ r.status = "failed" /\ r.data = q.data /\ r.value = q.value
        /\ r.read = Writes!NoRead
    BY <1>1 DEF QueryType
  <2> QED  BY <2>2, <2>3 DEF Writes!NoRead
<1> QED  BY <1>0, <1>2 DEF KeyIsSound, IsCurrent

LEMMA GrowthIsSound ==
  ASSUME NEW k, NEW q, NEW told, NEW ledger, KeyIsSound(k, q, told, ledger),
         NEW l \in 0 .. Cap, ledger <= l, k \in Writes!Accounts => l <= 1
  PROVE  KeyIsSound(k, q, told, l)
  BY WebAssumption DEF KeyIsSound, QueryType

LEMMA WritesTypes == WritesIInv => Writes!TypeOK
<1> SUFFICES ASSUME WritesIInv PROVE Writes!TypeOK
  OBVIOUS
<1>1. \A k \in Writes!QueryKeys :
        wQuery[k] \in QueryType /\ wTold[k] \in 0 .. Cap /\ wLedger[k] \in 0 .. Cap
  BY DEF WritesIInv, Knowledge, KeysAreSound, KeyIsSound
<1>2. /\ wQuery \in [Writes!QueryKeys -> QueryType]
      /\ wTold \in [Writes!QueryKeys -> 0 .. Cap]
      /\ wLedger \in [Writes!QueryKeys -> 0 .. Cap]
  BY <1>1 DEF WritesIInv, Knowledge
<1> QED  BY <1>2 DEF WritesIInv, Forms, Writes!TypeOK, QueryType

-----------------------------------------------------------------------------
(* What steps do to the knowledge.                                         *)

LEMMA RefetchKeeps ==
  ASSUME Knowledge, NEW k \in Writes!QueryKeys, Writes!refetch(k),
         wLedger' = wLedger,
         wTold' = [j \in Writes!QueryKeys |-> wTold'[j]],
         \A j \in Writes!QueryKeys : j # k => wTold'[j] = wTold[j],
         wTold'[k] \in 0 .. Cap, wTold'[k] <= wLedger[k],
         \A j \in Writes!QueryKeys :
           j # k /\ (j \in Writes!Shown)' => j \in Writes!Shown
  PROVE  Knowledge'
<1>1. /\ wQuery' = [j \in Writes!QueryKeys |-> wQuery'[j]]
      /\ wQuery'[k] = Writes!Refetched(k, wQuery[k])
      /\ \A j \in Writes!QueryKeys : j # k => wQuery'[j] = wQuery[j]
  BY DEF Knowledge, Writes!refetch
<1>2. /\ KeyIsSound(k, wQuery'[k], wTold'[k], wLedger'[k])
      /\ IsCurrent(wQuery'[k], wTold'[k])
  BY <1>1, RefetchIsSound DEF Knowledge, KeysAreSound
<1>3. KeysAreSound'
  BY <1>1, <1>2 DEF Knowledge, KeysAreSound
<1>4. Writes!ReadsFollowWrites'
  <2> SUFFICES ASSUME NEW j \in Writes!QueryKeys, (j \in Writes!Shown)'
               PROVE  IsCurrent(wQuery'[j], wTold'[j])
    BY DEF Writes!ReadsFollowWrites, Writes!Shown, IsCurrent
  <2>1. CASE j = k
    BY <1>2, <2>1
  <2>2. CASE j # k
    BY <1>1, <2>2 DEF Knowledge, Writes!ReadsFollowWrites, IsCurrent
  <2> QED  BY <2>1, <2>2
<1> QED  BY <1>1, <1>3, <1>4 DEF Knowledge

LEMMA ReadEndsKeeps ==
  ASSUME Knowledge, NEW k \in Writes!QueryKeys,
         Writes!Answer(k) \/ Writes!ReadFails(k)
  PROVE  Knowledge'
<1>1. /\ UNCHANGED <<wLedger, wTold>>
      /\ \A j : (j \in Writes!Shown)' <=> j \in Writes!Shown
  BY DEF Writes!Answer, Writes!ReadFails, Writes!Shown, Writes!HasSource,
     Writes!HasDestination, Writes!Counted
<1>2. /\ wQuery' = [j \in Writes!QueryKeys |-> wQuery'[j]]
      /\ \A j \in Writes!QueryKeys : j # k => wQuery'[j] = wQuery[j]
      /\ KeyIsSound(k, wQuery'[k], wTold[k], wLedger[k])
      /\ IsCurrent(wQuery'[k], wTold[k])
  <2>0. KeyIsSound(k, wQuery[k], wTold[k], wLedger[k]) /\ wQuery[k].read.running
    BY DEF Knowledge, KeysAreSound, Writes!Answer, Writes!ReadFails
  <2>1. CASE Writes!Answer(k)
    <3>1. PICK v \in wQuery[k].read.since .. wLedger[k] :
            LET found == k = Count \/ v > 0
            IN  wQuery' = [wQuery EXCEPT ![k] =
                  [status |-> IF found THEN "success" ELSE "missing",
                   data |-> found \/ @.data, value |-> v,
                   late |-> ~@.data /\ @.read.since < wTold[k],
                   read |-> Writes!NoRead]]
      BY <2>1 DEF Writes!Answer
    <3> DEFINE found == k = Count \/ v > 0
               r == AnswerOf(wQuery[k], v, found, wTold[k])
    <3>2. wQuery' = [wQuery EXCEPT ![k] = r]
      BY <3>1 DEF AnswerOf
    <3>3. KeyIsSound(k, r, wTold[k], wLedger[k]) /\ IsCurrent(r, wTold[k])
      <4>1. found \in BOOLEAN /\ (found <=> (k = Count \/ v > 0))
        OBVIOUS
      <4> HIDE DEF found
      <4> QED  BY <2>0, <4>1, AnswerIsSound
    <3> HIDE DEF r
    <3> QED  BY <3>2, <3>3 DEF Knowledge
  <2>2. CASE Writes!ReadFails(k)
    <3> DEFINE r == [wQuery[k] EXCEPT !.status = "failed",
                                      !.read = Writes!NoRead]
    <3>1. wQuery' = [wQuery EXCEPT ![k] = r]
      BY <2>2 DEF Writes!ReadFails
    <3>2. KeyIsSound(k, r, wTold[k], wLedger[k]) /\ IsCurrent(r, wTold[k])
      BY <2>0, FailureIsSound
    <3> HIDE DEF r
    <3> QED  BY <3>1, <3>2 DEF Knowledge
  <2> QED  BY <2>1, <2>2
<1>3. KeysAreSound'
  BY <1>1, <1>2 DEF Knowledge, KeysAreSound
<1>4. Writes!ReadsFollowWrites'
  <2> SUFFICES ASSUME NEW j \in Writes!QueryKeys, j \in Writes!Shown
               PROVE  IsCurrent(wQuery'[j], wTold[j])
    BY <1>1 DEF Writes!ReadsFollowWrites, IsCurrent, Writes!Shown
  <2>1. CASE j = k
    BY <1>2, <2>1
  <2>2. CASE j # k
    BY <1>2, <2>2 DEF Knowledge, Writes!ReadsFollowWrites, IsCurrent
  <2> QED  BY <2>1, <2>2
<1> QED  BY <1>1, <1>2, <1>3, <1>4 DEF Knowledge

\* The ledger only grows, and by accounts that were not there.
LEMMA GrowthKeeps ==
  ASSUME Knowledge, UNCHANGED <<wQuery, wTold, wLesson, wDestination>>,
         NEW k \in Writes!QueryKeys, NEW v \in 0 .. Cap,
         wLedger[k] <= v, k \in Writes!Accounts => v <= 1,
         wLedger' = [wLedger EXCEPT ![k] = v]
  PROVE  Knowledge'
<1>1. /\ wLedger' = [j \in Writes!QueryKeys |-> wLedger'[j]]
      /\ wLedger'[k] = v
      /\ \A j \in Writes!QueryKeys : j # k => wLedger'[j] = wLedger[j]
  BY DEF Knowledge
<1>2. KeyIsSound(k, wQuery[k], wTold[k], v)
  BY GrowthIsSound DEF Knowledge, KeysAreSound
<1>3. KeysAreSound'
  BY <1>1, <1>2 DEF Knowledge, KeysAreSound
<1>4. Writes!ReadsFollowWrites'
  BY DEF Knowledge, Writes!ReadsFollowWrites, Writes!Shown,
     Writes!HasSource, Writes!HasDestination, Writes!Counted
<1> QED  BY <1>1, <1>3, <1>4 DEF Knowledge

LEMMA KnowledgeUnchanged ==
  ASSUME Knowledge, UNCHANGED <<wQuery, wTold, wLedger, wLesson, wDestination>>
  PROVE  Knowledge'
  BY DEF Knowledge, KeysAreSound, Writes!ReadsFollowWrites, Writes!Shown,
     Writes!HasSource, Writes!HasDestination, Writes!Counted

\* The controls that are shown are for accounts.
LEMMA SlotIsFor ==
  ASSUME WritesIInv, NEW slot \in {"source", "recipient"},
         Writes!Current(slot) # Nothing
  PROVE  /\ Writes!Current(slot) \in Writes!Accounts
         /\ Writes!Current(slot) \in Writes!QueryKeys
  BY KeysAreApart DEF WritesIInv, Forms, Writes!Current

LEMMA SlotNames == Writes!Slots \subseteq {"source", "recipient"}
  BY DEF Writes!Slots

\* An account that was found is on the ledger.
LEMMA FoundIsThere ==
  ASSUME WritesIInv, NEW a \in Writes!Accounts, Writes!isSuccess(a)
  PROVE  wLedger[a] = 1
<1>1. KeyIsSound(a, wQuery[a], wTold[a], wLedger[a])
  BY KeysAreApart DEF WritesIInv, Knowledge, KeysAreSound
<1>2. wQuery[a].status = "success"
  BY DEF Writes!isSuccess
<1> QED  BY <1>1, <1>2, KeysAreApart DEF KeyIsSound, QueryType

LEMMA ShownUnchanged ==
  ASSUME UNCHANGED <<wLesson, wDestination>>
  PROVE  \A k \in Writes!QueryKeys : (k \in Writes!Shown)' => k \in Writes!Shown
  BY DEF Writes!Shown, Writes!HasSource, Writes!HasDestination, Writes!Counted

LEMMA FormsUnchanged ==
  ASSUME Forms, UNCHANGED <<wLesson, wDestination, wFunding, wTransaction>>,
         \A k \in Writes!QueryKeys : wLedger'[k] >= wLedger[k],
         \A a \in Writes!Accounts : wLedger[a] = 1 => wLedger'[a] = 1,
         \A k \in Writes!QueryKeys : wLedger[k] \in 0 .. Cap /\ wLedger'[k] \in 0 .. Cap
  PROVE  Forms'
<1>1. SubmissionIsSound'
  <2>1. ASSUME wTransaction.at = "applied", wLesson \notin {"payment", "soroban"}
        PROVE  wTransaction.value <= wLedger'[Writes!AffectedKey]
    <3> DEFINE k == Writes!AffectedKey
    <3>1. k \in Writes!QueryKeys
      BY <2>1, KeysAreApart DEF Forms, SubmissionIsSound, Writes!AffectedKey
    <3>2. wTransaction.value <= wLedger[k]
      BY <2>1 DEF Forms, SubmissionIsSound
    <3>3. wTransaction.value \in 0 .. Cap
      BY DEF Forms
    <3> HIDE DEF k
    <3>4. wTransaction.value <= wLedger'[k]
      BY <3>1, <3>2, <3>3, KeysAreApart
    <3> QED  BY <3>4 DEF k
  <2> QED  BY <2>1 DEF Forms, SubmissionIsSound, Writes!AffectedKey
<1>2. Writes!SubmissionsHaveAccounts'
  BY KeysAreApart DEF Forms, SubmissionIsSound, Writes!SubmissionsHaveAccounts,
     Writes!HasSource
<1>3. Writes!FeedbackIsForTheAddress'
  BY DEF Forms, Writes!FeedbackIsForTheAddress, Writes!Current
<1> QED  BY <1>1, <1>2, <1>3 DEF Forms

LEMMA LedgerBounds ==
  WritesIInv => \A k \in Writes!QueryKeys : wLedger[k] \in 0 .. Cap
  BY DEF WritesIInv, Knowledge, KeysAreSound, KeyIsSound

LEMMA ReadStep ==
  ASSUME WritesIInv, NEW k \in Writes!QueryKeys,
         Writes!Background(k) \/ Writes!Answer(k) \/ Writes!ReadFails(k)
  PROVE  WritesIInv'
<1>1. UNCHANGED <<wLesson, wDestination, wFunding, wTransaction, wLedger, wTold>>
  BY DEF Writes!Background, Writes!Answer, Writes!ReadFails
<1>2. Forms'
  BY <1>1, FormsUnchanged, LedgerBounds DEF WritesIInv
<1>3. KeyIsSound(k, wQuery[k], wTold[k], wLedger[k]) /\ Knowledge
  BY DEF WritesIInv, Knowledge, KeysAreSound
<1>4. CASE Writes!Background(k)
  <2>1. Writes!refetch(k)
    BY <1>4 DEF Writes!Background
  <2>2. wTold[k] \in 0 .. Cap /\ wTold[k] <= wLedger[k]
        /\ wTold' = [j \in Writes!QueryKeys |-> wTold'[j]]
    BY <1>1, <1>3 DEF KeyIsSound, Knowledge
  <2>3. Knowledge'
    BY <1>1, <1>3, <2>1, <2>2, RefetchKeeps, ShownUnchanged
  <2> QED  BY <1>2, <2>3 DEF WritesIInv
<1>5. CASE Writes!Answer(k) \/ Writes!ReadFails(k)
  BY <1>2, <1>3, <1>5, ReadEndsKeeps DEF WritesIInv
<1> QED  BY <1>4, <1>5

LEMMA CheckStep ==
  ASSUME WritesIInv, NEW slot \in Writes!Slots, Writes!CheckAccount(slot)
  PROVE  WritesIInv'
<1> DEFINE k == Writes!Current(slot)
<1>1. UNCHANGED <<wLesson, wDestination, wFunding, wTransaction, wLedger, wTold>>
  BY DEF Writes!CheckAccount
<1>2. Forms'
  BY <1>1, FormsUnchanged, LedgerBounds DEF WritesIInv
<1>3. k \in Writes!QueryKeys /\ Writes!refetch(k)
  BY SlotIsFor, SlotNames DEF Writes!CheckAccount, Writes!SetupEnabled
<1> HIDE DEF k
<1>4. KeyIsSound(k, wQuery[k], wTold[k], wLedger[k]) /\ Knowledge
  BY <1>3 DEF WritesIInv, Knowledge, KeysAreSound
<1>5. wTold[k] \in 0 .. Cap /\ wTold[k] <= wLedger[k]
      /\ wTold' = [j \in Writes!QueryKeys |-> wTold'[j]]
  BY <1>1, <1>4 DEF KeyIsSound, Knowledge
<1>6. Knowledge'
  BY <1>1, <1>3, <1>4, <1>5, RefetchKeeps, ShownUnchanged
<1> QED  BY <1>2, <1>6 DEF WritesIInv

LEMMA EditStep ==
  ASSUME WritesIInv, NEW text \in Recipients, Writes!Edit(text)
  PROVE  WritesIInv'
<1>1. /\ wDestination' = text /\ Writes!HasDestination
      /\ wFunding' = Writes!Remounted
      /\ UNCHANGED <<wLesson, wTransaction, wLedger, wTold>>
  BY DEF Writes!Edit
<1>2. Forms'
  <2>1. wFunding' \in [Writes!Fundings ->
           [at : {"unused", "running", "ended"}, address : Writes!Accounts,
            slot : {"source", "recipient"}, own : BOOLEAN]]
    BY <1>1 DEF WritesIInv, Forms, Writes!Remounted
  <2>2. SubmissionIsSound' /\ Writes!SubmissionsHaveAccounts'
    BY <1>1 DEF WritesIInv, Forms, SubmissionIsSound,
       Writes!SubmissionsHaveAccounts, Writes!HasSource, Writes!AffectedKey
  <2>3. Writes!FeedbackIsForTheAddress'
    <3> SUFFICES ASSUME NEW f \in Writes!Fundings,
                        wFunding'[f].at = "running", wFunding'[f].own
                 PROVE  wFunding'[f].address = (Writes!Current(wFunding[f].slot))'
      BY DEF Writes!FeedbackIsForTheAddress
    <3>1. /\ wFunding[f].at = "running" /\ wFunding[f].own
          /\ wFunding[f].slot = "source" /\ wFunding'[f].slot = "source"
          /\ wFunding'[f].address = wFunding[f].address
      BY <1>1 DEF WritesIInv, Forms, Writes!Remounted
    <3>2. wFunding[f].address = Source
      BY <3>1 DEF WritesIInv, Forms, Writes!FeedbackIsForTheAddress,
         Writes!Current
    <3> QED  BY <3>1, <3>2 DEF Writes!Current
  <2> QED  BY <1>1, <2>1, <2>2, <2>3 DEF WritesIInv, Forms
<1>3. \A k \in Writes!QueryKeys :
        k # text /\ (k \in Writes!Shown)' => k \in Writes!Shown
  BY <1>1 DEF Writes!Shown, Writes!HasSource, Writes!HasDestination,
     Writes!Counted
<1>k. Knowledge
  BY DEF WritesIInv
<1>4. CASE text # Nothing /\ Writes!refetch(text)
  <2>1. text \in Writes!QueryKeys
    BY <1>4, KeysAreApart
  <2>2. KeyIsSound(text, wQuery[text], wTold[text], wLedger[text])
    BY <1>k, <2>1 DEF Knowledge, KeysAreSound
  <2>3. wTold[text] \in 0 .. Cap /\ wTold[text] <= wLedger[text]
        /\ wTold' = [j \in Writes!QueryKeys |-> wTold'[j]]
    BY <1>1, <1>k, <2>2 DEF KeyIsSound, Knowledge
  <2>4. Knowledge'
    BY <1>1, <1>3, <1>4, <1>k, <2>1, <2>3, RefetchKeeps
  <2> QED  BY <1>2, <2>4 DEF WritesIInv
<1>5. CASE /\ UNCHANGED wQuery
           /\ text # Nothing => wQuery[text].read.running \/ wQuery[text].data
  <2>1. KeysAreSound'
    BY <1>1, <1>5, <1>k DEF Knowledge, KeysAreSound
  <2>2. Writes!ReadsFollowWrites'
    <3> SUFFICES ASSUME NEW k \in Writes!QueryKeys, (k \in Writes!Shown)'
                 PROVE  IsCurrent(wQuery[k], wTold[k])
      BY <1>1, <1>5 DEF Writes!ReadsFollowWrites, Writes!Shown, IsCurrent
    <3>1. CASE k # text
      BY <1>3, <1>k, <3>1 DEF Knowledge, Writes!ReadsFollowWrites, IsCurrent
    <3>2. CASE k = text
      <4>1. text # Nothing /\ text \in Writes!Accounts
        BY <3>2, KeysAreApart
      <4>2. KeyIsSound(text, wQuery[text], wTold[text], wLedger[text])
        BY <1>k, <3>2 DEF Knowledge, KeysAreSound
      <4>3. CASE wQuery[text].read.running
        BY <3>2, <4>3 DEF IsCurrent
      <4>4. CASE wQuery[text].data
        <5>1. wQuery[text].value >= wTold[text]
          BY <4>1, <4>2, <4>4, KeysAreApart DEF KeyIsSound, QueryType
        <5> QED  BY <3>2, <5>1 DEF IsCurrent
      <4> QED  BY <1>5, <4>1, <4>3, <4>4
    <3> QED  BY <3>1, <3>2
  <2> QED  BY <1>1, <1>2, <1>5, <1>k, <2>1, <2>2 DEF WritesIInv, Knowledge
<1> QED  BY <1>4, <1>5 DEF Writes!Edit

FundingType ==
  [at : {"unused", "running", "ended"}, address : Writes!Accounts,
   slot : {"source", "recipient"}, own : BOOLEAN]

LEMMA FundStep ==
  ASSUME WritesIInv, NEW slot \in Writes!Slots, NEW f \in Writes!Fundings,
         Writes!fund(slot, f)
  PROVE  WritesIInv'
<1> DEFINE started == [at |-> "running", address |-> Writes!Current(slot),
                       slot |-> slot, own |-> TRUE]
<1>1. /\ wFunding' = [wFunding EXCEPT ![f] = started]
      /\ UNCHANGED <<wLesson, wDestination, wQuery, wTransaction, wLedger, wTold>>
  BY DEF Writes!fund
<1>2. slot \in {"source", "recipient"}
      /\ Writes!Current(slot) \in Writes!Accounts
  BY SlotIsFor, SlotNames DEF Writes!fund, Writes!SetupEnabled
<1>3. started \in FundingType /\ wFunding \in [Writes!Fundings -> FundingType]
  BY <1>2 DEF FundingType, WritesIInv, Forms
<1>4. Writes!FeedbackIsForTheAddress'
  <2> SUFFICES ASSUME NEW g \in Writes!Fundings,
                      wFunding'[g].at = "running", wFunding'[g].own
               PROVE  wFunding'[g].address = (Writes!Current(wFunding[g].slot))'
    BY DEF Writes!FeedbackIsForTheAddress
  <2>1. CASE g = f
    BY <1>1, <1>3, <2>1 DEF Writes!Current
  <2>2. CASE g # f
    BY <1>1, <1>3, <2>2 DEF WritesIInv, Forms, Writes!FeedbackIsForTheAddress,
       Writes!Current
  <2> QED  BY <2>1, <2>2
<1>5. wFunding' \in [Writes!Fundings -> FundingType]
  <2> HIDE DEF started
  <2> QED  BY <1>1, <1>3
<1>6. SubmissionIsSound' /\ Writes!SubmissionsHaveAccounts'
  BY <1>1 DEF WritesIInv, Forms, SubmissionIsSound, Writes!AffectedKey,
     Writes!SubmissionsHaveAccounts, Writes!HasSource
<1>7. Forms'
  BY <1>1, <1>4, <1>5, <1>6 DEF WritesIInv, Forms, FundingType
<1> QED  BY <1>1, <1>7, KnowledgeUnchanged DEF WritesIInv

\* A use of the controls ends.
LEMMA EndKeepsForms ==
  ASSUME Forms, NEW f \in Writes!Fundings,
         wFunding' = [wFunding EXCEPT ![f] = Writes!Ended],
         UNCHANGED <<wLesson, wDestination, wTransaction, wLedger>>
  PROVE  Forms'
<1>1. Writes!Ended \in FundingType /\ Writes!Ended.at = "ended"
  BY KeysAreApart DEF Writes!Ended, Writes!Unused, FundingType
<1>2. wFunding \in [Writes!Fundings -> FundingType]
  BY DEF Forms, FundingType
<1>3. Writes!FeedbackIsForTheAddress'
  <2> SUFFICES ASSUME NEW g \in Writes!Fundings,
                      wFunding'[g].at = "running", wFunding'[g].own
               PROVE  wFunding'[g].address = (Writes!Current(wFunding[g].slot))'
    BY DEF Writes!FeedbackIsForTheAddress
  <2>1. g # f
    BY <1>1, <1>2
  <2> QED  BY <1>2, <2>1 DEF Forms, Writes!FeedbackIsForTheAddress, Writes!Current
<1>4. wFunding' \in [Writes!Fundings -> FundingType]
  BY <1>1, <1>2
<1>5. SubmissionIsSound' /\ Writes!SubmissionsHaveAccounts'
  BY DEF Forms, SubmissionIsSound, Writes!AffectedKey,
     Writes!SubmissionsHaveAccounts, Writes!HasSource
<1> QED  BY <1>3, <1>4, <1>5 DEF Forms, FundingType

LEMMA FundedStep ==
  ASSUME WritesIInv, NEW f \in Writes!Fundings, Writes!Funded(f)
  PROVE  WritesIInv'
<1> DEFINE a == wFunding[f].address
           k == Writes!Current(wFunding[f].slot)
<1>1. /\ wFunding' = [wFunding EXCEPT ![f] = Writes!Ended]
      /\ UNCHANGED <<wLesson, wDestination, wTransaction, wLedger>>
      /\ wFunding[f].at = "running" /\ wLedger[a] = 1
      /\ wTold' = [wTold EXCEPT ![a] = IF wFunding[f].own THEN 1 ELSE @]
      /\ IF k = Nothing THEN UNCHANGED wQuery ELSE Writes!refetch(k)
  BY DEF Writes!Funded
<1>2. Forms'
  BY <1>1, EndKeepsForms DEF WritesIInv
<1>3. a \in Writes!Accounts /\ wFunding[f].slot \in {"source", "recipient"}
  BY DEF WritesIInv, Forms
<1>4. wFunding[f].own => a = k
  BY <1>1 DEF WritesIInv, Forms, Writes!FeedbackIsForTheAddress
<1>5. Knowledge /\ wTold = [j \in Writes!QueryKeys |-> wTold[j]]
      /\ a \in Writes!QueryKeys
  BY <1>3, KeysAreApart DEF WritesIInv, Knowledge
<1>6. CASE k = Nothing
  <2>1. ~wFunding[f].own
    BY <1>3, <1>4, <1>6, KeysAreApart
  <2> HIDE DEF a, k
  <2>2. UNCHANGED <<wTold, wQuery>>
    BY <1>1, <1>5, <1>6, <2>1
  <2> QED  BY <1>1, <1>2, <1>5, <2>2, KnowledgeUnchanged DEF WritesIInv
<1>7. CASE k # Nothing
  <2>1. k \in Writes!QueryKeys
    BY <1>3, <1>7, SlotIsFor
  <2>2. KeyIsSound(k, wQuery[k], wTold[k], wLedger[k])
    BY <1>5, <2>1 DEF Knowledge, KeysAreSound
  <2> HIDE DEF a, k
  <2>3. /\ wTold' = [j \in Writes!QueryKeys |-> wTold'[j]]
        /\ \A j \in Writes!QueryKeys : j # k => wTold'[j] = wTold[j]
        /\ wTold'[k] = wTold[k] \/ (wTold'[k] = 1 /\ wLedger[k] = 1)
    <3>1. CASE wFunding[f].own
      BY <1>1, <1>4, <1>5, <3>1
    <3>2. CASE ~wFunding[f].own
      BY <1>1, <1>5, <2>1, <3>2
    <3> QED  BY <3>1, <3>2
  <2>4. wTold'[k] \in 0 .. Cap /\ wTold'[k] <= wLedger[k]
    BY <2>2, <2>3, KeysAreApart DEF KeyIsSound
  <2>5. Knowledge'
    BY <1>1, <1>5, <1>7, <2>1, <2>3, <2>4, RefetchKeeps, ShownUnchanged
  <2> QED  BY <1>2, <2>5 DEF WritesIInv
<1> QED  BY <1>6, <1>7

LEMMA FundingFailsStep ==
  ASSUME WritesIInv, NEW f \in Writes!Fundings, Writes!FundingFails(f)
  PROVE  WritesIInv'
<1>1. /\ wFunding' = [wFunding EXCEPT ![f] = Writes!Ended]
      /\ UNCHANGED <<wLesson, wDestination, wQuery, wTransaction, wLedger, wTold>>
  BY DEF Writes!FundingFails
<1> QED  BY <1>1, EndKeepsForms, KnowledgeUnchanged DEF WritesIInv

LEMMA FriendbotStep ==
  ASSUME WritesIInv, NEW a \in Writes!Accounts, Writes!FriendbotCreates(a)
  PROVE  WritesIInv'
<1>1. /\ wLedger[a] = 0 /\ wLedger' = [wLedger EXCEPT ![a] = 1]
      /\ UNCHANGED <<wLesson, wDestination, wQuery, wFunding, wTransaction, wTold>>
  BY DEF Writes!FriendbotCreates
<1>2. a \in Writes!QueryKeys /\ 1 \in 0 .. Cap
  BY KeysAreApart
<1>3. wLedger = [j \in Writes!QueryKeys |-> wLedger[j]]
      /\ \A k \in Writes!QueryKeys : wLedger[k] \in 0 .. Cap
  BY LedgerBounds DEF WritesIInv, Knowledge
<1>4. \A k \in Writes!QueryKeys :
        wLedger'[k] = IF k = a THEN 1 ELSE wLedger[k]
  BY <1>1, <1>3
<1>5. Forms'
  <2>1. \A k \in Writes!QueryKeys :
          wLedger'[k] >= wLedger[k] /\ wLedger'[k] \in 0 .. Cap
    BY <1>1, <1>2, <1>3, <1>4
  <2>2. \A b \in Writes!Accounts : wLedger[b] = 1 => wLedger'[b] = 1
    BY <1>4, KeysAreApart
  <2> QED  BY <1>1, <1>3, <2>1, <2>2, FormsUnchanged DEF WritesIInv
<1>6. Knowledge'
  <2> DEFINE v == 1
  <2>1. /\ wLedger[a] <= v /\ v \in 0 .. Cap /\ v <= 1
        /\ wLedger' = [wLedger EXCEPT ![a] = v]
    BY <1>1, <1>2
  <2> HIDE DEF v
  <2> QED  BY <1>1, <1>2, <2>1, GrowthKeeps DEF WritesIInv
<1> QED  BY <1>5, <1>6 DEF WritesIInv

\* The counter is no account.
LEMMA IncrementIs ==
  ASSUME WritesIInv, Writes!Increment,
         UNCHANGED <<wLesson, wDestination, wQuery, wTold>>
  PROVE  /\ Knowledge' /\ wLedger'[Count] \in 0 .. Cap
         /\ \A a \in Writes!Accounts : wLedger'[a] = wLedger[a]
         /\ \A k \in Writes!QueryKeys :
              wLedger'[k] \in 0 .. Cap /\ wLedger'[k] >= wLedger[k]
<1> DEFINE v == wLedger[Count] + 1
<1>1. wLedger' = [wLedger EXCEPT ![Count] = v] /\ wLedger[Count] < Cap
  BY DEF Writes!Increment
<1>2. /\ wLedger = [j \in Writes!QueryKeys |-> wLedger[j]]
      /\ \A k \in Writes!QueryKeys : wLedger[k] \in 0 .. Cap
  BY LedgerBounds DEF WritesIInv, Knowledge
<1>3. v \in 0 .. Cap /\ wLedger[Count] <= v
  BY <1>1, <1>2, KeysAreApart
<1>4. \A k \in Writes!QueryKeys :
        wLedger'[k] = IF k = Count THEN v ELSE wLedger[k]
  BY <1>1, <1>2
<1> HIDE DEF v
<1>5. Knowledge'
  BY <1>1, <1>3, KeysAreApart, GrowthKeeps DEF WritesIInv
<1>6. \A a \in Writes!Accounts : wLedger'[a] = wLedger[a]
  BY <1>4, KeysAreApart
<1>7. ASSUME NEW k \in Writes!QueryKeys
      PROVE  wLedger'[k] \in 0 .. Cap /\ wLedger'[k] >= wLedger[k]
  <2>1. CASE k = Count
    BY <1>3, <1>4, <2>1, KeysAreApart
  <2>2. CASE k # Count
    BY <1>2, <1>4, <2>2, KeysAreApart
  <2> QED  BY <2>1, <2>2
<1> QED  BY <1>5, <1>6, <1>7, KeysAreApart

LEMMA OtherPageStep ==
  ASSUME WritesIInv, Writes!OtherPageIncrements
  PROVE  WritesIInv'
<1>1. /\ Writes!Increment
      /\ UNCHANGED <<wLesson, wDestination, wQuery, wFunding, wTransaction, wTold>>
  BY DEF Writes!OtherPageIncrements
<1>2. Forms'
  BY <1>1, IncrementIs, FormsUnchanged, LedgerBounds DEF WritesIInv
<1> QED  BY <1>1, <1>2, IncrementIs DEF WritesIInv

TransactionType ==
  [at : {"idle", "pending", "applied", "reading"},
   destination : Recipients \cup {Nothing}, value : 0 .. Cap]

\* A step of the mutation: what a form needs of it.
LEMMA MutationForms ==
  ASSUME Forms, UNCHANGED <<wLesson, wDestination, wFunding>>,
         wTransaction' \in TransactionType,
         SubmissionIsSound', Writes!SubmissionsHaveAccounts'
  PROVE  Forms'
<1>1. Writes!FeedbackIsForTheAddress'
  BY DEF Forms, Writes!FeedbackIsForTheAddress, Writes!Current
<1> QED  BY <1>1 DEF Forms, TransactionType

LEMMA NothingSubmitted ==
  ASSUME wTransaction'.at \notin {"pending", "applied"}
  PROVE  SubmissionIsSound' /\ Writes!SubmissionsHaveAccounts'
  BY DEF SubmissionIsSound, Writes!SubmissionsHaveAccounts

LEMMA IdleIs == Writes!Idle \in TransactionType /\ Writes!Idle.at = "idle"
  BY KeysAreApart DEF Writes!Idle, TransactionType

LEMMA SubmitStep ==
  ASSUME WritesIInv, Writes!Submit
  PROVE  WritesIInv'
<1>1. /\ Writes!SubmitEnabled
      /\ wTransaction' = [at |-> "pending", destination |-> wDestination,
                          value |-> 0]
      /\ UNCHANGED <<wLesson, wDestination, wQuery, wFunding, wLedger, wTold>>
  BY DEF Writes!Submit
<1>2. wLesson \in Writes!Lessons /\ wDestination \in Recipients
  BY DEF WritesIInv, Forms
<1>3. wTransaction' \in TransactionType
  BY <1>1, <1>2, KeysAreApart DEF TransactionType
<1>4. Writes!isSuccess(wDestination) => wDestination \in Writes!Accounts
  <2>1. wDestination \in Writes!QueryKeys => wDestination # Nothing
    BY KeysAreApart
  <2> QED  BY <1>2, <2>1, KeysAreApart DEF Writes!isSuccess
<1>5. /\ wLesson = "payment" =>
           Writes!isSuccess(Source) /\ Writes!isSuccess(wDestination)
      /\ wLesson = "funding" => wDestination # Nothing
      /\ wLesson \notin {"payment", "funding"} => Writes!isSuccess(Source)
  BY <1>1 DEF Writes!SubmitEnabled
<1>6. SubmissionIsSound'
  BY <1>1, <1>2, <1>4, <1>5, KeysAreApart DEF SubmissionIsSound
<1>7. Writes!SubmissionsHaveAccounts'
  BY <1>1, <1>4, <1>5, FoundIsThere, KeysAreApart
  DEF Writes!SubmissionsHaveAccounts, Writes!HasSource
<1> QED  BY <1>1, <1>3, <1>6, <1>7, MutationForms, KnowledgeUnchanged
         DEF WritesIInv

LEMMA AppliedStep ==
  ASSUME WritesIInv, Writes!Applied
  PROVE  WritesIInv'
<1>1. /\ wTransaction.at = "pending"
      /\ UNCHANGED <<wLesson, wDestination, wQuery, wFunding, wTold>>
      /\ wTransaction \in TransactionType /\ wLesson \in Writes!Lessons
  BY DEF Writes!Applied, WritesIInv, Forms, TransactionType
<1>2. wLesson # "funding" => wLedger[Source] = 1
  BY <1>1 DEF WritesIInv, Forms, Writes!SubmissionsHaveAccounts,
     Writes!HasSource
<1>3. wLesson \in {"funding", "payment"} =>
        wTransaction.destination \in Writes!Accounts
  BY <1>1 DEF WritesIInv, Forms, SubmissionIsSound
<1>4. wLesson = "payment" => wLedger[wTransaction.destination] = 1
  BY <1>1 DEF WritesIInv, Forms, Writes!SubmissionsHaveAccounts,
     Writes!HasSource
<1>5. CASE wLesson = "payment"
  <2>1. wTransaction' = [wTransaction EXCEPT !.at = "applied"]
        /\ UNCHANGED wLedger
    BY <1>5 DEF Writes!Applied
  <2>2. /\ wTransaction' \in TransactionType
        /\ wTransaction'.destination = wTransaction.destination
    BY <1>1, <2>1 DEF TransactionType
  <2>3. SubmissionIsSound' /\ Writes!SubmissionsHaveAccounts'
    BY <1>1, <1>2, <1>3, <1>4, <1>5, <2>1, <2>2
    DEF SubmissionIsSound, Writes!SubmissionsHaveAccounts, Writes!HasSource
  <2> QED  BY <1>1, <2>1, <2>2, <2>3, MutationForms, KnowledgeUnchanged
           DEF WritesIInv
<1>6. CASE wLesson = "funding"
  <2>1. /\ wLedger[wTransaction.destination] = 1
        /\ wTransaction' = [wTransaction EXCEPT !.at = "applied", !.value = 1]
        /\ UNCHANGED wLedger
    BY <1>6 DEF Writes!Applied
  <2>2. /\ wTransaction' \in TransactionType /\ wTransaction'.value = 1
        /\ wTransaction'.destination = wTransaction.destination
    <3>1. 1 \in 0 .. Cap
      BY KeysAreApart
    <3> QED  BY <1>1, <2>1, <3>1 DEF TransactionType
  <2>3. SubmissionIsSound' /\ Writes!SubmissionsHaveAccounts'
    BY <1>1, <1>3, <1>6, <2>1, <2>2
    DEF SubmissionIsSound, Writes!SubmissionsHaveAccounts, Writes!HasSource,
        Writes!AffectedKey
  <2> QED  BY <1>1, <2>1, <2>2, <2>3, MutationForms, KnowledgeUnchanged
           DEF WritesIInv
<1>7. CASE wLesson \notin {"payment", "funding"}
  <2>1. /\ Writes!Increment
        /\ wTransaction' = [wTransaction EXCEPT !.at = "applied",
                                                !.value = wLedger'[Count]]
    BY <1>7 DEF Writes!Applied
  <2>2. /\ Knowledge' /\ wLedger'[Count] \in 0 .. Cap
        /\ \A a \in Writes!Accounts : wLedger'[a] = wLedger[a]
    BY <1>1, <2>1, IncrementIs
  <2>3. /\ wTransaction' \in TransactionType
        /\ wTransaction'.value = wLedger'[Count]
    BY <1>1, <2>1, <2>2 DEF TransactionType
  <2>4. wTransaction'.value <= wLedger'[Count]
    BY <2>2, <2>3
  <2>5. SubmissionIsSound'
    BY <1>1, <1>7, <2>4 DEF SubmissionIsSound, Writes!AffectedKey
  <2>6. Writes!SubmissionsHaveAccounts'
    BY <1>1, <1>2, <1>7, <2>2, KeysAreApart
    DEF Writes!SubmissionsHaveAccounts, Writes!HasSource
  <2> QED  BY <1>1, <2>2, <2>3, <2>5, <2>6, MutationForms DEF WritesIInv
<1> QED  BY <1>5, <1>6, <1>7

LEMMA ConfirmedStep ==
  ASSUME WritesIInv, Writes!Confirmed
  PROVE  WritesIInv'
<1> DEFINE k == Writes!AffectedKey
<1>1. /\ wTransaction.at = "applied"
      /\ UNCHANGED <<wLesson, wDestination, wFunding, wLedger>>
      /\ wTransaction \in TransactionType /\ wLesson \in Writes!Lessons
  BY DEF Writes!Confirmed, WritesIInv, Forms, TransactionType
<1>2. Forms'
  <2>1. wTransaction' \in TransactionType
        /\ wTransaction'.at \notin {"pending", "applied"}
    <3>1. [wTransaction EXCEPT !.at = "reading"] \in TransactionType
          /\ [wTransaction EXCEPT !.at = "reading"].at = "reading"
      BY <1>1 DEF TransactionType
    <3>2. wTransaction' = [wTransaction EXCEPT !.at = "reading"]
          \/ wTransaction' = Writes!Idle
      BY DEF Writes!Confirmed
    <3> QED  BY <3>1, <3>2, IdleIs
  <2> QED  BY <1>1, <2>1, MutationForms, NothingSubmitted DEF WritesIInv
<1>3. CASE wLesson \in {"payment", "soroban"}
  <2>1. UNCHANGED <<wQuery, wTold>>
    BY <1>3 DEF Writes!Confirmed
  <2> QED  BY <1>1, <1>2, <2>1, KnowledgeUnchanged DEF WritesIInv
<1>4. CASE wLesson \notin {"payment", "soroban"}
  <2>1. /\ wTold' = [wTold EXCEPT ![k] = wTransaction.value]
        /\ IF k \in Writes!Shown THEN Writes!refetch(k) ELSE UNCHANGED wQuery
    BY <1>4 DEF Writes!Confirmed, Writes!readAgain
  <2>2. k \in Writes!QueryKeys /\ (wLesson = "funding" => k \in Writes!Accounts)
    BY <1>1, <1>4, KeysAreApart
    DEF WritesIInv, Forms, SubmissionIsSound, Writes!AffectedKey
  <2>3. wLesson # "funding" => k \in Writes!Shown
    BY <1>1, <1>4, KeysAreApart
    DEF Writes!Lessons, Writes!AffectedKey, Writes!Shown, Writes!Counted
  <2>4. wTransaction.value <= wLedger[k] /\ wTransaction.value \in 0 .. Cap
    BY <1>1, <1>4 DEF WritesIInv, Forms, SubmissionIsSound, TransactionType
  <2>5. Knowledge
    BY DEF WritesIInv
  <2> HIDE DEF k
  <2>6. /\ wTold' = [j \in Writes!QueryKeys |-> wTold'[j]]
        /\ \A j \in Writes!QueryKeys : j # k => wTold'[j] = wTold[j]
        /\ wTold'[k] = wTransaction.value
    BY <2>1, <2>2, <2>5 DEF Knowledge
  <2>7. CASE k \in Writes!Shown
    <3>1. Knowledge'
      BY <1>1, <2>1, <2>2, <2>4, <2>5, <2>6, <2>7, RefetchKeeps, ShownUnchanged
    <3> QED  BY <1>2, <3>1 DEF WritesIInv
  <2>8. CASE k \notin Writes!Shown
    <3>1. UNCHANGED wQuery /\ k \in Writes!Accounts
      BY <2>1, <2>2, <2>3, <2>8
    <3>2. KeyIsSound(k, wQuery[k], wTold'[k], wLedger[k])
      <4>1. KeyIsSound(k, wQuery[k], wTold[k], wLedger[k])
        BY <2>2, <2>5 DEF Knowledge, KeysAreSound
      <4> QED  BY <2>4, <2>6, <3>1, <4>1, KeysAreApart DEF KeyIsSound, QueryType
    <3>3. KeysAreSound'
      BY <1>1, <2>5, <2>6, <3>1, <3>2 DEF Knowledge, KeysAreSound
    <3>4. Writes!ReadsFollowWrites'
      BY <1>1, <2>5, <2>6, <2>8, <3>1
      DEF Knowledge, Writes!ReadsFollowWrites, Writes!Shown,
          Writes!HasSource, Writes!HasDestination, Writes!Counted
    <3> QED  BY <1>1, <1>2, <2>5, <2>6, <3>1, <3>3, <3>4 DEF WritesIInv, Knowledge
  <2> QED  BY <2>7, <2>8
<1> QED  BY <1>3, <1>4

LEMMA MutationEndsStep ==
  ASSUME WritesIInv, Writes!SuccessShown \/ Writes!SubmissionFails
  PROVE  WritesIInv'
<1>1. /\ wTransaction' = Writes!Idle
      /\ UNCHANGED <<wLesson, wDestination, wQuery, wFunding, wLedger, wTold>>
  BY DEF Writes!SuccessShown, Writes!SubmissionFails
<1>2. wTransaction' \in TransactionType /\ wTransaction'.at = "idle"
  BY <1>1, IdleIs
<1> QED  BY <1>1, <1>2, NothingSubmitted, MutationForms, KnowledgeUnchanged
         DEF WritesIInv

LEMMA WritesInitially == Writes!Init => WritesIInv
<1> SUFFICES ASSUME Writes!Init PROVE WritesIInv
  OBVIOUS
<1>1. /\ wLesson \in Writes!Lessons /\ wDestination \in Recipients
      /\ wFunding = [f \in Writes!Fundings |-> Writes!Unused]
      /\ wTransaction = Writes!Idle
      /\ wTold = [k \in Writes!QueryKeys |-> 0]
      /\ wLedger \in [Writes!QueryKeys -> 0 .. 1]
  BY DEF Writes!Init
<1>2. Writes!Unused \in FundingType /\ Writes!Unused.at = "unused"
  BY KeysAreApart DEF Writes!Unused, FundingType
<1>3. Forms
  <2>1. Writes!FeedbackIsForTheAddress
    BY <1>1, <1>2 DEF Writes!FeedbackIsForTheAddress
  <2>2. SubmissionIsSound /\ Writes!SubmissionsHaveAccounts
    BY <1>1, IdleIs DEF SubmissionIsSound, Writes!SubmissionsHaveAccounts
  <2>3. wFunding \in [Writes!Fundings -> FundingType]
    BY <1>1, <1>2
  <2>4. wTransaction \in TransactionType
    BY <1>1, IdleIs
  <2> QED  BY <1>1, <2>1, <2>2, <2>3, <2>4 DEF Forms, FundingType, TransactionType
<1>4. \A k \in Writes!QueryKeys : wLedger[k] \in 0 .. 1 /\ wLedger[k] \in 0 .. Cap
  BY <1>1, KeysAreApart
<1>5. \A k \in Writes!QueryKeys :
        /\ wQuery[k] = [status |-> "pending", data |-> FALSE, value |-> 0,
                        late |-> FALSE,
                        read |-> [running |-> k \in Writes!Shown,
                                  since |-> IF k \in Writes!Shown
                                            THEN wLedger[k] ELSE 0]]
        /\ wTold[k] = 0
  BY <1>1 DEF Writes!Init
<1>6. KeysAreSound
  <2> SUFFICES ASSUME NEW k \in Writes!QueryKeys
               PROVE  KeyIsSound(k, wQuery[k], wTold[k], wLedger[k])
    BY DEF KeysAreSound
  <2> DEFINE s == IF k \in Writes!Shown THEN wLedger[k] ELSE 0
             b == k \in Writes!Shown
  <2>1. s \in 0 .. Cap /\ s <= wLedger[k] /\ wLedger[k] <= 1 /\ 0 <= wLedger[k]
    BY <1>4, KeysAreApart
  <2>2. wQuery[k] = [status |-> "pending", data |-> FALSE, value |-> 0,
                     late |-> FALSE, read |-> [running |-> b, since |-> s]]
    BY <1>5
  <2>3. b \in BOOLEAN
    OBVIOUS
  <2> HIDE DEF s, b
  <2>4. wQuery[k] \in QueryType /\ 0 \in 0 .. Cap
    BY <2>1, <2>2, <2>3, KeysAreApart DEF QueryType
  <2>5. /\ wQuery[k].status = "pending" /\ wQuery[k].data = FALSE
        /\ wQuery[k].value = 0 /\ wQuery[k].read.since = s
    BY <2>2
  <2>6. wTold[k] = 0
    BY <1>1
  <2> QED  BY <1>4, <2>1, <2>4, <2>5, <2>6 DEF KeyIsSound
<1>7. Writes!ReadsFollowWrites
  <2> SUFFICES ASSUME NEW k \in Writes!Shown, ~wQuery[k].read.running
               PROVE  FALSE
    BY DEF Writes!ReadsFollowWrites
  <2> DEFINE b == k \in Writes!Shown
             s == IF k \in Writes!Shown THEN wLedger[k] ELSE 0
  <2>1. b = TRUE
    OBVIOUS
  <2>2. k \in Writes!QueryKeys
    BY DEF Writes!Shown
  <2>3. wQuery[k] = [status |-> "pending", data |-> FALSE, value |-> 0,
                     late |-> FALSE, read |-> [running |-> b, since |-> s]]
    BY <1>5, <2>2
  <2> HIDE DEF b, s
  <2>4. wQuery[k].read.running = b
    BY <2>3
  <2> QED  BY <2>1, <2>4
<1>8. wQuery = [k \in Writes!QueryKeys |-> wQuery[k]]
  BY DEF Writes!Init
<1> QED  BY <1>1, <1>3, <1>6, <1>7, <1>8 DEF WritesIInv, Knowledge

LEMMA WritesStep == WritesIInv /\ [Writes!Next]_writeVars => WritesIInv'
<1>1. ASSUME WritesIInv, Writes!Next PROVE WritesIInv'
  BY <1>1, ReadStep, EditStep, CheckStep, FundStep, FriendbotStep, FundedStep,
     FundingFailsStep, SubmitStep, AppliedStep, ConfirmedStep,
     MutationEndsStep, OtherPageStep
  DEF Writes!Next
<1>2. ASSUME WritesIInv, UNCHANGED writeVars PROVE WritesIInv'
  <2>1. UNCHANGED <<wLesson, wDestination, wQuery, wFunding, wTransaction,
                    wLedger, wTold>>
    BY <1>2 DEF writeVars
  <2>2. SubmissionIsSound' /\ Writes!SubmissionsHaveAccounts'
    BY <1>2, <2>1 DEF WritesIInv, Forms, SubmissionIsSound,
       Writes!AffectedKey, Writes!SubmissionsHaveAccounts, Writes!HasSource
  <2>3. Forms'
    BY <1>2, <2>1, <2>2, MutationForms DEF WritesIInv, Forms, TransactionType
  <2> QED  BY <1>2, <2>1, <2>3, KnowledgeUnchanged DEF WritesIInv
<1> QED  BY <1>1, <1>2

LEMMA WritesShown == WritesIInv => Writes!WritesAreShown
  BY WritesTypes DEF WritesIInv, Forms, Knowledge, Writes!WritesAreShown

-----------------------------------------------------------------------------
(* Message signatures, for every wallet and every answer it may give.      *)

\* sign clears the display, and only the end of a request fills it.
DisplayIsCleared == Message!isPending => mSigned = Empty

\* What the wallet agrees with now has been seen since the approval, and so
\* has what the second check has found so far.
SeenGrows ==
  /\ mRequest.stage \in Message!Approved => Message!Agreement(mWallet) \subseteq mSeen
  /\ mRequest.stage = "networkAgain" /\ mRequest.address = Captured.address
       => "address" \in mSeen
  /\ mRequest.stage = "verification"
       => {"address", "network", "module"} \subseteq mSeen

PresenceInv ==
  Message!TypeOK /\ DisplayIsCleared /\ SeenGrows /\ Message!SeenAfterApproval

MessageIInv ==
  PresenceInv /\ Message!DisplayedSignatureVerifies /\ Message!VerdictDescribesForm

LEMMA MessageTypeStep == Message!TypeOK /\ [Message!Next]_messageVars => Message!TypeOK'
<1> SUFFICES ASSUME Message!TypeOK,
[Message!Next]_messageVars PROVE Message!TypeOK'
  OBVIOUS
<1>a. Captured \in Message!Identities /\ Captured.address \in Addresses
  BY MessageAssumption DEF Message!Identities
<1>r. Message!NoRequest \in [stage : Message!Stages,
message : Texts \cup {Empty},
                     address : Addresses \cup {Empty},
                     answer : Answers \cup {Message!NoAnswer}]
  BY DEF Message!NoRequest, Message!Stages
<1>s. \A answer \in Answers \cup {Message!NoAnswer} :
        answer.signedMessage \in Message!Signatures \cup {Garbled}
  BY MessageAssumption DEF Message!NoAnswer
<1>1. CASE UNCHANGED messageVars
  BY <1>1 DEF messageVars, Message!TypeOK
<1>2. CASE Message!sign
  BY <1>2, <1>r DEF Message!sign, Message!TypeOK, Message!Stages
<1>3. CASE Message!getAddress
  BY <1>3
  DEF Message!getAddress, Message!TypeOK, Message!Stages, Message!Identities
<1>4. CASE Message!AskWallet
  BY <1>4 DEF Message!AskWallet, Message!TypeOK, Message!Stages
<1>5. ASSUME NEW answer \in Answers,
Message!Approve(answer) PROVE Message!TypeOK'
  BY <1>5
  DEF Message!Approve, Message!TypeOK, Message!Stages, Message!Agreement
<1>6. CASE Message!Decode
  BY <1>6 DEF Message!Decode, Message!TypeOK, Message!Stages
<1>7. CASE Message!Accept
  <2>1. mRequest.answer.signedMessage \in Message!Signatures
    BY <1>7, <1>s DEF Message!Accept, Message!Acceptable, Message!TypeOK
  <2> QED  BY <1>7, <1>a, <1>r, <2>1 DEF Message!Accept, Message!TypeOK
<1>8. CASE Message!Throw
  BY <1>8, <1>r DEF Message!Throw, Message!TypeOK
<1>9. CASE Message!EditMessage
  BY <1>9 DEF Message!EditMessage, Message!TypeOK
<1>10. CASE Message!EditFields
  BY <1>10, <1>s DEF Message!EditFields, Message!TypeOK
<1>11. CASE Message!verify
  BY <1>11 DEF Message!verify, Message!TypeOK
<1>12. CASE Message!SwitchWallet
  BY <1>12 DEF Message!SwitchWallet, Message!TypeOK, Message!Agreement
<1> QED
  BY <1>1, <1>2, <1>3, <1>4, <1>5, <1>6, <1>7, <1>8, <1>9, <1>10, <1>11, <1>12
  DEF Message!Next

LEMMA MessageInitialType == Message!Init => Message!TypeOK
  BY MessageAssumption
  DEF Message!Init, Message!TypeOK, Message!NoRequest, Message!Stages

\* Whatever is displayed passes verification for the captured account.
LEMMA DisplayVerifies ==
  ASSUME Message!DisplayedSignatureVerifies, [Message!Next]_messageVars
  PROVE  Message!DisplayedSignatureVerifies'
<1>1. CASE UNCHANGED <<mSigned, mSubmitted>>
  BY <1>1 DEF Message!DisplayedSignatureVerifies, Message!verifyMessage
<1>2. CASE Message!sign
  BY <1>2 DEF Message!sign, Message!DisplayedSignatureVerifies
<1>3. CASE Message!Accept
  BY <1>3
  DEF Message!Accept, Message!Acceptable, Message!DisplayedSignatureVerifies,
      Message!verifyMessage
<1> QED
  BY <1>1, <1>2, <1>3
  DEF Message!Next, messageVars, Message!getAddress, Message!AskWallet,
      Message!Approve, Message!Decode, Message!Throw, Message!EditMessage,
      Message!EditFields, Message!verify, Message!SwitchWallet

\* A verdict describes the form it stands beside.
LEMMA VerdictDescribes ==
  ASSUME Message!VerdictDescribesForm, [Message!Next]_messageVars
  PROVE  Message!VerdictDescribesForm'
<1>1. CASE UNCHANGED <<mFields, mVerdict>>
  BY <1>1 DEF Message!VerdictDescribesForm, Message!verifyMessage
<1>2. CASE mVerdict' = "none"
  BY <1>2 DEF Message!VerdictDescribesForm
<1>3. CASE Message!verify
  BY <1>3
  DEF Message!verify, Message!VerdictDescribesForm, Message!verifyMessage
<1> QED
  BY <1>1, <1>2, <1>3
  DEF Message!Next, messageVars, Message!sign, Message!getAddress,
      Message!AskWallet, Message!Approve, Message!Decode, Message!Accept,
      Message!Throw, Message!EditMessage, Message!EditFields,
      Message!SwitchWallet

\* A signature is displayed only after the second check has found every part
\* of the captured identity.
LEMMA PresenceStep == PresenceInv /\ [Message!Next]_messageVars => PresenceInv'
<1> SUFFICES ASSUME PresenceInv, [Message!Next]_messageVars PROVE PresenceInv'
  OBVIOUS
<1>t. Message!TypeOK /\ Message!TypeOK'
  BY MessageTypeStep DEF PresenceInv
<1> USE DEF PresenceInv, DisplayIsCleared, Message!isPending,
            Message!SeenAfterApproval
<1>1. CASE UNCHANGED <<mWallet, mRequest, mSigned, mSeen>>
  BY <1>1, <1>t DEF SeenGrows, Message!Agreement, Message!Approved
<1>2. CASE mRequest' = Message!NoRequest /\ UNCHANGED <<mSigned, mSeen>>
  BY <1>2, <1>t DEF SeenGrows, Message!NoRequest, Message!Approved
<1>3. CASE Message!sign
  <2>1. mRequest'.stage = "address"
    BY <1>3 DEF Message!sign, Message!NoRequest
  <2> QED  BY <1>3, <1>t, <2>1 DEF Message!sign, SeenGrows, Message!Approved
<1>4. CASE Message!getAddress
  <2>1. mRequest'.stage = "network" \/ mRequest'.stage = "networkAgain"
    BY <1>4, <1>t DEF Message!getAddress, Message!TypeOK
  <2>2. mRequest'.stage = "networkAgain"
          => mRequest.stage = "addressAgain" /\ mRequest'.address = mWallet.address
    BY <1>4, <1>t DEF Message!getAddress, Message!TypeOK
  <2>3. mWallet.address = Captured.address => "address" \in Message!Agreement(mWallet)
    BY DEF Message!Agreement
  <2> QED
    BY <1>4, <1>t, <2>1, <2>2, <2>3
    DEF Message!getAddress, SeenGrows, Message!Approved, Message!Agreement
<1>5. CASE Message!AskWallet
  <2>1. mRequest'.stage = "approval"
    BY <1>5, <1>t DEF Message!AskWallet, Message!TypeOK
  <2> QED  BY <1>5, <1>t, <2>1
           DEF Message!AskWallet, SeenGrows, Message!Approved
<1>6. ASSUME NEW answer \in Answers, Message!Approve(answer) PROVE PresenceInv'
  <2>1. mRequest'.stage = "addressAgain"
    BY <1>6, <1>t DEF Message!Approve, Message!TypeOK
  <2> QED  BY <1>6, <1>t, <2>1
           DEF Message!Approve, SeenGrows, Message!Approved, Message!Agreement
<1>7. CASE Message!Decode
  <2>1. mRequest'.stage = "verification"
    BY <1>7, <1>t DEF Message!Decode, Message!TypeOK
  <2>2. "network" \in Message!Agreement(mWallet) /\ "module" \in Message!Agreement(mWallet)
    BY <1>7
    DEF Message!Decode, Message!IdentityChecked, Message!SameModule,
        Message!Agreement
  <2>3. {"address", "network", "module"} \subseteq mSeen
    BY <1>7, <2>2
    DEF Message!Decode, Message!IdentityChecked, SeenGrows, Message!Approved
  <2> QED
    BY <1>7, <1>t, <2>1, <2>3
    DEF Message!Decode, SeenGrows, Message!Approved, Message!Agreement
<1>8. CASE Message!Accept
  BY <1>8, <1>t
  DEF Message!Accept, SeenGrows, Message!NoRequest, Message!Approved
<1>9. CASE Message!SwitchWallet
  BY <1>9, <1>t
  DEF Message!SwitchWallet, SeenGrows, Message!Agreement, Message!Approved
<1> QED
  BY <1>1, <1>2, <1>3, <1>4, <1>5, <1>6, <1>7, <1>8, <1>9
  DEF Message!Next, messageVars, Message!Throw, Message!EditMessage,
      Message!EditFields, Message!verify

LEMMA MessageInitially == Message!Init => MessageIInv
<1> SUFFICES ASSUME Message!Init PROVE MessageIInv
  OBVIOUS
<1>1. Message!TypeOK
  BY MessageInitialType
<1>2. DisplayIsCleared /\ SeenGrows /\ Message!SeenAfterApproval
  BY DEF Message!Init, DisplayIsCleared, SeenGrows, Message!SeenAfterApproval,
     Message!isPending, Message!NoRequest, Message!Approved
<1>3. Message!DisplayedSignatureVerifies /\ Message!VerdictDescribesForm
  BY DEF Message!Init, Message!DisplayedSignatureVerifies,
     Message!VerdictDescribesForm
<1> QED  BY <1>1, <1>2, <1>3 DEF MessageIInv, PresenceInv

LEMMA MessageStep == MessageIInv /\ [Message!Next]_messageVars => MessageIInv'
  BY PresenceStep, DisplayVerifies, VerdictDescribes DEF MessageIInv

LEMMA MessageIsRight ==
  MessageIInv => Message!DisplayedSignatureIsRight /\ Message!VerdictDescribesForm
  BY DEF MessageIInv, PresenceInv, Message!DisplayedSignatureIsRight

-----------------------------------------------------------------------------
(* All pages.                                                              *)

WebIInv ==
  /\ IInv
  /\ shownPage = "session" => SessionIInv
  /\ shownPage = "writes" => WritesIInv
  /\ shownPage = "network" => Network!OneClock
  /\ shownPage = "message" => MessageIInv

LEMMA WebInitially == WebInit => WebIInv
  BY Initially, SessionInitially, WritesInitially, ClockInitially,
     MessageInitially
  DEF WebInit, InitSession, InitWrites, InitNetwork, InitMessage, WebIInv

LEMMA WebStep == WebIInv /\ [WebNext]_allVars => WebIInv'
<1> SUFFICES ASSUME WebIInv, [WebNext]_allVars PROVE WebIInv'
  OBVIOUS
<1>1. /\ UNCHANGED shownPage /\ [Next]_vars
      /\ shownPage = "session" => [Session!Next]_sessionVars
      /\ shownPage = "writes" => [Writes!Next]_writeVars
      /\ shownPage = "network" => [Network!Next]_networkVars
      /\ shownPage = "message" => [Message!Next]_messageVars
  BY DEF WebNext, allVars
<1>2. IInv'
  BY <1>1, SafetyStep DEF WebIInv
<1>3. shownPage = "session" => SessionIInv'
  BY <1>1, SessionStep DEF WebIInv
<1>4. shownPage = "writes" => WritesIInv'
  BY <1>1, WritesStep DEF WebIInv
<1>5. shownPage = "network" => Network!OneClock'
  BY <1>1, ClockStep DEF WebIInv
<1>6. shownPage = "message" => MessageIInv'
  BY <1>1, MessageStep DEF WebIInv
<1> QED  BY <1>1, <1>2, <1>3, <1>4, <1>5, <1>6 DEF WebIInv

LEMMA WebInvariant == WebSpec => []WebIInv
  BY WebInitially, WebStep, PTL DEF WebSpec

\* What is proved of the signer by itself holds on its page.
THEOREM SignerPage ==
  WebSpec => [](/\ LocalKeyIsLive /\ UnusedKeysAreGone
                /\ RequestKeepsItsKey /\ ReceiptMatchesSigner)
<1>1. WebIInv => IInv
  BY DEF WebIInv
<1> QED  BY <1>1, WhatSignersKeep, WebInvariant, PTL

\* auth-activity.ts and the session lessons: only the newest client's session
\* is alive, the requests under way are counted exactly, the newest entry
\* tells how the last discovery ended, however late answers arrive; and
\* overview.tsx has one clock.
THEOREM VisitsStayConsistent == WebSpec => []VisitIsConsistent
<1>1. WebIInv => VisitIsConsistent
  BY SessionConsistent DEF WebIInv, VisitIsConsistent
<1> QED  BY <1>1, WebInvariant, PTL

\* The lessons that write: what they submit has its accounts, what they show
\* at rest is no older than what they confirmed, and the setup controls fund
\* the address they name, for any recipients, fundings and count.
THEOREM WritesStayShown == WebSpec => []WritesAreShown
<1>1. WebIInv => WritesAreShown
  BY WritesShown DEF WebIInv, WritesAreShown
<1> QED  BY <1>1, WebInvariant, PTL

\* wallet-message-signer.ts and message.tsx: what is displayed is the
\* connected account's signature of the submitted message, made while that
\* account was the wallet's, for every answer of the wallet and every switch.
THEOREM DisplayIsRight == WebSpec => []DisplayedSignatureIsRight
<1>1. WebIInv => DisplayedSignatureIsRight
  BY MessageIsRight DEF WebIInv, DisplayedSignatureIsRight
<1> QED  BY <1>1, WebInvariant, PTL

\* message.tsx: a verdict is about the key, text and signature beside it.
THEOREM VerdictsDescribe == WebSpec => []VerdictDescribesForm
<1>1. WebIInv => VerdictDescribesForm
  BY MessageIsRight DEF WebIInv, VerdictDescribesForm
<1> QED  BY <1>1, WebInvariant, PTL
=============================================================================
