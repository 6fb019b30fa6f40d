----------------------------- MODULE LessonWrites ------------------------------
(***************************************************************************)
(* The web lessons that write to the ledger and show what they read:       *)
(* classic-payment.tsx, invoke.tsx, wallet-invoke.tsx, soroban.tsx,        *)
(* mutation.tsx and components/testnet-account-setup.tsx, all under        *)
(* src/examples/web/src/.  One visit of one lesson, with one signer.       *)
(*                                                                         *)
(* The ledger and the query hooks are external.  Assumed of the ledger: an *)
(* account that exists stays, and a read that begins after a write was     *)
(* confirmed sees it.  Assumed of a query: it keeps its data when a read   *)
(* fails; a refetch restarts the read that is running if there is data,    *)
(* and waits for it otherwise.                                             *)
(***************************************************************************)
EXTENDS Integers

CONSTANTS
  Source,      \* the address of the signer
  Recipients,  \* what may be typed as the other account
  Nothing,     \* a text that is no address
  Count,       \* the key of getCount
  Cap,         \* the counter refuses to count further: 100
  MaxFundings  \* bounds the uses of Friendbot

VARIABLES
  lesson,
  destination,  \* the text field
  query,        \* the query of each key
  funding,      \* each use of the setup controls
  transaction,  \* the lesson's mutation
  ledger,       \* 1 for an account that exists; the count
  told          \* history: what the reader has been told is on the ledger

vars ==
  <<lesson, destination, query, funding, transaction, ledger, told>>

Lessons == {"payment", "invoke", "wallet-invoke", "soroban", "funding"}
Accounts == {Source} \cup (Recipients \ {Nothing})
QueryKeys == Accounts \cup {Count}
Fundings == 1 .. MaxFundings

Counted == lesson \in {"invoke", "wallet-invoke"}
HasSource == lesson # "funding"
HasDestination == lesson \in {"payment", "funding"}

\* The keys with an observer.
Shown ==
  {k \in QueryKeys : \/ k = Source /\ HasSource
                     \/ k = destination /\ HasDestination
                     \/ k = Count /\ Counted}

NoRead == [running |-> FALSE, since |-> 0]
Unused == [at |-> "unused", address |-> Source, slot |-> "source",
           own |-> FALSE]
Ended == [Unused EXCEPT !.at = "ended"]
Idle == [at |-> "idle", destination |-> Nothing, value |-> 0]

TypeOK ==
  /\ lesson \in Lessons
  /\ destination \in Recipients
  /\ query \in [QueryKeys ->
       [status : {"pending", "success", "missing", "failed"},
        data : BOOLEAN, value : 0 .. Cap, late : BOOLEAN,
        read : [running : BOOLEAN, since : 0 .. Cap]]]
  /\ funding \in [Fundings ->
       [at : {"unused", "running", "ended"}, address : Accounts,
        slot : {"source", "recipient"}, own : BOOLEAN]]
  /\ transaction \in [at : {"idle", "pending", "applied", "reading"},
                      destination : Recipients \cup {Nothing}, value : 0 .. Cap]
  /\ ledger \in [QueryKeys -> 0 .. Cap]
  /\ told \in [QueryKeys -> 0 .. Cap]

-----------------------------------------------------------------------------
(* The queries *)

Started(k, q) ==
  [q EXCEPT !.read = [running |-> TRUE, since |-> ledger[k]],
            !.status = IF q.data THEN @ ELSE "pending"]

\* refetch, and what invalidating does to a key that is shown.
Refetched(k, q) == IF q.read.running /\ ~q.data THEN q ELSE Started(k, q)

refetch(k) == query' = [query EXCEPT ![k] = Refetched(k, @)]

isSuccess(k) == k \in QueryKeys /\ query[k].status = "success"

\* The page was shown again, or the connection returned.
Background(k) ==
  /\ k \in Shown
  /\ ~query[k].read.running
  /\ refetch(k)
  /\ UNCHANGED <<lesson, destination, funding, transaction, ledger, told>>

\* An answer is from some moment of the read.  A first read that began
\* before a write of which the reader has been told is late.
Answer(k) ==
  /\ query[k].read.running
  /\ \E v \in query[k].read.since .. ledger[k] :
       LET found == k = Count \/ v > 0
       IN  query' = [query EXCEPT ![k] =
             [status |-> IF found THEN "success" ELSE "missing",
              data |-> found \/ @.data, value |-> v,
              late |-> ~@.data /\ @.read.since < told[k], read |-> NoRead]]
  /\ UNCHANGED <<lesson, destination, funding, transaction, ledger, told>>

ReadFails(k) ==
  /\ query[k].read.running
  /\ query' = [query EXCEPT ![k].status = "failed", ![k].read = NoRead]
  /\ UNCHANGED <<lesson, destination, funding, transaction, ledger, told>>

-----------------------------------------------------------------------------
(* The forms *)

Init ==
  /\ lesson \in Lessons
  /\ destination \in Recipients
  /\ \E known \in [QueryKeys -> 0 .. 1] : ledger = known
  /\ query = [k \in QueryKeys |->
       [status |-> "pending", data |-> FALSE, value |-> 0, late |-> FALSE,
        read |-> [running |-> k \in Shown,
                  since |-> IF k \in Shown THEN ledger[k] ELSE 0]]]
  /\ funding = [f \in Fundings |-> Unused]
  /\ transaction = Idle
  /\ told = [k \in QueryKeys |-> 0]

\* The recipient's setup controls are keyed by the address.
Remounted ==
  [f \in Fundings |->
     [funding[f] EXCEPT !.own = @ /\ funding[f].slot = "source"]]

\* setDestination, from the field or from createRecipient.  A query without
\* data is read when it is shown; one with data may be.
Edit(text) ==
  /\ HasDestination /\ text # destination
  /\ destination' = text
  /\ funding' = Remounted
  /\ IF text = Nothing \/ query[text].read.running
     THEN UNCHANGED query
     ELSE \/ refetch(text)
          \/ query[text].data /\ UNCHANGED query
  /\ UNCHANGED <<lesson, transaction, ledger, told>>

-----------------------------------------------------------------------------
(* TestnetAccountSetup *)

\* The account a fieldset is for.
Current(slot) == IF slot = "source" THEN Source ELSE destination

Slots ==
  (IF HasSource THEN {"source"} ELSE {})
    \cup (IF lesson = "payment" THEN {"recipient"} ELSE {})

\* `pending' is state of the controls that are mounted.
SetupPending(slot) ==
  \E f \in Fundings :
    funding[f].at = "running" /\ funding[f].slot = slot /\ funding[f].own

SetupEnabled(slot) ==
  /\ slot \in Slots
  /\ Current(slot) # Nothing
  /\ ~SetupPending(slot)
  /\ ~query[Current(slot)].read.running

CheckAccount(slot) ==
  /\ SetupEnabled(slot)
  /\ refetch(Current(slot))
  /\ UNCHANGED <<lesson, destination, funding, transaction, ledger, told>>

fund(slot, f) ==
  /\ SetupEnabled(slot)
  /\ funding[f].at = "unused"
  /\ \A g \in Fundings : g < f => funding[g].at # "unused"
  /\ funding' = [funding EXCEPT ![f] =
       [at |-> "running", address |-> Current(slot), slot |-> slot,
        own |-> TRUE]]
  /\ UNCHANGED <<lesson, destination, query, transaction, ledger, told>>

FriendbotCreates(address) ==
  /\ ledger[address] = 0
  /\ \/ \E f \in Fundings :
          funding[f].at = "running" /\ funding[f].address = address
     \/ /\ lesson = "funding" /\ transaction.at = "pending"
        /\ transaction.destination = address
  /\ ledger' = [ledger EXCEPT ![address] = 1]
  /\ UNCHANGED <<lesson, destination, query, funding, transaction, told>>

\* account.refetch is the observer's: of the address that is typed by now.
\* Controls that are gone tell the reader nothing.
Funded(f) ==
  /\ funding[f].at = "running"
  /\ ledger[funding[f].address] = 1
  /\ funding' = [funding EXCEPT ![f] = Ended]
  /\ told' = [told EXCEPT ![funding[f].address] =
                IF funding[f].own THEN 1 ELSE @]
  /\ LET k == Current(funding[f].slot)
     IN  IF k = Nothing THEN UNCHANGED query ELSE refetch(k)
  /\ UNCHANGED <<lesson, destination, transaction, ledger>>

\* Friendbot refuses, or the account does not appear in time.
FundingFails(f) ==
  /\ funding[f].at = "running"
  /\ funding' = [funding EXCEPT ![f] = Ended]
  /\ UNCHANGED <<lesson, destination, query, transaction, ledger, told>>

-----------------------------------------------------------------------------
(* The mutations *)

SubmitEnabled ==
  CASE lesson = "payment" -> isSuccess(Source) /\ isSuccess(destination)
    [] lesson = "funding" -> destination # Nothing
    [] OTHER              -> isSuccess(Source)

Submit ==
  /\ transaction.at = "idle"
  /\ SubmitEnabled
  /\ transaction' = [at |-> "pending", destination |-> destination,
                     value |-> 0]
  /\ UNCHANGED <<lesson, destination, query, funding, ledger, told>>

\* The contract counts for this page or another.
Increment ==
  /\ ledger[Count] < Cap
  /\ ledger' = [ledger EXCEPT ![Count] = @ + 1]

Applied ==
  /\ transaction.at = "pending"
  /\ CASE lesson = "payment" ->
            /\ transaction' = [transaction EXCEPT !.at = "applied"]
            /\ UNCHANGED ledger
       [] lesson = "funding" ->
            /\ ledger[transaction.destination] = 1
            /\ transaction' = [transaction EXCEPT !.at = "applied",
                                                  !.value = 1]
            /\ UNCHANGED ledger
       [] OTHER ->
            /\ Increment
            /\ transaction' = [transaction EXCEPT !.at = "applied",
                                                  !.value = ledger'[Count]]
  /\ UNCHANGED <<lesson, destination, query, funding, told>>

OtherPageIncrements ==
  /\ Counted
  /\ Increment
  /\ UNCHANGED <<lesson, destination, query, funding, transaction, told>>

\* What onSuccess invalidates or refetches.
AffectedKey == IF lesson = "funding" THEN transaction.destination ELSE Count

\* Mutant of readAgain: a read that is running already will do.
readOnce(k) == IF query[k].read.running THEN UNCHANGED query ELSE refetch(k)

readAgain(k) == refetch(k)

\* The mutation stays pending while what onSuccess returned does: the read,
\* which invalidating awaits if the key is shown.
Confirmed ==
  /\ transaction.at = "applied"
  /\ IF lesson \in {"payment", "soroban"}
     THEN UNCHANGED <<query, told>>
     ELSE /\ told' = [told EXCEPT ![AffectedKey] = transaction.value]
          /\ IF AffectedKey \in Shown THEN readAgain(AffectedKey)
             ELSE UNCHANGED query
  /\ transaction' =
       IF lesson \in {"invoke", "funding"} /\ AffectedKey \in Shown
       THEN [transaction EXCEPT !.at = "reading"] ELSE Idle
  /\ UNCHANGED <<lesson, destination, funding, ledger>>

SuccessShown ==
  /\ transaction.at = "reading"
  /\ ~query[AffectedKey].read.running
  /\ transaction' = Idle
  /\ UNCHANGED <<lesson, destination, query, funding, ledger, told>>

\* Maybe after it was applied.
SubmissionFails ==
  /\ transaction.at \in {"pending", "applied"}
  /\ transaction' = Idle
  /\ UNCHANGED <<lesson, destination, query, funding, ledger, told>>

Next ==
  \/ \E k \in QueryKeys : Background(k) \/ Answer(k) \/ ReadFails(k)
  \/ \E text \in Recipients : Edit(text)
  \/ \E slot \in Slots :
       CheckAccount(slot) \/ \E f \in Fundings : fund(slot, f)
  \/ \E a \in Accounts : FriendbotCreates(a)
  \/ \E f \in Fundings : Funded(f) \/ FundingFails(f)
  \/ Submit \/ Applied \/ Confirmed \/ SuccessShown \/ SubmissionFails
  \/ OtherPageIncrements

Spec == Init /\ [][Next]_vars

-----------------------------------------------------------------------------
\* Nothing is submitted for a source, or paid to a recipient, that is not on
\* the ledger, whatever was typed, read or funded in between.
SubmissionsHaveAccounts ==
  HasSource /\ transaction.at \in {"pending", "applied"} =>
    /\ ledger[Source] = 1
    /\ lesson = "payment" => ledger[transaction.destination] = 1

\* What is shown at rest is no older than the writes the page has confirmed,
\* unless the read failed or was a late first one.
ReadsFollowWrites ==
  \A k \in Shown :
    LET q == query[k]
    IN  ~q.read.running /\ q.status # "failed" /\ ~q.late =>
          q.value >= told[k]

\* Controls that say they are funding fund the account they name.
FeedbackIsForTheAddress ==
  \A f \in Fundings :
    funding[f].at = "running" /\ funding[f].own =>
      funding[f].address = Current(funding[f].slot)

WritesAreShown ==
  /\ TypeOK
  /\ SubmissionsHaveAccounts /\ ReadsFollowWrites /\ FeedbackIsForTheAddress
=============================================================================
