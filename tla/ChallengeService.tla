-------------------------- MODULE ChallengeService --------------------------
(***************************************************************************)
(* What the local authentication servers promise to their clients, without *)
(* clocks, RPC calls or signatures: a challenge is issued once, stays open *)
(* until it is redeemed or lapses, and is redeemed by at most one          *)
(* exchange.  AuthServer (SEP-10) and Sep45Server implement this.          *)
(***************************************************************************)
EXTENDS Naturals, FiniteSets

CONSTANTS
  Challenges,   \* the challenges that can ever be issued
  Requests,     \* the POST /auth exchanges
  MaxPending,   \* how many challenges may be open at once
  NoChallenge   \* what an exchange without a token holds

VARIABLES
  status,       \* the life of each challenge
  holder        \* the challenge each exchange turned into a token

vars == <<status, holder>>

Status == {"unissued", "open", "redeemed", "lapsed"}

TypeOK ==
  /\ status \in [Challenges -> Status]
  /\ holder \in [Requests -> Challenges \cup {NoChallenge}]

Open == {c \in Challenges : status[c] = "open"}

Init ==
  /\ status = [c \in Challenges |-> "unissued"]
  /\ holder = [r \in Requests |-> NoChallenge]

\* Open challenges may lapse at any moment: expiry and restarts are not told
\* apart here.
Lapse(gone) ==
  [c \in Challenges |-> IF c \in gone THEN "lapsed" ELSE status[c]]

Forget(gone) ==
  /\ status' = Lapse(gone)
  /\ UNCHANGED holder

\* Expired challenges are dropped before the capacity is tested.
Issue(gone, c) ==
  /\ status[c] = "unissued"
  /\ Cardinality(Open \ gone) < MaxPending
  /\ status' = [Lapse(gone) EXCEPT ![c] = "open"]
  /\ UNCHANGED holder

Redeem(r, c) ==
  /\ status[c] = "open"
  /\ holder[r] = NoChallenge
  /\ status' = [status EXCEPT ![c] = "redeemed"]
  /\ holder' = [holder EXCEPT ![r] = c]

Next ==
  \/ \E gone \in SUBSET Open : Forget(gone)
  \/ \E gone \in SUBSET Open, c \in Challenges : Issue(gone, c)
  \/ \E r \in Requests, c \in Challenges : Redeem(r, c)

Spec == Init /\ [][Next]_vars

-----------------------------------------------------------------------------

\* No two exchanges hold a token for the same challenge: a challenge buys one
\* authentication, whoever presents it and however often.
AtMostOnce ==
  \A r, s \in Requests :
    holder[r] = holder[s] /\ holder[r] # NoChallenge => r = s

\* What makes AtMostOnce inductive: a challenge somebody holds is redeemed,
\* so no later step can redeem it.
HeldIsRedeemed ==
  \A r \in Requests : holder[r] # NoChallenge => status[holder[r]] = "redeemed"

=============================================================================
