------------------------------ MODULE WebSession ------------------------------
(***************************************************************************)
(* The two WebAuth lessons of the web application and their activity log:  *)
(* src/examples/web/src/examples/sessions/ and src/setup/auth-activity.ts. *)
(*                                                                         *)
(* One visit of a lesson.  A discovery makes a client, each client of the  *)
(* session lesson a session, and a login is a request for a challenge, a   *)
(* signature and a request that exchanges it.  The reader may refresh the  *)
(* discovery while the signature is awaited, log out or leave at any       *)
(* moment, and answers arrive later all the same.                          *)
(*                                                                         *)
(* WebAuthSession, useWebAuth and the query hook are external.  Assumed of *)
(* them: a session that was ended or destroyed ignores the answer of its   *)
(* login, and every successful discovery makes a new client.               *)
(***************************************************************************)
EXTENDS Integers, Sequences, FiniteSets

CONSTANTS
  MaxClients,  \* bounds the successful discoveries
  Retained     \* how many entries the log keeps

VARIABLES
  lesson,     \* "client" or "session"
  shown,      \* it is on the page
  entries,    \* the log
  pending,    \* HTTP requests it counts
  discovery,  \* the query
  session,    \* React's state, a session named by its client; 0 for none
  status,     \* of each session
  login       \* of each session, how far its exchange is

vars == <<lesson, shown, entries, pending, discovery, session, status, login>>

Clients == 1 .. MaxClients

Messages ==
  {"progress", "discovered", "undiscovered", "authenticating",
   "authenticated", "incomplete", "cleared", "failed"}

TypeOK ==
  /\ lesson \in {"client", "session"}
  /\ shown \in BOOLEAN
  /\ entries \in Seq(Messages) /\ Len(entries) <= Retained
  /\ pending \in Int
  /\ discovery \in [at : {"off", "request", "answered", "unanswered", "idle"},
                    status : {"pending", "success", "error"},
                    data : 0 .. MaxClients]
  /\ session \in 0 .. MaxClients
  /\ status \in [Clients -> {"none", "anonymous", "authenticating",
                             "authenticated", "destroyed"}]
  /\ login \in [Clients -> {"none", "challenge", "answered", "unanswered",
                            "signing", "exchange", "exchanged"}]

-----------------------------------------------------------------------------
(* auth-activity.ts *)

busy == pending > 0

\* The log after some messages, oldest first.
Recorded(messages) ==
  LET all == entries \o messages
  IN  SubSeq(all, Len(all) - (IF Len(all) < Retained THEN Len(all)
                              ELSE Retained) + 1, Len(all))

record(messages) == entries' = IF shown THEN Recorded(messages) ELSE entries

\* The forwarding fetch: up to the request, and its two ends.
Send == pending' = IF shown THEN pending + 1 ELSE pending
Settled == pending' = IF shown THEN pending - 1 ELSE pending

\* Mutant of Rejected: only an answer counts the request off.
RejectedUncounted == pending' = pending
Rejected == Settled

clear ==
  /\ shown
  /\ ~busy /\ entries # <<>>
  /\ entries' = <<>>
  /\ UNCHANGED <<lesson, shown, pending, discovery, session, status, login>>

-----------------------------------------------------------------------------
(* Discovery *)

isFetching == discovery.at \in {"request", "answered", "unanswered"}

Init ==
  /\ lesson \in {"client", "session"}
  /\ shown = TRUE
  /\ discovery = [at |-> IF lesson = "session" THEN "request" ELSE "off",
                  status |-> "pending", data |-> 0]
  /\ pending = IF lesson = "session" THEN 1 ELSE 0
  /\ entries = IF lesson = "session" THEN <<"progress">> ELSE <<>>
  /\ session = 0
  /\ status = [c \in Clients |-> "none"]
  /\ login = [c \in Clients |-> "none"]

\* The buttons of both lessons; the session's looks at the log too.
RefreshEnabled == shown /\ ~isFetching /\ (lesson = "session" => ~busy)

Refresh ==
  /\ RefreshEnabled
  /\ discovery.data < MaxClients
  /\ discovery' = [discovery EXCEPT !.at = "request"]
  /\ Send
  /\ record(<<"progress">>)
  /\ UNCHANGED <<lesson, shown, session, status, login>>

DiscoveryAnswered ==
  /\ discovery.at = "request"
  /\ \/ discovery' = [discovery EXCEPT !.at = "answered"] /\ Settled
     \/ discovery' = [discovery EXCEPT !.at = "unanswered"] /\ Rejected
  /\ record(<<"progress">>)
  /\ UNCHANGED <<lesson, shown, session, status, login>>

\* Authentication is mounted between discoveries that succeeded.
AuthenticationShown ==
  shown /\ session # 0 /\ discovery.at = "idle" /\ discovery.status = "success"

\* What its effect tells of a status that is now anonymous.
Ended(before) ==
  CASE before = "authenticating" -> <<"incomplete">>
    [] before = "authenticated"  -> <<"cleared">>
    [] OTHER                     -> <<>>

\* Mutant of SessionEffect: without a cleanup.
SessionEffectAlone(client) ==
  /\ session' = client
  /\ status' = [status EXCEPT ![client] = "anonymous"]

\* The effect for a new client, after the cleanup of the one before.
SessionEffect(client) ==
  /\ session' = client
  /\ status' = [c \in Clients |->
                  CASE c = client  -> "anonymous"
                    [] c = session -> "destroyed"
                    [] OTHER       -> status[c]]

\* The render that has the new client mounts Authentication on the old
\* session; then the effects run, and the next render has the new one.
DiscoverySucceeds ==
  /\ discovery.at = "answered"
  /\ shown
  /\ LET client == discovery.data + 1
     IN  /\ discovery' = [at |-> "idle", status |-> "success",
                          data |-> client]
         /\ IF lesson = "session"
            THEN /\ SessionEffect(client)
                 /\ record(<<"discovered">> \o
                           IF session = 0 THEN <<>> ELSE Ended(status[session]))
            ELSE /\ record(<<"discovered">>)
                 /\ UNCHANGED <<session, status>>
  /\ UNCHANGED <<lesson, shown, pending, login>>

\* A failed refresh keeps the client, and with it the session.
DiscoveryFails ==
  /\ discovery.at \in {"answered", "unanswered"}
  /\ shown
  /\ discovery' = [discovery EXCEPT !.at = "idle", !.status = "error"]
  /\ record(<<"undiscovered">>)
  /\ UNCHANGED <<lesson, shown, pending, session, status, login>>

-----------------------------------------------------------------------------
(* One login.  What Authentication records it records while it is mounted. *)

Observed(c, before, after) ==
  IF AuthenticationShown /\ c = session /\ before # after
  THEN IF after = "anonymous" THEN Ended(before) ELSE <<after>>
  ELSE <<>>

\* authentication.isPending keeps the button disabled until the login ends.
authenticate ==
  /\ AuthenticationShown
  /\ login[session] = "none"
  /\ login' = [login EXCEPT ![session] = "challenge"]
  /\ status' = [status EXCEPT ![session] = "authenticating"]
  /\ Send
  /\ record(Observed(session, status[session], "authenticating")
              \o <<"progress">>)
  /\ UNCHANGED <<lesson, shown, discovery, session>>

LoginAnswered(c) ==
  /\ \/ login[c] = "challenge" /\ login' = [login EXCEPT ![c] = "answered"]
     \/ login[c] = "exchange" /\ login' = [login EXCEPT ![c] = "exchanged"]
  /\ Settled
  /\ record(<<"progress">>)
  /\ UNCHANGED <<lesson, shown, discovery, session, status>>

LoginUnanswered(c) ==
  /\ login[c] \in {"challenge", "exchange"}
  /\ login' = [login EXCEPT ![c] = "unanswered"]
  /\ Rejected
  /\ record(<<"progress">>)
  /\ UNCHANGED <<lesson, shown, discovery, session, status>>

\* recordedSigner.signTransaction, before and after the signer.
AskSigner(c) ==
  /\ login[c] = "answered"
  /\ login' = [login EXCEPT ![c] = "signing"]
  /\ record(<<"progress">>)
  /\ UNCHANGED <<lesson, shown, pending, discovery, session, status>>

Exchange(c) ==
  /\ login[c] = "signing"
  /\ login' = [login EXCEPT ![c] = "exchange"]
  /\ Send
  /\ record(<<"progress", "progress">>)
  /\ UNCHANGED <<lesson, shown, discovery, session, status>>

Accept(c) ==
  /\ login[c] = "exchanged"
  /\ status[c] = "authenticating"
  /\ login' = [login EXCEPT ![c] = "none"]
  /\ status' = [status EXCEPT ![c] = "authenticated"]
  /\ record(Observed(c, status[c], "authenticated"))
  /\ UNCHANGED <<lesson, shown, pending, discovery, session>>

\* The challenge, the signer or the token is refused, or nobody waits for
\* the answer any more.  onError is the mutation's and runs unmounted too.
LoginFails(c) ==
  /\ login[c] \in {"answered", "unanswered", "signing", "exchanged"}
  /\ login' = [login EXCEPT ![c] = "none"]
  /\ LET after == IF status[c] = "authenticating" THEN "anonymous"
                  ELSE status[c]
     IN  /\ status' = [status EXCEPT ![c] = after]
         /\ record(<<"failed">> \o Observed(c, status[c], after))
  /\ UNCHANGED <<lesson, shown, pending, discovery, session>>

\* Ended by the token's expiry or with the identity at any moment, or by the
\* button that logs out.
SessionEnds(c) ==
  /\ status[c] \in {"authenticating", "authenticated"}
  /\ status' = [status EXCEPT ![c] = "anonymous"]
  /\ record(Observed(c, status[c], "anonymous"))
  /\ UNCHANGED <<lesson, shown, pending, discovery, session, login>>

\* Also a change of the signer, which remounts the lesson.  The visit's state
\* is gone; its requests go on.
Leave ==
  /\ shown
  /\ shown' = FALSE
  /\ entries' = <<>> /\ pending' = 0 /\ session' = 0
  /\ status' = [c \in Clients |->
                  IF c = session THEN "destroyed" ELSE status[c]]
  /\ UNCHANGED <<lesson, discovery, login>>

DiscoverySettles == DiscoverySucceeds \/ DiscoveryFails
LoginRequestSettles(c) == LoginAnswered(c) \/ LoginUnanswered(c)

Next ==
  \/ clear \/ Refresh \/ DiscoveryAnswered \/ DiscoverySettles
  \/ authenticate \/ Leave
  \/ \E c \in Clients :
       \/ LoginRequestSettles(c) \/ AskSigner(c) \/ Exchange(c)
       \/ Accept(c) \/ LoginFails(c) \/ SessionEnds(c)

\* Requests are aborted after ten seconds, and what the SDK makes of an
\* answer takes no one else.  Nothing is assumed of signers.
Fairness ==
  /\ WF_vars(DiscoveryAnswered)
  /\ WF_vars(DiscoverySettles)
  /\ \A c \in Clients : WF_vars(LoginRequestSettles(c))

Spec == Init /\ [][Next]_vars /\ Fairness

-----------------------------------------------------------------------------
\* The one session not destroyed is that of the newest client, which the
\* page shows and can log out: no token outlives a refresh or the visit,
\* however late its login is answered.
LessonOwnsItsSession ==
  \A c \in Clients :
    status[c] \notin {"none", "destroyed"} =>
      shown /\ c = session /\ c = discovery.data

\* The lesson counts exactly its requests that are under way, of the
\* discovery and of every login, those of destroyed sessions included.
BusyIsRight ==
  shown =>
    pending = Cardinality({c \in Clients :
                             login[c] \in {"challenge", "exchange"}})
              + (IF discovery.at = "request" THEN 1 ELSE 0)

\* Between discoveries the newest entry about one tells how it ended.
DiscoveryIsTold ==
  LET told == {i \in DOMAIN entries :
                 entries[i] \in {"discovered", "undiscovered"}}
      newest == CHOOSE i \in told : \A j \in told : j <= i
  IN  discovery.at = "idle" /\ told # {} =>
        (entries[newest] = "discovered") = (discovery.status = "success")

VisitIsConsistent ==
  TypeOK /\ LessonOwnsItsSession /\ BusyIsRight /\ DiscoveryIsTold

\* A discovery that was started can be started again.
RefreshComesBack == discovery.at # "off" ~> RefreshEnabled \/ ~shown
=============================================================================
