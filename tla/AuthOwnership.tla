---------------------------- MODULE AuthOwnership ----------------------------
(***************************************************************************)
(* Who runs the SEP-10 fixture: src/examples/web/auth-server/vite.ts and   *)
(* main.ts.  Every Vite server tries to bind port 8787; one that finds the *)
(* port taken asks its owner whether it is a fixture, reuses it if it is   *)
(* and gives up otherwise.  A server that bound the port shuts its fixture *)
(* down when it closes.                                                    *)
(*                                                                         *)
(* A restart of Vite (web/README.md:106) configures the new server before  *)
(* it closes the old one, in the same process.                             *)
(***************************************************************************)
EXTENDS FiniteSets

CONSTANTS
  Servers,      \* Vite servers, dev or preview: one per launch or restart
  Standalones,  \* deno task auth
  Strangers,    \* other services that may use the port
  NoOne

ASSUME OwnershipAssumption ==
  /\ NoOne \notin Servers \cup Standalones \cup Strangers
  /\ Servers \cap (Standalones \cup Strangers) = {}
  /\ Standalones \cap Strangers = {}

VARIABLES
  port,      \* who listens on 8787
  stage,     \* how far each Vite server is
  owned,     \* the servers whose ensureAuthServer returned a fixture
  replaces   \* the server a restart is to replace, or the launched process

vars == <<port, stage, owned, replaces>>

Fixtures == Servers \cup Standalones

\* "probing" awaits /health, "answered" awaits its body.
Stages == {"unborn", "probing", "answered", "configured", "listening", "closed"}

TypeOK ==
  /\ port \in Fixtures \cup Strangers \cup {NoOne}
  /\ stage \in [Servers -> Stages]
  /\ owned \subseteq Servers
  /\ replaces \in [Servers -> Servers \cup {NoOne}]

Init ==
  /\ port = NoOne
  /\ stage = [s \in Servers |-> "unborn"]
  /\ owned = {}
  /\ replaces = [s \in Servers |-> NoOne]

-----------------------------------------------------------------------------

Starting == {"probing", "answered", "configured"}

\* ensureAuthServer up to its first await.
ensureAuthServer(s) ==
  /\ stage[s] = "unborn"
  /\ IF port = NoOne
     THEN /\ port' = s
          /\ owned' = owned \cup {s}
          /\ stage' = [stage EXCEPT ![s] = "configured"]
     ELSE /\ stage' = [stage EXCEPT ![s] = "probing"]
          /\ UNCHANGED <<port, owned>>

Launch(s) == ensureAuthServer(s) /\ UNCHANGED replaces

Replaced(old) == \E t \in Servers : replaces[t] = old /\ stage[t] \in Starting

\* .env.local or the configuration changed.
Restart(old, s) ==
  /\ stage[old] = "listening"
  /\ ~Replaced(old)
  /\ ensureAuthServer(s)
  /\ replaces' = [replaces EXCEPT ![s] = old]

\* A fixture answers the health check; a stranger's answer counts as none.
HealthAnswers(s) ==
  /\ stage[s] = "probing"
  /\ port \in Fixtures
  /\ stage' = [stage EXCEPT ![s] = "answered"]
  /\ UNCHANGED <<port, owned, replaces>>

\* Mutant of Reuse: the fixture that was found is taken for one's own.
ReuseOwning(s) ==
  /\ stage[s] = "answered"
  /\ stage' = [stage EXCEPT ![s] = "configured"]
  /\ owned' = owned \cup {s}
  /\ UNCHANGED <<port, replaces>>

Reuse(s) ==
  /\ stage[s] = "answered"
  /\ stage' = [stage EXCEPT ![s] = "configured"]
  /\ UNCHANGED <<port, owned, replaces>>

\* Mutant of ProbeFails: the probe has no deadline.
ProbeFailsWithoutDeadline(s) ==
  /\ stage[s] \in {"probing", "answered"}
  /\ port = NoOne
  /\ stage' = [stage EXCEPT ![s] = "closed"]
  /\ UNCHANGED <<port, owned, replaces>>

\* Refused, cut off, another answer, or two seconds without any: a launch
\* ends with an error, a restart leaves the old server running.
ProbeFails(s) ==
  /\ stage[s] \in {"probing", "answered"}
  /\ stage' = [stage EXCEPT ![s] = "closed"]
  /\ UNCHANGED <<port, owned, replaces>>

\* Mutant of Close: a fixture that is merely reused is shut down as well.
CloseEverything(gone) ==
  /\ owned' = owned \ gone
  /\ port' = NoOne

\* The "close" callbacks of these servers, or the end of their process.
Close(gone) ==
  /\ owned' = owned \ gone
  /\ port' = IF port \in owned \cap gone THEN NoOne ELSE port

Listen(s) ==
  /\ stage[s] = "configured"
  /\ replaces[s] = NoOne
  /\ stage' = [stage EXCEPT ![s] = "listening"]
  /\ UNCHANGED <<port, owned, replaces>>

\* The end of a restart: Vite closes the old server, the new one listens.
HandOver(s) ==
  /\ stage[s] = "configured"
  /\ replaces[s] # NoOne
  /\ Close({replaces[s]})
  /\ stage' = [stage EXCEPT ![replaces[s]] = "closed", ![s] = "listening"]
  /\ UNCHANGED replaces

\* The servers of a process: one, or two while it restarts.
Process(s) == {s} \cup {t \in Servers : replaces[t] = s /\ stage[t] \in Starting}

Exit(s) ==
  /\ \/ stage[s] = "listening"
     \/ stage[s] \in Starting /\ replaces[s] = NoOne
  /\ Close(Process(s))
  /\ stage' = [t \in Servers |-> IF t \in Process(s) THEN "closed" ELSE stage[t]]
  /\ UNCHANGED replaces

\* main.ts, or another service, binds the port or fails to.
OthersBind(o) ==
  /\ port = NoOne
  /\ port' = o
  /\ UNCHANGED <<stage, owned, replaces>>

OthersLeave ==
  /\ port \in Standalones \cup Strangers
  /\ port' = NoOne
  /\ UNCHANGED <<stage, owned, replaces>>

ProbeEnds(s) == Reuse(s) \/ ProbeFails(s)

Next ==
  \/ \E s \in Servers :
       Launch(s) \/ HealthAnswers(s) \/ ProbeEnds(s) \/ Listen(s)
         \/ HandOver(s) \/ Exit(s)
  \/ \E old, s \in Servers : Restart(old, s)
  \/ \E o \in Standalones \cup Strangers : OthersBind(o)
  \/ OthersLeave

Spec == Init /\ [][Next]_vars

\* The deadline of the probe passes.
FairSpec == Spec /\ \A s \in Servers : WF_vars(ProbeEnds(s))

-----------------------------------------------------------------------------

\* A server that owns a fixture is up and its fixture is the one on the port:
\* nobody else can have taken the port, and no two servers own one.
OwnersServe ==
  \A s \in owned : port = s /\ stage[s] \in {"configured", "listening"}

\* And a fixture that a Vite server bound has that server for an owner.
ServersAreOwners == port \in Servers => port \in owned

\* vite.ts:4 "Own and close the server when this Vite process starts it. Reuse
\* ... without taking ownership or stopping it": the step that stops a fixture
\* closes the server that owns it, and a fixture started by deno task auth
\* stops in no step of a Vite server.
StoppedByOwner ==
  [][port' # port =>
       /\ port \in Servers => stage'[port] = "closed"
       /\ port \in Standalones => UNCHANGED stage]_vars

\* vite.ts:5 "A busy port with an unrelated service produces a startup error,
\* not silent failure": every probe ends, also against a service that accepts
\* the connection and never answers.
ProbesEnd ==
  \A s \in Servers :
    (stage[s] \in {"probing", "answered"}) ~> (stage[s] \in {"configured", "closed"})

\* web/README.md:29 "Dev also starts the local SEP-10 fixture": a restart, which
\* README.md:106 tells the reader to expect, leaves a fixture if there was one.
RestartKeepsFixture ==
  [][\A s \in Servers :
       /\ replaces[s] # NoOne
       /\ stage[s] = "configured"
       /\ stage'[s] = "listening"
       /\ port \in Fixtures
       => port' \in Fixtures]_vars

=============================================================================
