---------------------------- MODULE LedgerLifecycle ---------------------------
(***************************************************************************)
(* The scripts of src/examples/stellar-test-ledger/ and the containers     *)
(* they share: one reusable ledger that is started, used, restarted and    *)
(* stopped by separate commands, which two terminals may run at once, and  *)
(* the disposable one of the integration test.                             *)
(*                                                                         *)
(* With --logs a command also follows the container's output.  Docker ends *)
(* a follower when its container stops and replays, for a new one, what    *)
(* was printed since the second it names.                                  *)
(***************************************************************************)
EXTENDS Integers, Sequences

CONSTANTS
  Terminals,   \* each runs one command
  MaxStarts,   \* bound on how often a container starts
  MaxTime,     \* bound on the clock, in seconds
  FollowDelay  \* seconds from a restart to the follower it is for

Containers == {"reusable", "disposable"}

VARIABLES
  command,     \* of each terminal: the calls it awaits, in their order
  step,        \* the call it awaits
  threw,       \* those of its calls that threw
  ready,       \* the start of its container it last saw ready
  restarted,   \* the start its own restart made
  since,       \* what its last follower asked for
  state,       \* of each container
  starts,      \* how often it has started
  output,      \* when its current start has printed a line
  now

terminals == <<command, step, threw, ready, restarted, since>>
containers == <<state, starts, output>>
vars == <<command, step, threw, ready, restarted, since, state, starts,
          output, now>>

-----------------------------------------------------------------------------
(* The commands. *)

Logs(on) == IF on THEN <<"follow">> ELSE <<>>

StartLedger == <<"start", "details">>

RunTransactions(logs) ==
  <<"attach">> \o Logs(logs)
    \o <<"details", "fund sender", "fund receiver", "pay 25", "pay 5 back",
         "set options">>

\* Mutant of RestartLedger: it does not attach again.
RestartLedgerAtOnce(logs) ==
  <<"attach">> \o Logs(logs) \o <<"restart">> \o Logs(logs) \o <<"details">>

\* The container is attached to again, so that its services are ready.
RestartLedger(logs) ==
  <<"attach">> \o Logs(logs) \o <<"restart">> \o Logs(logs)
    \o <<"attach", "details">>

StopLedger(logs) == <<"attach">> \o Logs(logs) \o <<"stop">>

IntegrationTest ==
  <<"start", "details", "test payment", "test settings", "stop", "destroy">>

Commands ==
  {StartLedger, IntegrationTest} \cup
  UNION {{RunTransactions(logs), RestartLedger(logs), StopLedger(logs)} :
           logs \in BOOLEAN}

-----------------------------------------------------------------------------
IsTest(t) == command[t] = IntegrationTest
Container(t) == IF IsTest(t) THEN "disposable" ELSE "reusable"
Ended(t) == step[t] > Len(command[t])
Awaits(t, call) == ~Ended(t) /\ command[t][step[t]] = call
Runs(c) == state[c] \in {"starting", "ready"}

Init ==
  /\ command \in [Terminals -> Commands]
  /\ \A t, u \in Terminals : IsTest(t) /\ IsTest(u) => t = u
  /\ step = [t \in Terminals |-> 1]
  /\ threw = [t \in Terminals |-> {}]
  /\ ready = [t \in Terminals |-> 0]
  /\ restarted = [t \in Terminals |-> 0]
  /\ since = [t \in Terminals |-> 0]
  /\ \E reusable \in {"absent", "stopped", "ready"} :
       state = [reusable |-> reusable, disposable |-> "absent"]
  /\ starts = [c \in Containers |-> 0]
  /\ output = [c \in Containers |-> {}]
  /\ now = 1

Answered(t) ==
  /\ step' = [step EXCEPT ![t] = @ + 1]
  /\ UNCHANGED <<command, threw>>

\* What a test awaits in beforeAll.
BeforeAll == {"start", "details"}

\* The calls a throw does not end: those of a test whose beforeAll is through.
GoesOn(t) == IsTest(t) /\ command[t][step[t]] \notin BeforeAll

\* Mutant of AfterThrow: afterAll without its try and finally.
AfterThrowWithoutFinally(t) ==
  IF GoesOn(t) /\ ~Awaits(t, "stop") THEN step[t] + 1 ELSE Len(command[t]) + 1

\* A command ends when a call throws, and so does a test whose beforeAll
\* throws: its afterAll is not run.  After that, the second test follows the
\* first, afterAll both, and destroy stop, whatever they throw.
AfterThrow(t) == IF GoesOn(t) THEN step[t] + 1 ELSE Len(command[t]) + 1

Throw(t) ==
  /\ ~Ended(t)
  /\ step' = [step EXCEPT ![t] = AfterThrow(t)]
  /\ threw' = [threw EXCEPT ![t] = @ \cup {command[t][step[t]]}]
  /\ UNCHANGED <<command, ready, restarted, since, containers, now>>

-----------------------------------------------------------------------------
(* The calls. *)

\* Starts the container, unless it runs, and waits for its services.
StartContainer(t) ==
  /\ Awaits(t, "start")
  /\ ~Runs(Container(t)) /\ starts[Container(t)] < MaxStarts
  /\ state' = [state EXCEPT ![Container(t)] = "starting"]
  /\ starts' = [starts EXCEPT ![Container(t)] = @ + 1]
  /\ output' = [output EXCEPT ![Container(t)] = {}]
  /\ UNCHANGED <<terminals, now>>

\* start() returns: the container's services answer.
Attach(t) ==
  /\ Awaits(t, "start") \/ Awaits(t, "attach")
  /\ state[Container(t)] = "ready"
  /\ ready' = [ready EXCEPT ![t] = starts[Container(t)]]
  /\ Answered(t)
  /\ UNCHANGED <<restarted, since, containers, now>>

\* Mutant of Follow: since this second.
FollowFromNow(t) ==
  /\ Awaits(t, "follow")
  /\ Runs(Container(t))
  /\ since' = [since EXCEPT ![t] = now]
  /\ Answered(t)
  /\ UNCHANGED <<ready, restarted, containers, now>>

Follow(t) ==
  /\ Awaits(t, "follow")
  /\ Runs(Container(t))
  /\ since' = [since EXCEPT ![t] = now - 1]
  /\ Answered(t)
  /\ UNCHANGED <<ready, restarted, containers, now>>

\* Docker's own restart also starts a container that another command stopped,
\* and returns before the services answer.
Restart(t) ==
  /\ Awaits(t, "restart")
  /\ state["reusable"] # "absent" /\ starts["reusable"] < MaxStarts
  /\ state' = [state EXCEPT !["reusable"] = "starting"]
  /\ starts' = [starts EXCEPT !["reusable"] = @ + 1]
  /\ output' = [output EXCEPT !["reusable"] = {now}]
  /\ restarted' = [restarted EXCEPT ![t] = starts'["reusable"]]
  /\ Answered(t)
  /\ UNCHANGED <<ready, since, now>>

Stop(t) ==
  /\ Awaits(t, "stop")
  /\ Runs(Container(t))
  /\ state' = [state EXCEPT ![Container(t)] = "stopped"]
  /\ Answered(t)
  /\ UNCHANGED <<ready, restarted, since, starts, output, now>>

Destroy(t) ==
  /\ Awaits(t, "destroy")
  /\ state' = [state EXCEPT ![Container(t)] = "absent"]
  /\ Answered(t)
  /\ UNCHANGED <<ready, restarted, since, starts, output, now>>

\* What needs the services and leaves them as they are.
Use(t) ==
  /\ \E call \in {"details", "fund sender", "fund receiver", "pay 25",
                  "pay 5 back", "set options", "test payment",
                  "test settings"} : Awaits(t, call)
  /\ state[Container(t)] = "ready"
  /\ Answered(t)
  /\ UNCHANGED <<ready, restarted, since, containers, now>>

-----------------------------------------------------------------------------
BecomeReady(c) ==
  /\ state[c] = "starting"
  /\ state' = [state EXCEPT ![c] = "ready"]
  /\ UNCHANGED <<terminals, starts, output, now>>

\* A restart's second follower comes within FollowDelay.
FollowsRestart(t) == Awaits(t, "follow") /\ restarted[t] > 0

Tick ==
  /\ now < MaxTime
  /\ \E t \in Terminals : restarted[t] > 0 /\ ~Ended(t)
  /\ \A t \in Terminals :
       FollowsRestart(t) => \A line \in output["reusable"] :
                              now - line < FollowDelay
  /\ now' = now + 1
  /\ UNCHANGED <<terminals, containers>>

Command(t) ==
  \/ StartContainer(t) \/ Attach(t) \/ Follow(t) \/ Restart(t) \/ Stop(t)
  \/ Destroy(t) \/ Use(t) \/ Throw(t)

Next ==
  \/ \E t \in Terminals : Command(t)
  \/ \E c \in Containers : BecomeReady(c)
  \/ Tick

Spec == Init /\ [][Next]_vars

-----------------------------------------------------------------------------
\* A restart that ends well has seen the services of what it started.  A test
\* that got past beforeAll has had its container destroyed when it ends, unless
\* destroy failed, whatever its tests and stop threw.
EndsAsAnnounced ==
  \A t \in Terminals :
    Ended(t) =>
      /\ restarted[t] > 0 /\ threw[t] = {} => ready[t] >= restarted[t]
      /\ IsTest(t) /\ threw[t] \cap (BeforeAll \cup {"destroy"}) = {}
           => state["disposable"] = "absent"

\* The follower a restart opens shows every line of the new start.
NoLineIsMissed ==
  \A t \in Terminals :
    restarted[t] = starts["reusable"] /\ since[t] > 0
      /\ (Awaits(t, "attach") \/ Awaits(t, "details"))
      => \A line \in output["reusable"] : line >= since[t]
=============================================================================
