----------------------------- MODULE LedgerRefresh -----------------------------
(***************************************************************************)
(* The refresh schedule of the network lesson:                             *)
(* src/examples/web/src/examples/network/overview.tsx.  One clock counts   *)
(* down to the next request, and the effect that owns it starts it anew    *)
(* whenever the option or the state of the request changes.                *)
(*                                                                         *)
(* The query is external.  Assumed of it: a request that is started        *)
(* offline is paused until the connection returns, one that was sent       *)
(* settles, and each of these states is rendered before the next.          *)
(***************************************************************************)
EXTENDS Integers

CONSTANTS Wait  \* the ticks of one countdown, 5 seconds of 250 ms

VARIABLES
  shown,        \* the lesson is on the page
  autoRefresh,  \* the option
  fetchStatus,  \* of the query
  timer,        \* ticks that are left; 0 when there is no timer
  online

vars == <<shown, autoRefresh, fetchStatus, timer, online>>

TypeOK ==
  /\ shown \in BOOLEAN /\ autoRefresh \in BOOLEAN /\ online \in BOOLEAN
  /\ fetchStatus \in {"idle", "fetching", "paused"}
  /\ timer \in 0 .. Wait

isFetching == fetchStatus = "fetching"

\* Mutant of Effect: it depends on the option alone.
EffectOfOption(auto, status) ==
  IF auto # autoRefresh THEN (IF auto /\ status = "idle" THEN Wait ELSE 0)
  ELSE IF timer = 1 THEN 0 ELSE timer

\* The timer after a render whose dependencies have these values.
Effect(auto, status) == IF auto /\ status = "idle" THEN Wait ELSE 0

\* refetch, and the effect after it.
Request ==
  /\ fetchStatus' = IF online THEN "fetching" ELSE "paused"
  /\ timer' = Effect(autoRefresh, fetchStatus')

Init ==
  /\ shown = TRUE /\ autoRefresh = FALSE /\ timer = 0
  /\ online \in BOOLEAN
  /\ fetchStatus = IF online THEN "fetching" ELSE "paused"

setAutoRefresh ==
  /\ shown
  /\ autoRefresh' = ~autoRefresh
  /\ timer' = Effect(autoRefresh', fetchStatus)
  /\ UNCHANGED <<shown, fetchStatus, online>>

\* The button.  A request that is paused stays as it is.
Refetch ==
  /\ shown /\ fetchStatus = "idle"
  /\ Request
  /\ UNCHANGED <<shown, autoRefresh, online>>

\* The interval's callback.
Tick ==
  /\ timer > 0
  /\ IF timer > 1
     THEN timer' = timer - 1 /\ UNCHANGED fetchStatus
     ELSE Request
  /\ UNCHANGED <<shown, autoRefresh, online>>

\* With data or, without a retry, with an error.
Settles ==
  /\ isFetching
  /\ fetchStatus' = "idle"
  /\ timer' = IF shown THEN Effect(autoRefresh, "idle") ELSE 0
  /\ UNCHANGED <<shown, autoRefresh, online>>

GoOffline ==
  /\ online
  /\ online' = FALSE
  /\ UNCHANGED <<shown, autoRefresh, fetchStatus, timer>>

\* A paused request goes on.
GoOnline ==
  /\ ~online
  /\ online' = TRUE
  /\ fetchStatus' = IF fetchStatus = "paused" THEN "fetching" ELSE fetchStatus
  /\ UNCHANGED <<shown, autoRefresh, timer>>

Leave ==
  /\ shown
  /\ shown' = FALSE /\ timer' = 0
  /\ UNCHANGED <<autoRefresh, fetchStatus, online>>

Next ==
  \/ setAutoRefresh \/ Refetch \/ Tick \/ Settles
  \/ GoOffline \/ GoOnline \/ Leave

Spec == Init /\ [][Next]_vars /\ WF_vars(Tick) /\ WF_vars(Settles)

-----------------------------------------------------------------------------
\* A timer runs exactly while the page says "Next refresh in": never beside
\* a request, never for an option that is off or a lesson that was left.
OneClock ==
  TypeOK /\ (timer > 0 <=> shown /\ autoRefresh /\ fetchStatus = "idle")

\* While the option is on, every settled request is followed by another, or
\* waits for the connection.
RefreshesGoOn ==
  shown /\ autoRefresh ~> fetchStatus # "idle" \/ ~autoRefresh \/ ~shown
=============================================================================
