------------------------- MODULE AuthOwnershipProofs -------------------------
(* Ownership of the SEP-10 fixture, for any number of servers.             *)
EXTENDS AuthOwnership, TLAPS

\* No server replaces itself: closing the old one leaves the new one open.
ReplacesAnother == \A s \in Servers : replaces[s] # s

IInv == TypeOK /\ OwnersServe /\ ServersAreOwners /\ ReplacesAnother

LEMMA Initially == Init => IInv
  BY OwnershipAssumption
  DEF Init, IInv, TypeOK, OwnersServe, ServersAreOwners, ReplacesAnother, Stages

\* Both ways to start a server.
LEMMA Started ==
  ASSUME IInv, NEW s \in Servers, ensureAuthServer(s),
         \/ UNCHANGED replaces
         \/ \E old \in Servers :
              /\ stage[old] = "listening"
              /\ replaces' = [replaces EXCEPT ![s] = old]
  PROVE  IInv'
<1>1. TypeOK'
  BY OwnershipAssumption DEF IInv, TypeOK, ensureAuthServer, Stages, Fixtures
<1>2. OwnersServe' /\ ServersAreOwners'
  BY OwnershipAssumption
  DEF IInv, TypeOK, ensureAuthServer, OwnersServe, ServersAreOwners
<1>3. ReplacesAnother'
  BY DEF IInv, TypeOK, ensureAuthServer, ReplacesAnother
<1> QED BY <1>1, <1>2, <1>3 DEF IInv

\* The steps of a start that only move its stage.
LEMMA Moved ==
  ASSUME IInv, NEW s \in Servers, UNCHANGED <<port, owned, replaces>>,
         NEW next \in Stages, stage' = [stage EXCEPT ![s] = next],
         s \in owned => next = "listening"
  PROVE  IInv'
  BY DEF IInv, TypeOK, OwnersServe, ServersAreOwners, ReplacesAnother

LEMMA Step == IInv /\ [Next]_vars => IInv'
<1> SUFFICES ASSUME IInv, [Next]_vars PROVE IInv'
  OBVIOUS
<1>1. CASE UNCHANGED vars
  BY <1>1
  DEF IInv, TypeOK, OwnersServe, ServersAreOwners, ReplacesAnother, vars
<1>2. ASSUME NEW s \in Servers, Launch(s) PROVE IInv'
  BY <1>2, Started DEF Launch
<1>3. ASSUME NEW old \in Servers, NEW s \in Servers, Restart(old, s) PROVE IInv'
  BY <1>3, Started DEF Restart
<1>4. ASSUME NEW s \in Servers, HealthAnswers(s) \/ ProbeEnds(s) \/ Listen(s)
      PROVE  IInv'
  <2>1. CASE HealthAnswers(s)
    <3>1. s \notin owned
      BY <2>1 DEF HealthAnswers, IInv, OwnersServe
    <3> QED BY <2>1, <3>1, Moved DEF HealthAnswers, Stages
  <2>2. CASE Reuse(s)
    <3>1. s \notin owned
      BY <2>2 DEF Reuse, IInv, OwnersServe
    <3> QED BY <2>2, <3>1, Moved DEF Reuse, Stages
  <2>3. CASE ProbeFails(s)
    <3>1. s \notin owned
      BY <2>3 DEF ProbeFails, IInv, OwnersServe
    <3> QED BY <2>3, <3>1, Moved DEF ProbeFails, Stages
  <2>4. CASE Listen(s)
    BY <2>4, Moved DEF Listen, Stages
  <2> QED BY <1>4, <2>1, <2>2, <2>3, <2>4 DEF ProbeEnds
<1>5. ASSUME NEW s \in Servers, HandOver(s) PROVE IInv'
  <2>1. replaces[s] \in Servers /\ replaces[s] # s
    BY <1>5 DEF HandOver, IInv, TypeOK, ReplacesAnother
  <2>2. TypeOK'
    BY <1>5, <2>1 DEF HandOver, Close, IInv, TypeOK, Stages
  <2>3. OwnersServe' /\ ServersAreOwners'
    BY <1>5, <2>1, OwnershipAssumption
    DEF HandOver, Close, IInv, TypeOK, OwnersServe, ServersAreOwners
  <2> QED BY <1>5, <2>2, <2>3 DEF HandOver, IInv, ReplacesAnother
<1>6. ASSUME NEW s \in Servers, Exit(s) PROVE IInv'
  <2>1. TypeOK'
    BY <1>6 DEF Exit, Close, IInv, TypeOK, Stages
  <2>2. OwnersServe' /\ ServersAreOwners'
    BY <1>6, OwnershipAssumption
    DEF Exit, Close, IInv, TypeOK, OwnersServe, ServersAreOwners
  <2> QED BY <1>6, <2>1, <2>2 DEF Exit, IInv, ReplacesAnother
<1>7. ASSUME NEW o \in Standalones \cup Strangers, OthersBind(o) PROVE IInv'
  BY <1>7, OwnershipAssumption
  DEF OthersBind, IInv, TypeOK, OwnersServe, ServersAreOwners,
      ReplacesAnother, Fixtures
<1>8. CASE OthersLeave
  BY <1>8, OwnershipAssumption
  DEF OthersLeave, IInv, TypeOK, OwnersServe, ServersAreOwners, ReplacesAnother
<1> QED BY <1>1, <1>2, <1>3, <1>4, <1>5, <1>6, <1>7, <1>8 DEF Next

LEMMA Invariance == Spec => []IInv
  BY Initially, Step, PTL DEF Spec

\* At most one Vite server owns a fixture; it is open and its fixture is the
\* one on the port.
THEOREM OwnersAlwaysServe == Spec => []OwnersServe
<1>1. IInv => OwnersServe
  BY DEF IInv
<1> QED BY Invariance, <1>1, PTL

LEMMA Stopping ==
  ASSUME IInv, [Next]_vars, port' # port
  PROVE  /\ port \in Servers => stage'[port] = "closed"
         /\ port \in Standalones => UNCHANGED stage
<1>1. ASSUME NEW s \in Servers, ensureAuthServer(s) PROVE port = NoOne
  BY <1>1 DEF ensureAuthServer
<1>2. ASSUME NEW s \in Servers, HandOver(s)
      PROVE  port \in Servers /\ stage'[port] = "closed"
  BY <1>2
  DEF HandOver, Close, IInv, TypeOK, ReplacesAnother
<1>3. ASSUME NEW s \in Servers, Exit(s)
      PROVE  port \in Servers /\ stage'[port] = "closed"
  BY <1>3 DEF Exit, Close, IInv, TypeOK
<1>4. \/ \E s \in Servers : ensureAuthServer(s) \/ HandOver(s) \/ Exit(s)
      \/ \E o \in Standalones \cup Strangers : OthersBind(o)
      \/ OthersLeave
  BY DEF Next, vars, Launch, Restart, HealthAnswers, ProbeEnds, Reuse,
         ProbeFails, Listen
<1> QED
  BY <1>1, <1>2, <1>3, <1>4, OwnershipAssumption DEF OthersBind, OthersLeave

\* No Vite server stops a fixture it does not own.
THEOREM OnlyOwnersStop == Spec => StoppedByOwner
<1>1. IInv /\ [Next]_vars =>
        [port' # port =>
           /\ port \in Servers => stage'[port] = "closed"
           /\ port \in Standalones => UNCHANGED stage]_vars
  BY Stopping
<1> QED BY Invariance, <1>1, PTL DEF Spec, StoppedByOwner

=============================================================================
