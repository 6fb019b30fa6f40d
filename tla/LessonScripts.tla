----------------------------- MODULE LessonScripts -----------------------------
(***************************************************************************)
(* One program of the repository's command-line lessons runs against a     *)
(* network of its own: a delegation lesson, a linear lesson, one with a    *)
(* prepared authorization, one with channel accounts, the passkey account  *)
(* of the SEP-45 lesson, or the commands of the reusable ledger.  The      *)
(* variables of the others stay unused.                                    *)
(***************************************************************************)
EXTENDS DelegationLesson

CONSTANTS
  MaxClock, Skew, None,                   \* of TestnetLesson
  MaxTime,                                \* of PreparedAuthorization
  Channels, Payments, NoChannel,          \* of ChannelPayments
  Terminals, MaxStarts, MaxSeconds,       \* of LedgerLifecycle
  FollowDelay,
  Payloads, MaxEntries                    \* of PasskeyAccount

ASSUME ScriptsAssumption ==
  /\ NoChannel \notin Channels
  /\ MaxTime \in Nat /\ MaxSeconds \in Nat
  /\ FollowDelay \in Nat

VARIABLES
  program,
  tLesson, tStep, tFailed, tSeen, tLedger, tSequence, tFees, tClosed, tClock,
  pLesson, pAt, pSequence, pRead, pPrepared, pSubmitted, pApplied,
  pInstalled, pNow,
  cBumped, cAt, cOpen, cFunded, cSequence, cStatus, cChannel, cSubmitted,
  cPaid, cLost,
  lCommand, lStep, lThrew, lReady, lRestarted, lSince, lState, lStarts,
  lOutput, lNow,
  kPublicKey, kPayload, kAsked, kSimulated

Linear == INSTANCE TestnetLesson
  WITH lesson <- tLesson, step <- tStep, failed <- tFailed, seen <- tSeen,
       ledger <- tLedger, sequence <- tSequence, fees <- tFees,
       closed <- tClosed, clock <- tClock

Prepared == INSTANCE PreparedAuthorization
  WITH lesson <- pLesson, at <- pAt, sequence <- pSequence, read <- pRead,
       prepared <- pPrepared, submitted <- pSubmitted, applied <- pApplied,
       installed <- pInstalled, now <- pNow

Pool == INSTANCE ChannelPayments
  WITH bumped <- cBumped, at <- cAt, open <- cOpen, funded <- cFunded,
       sequence <- cSequence, status <- cStatus, channel <- cChannel,
       submitted <- cSubmitted, paid <- cPaid, lost <- cLost

Ledger == INSTANCE LedgerLifecycle
  WITH MaxTime <- MaxSeconds,
       command <- lCommand, step <- lStep, threw <- lThrew, ready <- lReady,
       restarted <- lRestarted, since <- lSince, state <- lState,
       starts <- lStarts, output <- lOutput, now <- lNow

Passkey == INSTANCE PasskeyAccount
  WITH public_key <- kPublicKey, payload <- kPayload, asked <- kAsked,
       simulated <- kSimulated

ASSUME PayloadsAssumption == Passkey!PayloadsOK

linearVars ==
  <<tLesson, tStep, tFailed, tSeen, tLedger, tSequence, tFees, tClosed,
    tClock>>
preparedVars ==
  <<pLesson, pAt, pSequence, pRead, pPrepared, pSubmitted, pApplied,
    pInstalled, pNow>>
poolVars ==
  <<cBumped, cAt, cOpen, cFunded, cSequence, cStatus, cChannel, cSubmitted,
    cPaid, cLost>>
ledgerVars ==
  <<lCommand, lStep, lThrew, lReady, lRestarted, lSince, lState, lStarts,
    lOutput, lNow>>
passkeyVars == <<kPublicKey, kPayload, kAsked, kSimulated>>
allVars ==
  <<program, vars, linearVars, preparedVars, poolVars, ledgerVars,
    passkeyVars>>

Programs ==
  {"delegation", "linear", "prepared", "pool", "ledger", "passkey"}

Unused(v) == v = 0

InitDelegation ==
  IF program = "delegation" THEN Init
  ELSE /\ Unused(lesson) /\ Unused(step) /\ Unused(failed)
       /\ Unused(uploaded) /\ Unused(nested_delegates) /\ Unused(funded)
       /\ Unused(balance) /\ Unused(signed)

InitLinear ==
  IF program = "linear" THEN Linear!Init
  ELSE /\ Unused(tLesson) /\ Unused(tStep) /\ Unused(tFailed)
       /\ Unused(tSeen) /\ Unused(tLedger) /\ Unused(tSequence)
       /\ Unused(tFees) /\ Unused(tClosed) /\ Unused(tClock)

InitPrepared ==
  IF program = "prepared" THEN Prepared!Init
  ELSE /\ Unused(pLesson) /\ Unused(pAt) /\ Unused(pSequence)
       /\ Unused(pRead) /\ Unused(pPrepared) /\ Unused(pSubmitted)
       /\ Unused(pApplied) /\ Unused(pInstalled) /\ Unused(pNow)

InitPool ==
  IF program = "pool" THEN Pool!Init
  ELSE /\ Unused(cBumped) /\ Unused(cAt) /\ Unused(cOpen)
       /\ Unused(cFunded) /\ Unused(cSequence) /\ Unused(cStatus)
       /\ Unused(cChannel) /\ Unused(cSubmitted) /\ Unused(cPaid)
       /\ Unused(cLost)

InitLedger ==
  IF program = "ledger" THEN Ledger!Init
  ELSE /\ Unused(lCommand) /\ Unused(lStep) /\ Unused(lThrew)
       /\ Unused(lReady) /\ Unused(lRestarted) /\ Unused(lSince)
       /\ Unused(lState) /\ Unused(lStarts) /\ Unused(lOutput)
       /\ Unused(lNow)

InitPasskey ==
  IF program = "passkey" THEN Passkey!Init
  ELSE /\ Unused(kPublicKey) /\ Unused(kPayload)
       /\ Unused(kAsked) /\ Unused(kSimulated)

ScriptsInit ==
  /\ program \in Programs
  /\ InitDelegation /\ InitLinear /\ InitPrepared /\ InitPool /\ InitLedger
  /\ InitPasskey

ScriptsNext ==
  /\ \/ /\ program = "delegation" /\ Next
        /\ UNCHANGED <<linearVars, preparedVars, poolVars, ledgerVars,
                       passkeyVars>>
     \/ /\ program = "linear" /\ Linear!Next
        /\ UNCHANGED <<vars, preparedVars, poolVars, ledgerVars, passkeyVars>>
     \/ /\ program = "prepared" /\ Prepared!Next
        /\ UNCHANGED <<vars, linearVars, poolVars, ledgerVars, passkeyVars>>
     \/ /\ program = "pool" /\ Pool!Next
        /\ UNCHANGED <<vars, linearVars, preparedVars, ledgerVars, passkeyVars>>
     \/ /\ program = "ledger" /\ Ledger!Next
        /\ UNCHANGED <<vars, linearVars, preparedVars, poolVars, passkeyVars>>
     \/ /\ program = "passkey" /\ Passkey!Next
        /\ UNCHANGED <<vars, linearVars, preparedVars, poolVars, ledgerVars>>
  /\ UNCHANGED program

\* Each program's own: its awaited calls settle, a script that polls looks
\* at its clock again, and a run that has submitted settles.
ScriptsFairness ==
  /\ WF_vars(program = "delegation" /\ Perform)
  /\ WF_linearVars(program = "linear" /\ Linear!Settles)
  /\ WF_linearVars(program = "linear" /\ Linear!Tick)
  /\ WF_poolVars(program = "pool" /\ Pool!Script)
  /\ \A p \in Payments :
       /\ WF_poolVars(program = "pool" /\ \E c \in Channels : Pool!Submit(p, c))
       /\ WF_poolVars(program = "pool" /\ Pool!SettleSubmitted(p))

ScriptsSpec == ScriptsInit /\ [][ScriptsNext]_allVars /\ ScriptsFairness

-----------------------------------------------------------------------------
\* No script awaits a call that the ledger must refuse, expects a refusal
\* that does not come or reads another value than it prints: each one's order
\* of calls, amounts, signers and thresholds fit the ledger it builds.
CallsFitTheLedger ==
  /\ program = "delegation" => NoCallIsRefused
  /\ program = "linear" => Linear!NoSurprises

\* What a script announces at its end: 1 XLM left by its required signers,
\* nothing locked, nothing paid by who was sponsored.
EndsAsAnnounced ==
  /\ program = "delegation" => EndsWithOneXlm
  /\ program = "linear" => Linear!LeavesNothingBehind

\* Every script ends, even where a call throws, ledgers stop closing or
\* there are more payments than channels.
ScriptsEnd ==
  <>CASE program = "delegation" -> Done \/ failed
      [] program = "linear"     -> Linear!Done \/ Linear!Stopped
      [] program = "pool"       -> Pool!Ended
      [] OTHER                  -> TRUE

\* A transaction that was finalized first still fits its account when what
\* authorizes it is on the ledger, and payments made to disclose something
\* have disclosed it.
PreparedPaymentsWork ==
  program = "prepared" =>
    Prepared!PreparedTransactionFits /\ Prepared!PaymentDiscloses

\* Channels are left behind only by an opening whose answer was lost or by a
\* closing that failed, and none is merged under a run that needs it.
ChannelsServeTheirRuns ==
  program = "pool" => Pool!ChannelsAreClosed /\ Pool!RunsKeepTheirChannel

\* A restarted ledger has answered when its command ends, a disposable one is
\* destroyed once its beforeAll is through, whatever fails then, and the
\* follower a restart opens shows every line of the new start.
LedgerCommandsWork ==
  program = "ledger" => Ledger!EndsAsAnnounced /\ Ledger!NoLineIsMissed

\* The account's contract accepts what its client signs for the entry, of
\* whatever bytes, and nothing else that was ever signed; and a simulation
\* succeeds only if all whom the entry names agreed.
SimulationIsRight == program = "passkey" => Passkey!SimulationIsRight
=============================================================================
