------------------------------ MODULE WebLessons -------------------------------
(***************************************************************************)
(* One visit of one page of the web application.  "signer" is the part     *)
(* that lessons with a signer share; the others are lessons.  The          *)
(* variables of the other pages stay unused, and those of the signer at    *)
(* their initial values.                                                   *)
(***************************************************************************)
EXTENDS LessonSigner

CONSTANTS
  MaxClients, Retained,                  \* of WebSession
  Source, Recipients, Nothing, Count,    \* of LessonWrites
  Cap, MaxFundings,
  Wait,                                  \* of LedgerRefresh
  Addresses, Networks, Modules,          \* of MessageLesson
  Texts, Answers, Captured, Empty, Garbled

ASSUME WebAssumption ==
  /\ MaxClients \in Nat \ {0}
  /\ Retained \in Nat \ {0}
  /\ Nothing # Source
  /\ Count \notin Recipients \cup {Source, Nothing}
  /\ Cap \in Nat \ {0}
  /\ MaxFundings \in Nat
  /\ Wait \in Nat \ {0}

VARIABLES
  shownPage,
  sLesson, sShown, sEntries, sPending, sDiscovery, sSession, sStatus, sLogin,
  wLesson, wDestination, wQuery, wFunding, wTransaction, wLedger, wTold,
  rShown, rAuto, rFetch, rTimer, rOnline,
  mWallet, mRequest, mMessage, mSigned, mFields, mVerdict, mSubmitted, mSeen

Session == INSTANCE WebSession
  WITH lesson <- sLesson, shown <- sShown, entries <- sEntries,
       pending <- sPending, discovery <- sDiscovery, session <- sSession,
       status <- sStatus, login <- sLogin

Writes == INSTANCE LessonWrites
  WITH lesson <- wLesson, destination <- wDestination, query <- wQuery,
       funding <- wFunding, transaction <- wTransaction, ledger <- wLedger,
       told <- wTold

Network == INSTANCE LedgerRefresh
  WITH shown <- rShown, autoRefresh <- rAuto, fetchStatus <- rFetch,
       timer <- rTimer, online <- rOnline

Message == INSTANCE MessageLesson
  WITH account <- Captured, wallet <- mWallet, request <- mRequest,
       message <- mMessage, signed <- mSigned, fields <- mFields,
       verdict <- mVerdict, submitted <- mSubmitted, seen <- mSeen

ASSUME MessageAssumption ==
  /\ Captured \in Message!Identities
  /\ Answers \subseteq [signerAddress : Addresses \cup {Empty},
                        signedMessage : Message!Signatures \cup {Garbled}]
  /\ Empty # Garbled
  /\ {Empty, Garbled} \cap (Addresses \cup Texts \cup Message!Signatures) = {}

sessionVars ==
  <<sLesson, sShown, sEntries, sPending, sDiscovery, sSession, sStatus,
    sLogin>>
writeVars ==
  <<wLesson, wDestination, wQuery, wFunding, wTransaction, wLedger, wTold>>
networkVars == <<rShown, rAuto, rFetch, rTimer, rOnline>>
messageVars ==
  <<mWallet, mRequest, mMessage, mSigned, mFields, mVerdict, mSubmitted, mSeen>>
allVars ==
  <<shownPage, vars, sessionVars, writeVars, networkVars, messageVars>>

Unused(v) == v = 0

InitSession ==
  IF shownPage = "session" THEN Session!Init
  ELSE /\ Unused(sLesson) /\ Unused(sShown) /\ Unused(sEntries)
       /\ Unused(sPending) /\ Unused(sDiscovery) /\ Unused(sSession)
       /\ Unused(sStatus) /\ Unused(sLogin)

InitWrites ==
  IF shownPage = "writes" THEN Writes!Init
  ELSE /\ Unused(wLesson) /\ Unused(wDestination) /\ Unused(wQuery)
       /\ Unused(wFunding) /\ Unused(wTransaction) /\ Unused(wLedger)
       /\ Unused(wTold)

InitNetwork ==
  IF shownPage = "network" THEN Network!Init
  ELSE /\ Unused(rShown) /\ Unused(rAuto) /\ Unused(rFetch)
       /\ Unused(rTimer) /\ Unused(rOnline)

InitMessage ==
  IF shownPage = "message" THEN Message!Init
  ELSE /\ Unused(mWallet) /\ Unused(mRequest) /\ Unused(mMessage)
       /\ Unused(mSigned) /\ Unused(mFields) /\ Unused(mVerdict)
       /\ Unused(mSubmitted) /\ Unused(mSeen)

WebInit ==
  /\ shownPage \in {"signer", "session", "writes", "network", "message"}
  /\ Init
  /\ InitSession /\ InitWrites /\ InitNetwork /\ InitMessage

WebNext ==
  /\ \/ /\ shownPage = "signer" /\ Next
        /\ UNCHANGED <<sessionVars, writeVars, networkVars, messageVars>>
     \/ /\ shownPage = "session" /\ Session!Next
        /\ UNCHANGED <<vars, writeVars, networkVars, messageVars>>
     \/ /\ shownPage = "writes" /\ Writes!Next
        /\ UNCHANGED <<vars, sessionVars, networkVars, messageVars>>
     \/ /\ shownPage = "network" /\ Network!Next
        /\ UNCHANGED <<vars, sessionVars, writeVars, messageVars>>
     \/ /\ shownPage = "message" /\ Message!Next
        /\ UNCHANGED <<vars, sessionVars, writeVars, networkVars>>
  /\ UNCHANGED shownPage

\* Each page's own: calls of the library settle, requests are aborted after
\* ten seconds, the interval's callback runs.
WebFairness ==
  /\ WF_vars(shownPage = "signer" /\ Choosing)
  /\ WF_vars(shownPage = "signer" /\ Cleanup)
  /\ WF_sessionVars(shownPage = "session" /\ Session!DiscoveryAnswered)
  /\ WF_sessionVars(shownPage = "session" /\ Session!DiscoverySettles)
  /\ \A c \in 1 .. MaxClients :
       WF_sessionVars(shownPage = "session" /\ Session!LoginRequestSettles(c))
  /\ WF_networkVars(shownPage = "network" /\ Network!Tick)
  /\ WF_networkVars(shownPage = "network" /\ Network!Settles)

WebSpec == WebInit /\ [][WebNext]_allVars /\ WebFairness

-----------------------------------------------------------------------------
\* The newest client's session is the only one that is not destroyed, the
\* lesson counts exactly the requests under way, and the newest entry about
\* a discovery tells how it ended.  And the network lesson has one clock.
VisitIsConsistent ==
  /\ shownPage = "session" => Session!VisitIsConsistent
  /\ shownPage = "network" => Network!OneClock

\* Nothing is submitted for an account that is not there, controls fund the
\* account they name, and what is shown at rest is no older than what the
\* page has confirmed.
WritesAreShown == shownPage = "writes" => Writes!WritesAreShown

\* A signature on display is of the account that was connected, for the
\* submitted message and made in its presence, whatever the wallet was
\* switched to and answered.
DisplayedSignatureIsRight ==
  shownPage = "message" => Message!DisplayedSignatureIsRight

\* A verdict on the page is about the key, text and signature beside it.
VerdictDescribesForm == shownPage = "message" => Message!VerdictDescribesForm

\* A discovery that was started can be started again; and while the option
\* is on, the latest ledger is requested again after each answer.
RefreshesGoOn ==
  /\ (shownPage = "session" /\ sDiscovery.at # "off")
       ~> (shownPage = "session" => Session!RefreshEnabled \/ ~sShown)
  /\ (shownPage = "network" /\ rShown /\ rAuto)
       ~> (shownPage = "network" => rFetch # "idle" \/ ~rAuto \/ ~rShown)
=============================================================================
