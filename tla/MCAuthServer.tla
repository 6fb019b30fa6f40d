---------------------------- MODULE MCAuthServer ----------------------------
(* Small instances of AuthServer.                                          *)
EXTENDS AuthServer, TLC

CONSTANTS alice, cosigner

\* The account's own key alone, at threshold zero.
PlainAccount ==
  [medium |-> 0, weight |-> (alice :> 1 @@ cosigner :> 0)]

\* Both keys are needed.
SharedAccount ==
  [medium |-> 2, weight |-> (alice :> 1 @@ cosigner :> 1)]

\* The master key is disabled and the threshold left at zero.
DelegatedAccount ==
  [medium |-> 0, weight |-> (alice :> 0 @@ cosigner :> 1)]

MCConfigs == {PlainAccount, SharedAccount, DelegatedAccount}
TwoConfigs == {SharedAccount, DelegatedAccount}
NoConfigs == {}

MCKeys == {alice, cosigner}
MCAccounts == {alice}
EverySignatureSet == SUBSET MCKeys
OwnSignature == {{alice}, {}}

MCSymmetry == Permutations(Challenges) \cup Permutations(Requests)

=============================================================================
