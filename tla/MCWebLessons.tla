----------------------------- MODULE MCWebLessons ------------------------------
(* A small instance of WebLessons: two accounts that can authenticate and a *)
(* wallet that signs for another account only; and a wallet to be switched  *)
(* between two accounts, networks and modules.                              *)
EXTENDS WebLessons

CONSTANTS
  k1, k2, k3, S, R,
  a, b, testnet, mainnet, freighter, other, x, y

MCKeys == {k1, k2, k3}

Connection(address, signsItself) ==
  [address |-> address, account |-> TRUE, messageSigner |-> FALSE,
   signers |-> {[envelope |-> TRUE, own |-> signsItself]}]

MCHeaderWallets ==
  {Connection("GA", TRUE), Connection("GB", TRUE), Connection("GC", FALSE)}

MCRecipients == {S, R, Nothing}

MCAddresses == {a, b}
MCNetworks == {testnet, mainnet}
MCModules == {freighter, other}
MCTexts == {x, y}
MCCaptured == [address |-> a, network |-> testnet, module |-> freighter]

Answer(names, maker, text, sep53) ==
  [signerAddress |-> names,
   signedMessage |-> [signer |-> maker, message |-> text, sep53 |-> sep53]]

\* Right and wrong accounts, named or not, another message, an older
\* scheme, and no signature at all.
MCAnswers ==
  {Answer(a, a, x, TRUE), Answer(Empty, a, y, TRUE), Answer(b, b, x, TRUE),
   Answer(Empty, b, y, TRUE), Answer(a, a, x, FALSE),
   [signerAddress |-> a, signedMessage |-> Garbled]}

=============================================================================
