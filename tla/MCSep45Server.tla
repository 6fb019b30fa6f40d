--------------------------- MODULE MCSep45Server ---------------------------
(* Small instances of Sep45Server.                                         *)
EXTENDS Sep45Server, TLC

MCSymmetry == Permutations(Nonces) \cup Permutations(Requests)

=============================================================================
