----------------------------- MODULE TextDecoder -----------------------------
(***************************************************************************)
(* The TextDecoder of createDockerLogDecoder, src/examples/                *)
(* stellar-test-ledger/shared.ts:211.  It is called without stream: true,  *)
(* so every call decodes its bytes on their own: a character of which only *)
(* a part is among them is lost, and U+FFFD stands where it was.           *)
(*                                                                         *)
(* A decoded message keeps a place for each byte.  Left out are how many   *)
(* marks a broken character leaves, the narrower ranges UTF-8 gives some   *)
(* second bytes, and a byte order mark at the front, which is dropped.     *)
(***************************************************************************)
EXTENDS Integers, Sequences

CONSTANTS
  Base,          \* number of byte values, 256
  Width,         \* bytes of the character that a byte begins, 0 if none
  Continuation,  \* bytes that go on with a character
  Replacement    \* U+FFFD

Byte == 0..(Base - 1)

\* What text is made of: bytes in whole characters, and marks.
Char == Byte \cup {Replacement}

ASSUME TextDecoderAssumption ==
  /\ Width \in [Byte -> 0..4]
  /\ Replacement \notin Byte

\* From place s on, the bytes write one character, whole.
Character(bytes, s) ==
  LET w == Width[bytes[s]]
  IN  /\ s + w - 1 <= Len(bytes)
      /\ \A i \in (s + 1)..(s + w - 1) : bytes[i] \in Continuation

\* Place i is part of the character that begins at s.
PartOf(bytes, s, i) ==
  /\ Character(bytes, s)
  /\ s <= i /\ i < s + Width[bytes[s]]

\* What stands where a byte was: the byte, or the mark of a broken character.
decode(bytes) ==
  [i \in 1..Len(bytes) |->
     IF \E s \in 1..i : PartOf(bytes, s, i) THEN bytes[i] ELSE Replacement]

=============================================================================
