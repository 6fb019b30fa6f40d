---------------------------- MODULE FrameStream ----------------------------
(***************************************************************************)
(* What the Docker log follower promises, without its buffer: bytes arrive *)
(* in chunks of any size, join those still pending, and complete frames    *)
(* leave in order as messages.  Bytes that cannot be a frame leave as one  *)
(* message; what is left over when the stream stops leaves last.  Each     *)
(* message is decoded to text on its own.                                  *)
(* DockerLogDecoder implements this specification.                         *)
(***************************************************************************)
EXTENDS TextDecoder

CONSTANT HeaderLength  \* length of a frame header, 8

VARIABLES
  incoming,     \* bytes the stream has yet to deliver
  pending,      \* bytes delivered and not yet decoded
  busy,         \* a chunk is being decoded
  messages,     \* what was printed
  stream        \* "flowing", or how it stopped

vars == <<incoming, pending, busy, messages, stream>>

Init ==
  /\ incoming \in Seq(Byte)
  /\ pending = <<>>
  /\ busy = FALSE
  /\ messages = <<>>
  /\ stream = "flowing"

\* An empty message is not printed.
Emitted(bytes) ==
  IF bytes = <<>> THEN messages ELSE Append(messages, decode(bytes))

Drop(s, n) == SubSeq(s, n + 1, Len(s))

IsHeader(s) ==
  /\ s[1] \in {1, 2}
  /\ s[2] = 0 /\ s[3] = 0 /\ s[4] = 0

FrameLength(s) ==
  HeaderLength + (((s[5] * Base + s[6]) * Base + s[7]) * Base + s[8])

Deliver(n) ==
  /\ stream = "flowing" /\ ~busy
  /\ pending' = pending \o SubSeq(incoming, 1, n)
  /\ incoming' = Drop(incoming, n)
  /\ busy' = TRUE
  /\ UNCHANGED <<messages, stream>>

TakeFrame ==
  /\ busy
  /\ Len(pending) >= HeaderLength
  /\ IsHeader(pending)
  /\ Len(pending) >= FrameLength(pending)
  /\ messages' = Emitted(SubSeq(pending, HeaderLength + 1, FrameLength(pending)))
  /\ pending' = Drop(pending, FrameLength(pending))
  /\ UNCHANGED <<incoming, busy, stream>>

TakeRaw ==
  /\ busy
  /\ Len(pending) >= HeaderLength
  /\ ~IsHeader(pending)
  /\ messages' = Emitted(pending)
  /\ pending' = <<>>
  /\ busy' = FALSE
  /\ UNCHANGED <<incoming, stream>>

AwaitMore ==
  /\ busy
  /\ Len(pending) >= HeaderLength =>
       IsHeader(pending) /\ Len(pending) < FrameLength(pending)
  /\ busy' = FALSE
  /\ UNCHANGED <<incoming, pending, messages, stream>>

Close(how) ==
  /\ stream = "flowing" /\ ~busy
  /\ how = "ended" => incoming = <<>>
  /\ stream' = how
  /\ messages' = Emitted(pending)
  /\ pending' = <<>>
  /\ UNCHANGED <<incoming, busy>>

Next ==
  \/ \E n \in 1..Len(incoming) : Deliver(n)
  \/ TakeFrame \/ TakeRaw \/ AwaitMore
  \/ \E how \in {"ended", "failed", "stopped"} : Close(how)

Spec == Init /\ [][Next]_vars

=============================================================================
