-------------------------- MODULE DockerLogDecoder --------------------------
(***************************************************************************)
(* createDockerLogDecoder and followReusableLedgerLogs of                  *)
(* src/examples/stellar-test-ledger/shared.ts.  Docker multiplexes a       *)
(* container's output into frames: an 8-byte header and a payload.  Node   *)
(* delivers the bytes in chunks of any size; the decoder keeps what it     *)
(* cannot decode yet in a growing buffer, between readOffset and           *)
(* writeOffset, and the follower prints what comes out of it: messages,    *)
(* each decoded to text on its own and only then split into lines, which   *)
(* is left out.                                                            *)
(*                                                                         *)
(* A 'data' event appends one chunk and then runs the decoding loop, one   *)
(* action per iteration; no other event is handled while the loop runs.    *)
(***************************************************************************)
EXTENDS TextDecoder, SequencesExt

CONSTANTS
  InitialCapacity,  \* 8192
  MaxCapacity,      \* bound: no buffer grows past it
  Scripts           \* what containers may print: framed or raw pieces

HeaderLength == 8

ASSUME DecoderAssumption ==
  /\ Base \in Nat /\ Base > 2
  /\ InitialCapacity \in Nat \ {0}
  /\ MaxCapacity \in Nat

VARIABLES
  script,       \* what this container prints
  incoming,     \* bytes not delivered yet
  buffer,       \* a Uint8Array
  capacity,     \* its length
  readOffset,
  writeOffset,
  pc,           \* "idle", "decoding", or "overrun": an uncaught RangeError
  messages,     \* the non-empty messages printed so far
  stream,       \* "flowing", "ended", "failed", "stopped", or "closed" by a
                \* last error after the stop
  closing,      \* the flag of the stop function
  reported      \* a stream error was printed

decoder == <<buffer, capacity, readOffset, writeOffset>>
follower == <<stream, closing, reported>>
vars == <<script, incoming, decoder, pc, messages, follower>>

-----------------------------------------------------------------------------

\* The header Docker writes before a payload: the stream, three zero bytes
\* and the big-endian length.
Header(f) ==
  LET n == Len(f.payload)
  IN  <<f.type, 0, 0, 0,
        (n \div (Base * Base * Base)) % Base, (n \div (Base * Base)) % Base,
        (n \div Base) % Base, n % Base>>

\* A container with a terminal writes the payloads alone.
Encode(s, frames) ==
  FlattenSeq([i \in 1..Len(frames) |->
    IF s.framed THEN Header(frames[i]) \o frames[i].payload
                ELSE frames[i].payload])

Frame == [type : {1, 2}, payload : Seq(Byte)]

\* A container prints to stdout and stderr, and a payload is no longer than
\* the four bytes of a header can say.
ASSUME ScriptsAreFrames ==
  \A s \in Scripts :
    /\ s.frames \in Seq(Frame)
    /\ \A i \in 1..Len(s.frames) :
         Len(s.frames[i].payload) < Base * Base * Base * Base

Init ==
  /\ script \in Scripts
  /\ incoming = Encode(script, script.frames)
  /\ buffer = [i \in 0..-1 |-> 0]
  /\ capacity = 0
  /\ readOffset = 0
  /\ writeOffset = 0
  /\ pc = "idle"
  /\ messages = <<>>
  /\ stream = "flowing"
  /\ closing = FALSE
  /\ reported = FALSE

-----------------------------------------------------------------------------

unreadLength == writeOffset - readOffset

\* buffer.subarray(from, to).
Subarray(from, to) == [i \in 1..(to - from) |-> buffer[from + i - 1]]

\* An empty message is not printed.
logDecodedMessage(m) == messages' = IF m = <<>> THEN messages ELSE Append(messages, m)

reset ==
  /\ buffer' = [i \in 0..-1 |-> 0]
  /\ capacity' = 0
  /\ readOffset' = 0
  /\ writeOffset' = 0

(* ensureCapacity and buffer.set.                                          *)

Fits(additional) == capacity - writeOffset >= additional

\* Mutant of CanCompact: the unread bytes that stay are not counted.
CanCompactIgnoringUnread(additional) ==
  readOffset > 0 /\ capacity >= additional

CanCompact(additional) ==
  readOffset > 0 /\ capacity - unreadLength >= additional

\* The capacities the doubling loop may stop at: the first one, starting from
\* start, that leaves room for the chunk.
Grown(additional) ==
  LET start == IF InitialCapacity > capacity THEN InitialCapacity ELSE capacity
      room(cap) == cap - unreadLength >= additional
  IN  {cap \in start..MaxCapacity :
         /\ room(cap)
         /\ \/ cap = start
            \/ /\ \E k \in 1..(cap \div start) : cap = start * 2^k
               /\ ~room(cap \div 2)}

\* buffer.set(chunk, w), after the unread bytes were moved into a buffer with
\* these contents; a chunk that does not fit is a RangeError in the handler.
Place(chunk, cap, contents, r, w) ==
  /\ capacity' = cap
  /\ readOffset' = r
  /\ IF w + Len(chunk) <= cap
     THEN /\ buffer' = [i \in 0..(cap - 1) |->
                         IF i \in w..(w + Len(chunk) - 1)
                         THEN chunk[i - w + 1] ELSE contents[i]]
          /\ writeOffset' = w + Len(chunk)
          /\ pc' = "decoding"
     ELSE /\ buffer' = contents
          /\ writeOffset' = w
          /\ pc' = "overrun"

appendInPlace(chunk) ==
  /\ Fits(Len(chunk))
  /\ Place(chunk, capacity, buffer, readOffset, writeOffset)

\* Mutant of appendCompacted: the unread bytes are not moved to the front.
appendCompactedInPlace(chunk) ==
  /\ ~Fits(Len(chunk))
  /\ CanCompact(Len(chunk))
  /\ Place(chunk, capacity, buffer, 0, unreadLength)

\* copyWithin moves the unread bytes to the front.
appendCompacted(chunk) ==
  /\ ~Fits(Len(chunk))
  /\ CanCompact(Len(chunk))
  /\ Place(chunk, capacity,
           [i \in 0..(capacity - 1) |->
              buffer[IF i < unreadLength THEN readOffset + i ELSE i]],
           0, unreadLength)

appendGrown(chunk) ==
  /\ ~Fits(Len(chunk))
  /\ ~CanCompact(Len(chunk))
  /\ \E cap \in Grown(Len(chunk)) :
       Place(chunk, cap,
             [i \in 0..(cap - 1) |->
                IF i < unreadLength THEN buffer[readOffset + i] ELSE 0],
             0, unreadLength)

\* A 'data' event: the next n bytes.
onData(n) ==
  /\ stream = "flowing" /\ pc = "idle"
  /\ LET chunk == SubSeq(incoming, 1, n)
     IN  appendInPlace(chunk) \/ appendCompacted(chunk) \/ appendGrown(chunk)
  /\ incoming' = SubSeq(incoming, n + 1, Len(incoming))
  /\ UNCHANGED <<script, messages, follower>>

(* The decoding loop.                                                      *)

isHeader ==
  /\ buffer[readOffset] \in {1, 2}
  /\ buffer[readOffset + 1] = 0
  /\ buffer[readOffset + 2] = 0
  /\ buffer[readOffset + 3] = 0

\* Big-endian, made unsigned by >>> 0.
payloadLength ==
  ((buffer[readOffset + 4] * Base + buffer[readOffset + 5]) * Base
    + buffer[readOffset + 6]) * Base + buffer[readOffset + 7]

frameLength == HeaderLength + payloadLength

Incomplete ==
  unreadLength >= HeaderLength => isHeader /\ unreadLength < frameLength

\* Mutant of decodeFrame: only the payload is stepped over.
decodeFrameShort ==
  /\ pc = "decoding"
  /\ unreadLength >= HeaderLength
  /\ isHeader
  /\ unreadLength >= frameLength
  /\ logDecodedMessage(decode(Subarray(readOffset + HeaderLength, readOffset + frameLength)))
  /\ readOffset' = readOffset + payloadLength
  /\ UNCHANGED <<script, incoming, buffer, capacity, writeOffset, pc, follower>>

decodeFrame ==
  /\ pc = "decoding"
  /\ unreadLength >= HeaderLength
  /\ isHeader
  /\ unreadLength >= frameLength
  /\ logDecodedMessage(decode(Subarray(readOffset + HeaderLength, readOffset + frameLength)))
  /\ readOffset' = readOffset + frameLength
  /\ UNCHANGED <<script, incoming, buffer, capacity, writeOffset, pc, follower>>

\* Mutant of decodeRaw: the printed bytes stay in the buffer.
decodeRawKeeping ==
  /\ pc = "decoding"
  /\ unreadLength >= HeaderLength
  /\ ~isHeader
  /\ logDecodedMessage(decode(Subarray(readOffset, writeOffset)))
  /\ UNCHANGED decoder
  /\ pc' = "idle"
  /\ UNCHANGED <<script, incoming, follower>>

decodeRaw ==
  /\ pc = "decoding"
  /\ unreadLength >= HeaderLength
  /\ ~isHeader
  /\ logDecodedMessage(decode(Subarray(readOffset, writeOffset)))
  /\ reset
  /\ pc' = "idle"
  /\ UNCHANGED <<script, incoming, follower>>

\* The loop ends; a drained buffer is released.
decodeDone ==
  /\ pc = "decoding"
  /\ Incomplete
  /\ IF readOffset = writeOffset THEN reset ELSE UNCHANGED decoder
  /\ pc' = "idle"
  /\ UNCHANGED <<script, incoming, messages, follower>>

(* The end of the stream.                                                  *)

\* Prints what is left, header bytes included, and empties the buffer.
flush == logDecodedMessage(decode(Subarray(readOffset, writeOffset))) /\ reset

onEnd ==
  /\ stream = "flowing" /\ pc = "idle" /\ incoming = <<>>
  /\ flush
  /\ stream' = "ended"
  /\ UNCHANGED <<script, incoming, pc, closing, reported>>

\* An 'error' event.  The error a stop causes by destroying the stream is not
\* reported.
onError(interrupted) ==
  /\ stream \in {"flowing", "stopped"} /\ pc = "idle"
  /\ IF closing /\ interrupted
     THEN UNCHANGED <<decoder, messages, reported>>
     ELSE flush /\ reported' = TRUE
  /\ stream' = IF closing THEN "closed" ELSE "failed"
  /\ UNCHANGED <<script, incoming, pc, closing>>

\* The function that followReusableLedgerLogs returns: it may be called at any
\* time, a stream that is over included.
stop ==
  /\ pc = "idle"
  /\ closing' = TRUE
  /\ flush
  /\ stream' = IF stream = "flowing" THEN "stopped" ELSE stream
  /\ UNCHANGED <<script, incoming, pc, reported>>

Next ==
  \/ \E n \in 1..Len(incoming) : onData(n)
  \/ decodeFrame \/ decodeRaw \/ decodeDone
  \/ onEnd
  \/ \E interrupted \in BOOLEAN : onError(interrupted)
  \/ stop

Spec == Init /\ [][Next]_vars

-----------------------------------------------------------------------------

TypeOK ==
  /\ incoming \in Seq(Byte)
  /\ capacity \in Nat
  /\ buffer \in [0..(capacity - 1) -> Byte]
  /\ readOffset \in Nat
  /\ writeOffset \in Nat
  /\ pc \in {"idle", "decoding", "overrun"}
  /\ messages \in Seq(Seq(Char))
  /\ stream \in {"flowing", "ended", "failed", "stopped", "closed"}
  /\ closing \in BOOLEAN
  /\ reported \in BOOLEAN

\* However chunks arrive, whatever was compacted or grown before, the chunk
\* being appended fits behind the unread bytes, and the offsets stay ordered
\* inside the buffer (shared.ts:223-266).
NeverOverruns ==
  /\ pc # "overrun"
  /\ readOffset <= writeOffset
  /\ writeOffset <= capacity

\* A drained decoder holds no memory: between events, a buffer exists only for
\* bytes that still wait for the rest of their frame.
DrainedIsReleased ==
  pc = "idle" /\ readOffset = writeOffset => capacity = 0

\* What the decoding loop relies on from one chunk to the next.
BufferOK == TypeOK /\ NeverOverruns /\ DrainedIsReleased

Delivered == Len(Encode(script, script.frames)) - Len(incoming)

\* The frames of the script that have arrived completely.
CompleteFrames ==
  LET upTo(k) == SubSeq(script.frames, 1, k)
      arrived == {k \in 0..Len(script.frames) :
                    Len(Encode(script, upTo(k))) <= Delivered}
  IN  upTo(CHOOSE k \in arrived : \A j \in arrived : j <= k)

CutFrame ==
  SubSeq(Encode(script, script.frames),
         Len(Encode(script, CompleteFrames)) + 1, Delivered)

\* What is printed for the bytes of a message.
Lines(bytes) == IF bytes = <<>> THEN <<>> ELSE <<decode(bytes)>>

Payloads(frames) ==
  FlattenSeq([i \in 1..Len(frames) |-> Lines(frames[i].payload)])

\* The point of retaining incomplete chunks (shared.ts:205-210): what is
\* printed depends on the frames that arrived, never on how their bytes were
\* cut into chunks; each payload is printed once, in order, and the rest of a
\* cut frame only when the stream is over.
PrintsWholeFrames ==
  script.framed /\ pc = "idle" =>
    messages = Payloads(CompleteFrames)
               \o (IF stream = "flowing" THEN <<>> ELSE Lines(CutFrame))

\* An error after the stop changes nothing for whoever stopped it.
over == IF stream = "closed" THEN "stopped" ELSE stream

Frames == INSTANCE FrameStream WITH
  pending <- Subarray(readOffset, writeOffset),
  busy    <- pc = "decoding",
  stream  <- over

\* Bytes that start with a complete frame.
HoldsFrame(bytes) ==
  /\ Len(bytes) >= HeaderLength
  /\ Frames!IsHeader(bytes)
  /\ Len(bytes) >= Frames!FrameLength(bytes)

\* The decoder is not told whether the container has a terminal: it can tell
\* text from frames only if no part of the text is a frame.
ASSUME TextHoldsNoFrame ==
  \A s \in Scripts : ~s.framed =>
    LET text == Encode(s, s.frames)
    IN  \A from \in 0..Len(text) : \A to \in from..Len(text) :
          ~HoldsFrame(SubSeq(text, from + 1, to))

printed == FlattenSeq(messages)

\* Where a message ends, its bytes counted from the first one of all.
Cuts == {Len(FlattenSeq(SubSeq(messages, 1, k))) : k \in 1..Len(messages)}

\* Place i belongs to a character of the text that no cut runs through.
Uncut(text, cuts, i) ==
  \E s \in 1..i :
    /\ PartOf(text, s, i)
    /\ \A c \in cuts : ~(s <= c /\ c < s + Width[text[s]] - 1)

\* A container without multiplexing prints the text that arrived, none of it
\* twice and none left out.  What is lost are the characters that the end of
\* a message runs through: each message is decoded on its own, although its
\* end is where a chunk happened to end (shared.ts:290-298).
LosesOnlyCutCharacters ==
  ~script.framed =>
    LET text == Encode(script, script.frames)
    IN  /\ Len(printed) <= Delivered
        /\ Subarray(readOffset, writeOffset)
             = SubSeq(text, Len(printed) + 1, Delivered)
        /\ \A i \in 1..Len(printed) :
             printed[i] = IF Uncut(text, Cuts, i) THEN text[i] ELSE Replacement

\* The buffer with its offsets, compaction and growth behaves as the plain
\* sequence of undecoded bytes.
ImplementsFrameStream == Frames!Spec

=============================================================================
