------------------------- MODULE MCDockerLogDecoder -------------------------
(* Short container outputs for DockerLogDecoder, delivered in every way.   *)
EXTENDS DockerLogDecoder

Printed(type, payload) == [type |-> type, payload |-> payload]

\* 0 to 3 are characters of their own, 4 begins one of three bytes, 5 goes on.
MCWidth == [b \in Byte |-> CASE b = 4 -> 3 [] b = 5 -> 0 [] OTHER -> 1]

\* Three frames that do not fit one buffer: the offsets wander through it.
ThreeFrames == <<Printed(1, <<0>>), Printed(1, <<3, 2>>), Printed(2, <<1>>)>>

\* Bytes 0 to 2 in a payload look like parts of a header.
TwoFrames == <<Printed(1, <<1, 0, 0>>), Printed(2, <<2, 0, 0, 0, 3>>)>>
EmptyPayload == <<Printed(2, <<>>), Printed(1, <<0, 1>>)>>

\* A payload longer than one length byte can say, in base 6.
LongPayload == <<Printed(1, <<2, 1, 0, 0, 4, 5, 5>>)>>

\* A character that the container wrote in two pieces.
SplitCharacter == <<Printed(1, <<3, 4, 5>>), Printed(1, <<5, 3>>)>>

Framed == {[framed |-> TRUE, frames |-> f] :
             f \in {TwoFrames, ThreeFrames, EmptyPayload, LongPayload,
                    SplitCharacter}}

\* Text: no byte of it starts a header.  It has two long characters and, at
\* the end, one that is broken.
Text == [framed |-> FALSE,
         frames |-> <<Printed(1, <<3, 3, 0, 1, 3, 4, 5, 5>>),
                      Printed(1, <<3, 1, 3, 4, 5, 5, 0, 4, 3>>)>>]

\* Text that looks like the header of a payload too long to ever arrive.
Lookalike == [framed |-> FALSE, frames |-> <<Printed(1, <<1, 0, 0, 0, 2, 0, 0, 0, 3>>)>>]

MCScripts == Framed \cup {Text, Lookalike}

=============================================================================
