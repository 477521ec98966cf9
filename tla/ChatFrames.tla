----------------------------- MODULE ChatFrames -----------------------------
(***************************************************************************)
(* The parser of the chat stream (gcpx-agents chat.rs): a JSON array of    *)
(* messages arrives in chunks cut anywhere, and FrameParser returns the    *)
(* messages as they complete.  The sender writes one byte at a time; what  *)
(* the bytes mean is its own state, and the parser sees the bytes only.    *)
(***************************************************************************)
EXTENDS Integers, Sequences, SequencesExt

CONSTANTS
  MaxFrame,       \* MAX_FRAME_BYTES: 8 MiB in the code
  IsJson(_),      \* whether the bytes of a message decode: valid UTF-8 and JSON
  MaxStream       \* bound: bytes in the stream

ASSUME FrameAssumption == MaxFrame \in Nat

\* Any character that means nothing to the parser is "other".
Bytes == {"{", "}", "[", "]", "quote", "backslash", "other", "bad"}

VARIABLES
  \* the sender
  open,           \* the brackets that are to be closed, innermost last
  text,           \* "no", "yes" or "escaped": inside a string, after a backslash
  message,        \* the bytes of the message so far
  sent,           \* the messages completed that decode
  length,         \* the bytes written
  \* the parser
  buf, depth, inString, escaped, started, overflowed,
  out,            \* the messages of the chunk being read
  delivered       \* the messages returned to the caller

sender == <<open, text, message, sent, length>>
parser == <<buf, depth, inString, escaped, started, overflowed, out>>
frameVars == <<sender, parser, delivered>>

FramesInit ==
  /\ open = <<>> /\ text = "no" /\ message = <<>> /\ sent = <<>> /\ length = 0
  /\ buf = <<>> /\ depth = 0 /\ inString = FALSE /\ escaped = FALSE
  /\ started = FALSE /\ overflowed = FALSE
  /\ out = <<>> /\ delivered = <<>>

-----------------------------------------------------------------------------
(* The sender.                                                              *)

Closer(byte) == IF byte = "{" THEN "}" ELSE "]"

\* What may come next: between messages the array's own brackets and commas.
Legal(byte) ==
  \/ text # "no"
  \/ text = "no" /\ open = <<>> /\ byte \in {"{", "[", "]", "other"}
  \/ text = "no" /\ open # <<>> /\ byte \in {"{", "[", "quote", "other"}
  \/ text = "no" /\ open # <<>> /\ byte = open[Len(open)]

\* The string the byte leaves the message in.
TextAfter(byte) ==
  IF text = "yes" /\ byte = "backslash" THEN "escaped"
  ELSE IF text = "yes" /\ byte = "quote" THEN "no"
  ELSE IF text = "no" /\ byte = "quote" THEN "yes"
  ELSE IF text = "escaped" THEN "yes" ELSE text

\* The brackets it leaves open.
OpenAfter(byte) ==
  IF text # "no" \/ (open = <<>> /\ byte # "{") THEN open
  ELSE IF byte \in {"{", "["} THEN Append(open, Closer(byte))
  ELSE IF byte \in {"}", "]"} THEN Front(open)
  ELSE open

Send(byte) ==
  /\ length < MaxStream /\ length' = length + 1
  /\ Legal(byte)
  /\ text' = TextAfter(byte) /\ open' = OpenAfter(byte)
  /\ LET bytes == IF open = <<>> /\ byte # "{" THEN message ELSE Append(message, byte)
         whole == open # <<>> /\ open' = <<>>
     IN  /\ message' = IF whole THEN <<>> ELSE bytes
         /\ sent' = IF whole /\ IsJson(bytes) THEN Append(sent, bytes) ELSE sent

-----------------------------------------------------------------------------
(* FrameParser::push, byte by byte.                                         *)

\* Nothing of the stream matters between two messages.
Skip == UNCHANGED parser

\* A chunk that overflows returns the error: the messages it held are lost.
Overflow(bytes) ==
  /\ buf' = bytes /\ started' = TRUE
  /\ overflowed' = TRUE /\ out' = <<>>
  /\ UNCHANGED <<depth, inString, escaped>>

InStringUnescaped(byte, bytes) ==
  /\ buf' = bytes
  /\ inString' = (byte # "quote")
  /\ UNCHANGED <<depth, escaped, started, overflowed, out>>

InString(byte, bytes) ==
  /\ buf' = bytes
  /\ escaped' = (~escaped /\ byte = "backslash")
  /\ inString' = (escaped \/ byte # "quote")
  /\ UNCHANGED <<depth, started, overflowed, out>>

DepthAfter(byte) ==
  IF byte \in {"{", "["} THEN depth + 1
  ELSE IF byte \in {"}", "]"} /\ depth > 0 THEN depth - 1
  ELSE depth

\* A closing bracket that brings the depth to 0 completes the value.
Structure(byte, bytes) ==
  LET whole == byte \in {"}", "]"} /\ DepthAfter(byte) = 0
  IN  /\ inString' = (byte = "quote")
      /\ depth' = DepthAfter(byte)
      /\ started' = ~whole
      /\ buf' = IF whole THEN <<>> ELSE bytes
      /\ out' = IF whole /\ IsJson(bytes) THEN Append(out, bytes) ELSE out
      /\ UNCHANGED <<escaped, overflowed>>

Push(byte) ==
  LET bytes == Append(buf, byte)
  IN  IF overflowed \/ (~started /\ byte # "{") THEN Skip
      ELSE IF Len(bytes) > MaxFrame THEN Overflow(bytes)
      ELSE IF inString THEN InString(byte, bytes)
      ELSE Structure(byte, bytes)

Receive(byte) == Send(byte) /\ Push(byte) /\ UNCHANGED delivered

\* The chunk ends, wherever the network cut it.
EndChunk ==
  /\ out # <<>>
  /\ delivered' = delivered \o out
  /\ out' = <<>>
  /\ UNCHANGED <<sender, buf, depth, inString, escaped, started, overflowed>>

FramesNext == EndChunk \/ \E byte \in Bytes : Receive(byte)

FramesSpec == FramesInit /\ [][FramesNext]_frameVars

-----------------------------------------------------------------------------
MidValue == started

\* However the stream is cut, the caller gets the messages the sender completed,
\* in order, each whole and once, and the parser is between two messages exactly
\* when the sender is; the buffer holds no more than a byte beyond the limit.
\* Past the limit nothing more is returned, and what was returned before is a
\* beginning of what was sent.
FramesWhole ==
  /\ Len(buf) <= MaxFrame + 1
  /\ ~overflowed => delivered \o out = sent /\ (MidValue <=> open # <<>>)
  /\ overflowed => IsPrefix(delivered, sent)
=============================================================================
