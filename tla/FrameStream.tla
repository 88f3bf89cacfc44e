---------------------------- MODULE FrameStream ----------------------------
(***************************************************************************)
(* The byte side of handleConn: a tracker sends frames over TCP, Read      *)
(* returns them in pieces of any size, and drainFrames cuts frames from    *)
(* the buffer with ExtractFrame (module Framing) and hands them to         *)
(* handleFrame (module Sessions).                                          *)
(***************************************************************************)
EXTENDS Framing, SequencesExt

CONSTANTS
  Streams,   \* what trackers send: records of the bytes and of the frames in them
  ReadSize   \* size of the read buffer, 4096 in the code

ASSUME StreamsAssumption ==
  /\ Streams \subseteq [bytes : Seq(Byte), frames : Seq(Seq(Byte))]
  /\ ReadSize \in Nat \ {0}

VARIABLES
  stream,   \* what this tracker sends
  wire,     \* bytes not yet read
  buf,      \* the handler's buffer
  out,      \* frames handed to handleFrame
  pc        \* "read", "drain" or "done"

vars == <<stream, wire, buf, out, pc>>

Init ==
  /\ stream \in Streams
  /\ wire = stream.bytes
  /\ buf = <<>>
  /\ out = <<>>
  /\ pc = "read"

\* sc.Read returns n bytes, appended to the buffer.
Read(n) ==
  /\ pc = "read"
  /\ n <= Len(wire)
  /\ buf' = buf \o SubSeq(wire, 1, n)
  /\ wire' = From(wire, n)
  /\ pc' = "drain"
  /\ UNCHANGED <<stream, out>>

\* End of stream: the handler returns, and with it the buffer is dropped.
EndOfStream ==
  /\ pc = "read"
  /\ wire = <<>>
  /\ pc' = "done"
  /\ UNCHANGED <<stream, wire, buf, out>>

\* drainFrames: one iteration of its loop.
DrainIncomplete ==
  /\ pc = "drain"
  /\ ExtractFrame(buf).kind = "incomplete"
  /\ pc' = "read"
  /\ UNCHANGED <<stream, wire, buf, out>>

DrainBad ==
  LET n == ExtractFrame(buf).n IN
  /\ pc = "drain"
  /\ ExtractFrame(buf).kind = "bad"
  /\ buf' = From(buf, IF n \in 1 .. Len(buf) THEN n ELSE 1)
  /\ UNCHANGED <<stream, wire, out, pc>>

DrainFrameAgain ==  \* mutant: the frame stays in the buffer
  LET n == ExtractFrame(buf).n IN
  /\ pc = "drain"
  /\ ExtractFrame(buf).kind = "frame"
  /\ Len(out) < Len(stream.frames)
  /\ out' = Append(out, SubSeq(buf, 1, n))
  /\ UNCHANGED <<stream, wire, buf, pc>>

DrainFrame ==
  LET n == ExtractFrame(buf).n IN
  /\ pc = "drain"
  /\ ExtractFrame(buf).kind = "frame"
  /\ out' = Append(out, SubSeq(buf, 1, n))
  /\ buf' = From(buf, n)
  /\ UNCHANGED <<stream, wire, pc>>

Drain == DrainIncomplete \/ DrainBad \/ DrainFrame

Next == (\E n \in 1 .. ReadSize : Read(n)) \/ EndOfStream \/ Drain

Spec == Init /\ [][Next]_vars

-----------------------------------------------------------------------------
TypeOK ==
  /\ stream \in Streams
  /\ wire \in Seq(Byte)
  /\ buf \in Seq(Byte)
  /\ out \in Seq(Seq(Byte))
  /\ pc \in {"read", "drain", "done"}

\* The tracker sends nothing but frames.
Clean == stream.bytes = FlattenSeq(stream.frames)

(* frame.go:51 "ExtractFrame pulls one complete frame from buf": however   *)
(* TCP splits and joins the bytes, the frames handed on are those sent, in *)
(* order, none cut short, none merged.                                     *)
InOrder == Clean => IsPrefix(out, stream.frames)

(* Every frame sent has been handed on when the stream ends: none waits in *)
(* the buffer for bytes that never come.                                   *)
AllDelivered == Clean /\ pc = "done" => out = stream.frames

\* No frame holds the bytes of a header after its own.
OneHeaderEach == \A k \in DOMAIN stream.frames : Headers(stream.frames[k]) = {0}

(* Resynchronisation: bytes that are no frame may cost frames (a header    *)
(* split between two reads is dropped with the noise before it), but as    *)
(* long as no frame's body looks like a header, what is handed on is still *)
(* whole frames, in the order sent.                                        *)
NothingInvented ==
  OneHeaderEach =>
    \E sent \in [DOMAIN out -> DOMAIN stream.frames] :
      /\ \A k \in DOMAIN out : out[k] = stream.frames[sent[k]]
      /\ \A j, k \in DOMAIN out : j < k => sent[j] < sent[k]

\* Where the handler is in the stream: the bytes before Position have been
\* handed on or dropped.
Position == Len(stream.bytes) - Len(buf) - Len(wire)

\* The frame o is the bytes of the stream from offset i on, header to trailer.
CutAt(o, i) ==
  /\ i \in Headers(stream.bytes)
  /\ Len(o) >= 6 /\ o[Len(o) - 1] = CR /\ o[Len(o)] = LF
  /\ i + Len(o) <= Position
  /\ \A k \in 1 .. Len(o) : o[k] = stream.bytes[i + k]

(* Whatever bytes arrive and however they are split, also when noise has   *)
(* put drainFrames out of step with the frames sent: what it hands on are  *)
(* separate stretches of the stream, in order, each from a header to a     *)
(* trailer. No byte is made up, used twice or moved.                       *)
Slices ==
  \E starts \in [DOMAIN out -> Headers(stream.bytes)] :
    /\ \A k \in DOMAIN out : CutAt(out[k], starts[k])
    /\ \A j, k \in DOMAIN out : j < k => starts[j] + Len(out[j]) <= starts[k]

(* drainFrames cannot loop for ever: an iteration that does not end the    *)
(* loop takes at least one byte, and no more than there are.               *)
DrainProgress ==
  [][pc = "drain" /\ pc' = "drain" => Len(buf') < Len(buf)]_vars

=============================================================================
