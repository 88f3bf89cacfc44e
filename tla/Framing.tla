------------------------------ MODULE Framing ------------------------------
(***************************************************************************)
(* internal/protocol/frame.go: ExtractFrame and its helpers, and           *)
(* findLBSHeader of wifilbs.go. A buffer is a sequence of bytes. Offsets   *)
(* into content are 0-based as in the code: offset i is content[i + 1].    *)
(***************************************************************************)
EXTENDS Integers, Sequences, FiniteSetsExt

Byte == 0 .. 255

CR == 13
LF == 10

MsgLogin == 1
MsgTimeSync == 48
MsgStatus == 19
MsgGPS == {16, 17, 18, 34}         \* 0x10, 0x11, 0x12, 0x22
MsgWifiLBS == {26, 27, 23, 105}    \* 0x1A, 0x1B, 0x17, 0x69
MsgICCID == 179

From(s, i) == SubSeq(s, i + 1, Len(s))

\* Mutant: the carriage return alone ends a frame.
TrailerAtCR(content, i) == i + 2 <= Len(content) /\ content[i + 1] = CR

TrailerAt(content, i) ==
  i + 2 <= Len(content) /\ content[i + 1] = CR /\ content[i + 2] = LF

(***************************************************************************)
(* The first offset at which a plausible cell count (1-6) and MCC (1-999)  *)
(* are followed by an MNC byte and at least count * 6 bytes, -1 if none.   *)
(***************************************************************************)
findLBSHeader(rest) ==
  LET Plausible == {i \in 0 .. Len(rest) - 4 :
        /\ rest[i + 1] \in 1 .. 6
        /\ rest[i + 2] * 256 + rest[i + 3] \in 1 .. 999
        /\ Len(rest) - (i + 4) >= rest[i + 1] * 6}
  IN IF Plausible = {} THEN -1 ELSE Min(Plausible)

\* Bounds of the content of a frame: no trailer is accepted before offset min;
\* exact is its length where the layout tells it, -1 otherwise.
Bounds(min, exact) == [min |-> min, exact |-> exact]

(***************************************************************************)
(* 6 bytes of date, then access points, then count, MCC, MNC and cells, of *)
(* 7 bytes if that many are in the buffer and else of 6. (The code tests   *)
(* the header's length and count again; findLBSHeader has ensured both.)   *)
(***************************************************************************)
wifiLBSContentBounds(content) ==
  LET rest     == From(content, 6)
      lbsStart == findLBSHeader(rest)
      lbs      == From(rest, lbsStart)
      cellSize == IF 4 + lbs[1] * 7 > Len(lbs) /\ 4 + lbs[1] * 6 <= Len(lbs) THEN 6 ELSE 7
      need     == 4 + lbs[1] * cellSize
  IN IF Len(content) < 6 \/ lbsStart < 0 THEN Bounds(6, -1)
     ELSE IF Len(lbs) < need THEN Bounds(6 + lbsStart + need, -1)
     ELSE Bounds(6, 6 + lbsStart + need)

\* Mutant: the first CR LF ends every frame.
contentBoundsLegacy(proto, content) == Bounds(0, -1)

contentBounds(proto, content) ==
  CASE proto = MsgLogin -> Bounds(9, -1)
    [] proto = MsgStatus -> Bounds(4, -1)
    [] proto = MsgICCID -> Bounds(1, -1)
    [] proto \in MsgGPS -> Bounds(18, -1)
    [] proto \in MsgWifiLBS -> wifiLBSContentBounds(content)
    [] OTHER -> Bounds(0, -1)        \* time sync, settings and unknown types

\* End of the first trailer at or after offset min, -1 if there is none.
findTrailerLate(content, min) ==  \* mutant: the search starts one byte late
  LET Ends == {i \in min + 1 .. Len(content) : TrailerAt(content, i)}
  IN IF Ends = {} THEN -1 ELSE Min(Ends) + 2

findTrailer(content, min) ==
  LET Ends == {i \in min .. Len(content) : TrailerAt(content, i)}
  IN IF Ends = {} THEN -1 ELSE Min(Ends) + 2

-----------------------------------------------------------------------------
(* What ExtractFrame answers: nothing yet, n bytes to skip, or a frame of  *)
(* n bytes at the front of the buffer.                                     *)
Incomplete   == [kind |-> "incomplete", n |-> 0]
BadHeader(n) == [kind |-> "bad", n |-> n]
FrameOf(n)   == [kind |-> "frame", n |-> n]

\* 0-based offsets of 78 78 and 79 79.
Headers(buf) == {i \in 0 .. Len(buf) - 2 : buf[i + 1] = buf[i + 2] /\ buf[i + 1] \in {120, 121}}

\* Header, length and protocol bytes: 78 78 LL PP or 79 79 LL LL PP.
PrefixLen(buf) == IF buf[1] = 120 THEN 4 ELSE 5

\* The end of the frame that starts at the front of the buffer. An exact length
\* that no trailer follows only bounds the search.
FrameAtFront(buf) ==
  LET prefix  == PrefixLen(buf)
      content == From(buf, prefix)
      bounds  == contentBounds(buf[prefix], content)
      min     == IF bounds.exact >= 0 THEN bounds.exact ELSE bounds.min
      relEnd  == findTrailer(content, min)
  IN IF Len(content) < min + 2 \/ relEnd < 0 THEN Incomplete ELSE FrameOf(prefix + relEnd)

ExtractFrameUnsynced(buf) ==  \* mutant: bytes before the header are kept
  IF Len(buf) < 6 THEN Incomplete
  ELSE IF Headers(buf) = {} THEN BadHeader(Len(buf))
  ELSE FrameAtFront(buf)

ExtractFrame(buf) ==
  IF Len(buf) < 5 THEN Incomplete
  ELSE IF Headers(buf) = {} THEN BadHeader(Len(buf))
  ELSE IF Min(Headers(buf)) > 0 THEN BadHeader(Min(Headers(buf)))
  ELSE IF buf[1] = 121 /\ Len(buf) < 6 THEN Incomplete
  ELSE FrameAtFront(buf)

=============================================================================
