---------------------------- MODULE StreamProofs ----------------------------
(***************************************************************************)
(* Theorems about module FrameStream, for every stream of bytes, every     *)
(* way TCP splits it into reads and every size of the read buffer.         *)
(***************************************************************************)
EXTENDS FrameStream, FramingProofs

LEMMA InitTypes == Init => TypeOK
<1> SUFFICES ASSUME Init PROVE TypeOK
  OBVIOUS
<1>1. stream \in [bytes : Seq(Byte), frames : Seq(Seq(Byte))] /\ wire = stream.bytes
  BY StreamsAssumption DEF Init
<1>2. <<>> \in Seq(Byte) /\ <<>> \in Seq(Seq(Byte))
  OBVIOUS
<1> QED BY <1>1, <1>2 DEF Init, TypeOK

LEMMA DrainFrameTypes ==
  ASSUME TypeOK, DrainFrame
  PROVE  TypeOK' /\ Len(buf') < Len(buf)
<1> DEFINE n == ExtractFrame(buf).n
<1>1. n \in 1 .. Len(buf) /\ buf \in Seq(Byte)
  BY ExtractTakes DEF TypeOK, DrainFrame
<1> HIDE DEF n
<1>2. buf' = From(buf, n) /\ out' = Append(out, SubSeq(buf, 1, n)) /\ UNCHANGED <<stream, wire, pc>>
  BY DEF DrainFrame, n
<1>3. buf' \in Seq(Byte) /\ Len(buf') = Len(buf) - n
  BY <1>1, <1>2, FromType
<1>4. SubSeq(buf, 1, n) \in Seq(Byte)
  BY <1>1
<1>5. out' \in Seq(Seq(Byte))
  BY <1>2, <1>4 DEF TypeOK
<1> QED BY <1>1, <1>2, <1>3, <1>5 DEF TypeOK

LEMMA DrainBadTypes ==
  ASSUME TypeOK, DrainBad
  PROVE  TypeOK' /\ Len(buf') < Len(buf)
<1> DEFINE n == ExtractFrame(buf).n
<1>1. n \in 1 .. Len(buf) /\ buf \in Seq(Byte)
  BY ExtractTakes DEF TypeOK, DrainBad
<1> HIDE DEF n
<1>2. buf' = From(buf, n) /\ UNCHANGED <<stream, wire, out, pc>>
  BY <1>1 DEF DrainBad, n
<1>3. buf' \in Seq(Byte) /\ Len(buf') = Len(buf) - n
  BY <1>1, <1>2, FromType
<1> QED BY <1>1, <1>2, <1>3 DEF TypeOK

LEMMA NextTypes == TypeOK /\ [Next]_vars => TypeOK'
<1> SUFFICES ASSUME TypeOK, [Next]_vars PROVE TypeOK'
  OBVIOUS
<1>1. ASSUME NEW n \in 1 .. ReadSize, Read(n) PROVE TypeOK'
  <2>1. n \in 0 .. Len(wire) /\ wire \in Seq(Byte) /\ buf \in Seq(Byte)
    BY <1>1, StreamsAssumption DEF Read, TypeOK
  <2>2. From(wire, n) \in Seq(Byte) /\ SubSeq(wire, 1, n) \in Seq(Byte)
    BY <2>1, FromType
  <2>3. buf \o SubSeq(wire, 1, n) \in Seq(Byte)
    BY <2>1, <2>2
  <2> QED BY <1>1, <2>2, <2>3 DEF Read, TypeOK
<1>2. CASE EndOfStream \/ DrainIncomplete \/ UNCHANGED vars
  BY <1>2 DEF EndOfStream, DrainIncomplete, vars, TypeOK
<1> QED BY <1>1, <1>2, DrainFrameTypes, DrainBadTypes DEF Next, Drain

(* Buffers stay sequences of bytes and what is handed on are such          *)
(* sequences, for every stream and every fragmentation.                    *)
THEOREM StreamTypes == Spec => []TypeOK
BY InitTypes, NextTypes, PTL DEF Spec

(* An iteration of drainFrames that does not end the loop shortens the     *)
(* buffer, so the loop ends for every input.                               *)
THEOREM DrainTerminates == Spec => DrainProgress
<1>1. TypeOK /\ [Next]_vars => [pc = "drain" /\ pc' = "drain" => Len(buf') < Len(buf)]_vars
  BY DrainFrameTypes, DrainBadTypes DEF Next, Drain, DrainIncomplete, Read, EndOfStream
<1> QED BY <1>1, StreamTypes, PTL DEF Spec, DrainProgress

-----------------------------------------------------------------------------
(* Buffer and wire are the rest of the stream from Position on.            *)
Ahead ==
  /\ stream.bytes \in Seq(Byte) /\ stream.frames \in Seq(Seq(Byte)) /\ Position \in Nat
  /\ \A k \in Nat : 1 <= k /\ k <= Len(buf) => buf[k] = stream.bytes[Position + k]
  /\ \A k \in Nat : 1 <= k /\ k <= Len(wire) => wire[k] = stream.bytes[Position + Len(buf) + k]

LEMMA InitAhead == Init => Ahead
<1> SUFFICES ASSUME Init PROVE Ahead
  OBVIOUS
<1>1. stream.bytes \in Seq(Byte) /\ stream.frames \in Seq(Seq(Byte)) /\ wire = stream.bytes /\ buf = <<>>
  BY StreamsAssumption DEF Init
<1>2. Position = 0 /\ Len(buf) = 0
  BY <1>1 DEF Position
<1> QED BY <1>1, <1>2 DEF Ahead

LEMMA ReadAhead ==
  ASSUME TypeOK, Ahead, NEW n \in 1 .. ReadSize, Read(n)
  PROVE  Ahead' /\ Position' = Position
<1>1. /\ n \in Nat /\ n <= Len(wire) /\ wire \in Seq(Byte) /\ buf \in Seq(Byte)
      /\ Len(wire) \in Nat /\ Len(buf) \in Nat /\ Len(stream.bytes) \in Nat
  BY StreamsAssumption DEF Read, TypeOK, Ahead
<1>2. buf' = buf \o SubSeq(wire, 1, n) /\ wire' = From(wire, n) /\ stream' = stream
  BY DEF Read
<1>3. Len(wire') = Len(wire) - n
  BY <1>1, <1>2, FromType
<1>4. Len(buf') = Len(buf) + n
  <2> DEFINE taken == SubSeq(wire, 1, n)
  <2>1. taken \in Seq(Byte) /\ Len(taken) = n
    BY <1>1, TakeAt
  <2> HIDE DEF taken
  <2>2. Len(buf \o taken) = Len(buf) + Len(taken)
    BY <1>1, <2>1
  <2> QED BY <1>2, <2>1, <2>2 DEF taken
<1>5. Position' = Position /\ Position \in Nat
  <2>0. stream' = stream
    BY <1>2
  <2>1. Position' = Position
    BY <1>1, <1>3, <1>4, <2>0 DEF Position
  <2> QED BY <2>1 DEF Ahead
<1>6. ASSUME NEW k \in Nat, 1 <= k, k <= Len(buf') PROVE buf'[k] = stream.bytes[Position + k]
  <2>1. CASE k <= Len(buf)
    <3>1. buf'[k] = buf[k]
      BY <1>1, <1>2, <1>6, <2>1, TakeAt
    <3> QED BY <1>6, <2>1, <3>1 DEF Ahead
  <2>2. CASE k > Len(buf)
    <3>1. k - Len(buf) \in Nat /\ 1 <= k - Len(buf) /\ k - Len(buf) <= n /\ k - Len(buf) <= Len(wire)
      BY <1>1, <1>4, <1>6, <2>2
    <3>2. buf'[k] = SubSeq(wire, 1, n)[k - Len(buf)]
      BY <1>1, <1>2, <1>4, <1>6, <2>2, TakeAt
    <3>3. SubSeq(wire, 1, n)[k - Len(buf)] = wire[k - Len(buf)]
      BY <1>1, <3>1, TakeAt
    <3>4. wire[k - Len(buf)] = stream.bytes[Position + Len(buf) + (k - Len(buf))]
      BY <3>1 DEF Ahead
    <3>5. Position + Len(buf) + (k - Len(buf)) = Position + k
      BY <1>1, <1>5
    <3> QED BY <3>2, <3>3, <3>4, <3>5
  <2> QED BY <1>1, <2>1, <2>2
<1>7. ASSUME NEW k \in Nat, 1 <= k, k <= Len(wire') PROVE wire'[k] = stream.bytes[Position + Len(buf') + k]
  <2>1. n + k \in Nat /\ 1 <= n + k /\ n + k <= Len(wire) /\ k <= Len(wire) - n
    BY <1>1, <1>3, <1>7
  <2>2. wire'[k] = wire[n + k]
    BY <1>1, <1>2, <1>7, <2>1, FromAt
  <2>3. wire[n + k] = stream.bytes[Position + Len(buf) + (n + k)]
    BY <2>1 DEF Ahead
  <2>4. Position + Len(buf) + (n + k) = Position + Len(buf') + k
    BY <1>1, <1>4, <1>5
  <2> QED BY <2>2, <2>3, <2>4
<1> QED BY <1>2, <1>5, <1>6, <1>7 DEF Ahead

\* DrainBad and DrainFrame take n bytes from the front of the buffer.
LEMMA DropAhead ==
  ASSUME TypeOK, Ahead, NEW n \in Nat, n <= Len(buf), buf' = From(buf, n), UNCHANGED <<stream, wire>>
  PROVE  Ahead' /\ Position' = Position + n
<1>1. /\ wire \in Seq(Byte) /\ buf \in Seq(Byte)
      /\ Len(wire) \in Nat /\ Len(buf) \in Nat /\ Len(stream.bytes) \in Nat
  BY DEF TypeOK, Ahead
<1>2. Len(buf') = Len(buf) - n
  BY <1>1, FromType
<1>3. Position' = Position + n /\ Position \in Nat /\ Position' \in Nat
  <2>1. Position' = Position + n
    BY <1>1, <1>2 DEF Position
  <2>2. Position \in Nat
    BY DEF Ahead
  <2> QED BY <2>1, <2>2
<1>4. ASSUME NEW k \in Nat, 1 <= k, k <= Len(buf') PROVE buf'[k] = stream.bytes[Position' + k]
  <2>1. n + k \in Nat /\ 1 <= n + k /\ n + k <= Len(buf) /\ k <= Len(buf) - n
    BY <1>1, <1>2, <1>4
  <2>2. buf'[k] = buf[n + k]
    BY <1>1, <1>4, <2>1, FromAt
  <2>3. buf[n + k] = stream.bytes[Position + (n + k)]
    BY <2>1 DEF Ahead
  <2>4. Position + (n + k) = Position' + k
    BY <1>3
  <2> QED BY <2>2, <2>3, <2>4
<1>5. ASSUME NEW k \in Nat, 1 <= k, k <= Len(wire) PROVE wire[k] = stream.bytes[Position' + Len(buf') + k]
  <2>1. wire[k] = stream.bytes[Position + Len(buf) + k]
    BY <1>5 DEF Ahead
  <2>2. Position + Len(buf) + k = Position' + Len(buf') + k
    BY <1>1, <1>2, <1>3
  <2> QED BY <2>1, <2>2
<1> QED BY <1>3, <1>4, <1>5 DEF Ahead

LEMMA FrameStep ==
  ASSUME TypeOK, Ahead, DrainFrame, NEW n, n = ExtractFrame(buf).n
  PROVE  /\ n \in 1 .. Len(buf) /\ n >= 6 /\ buf \in Seq(Byte)
         /\ buf[1] = buf[2] /\ buf[1] \in {120, 121} /\ buf[n - 1] = CR /\ buf[n] = LF
         /\ out' = Append(out, SubSeq(buf, 1, n))
         /\ UNCHANGED <<stream, wire, pc>>
         /\ Ahead' /\ Position' = Position + n
<1>1. n \in 1 .. Len(buf) /\ n >= 6 /\ buf \in Seq(Byte) /\ n \in Nat /\ n <= Len(buf)
  BY ExtractTakes DEF TypeOK, DrainFrame
<1>2. buf[1] = buf[2] /\ buf[1] \in {120, 121} /\ buf[n - 1] = CR /\ buf[n] = LF
  BY ExtractTakes DEF TypeOK, DrainFrame
<1>3. buf' = From(buf, n) /\ out' = Append(out, SubSeq(buf, 1, n)) /\ UNCHANGED <<stream, wire, pc>>
  BY DEF DrainFrame
<1>4. Ahead' /\ Position' = Position + n
  BY <1>1, <1>3, DropAhead
<1> QED BY <1>1, <1>2, <1>3, <1>4

LEMMA BadStep ==
  ASSUME TypeOK, Ahead, DrainBad
  PROVE  /\ Ahead' /\ Position' >= Position /\ UNCHANGED <<stream, wire, out, pc>>
<1> DEFINE n == ExtractFrame(buf).n
<1>1. n \in 1 .. Len(buf) /\ buf \in Seq(Byte)
  BY ExtractTakes DEF TypeOK, DrainBad
<1>2. buf' = From(buf, n) /\ UNCHANGED <<stream, wire, out, pc>>
  BY <1>1 DEF DrainBad
<1> HIDE DEF n
<1>3. n \in Nat /\ n <= Len(buf)
  BY <1>1
<1>4. Ahead' /\ Position' = Position + n
  BY <1>2, <1>3, DropAhead
<1>5. Position' >= Position
  BY <1>3, <1>4 DEF Ahead
<1> QED BY <1>2, <1>4, <1>5

\* The frame o is the bytes of the stream from offset i on, header to trailer.
StretchAt(o, i) ==
  /\ Len(o) >= 6 /\ o[1] = o[2] /\ o[1] \in {120, 121} /\ o[Len(o) - 1] = CR /\ o[Len(o)] = LF
  /\ \A k \in Nat : 1 <= k /\ k <= Len(o) => o[k] = stream.bytes[i + k]

\* starts: where in the stream the frames handed on begin.
StretchesFrom(starts) ==
  /\ starts \in [1 .. Len(out) -> Nat]
  /\ \A k \in 1 .. Len(out) : StretchAt(out[k], starts[k]) /\ starts[k] + Len(out[k]) <= Position
  /\ \A j, k \in 1 .. Len(out) : j < k => starts[j] + Len(out[j]) <= starts[k]

\* What has been handed on are separate stretches of the stream, in order.
Stretches == \E starts \in [1 .. Len(out) -> Nat] : StretchesFrom(starts)

LEMMA OutTypes ==
  ASSUME TypeOK
  PROVE  /\ out \in Seq(Seq(Byte)) /\ Len(out) \in Nat
         /\ \A k \in 1 .. Len(out) : out[k] \in Seq(Byte) /\ Len(out[k]) \in Nat
<1>1. out \in Seq(Seq(Byte))
  BY DEF TypeOK
<1>2. \A k \in 1 .. Len(out) : out[k] \in Seq(Byte)
  BY <1>1
<1> QED BY <1>1, <1>2

LEMMA SameStretches ==
  ASSUME TypeOK, Ahead, Stretches, UNCHANGED <<stream, out>>, Position' \in Nat, Position' >= Position
  PROVE  Stretches'
<1>1. PICK starts \in [1 .. Len(out) -> Nat] : StretchesFrom(starts)
  BY DEF Stretches
<1>2. \A k \in 1 .. Len(out) : Len(out[k]) \in Nat /\ starts[k] \in Nat
  BY OutTypes
<1>3. \A k \in 1 .. Len(out) : starts[k] + Len(out[k]) <= Position'
  BY <1>1, <1>2 DEF StretchesFrom, Ahead
<1>4. StretchesFrom(starts)'
  BY <1>1, <1>3 DEF StretchesFrom, StretchAt
<1> QED BY <1>4 DEF Stretches

LEMMA MoreStretches ==
  ASSUME TypeOK, Ahead, Stretches, DrainFrame
  PROVE  Stretches'
<1> DEFINE n == ExtractFrame(buf).n
           o == SubSeq(buf, 1, n)
           K == Len(out)
<1>1. /\ n \in 1 .. Len(buf) /\ n >= 6 /\ buf \in Seq(Byte)
      /\ buf[1] = buf[2] /\ buf[1] \in {120, 121} /\ buf[n - 1] = CR /\ buf[n] = LF
      /\ out' = Append(out, o) /\ stream' = stream
      /\ Position' = Position + n
  BY FrameStep
<1>2. n \in Nat /\ n <= Len(buf) /\ Position \in Nat /\ K \in Nat /\ out \in Seq(Seq(Byte))
  <2>1. Position \in Nat
    BY DEF Ahead
  <2> QED BY <1>1, <2>1, OutTypes
<1> HIDE DEF n
<1>3. o \in Seq(Byte) /\ Len(o) = n /\ \A k \in Nat : 1 <= k /\ k <= n => o[k] = buf[k]
  BY <1>1, <1>2, TakeAt
<1>4. StretchAt(o, Position)
  <2>1. o[1] = buf[1] /\ o[2] = buf[2] /\ o[n - 1] = buf[n - 1] /\ o[n] = buf[n]
    BY <1>1, <1>2, <1>3
  <2>2. ASSUME NEW k \in Nat, 1 <= k, k <= n PROVE o[k] = stream.bytes[Position + k]
    <3>1. k <= Len(buf)
      BY <1>1, <1>2, <2>2
    <3> QED BY <1>3, <2>2, <3>1 DEF Ahead
  <2> QED BY <1>1, <1>3, <2>1, <2>2 DEF StretchAt
<1> HIDE DEF o
<1>5. PICK starts \in [1 .. K -> Nat] : StretchesFrom(starts)
  BY DEF Stretches
<1>5a. PICK more : more = [k \in 1 .. K + 1 |-> IF k = K + 1 THEN Position ELSE starts[k]]
  OBVIOUS
<1>6. Len(out') = K + 1 /\ out'[K + 1] = o /\ \A k \in 1 .. K : out'[k] = out[k]
  BY <1>1, <1>2, <1>3
<1>7. more \in [1 .. K + 1 -> Nat] /\ more[K + 1] = Position /\ \A k \in 1 .. K : more[k] = starts[k]
  BY <1>2, <1>5a
<1> HIDE DEF K
<1>8. \A k \in 1 .. K : /\ StretchAt(out[k], starts[k]) /\ starts[k] + Len(out[k]) <= Position
                        /\ starts[k] \in Nat /\ Len(out[k]) \in Nat
  <2>1. \A k \in 1 .. K : Len(out[k]) \in Nat /\ starts[k] \in Nat
    BY OutTypes DEF K
  <2> QED BY <1>5, <2>1 DEF StretchesFrom, K
<1>9. \A k \in 1 .. K + 1 : k = K + 1 \/ k \in 1 .. K
  BY <1>2
<1>10. ASSUME NEW k \in 1 .. K + 1 PROVE StretchAt(out'[k], more[k]) /\ more[k] + Len(out'[k]) <= Position'
  <2>1. CASE k = K + 1
    BY <1>1, <1>2, <1>3, <1>4, <1>6, <1>7, <2>1
  <2>2. CASE k \in 1 .. K
    <3>1. out'[k] = out[k] /\ more[k] = starts[k]
      BY <1>6, <1>7, <2>2
    <3>2. /\ StretchAt(out[k], starts[k]) /\ starts[k] + Len(out[k]) <= Position
          /\ starts[k] \in Nat /\ Len(out[k]) \in Nat
      BY <1>8, <2>2
    <3>3. starts[k] + Len(out[k]) <= Position'
      <4> DEFINE e == starts[k] + Len(out[k])
      <4>1. e \in Nat /\ e <= Position
        BY <3>2
      <4>2. Position' = Position + n
        BY <1>1
      <4> HIDE DEF e
      <4>3. e <= Position'
        BY <1>2, <4>1, <4>2
      <4> QED BY <4>3 DEF e
    <3> QED BY <3>1, <3>2, <3>3
  <2> QED BY <1>9, <2>1, <2>2
<1>11. ASSUME NEW j \in 1 .. K + 1, NEW k \in 1 .. K + 1, j < k
       PROVE  more[j] + Len(out'[j]) <= more[k]
  <2>1. j \in 1 .. K
    BY <1>2, <1>11
  <2>2. CASE k = K + 1
    BY <1>6, <1>7, <1>8, <2>1, <2>2
  <2>3. CASE k \in 1 .. K
    BY <1>5, <1>6, <1>7, <1>11, <2>1, <2>3 DEF StretchesFrom, K
  <2> QED BY <1>9, <2>2, <2>3
<1>12. \A x, i : StretchAt(x, i)' <=> StretchAt(x, i)
  BY <1>1 DEF StretchAt
<1>13. StretchesFrom(more)'
  BY <1>6, <1>7, <1>10, <1>11, <1>12 DEF StretchesFrom
<1> QED BY <1>6, <1>7, <1>13 DEF Stretches

LEMMA NextStretches ==
  ASSUME TypeOK, Ahead, Stretches, [Next]_vars
  PROVE  Ahead' /\ Stretches'
<1>1. Position \in Nat
  BY DEF Ahead
<1>2. ASSUME NEW n \in 1 .. ReadSize, Read(n) PROVE Ahead' /\ Stretches'
  <2>1. Ahead' /\ Position' = Position /\ UNCHANGED <<stream, out>>
    BY <1>2, ReadAhead DEF Read
  <2>2. Position' \in Nat /\ Position' >= Position
    BY <1>1, <2>1
  <2> QED BY <2>1, <2>2, SameStretches
<1>3. CASE DrainBad
  <2>1. Ahead' /\ Position' >= Position /\ UNCHANGED <<stream, out>>
    BY <1>3, BadStep
  <2>2. Position' \in Nat
    BY <2>1 DEF Ahead
  <2> QED BY <2>1, <2>2, SameStretches
<1>4. CASE DrainFrame
  BY <1>4, FrameStep, MoreStretches
<1>5. CASE EndOfStream \/ DrainIncomplete \/ UNCHANGED vars
  <2>1. UNCHANGED <<stream, wire, buf, out>>
    BY <1>5 DEF EndOfStream, DrainIncomplete, vars
  <2>2. Ahead' /\ Position' = Position
    BY <2>1 DEF Ahead, Position
  <2>3. Position' \in Nat /\ Position' >= Position
    BY <1>1, <2>2
  <2> QED BY <2>1, <2>2, <2>3, SameStretches
<1> QED BY <1>2, <1>3, <1>4, <1>5 DEF Next, Drain

\* What is handed on from a header on starts at a header of the stream.
LEMMA StretchStarts ==
  ASSUME TypeOK, Ahead, NEW o \in Seq(Byte), NEW i \in Nat, StretchAt(o, i), i + Len(o) <= Position
  PROVE  CutAt(o, i)
<1>1. /\ Len(o) \in Nat /\ Len(o) >= 6 /\ o[1] = o[2] /\ o[1] \in {120, 121}
      /\ o[Len(o) - 1] = CR /\ o[Len(o)] = LF
  BY DEF StretchAt
<1>2. \A k \in Nat : 1 <= k /\ k <= Len(o) => o[k] = stream.bytes[i + k]
  BY DEF StretchAt
<1>3. Len(stream.bytes) \in Nat /\ Position <= Len(stream.bytes) /\ Position \in Nat
  <2>1. /\ Len(stream.bytes) \in Nat /\ Len(buf) \in Nat /\ Len(wire) \in Nat /\ Position \in Nat
    BY DEF TypeOK, Ahead
  <2> QED BY <2>1 DEF Position
<1>4. stream.bytes[i + 1] = stream.bytes[i + 2] /\ stream.bytes[i + 1] \in {120, 121}
  BY <1>1, <1>2
<1>5. i \in 0 .. Len(stream.bytes) - 2
  BY <1>1, <1>3
<1>6. i \in Headers(stream.bytes)
  BY <1>4, <1>5 DEF Headers
<1> QED BY <1>1, <1>2, <1>6 DEF CutAt

LEMMA StretchesAreSlices ==
  ASSUME TypeOK, Ahead, Stretches
  PROVE  Slices
<1>1. PICK starts \in [1 .. Len(out) -> Nat] : StretchesFrom(starts)
  BY DEF Stretches
<1>2. DOMAIN out = 1 .. Len(out)
  BY OutTypes
<1>3. ASSUME NEW k \in 1 .. Len(out) PROVE CutAt(out[k], starts[k])
  <2>1. out[k] \in Seq(Byte) /\ starts[k] \in Nat
    BY OutTypes
  <2>2. StretchAt(out[k], starts[k]) /\ starts[k] + Len(out[k]) <= Position
    BY <1>1 DEF StretchesFrom
  <2> QED BY <2>1, <2>2, StretchStarts
<1>4. starts \in [DOMAIN out -> Headers(stream.bytes)]
  BY <1>2, <1>3 DEF CutAt
<1>5. \A j, k \in DOMAIN out : j < k => starts[j] + Len(out[j]) <= starts[k]
  BY <1>1, <1>2 DEF StretchesFrom
<1> QED BY <1>2, <1>3, <1>4, <1>5 DEF Slices

(* See Slices: for every stream, noise included, and every fragmentation.  *)
THEOREM FramesAreSlices == Spec => []Slices
<1>1. Init => Ahead /\ Stretches
  <2> SUFFICES ASSUME Init PROVE Stretches
    BY InitAhead
  <2>1. out = <<>> /\ Len(out) = 0 /\ 1 .. Len(out) = {}
    BY DEF Init
  <2>2. [k \in {} |-> 0] \in [1 .. Len(out) -> Nat]
    BY <2>1
  <2>3. StretchesFrom([k \in {} |-> 0])
    BY <2>1, <2>2 DEF StretchesFrom
  <2> QED BY <2>2, <2>3 DEF Stretches
<1>2. TypeOK /\ Ahead /\ Stretches /\ [Next]_vars => Ahead' /\ Stretches'
  BY NextStretches
<1>3. TypeOK /\ Ahead /\ Stretches => Slices
  BY StretchesAreSlices
<1> QED BY <1>1, <1>2, <1>3, StreamTypes, PTL DEF Spec

-----------------------------------------------------------------------------
(* Streams of nothing but delimited frames. ends[k] is where frame k ends  *)
(* in the bytes (the bytes are the frames one after the other; said with   *)
(* positions, since what FlattenSeq computes cannot be proved here).       *)
Cuts(s, ends) ==
  /\ ends \in [0 .. Len(s.frames) -> Nat]
  /\ ends[0] = 0 /\ ends[Len(s.frames)] = Len(s.bytes)
  /\ \A k \in Nat : k < Len(s.frames) =>
       /\ ends[k + 1] = ends[k] + Len(s.frames[k + 1]) /\ ends[k + 1] <= Len(s.bytes)
       /\ \A i \in Nat : 1 <= i /\ i <= Len(s.frames[k + 1])
                           => s.frames[k + 1][i] = s.bytes[ends[k] + i]

AllDelimited(s) == \A k \in Nat : k < Len(s.frames) => Delimited(s.frames[k + 1])

Plain(s) == AllDelimited(s) /\ \E ends \in [0 .. Len(s.frames) -> Nat] : Cuts(s, ends)

(* The handler has handed on the first Len(out) frames and stands at the   *)
(* end of the last of them; when it waits for bytes, the next frame is not *)
(* complete.                                                               *)
InStep(ends) ==
  /\ Len(out) <= Len(stream.frames) /\ Position = ends[Len(out)]
  /\ \A k \in 1 .. Len(out) : out[k] = stream.frames[k]
  /\ pc # "drain" /\ Len(out) < Len(stream.frames) => Len(buf) < Len(stream.frames[Len(out) + 1])
  /\ pc = "done" => Len(wire) = 0

LEMMA Lengths ==
  ASSUME TypeOK, Ahead
  PROVE  /\ Len(out) \in Nat /\ Len(buf) \in Nat /\ Len(wire) \in Nat /\ Len(stream.frames) \in Nat
         /\ Len(stream.bytes) \in Nat /\ Position \in Nat /\ buf \in Seq(Byte)
         /\ Len(stream.bytes) = Position + Len(buf) + Len(wire)
<1>1. /\ Len(out) \in Nat /\ Len(buf) \in Nat /\ Len(wire) \in Nat /\ Len(stream.frames) \in Nat
      /\ Len(stream.bytes) \in Nat /\ Position \in Nat /\ buf \in Seq(Byte)
  BY OutTypes DEF TypeOK, Ahead
<1>2. Len(stream.bytes) = Position + Len(buf) + Len(wire)
  BY <1>1 DEF Position
<1> QED BY <1>1, <1>2

\* The next frame, as long as there is one.
LEMMA NextFrame ==
  ASSUME TypeOK, Ahead, AllDelimited(stream), NEW ends, Cuts(stream, ends), InStep(ends),
         Len(out) < Len(stream.frames), NEW f, f = stream.frames[Len(out) + 1]
  PROVE  /\ f \in Seq(Byte) /\ Len(f) \in Nat /\ Delimited(f) /\ Len(f) >= 6
         /\ ends[Len(out) + 1] = Position + Len(f) /\ ends[Len(out) + 1] <= Len(stream.bytes)
         /\ Agree(buf, f)
         /\ Len(buf) < Len(f) => ExtractFrame(buf) = Incomplete
         /\ Len(buf) >= Len(f) => ExtractFrame(buf) = FrameOf(Len(f))
<1>1. /\ Len(out) \in Nat /\ Len(buf) \in Nat /\ Len(stream.frames) \in Nat /\ Position \in Nat
      /\ buf \in Seq(Byte)
  BY Lengths
<1>2. f \in Seq(Byte) /\ Delimited(f)
  <2>1. Len(out) + 1 \in 1 .. Len(stream.frames) /\ stream.frames \in Seq(Seq(Byte))
    BY <1>1 DEF Ahead
  <2>2. f \in Seq(Byte)
    BY <2>1
  <2> QED BY <1>1, <2>2 DEF AllDelimited
<1>3. /\ ends[Len(out) + 1] = Position + Len(f) /\ ends[Len(out) + 1] <= Len(stream.bytes)
      /\ \A i \in Nat : 1 <= i /\ i <= Len(f) => f[i] = stream.bytes[Position + i]
  BY <1>1 DEF Cuts, InStep
<1>4. Agree(buf, f)
  <2> SUFFICES ASSUME NEW k \in Nat \ {0}, k <= Len(buf), k <= Len(f) PROVE buf[k] = f[k]
    BY DEF Agree
  <2>1. k \in Nat /\ 1 <= k
    OBVIOUS
  <2>2. f[k] = stream.bytes[Position + k]
    BY <1>3, <2>1
  <2>3. buf[k] = stream.bytes[Position + k]
    BY <2>1 DEF Ahead
  <2> QED BY <2>2, <2>3
<1>5. /\ Len(f) >= 6
      /\ Len(buf) < Len(f) => ExtractFrame(buf) = Incomplete
      /\ Len(buf) >= Len(f) => ExtractFrame(buf) = FrameOf(Len(f))
  BY <1>1, <1>2, <1>4 DEF Delimited
<1> QED BY <1>2, <1>3, <1>4, <1>5

\* After the last frame nothing is left.
LEMMA NoMoreFrames ==
  ASSUME TypeOK, Ahead, NEW ends, Cuts(stream, ends), InStep(ends), Len(out) = Len(stream.frames)
  PROVE  Len(buf) = 0 /\ Len(wire) = 0 /\ ExtractFrame(buf) = Incomplete
<1>1. /\ Len(buf) \in Nat /\ Len(wire) \in Nat /\ Position \in Nat
      /\ Len(stream.bytes) = Position + Len(buf) + Len(wire)
  BY Lengths
<1>2. Position = Len(stream.bytes)
  BY DEF Cuts, InStep
<1>3. Len(buf) = 0 /\ Len(wire) = 0
  BY <1>1, <1>2
<1> QED BY <1>3 DEF ExtractFrame

LEMMA InitStep ==
  ASSUME Init, NEW ends, Cuts(stream, ends), AllDelimited(stream)
  PROVE  InStep(ends)
<1>1. TypeOK /\ Ahead
  BY InitTypes, InitAhead
<1>2. /\ stream.bytes \in Seq(Byte) /\ stream.frames \in Seq(Seq(Byte)) /\ wire = stream.bytes
      /\ buf = <<>> /\ out = <<>> /\ pc = "read"
  BY <1>1 DEF Init, Ahead
<1>3. Position = 0 /\ Len(buf) = 0 /\ Len(out) = 0 /\ ends[0] = 0 /\ Len(stream.frames) \in Nat
  BY <1>2 DEF Position, Cuts
<1>4. ASSUME 0 < Len(stream.frames) PROVE 0 < Len(stream.frames[1])
  <2>1. stream.frames[1] \in Seq(Byte) /\ Delimited(stream.frames[1])
    <3>1. 1 \in 1 .. Len(stream.frames)
      BY <1>3, <1>4
    <3>2. Delimited(stream.frames[0 + 1])
      BY <1>4 DEF AllDelimited
    <3> QED BY <1>2, <3>1, <3>2
  <2>2. Len(stream.frames[1]) >= 6
    BY <2>1 DEF Delimited
  <2> QED BY <2>1, <2>2
<1> QED BY <1>2, <1>3, <1>4 DEF InStep

LEMMA FrameInStep ==
  ASSUME TypeOK, Ahead, DrainFrame, NEW ends, Cuts(stream, ends), AllDelimited(stream), InStep(ends)
  PROVE  InStep(ends)'
<1> DEFINE f == stream.frames[Len(out) + 1]
           n == ExtractFrame(buf).n
<1>1. /\ Len(out) \in Nat /\ Len(buf) \in Nat /\ Len(stream.frames) \in Nat /\ buf \in Seq(Byte)
      /\ Position \in Nat /\ Len(out) <= Len(stream.frames)
  BY Lengths DEF InStep
<1>2. ExtractFrame(buf) # Incomplete /\ pc = "drain"
  BY DEF DrainFrame, Incomplete
<1>3. Len(out) < Len(stream.frames)
  BY <1>1, <1>2, NoMoreFrames
<1>4. /\ f \in Seq(Byte) /\ Len(f) \in Nat /\ Len(f) >= 6 /\ Agree(buf, f)
      /\ ends[Len(out) + 1] = Position + Len(f)
      /\ Len(buf) >= Len(f) /\ ExtractFrame(buf) = FrameOf(Len(f))
  <2>1. /\ f \in Seq(Byte) /\ Len(f) \in Nat /\ Len(f) >= 6 /\ Agree(buf, f)
        /\ ends[Len(out) + 1] = Position + Len(f)
        /\ Len(buf) < Len(f) => ExtractFrame(buf) = Incomplete
        /\ Len(buf) >= Len(f) => ExtractFrame(buf) = FrameOf(Len(f))
    BY <1>3, NextFrame
  <2> HIDE DEF f
  <2>2. Len(buf) >= Len(f)
    BY <1>1, <1>2, <2>1
  <2> QED BY <2>1, <2>2
<1>5. n = Len(f)
  BY <1>4 DEF FrameOf
<1>6. out' = Append(out, SubSeq(buf, 1, n)) /\ UNCHANGED <<stream, wire, pc>> /\ Position' = Position + n
  BY FrameStep
<1>7. SubSeq(buf, 1, n) = f
  <2> HIDE DEF f, n
  <2>1. SubSeq(buf, 1, Len(f)) \in Seq(Byte) /\ Len(SubSeq(buf, 1, Len(f))) = Len(f)
        /\ \A k \in Nat : 1 <= k /\ k <= Len(f) => SubSeq(buf, 1, Len(f))[k] = buf[k]
    BY <1>1, <1>4, TakeAt
  <2>2. \A k \in 1 .. Len(f) : SubSeq(buf, 1, Len(f))[k] = f[k]
    BY <1>1, <1>4, <2>1, AgreeAt
  <2> QED BY <1>4, <1>5, <2>1, <2>2
<1> HIDE DEF n
<1>8. out' = Append(out, f) /\ out \in Seq(Seq(Byte))
  BY <1>6, <1>7, OutTypes
<1>9. Len(out') = Len(out) + 1 /\ out'[Len(out) + 1] = f /\ \A k \in 1 .. Len(out) : out'[k] = out[k]
  <2> HIDE DEF f
  <2> QED BY <1>4, <1>8
<1>10. Position' = ends[Len(out')]
  BY <1>4, <1>5, <1>6, <1>9
<1>11. ASSUME NEW k \in 1 .. Len(out') PROVE out'[k] = stream.frames[k]
  <2>1. CASE k = Len(out) + 1
    BY <1>9, <2>1
  <2>2. CASE k \in 1 .. Len(out)
    BY <1>9, <2>2 DEF InStep
  <2> QED BY <1>1, <1>9, <2>1, <2>2
<1>12. Len(out') <= Len(stream.frames)
  BY <1>1, <1>3, <1>9
<1>13. pc' = "drain" /\ stream' = stream
  BY <1>2, <1>6
<1> QED BY <1>10, <1>11, <1>12, <1>13 DEF InStep

LEMMA OtherInStep ==
  ASSUME TypeOK, Ahead, NEW ends, Cuts(stream, ends), AllDelimited(stream), InStep(ends),
         (\E n \in 1 .. ReadSize : Read(n)) \/ EndOfStream \/ DrainIncomplete \/ UNCHANGED vars
  PROVE  InStep(ends)'
<1>1. ASSUME NEW n \in 1 .. ReadSize, Read(n) PROVE InStep(ends)'
  <2>1. Position' = Position /\ pc' = "drain" /\ UNCHANGED <<stream, out>>
    BY <1>1, ReadAhead DEF Read
  <2> QED BY <2>1 DEF InStep
<1>2. ASSUME UNCHANGED <<stream, wire, buf, out>> PROVE Position' = Position
  BY <1>2 DEF Position
<1>3. CASE EndOfStream
  <2>1. UNCHANGED <<stream, wire, buf, out>> /\ pc = "read" /\ pc' = "done" /\ Len(wire) = 0
    BY <1>3 DEF EndOfStream
  <2> QED BY <1>2, <2>1 DEF InStep
<1>4. CASE DrainIncomplete
  <2>1. UNCHANGED <<stream, wire, buf, out>> /\ pc' = "read" /\ ExtractFrame(buf).kind = "incomplete"
    BY <1>4 DEF DrainIncomplete
  <2>2. ASSUME Len(out) < Len(stream.frames) PROVE Len(buf) < Len(stream.frames[Len(out) + 1])
    <3> DEFINE f == stream.frames[Len(out) + 1]
    <3>1. /\ Len(f) \in Nat /\ Len(buf) >= Len(f) => ExtractFrame(buf) = FrameOf(Len(f))
      BY <2>2, NextFrame
    <3>2. ExtractFrame(buf) # FrameOf(Len(f))
      BY <2>1 DEF FrameOf
    <3>3. Len(buf) \in Nat
      BY Lengths
    <3> HIDE DEF f
    <3>4. Len(buf) < Len(f)
      BY <3>1, <3>2, <3>3
    <3> QED BY <3>4 DEF f
  <2> QED BY <1>2, <2>1, <2>2 DEF InStep
<1>5. CASE UNCHANGED vars
  <2>1. UNCHANGED <<stream, wire, buf, out>> /\ pc' = pc
    BY <1>5 DEF vars
  <2> QED BY <1>2, <2>1 DEF InStep
<1> QED BY <1>1, <1>3, <1>4, <1>5

PlainInv ==
  /\ TypeOK /\ Ahead
  /\ \A ends : Cuts(stream, ends) /\ AllDelimited(stream) => InStep(ends)

LEMMA NextPlain ==
  ASSUME PlainInv, [Next]_vars
  PROVE  PlainInv'
<1>1. TypeOK /\ Ahead
  BY DEF PlainInv
<1>2. TypeOK'
  BY <1>1, NextTypes
<1>3. Ahead' /\ stream' = stream
  <2>1. ASSUME NEW n \in 1 .. ReadSize, Read(n) PROVE Ahead' /\ stream' = stream
    BY <1>1, <2>1, ReadAhead DEF Read
  <2>2. CASE DrainBad
    BY <1>1, <2>2, BadStep
  <2>3. CASE DrainFrame
    BY <1>1, <2>3, FrameStep
  <2>4. CASE EndOfStream \/ DrainIncomplete \/ UNCHANGED vars
    <3>1. UNCHANGED <<stream, wire, buf>>
      BY <2>4 DEF EndOfStream, DrainIncomplete, vars
    <3> QED BY <1>1, <3>1 DEF Ahead, Position
  <2> QED BY <2>1, <2>2, <2>3, <2>4 DEF Next, Drain
<1>4. ASSUME NEW ends, Cuts(stream, ends), AllDelimited(stream) PROVE InStep(ends)'
  <2>1. InStep(ends)
    BY <1>4 DEF PlainInv
  <2>2. ~ DrainBad
    <3>1. ExtractFrame(buf) = Incomplete \/ \E n \in Nat : ExtractFrame(buf) = FrameOf(n)
      <4>1. CASE Len(out) = Len(stream.frames)
        BY <1>1, <1>4, <2>1, <4>1, NoMoreFrames
      <4>2. CASE Len(out) < Len(stream.frames)
        <5> DEFINE f == stream.frames[Len(out) + 1]
        <5>1. /\ Len(f) \in Nat /\ Len(buf) < Len(f) => ExtractFrame(buf) = Incomplete
              /\ Len(buf) >= Len(f) => ExtractFrame(buf) = FrameOf(Len(f))
          BY <1>1, <1>4, <2>1, <4>2, NextFrame
        <5>2. Len(f) \in Nat /\ Len(buf) \in Nat
          BY <1>1, <1>4, <2>1, <4>2, NextFrame, Lengths
        <5> HIDE DEF f
        <5> QED BY <5>1, <5>2
      <4>3. Len(out) <= Len(stream.frames) /\ Len(out) \in Nat /\ Len(stream.frames) \in Nat
        BY <1>1, <2>1, Lengths DEF InStep
      <4> QED BY <4>1, <4>2, <4>3
    <3> QED BY <3>1 DEF DrainBad, Incomplete, FrameOf
  <2>3. CASE DrainFrame
    BY <1>1, <1>4, <2>1, <2>3, FrameInStep
  <2>4. CASE (\E n \in 1 .. ReadSize : Read(n)) \/ EndOfStream \/ DrainIncomplete \/ UNCHANGED vars
    BY <1>1, <1>4, <2>1, <2>4, OtherInStep
  <2> QED BY <2>2, <2>3, <2>4 DEF Next, Drain
<1>5. \A ends : (Cuts(stream, ends) /\ AllDelimited(stream))'
                  <=> (Cuts(stream, ends) /\ AllDelimited(stream))
  BY <1>3 DEF Cuts, AllDelimited
<1> QED BY <1>2, <1>3, <1>4, <1>5 DEF PlainInv

LEMMA SameSeq ==
  ASSUME NEW S, NEW a \in Seq(S), NEW b \in Seq(S), Len(a) = Len(b),
         \A k \in 1 .. Len(a) : a[k] = b[k]
  PROVE  a = b
OBVIOUS

LEMMA TakeOf ==
  ASSUME NEW S, NEW a \in Seq(S), NEW n \in 0 .. Len(a)
  PROVE  /\ SubSeq(a, 1, n) \in Seq(S) /\ Len(SubSeq(a, 1, n)) = n
         /\ \A k \in 1 .. n : SubSeq(a, 1, n)[k] = a[k]
OBVIOUS

LEMMA PlainDelivered ==
  ASSUME PlainInv, Plain(stream)
  PROVE  IsPrefix(out, stream.frames) /\ (pc = "done" => out = stream.frames)
<1>1. PICK ends : Cuts(stream, ends) /\ AllDelimited(stream)
  BY DEF Plain
<1>2. TypeOK /\ Ahead /\ InStep(ends)
  BY <1>1 DEF PlainInv
<1>3. /\ Len(out) \in Nat /\ Len(stream.frames) \in Nat /\ Len(out) <= Len(stream.frames)
      /\ out \in Seq(Seq(Byte)) /\ stream.frames \in Seq(Seq(Byte))
      /\ \A k \in 1 .. Len(out) : out[k] = stream.frames[k]
  BY <1>2, Lengths, OutTypes DEF InStep, Ahead
<1>4. SubSeq(out, 1, Len(out)) = SubSeq(stream.frames, 1, Len(out))
  <2> DEFINE a == SubSeq(out, 1, Len(out))
             b == SubSeq(stream.frames, 1, Len(out))
  <2>1. Len(out) \in 0 .. Len(out) /\ Len(out) \in 0 .. Len(stream.frames)
    BY <1>3
  <2>2. a \in Seq(Seq(Byte)) /\ Len(a) = Len(out) /\ \A k \in 1 .. Len(out) : a[k] = out[k]
    BY <1>3, <2>1, TakeOf
  <2>3. b \in Seq(Seq(Byte)) /\ Len(b) = Len(out) /\ \A k \in 1 .. Len(out) : b[k] = stream.frames[k]
    BY <1>3, <2>1, TakeOf
  <2> HIDE DEF a, b
  <2>4. Len(a) = Len(b) /\ \A k \in 1 .. Len(a) : a[k] = b[k]
    BY <1>3, <2>2, <2>3
  <2>5. a = b
    BY <2>2, <2>3, <2>4, SameSeq
  <2> QED BY <2>5 DEF a, b
<1>5. ASSUME pc = "done" PROVE Len(out) = Len(stream.frames)
  <2> SUFFICES ASSUME Len(out) < Len(stream.frames) PROVE FALSE
    BY <1>3
  <2> DEFINE f == stream.frames[Len(out) + 1]
  <2>1. /\ Len(f) \in Nat /\ ends[Len(out) + 1] = Position + Len(f)
        /\ ends[Len(out) + 1] <= Len(stream.bytes)
    BY <1>1, <1>2, NextFrame
  <2>2. Len(buf) < Len(f) /\ Len(wire) = 0
    BY <1>2, <1>5 DEF InStep
  <2> HIDE DEF f
  <2>3. /\ Len(buf) \in Nat /\ Position \in Nat
        /\ Len(stream.bytes) = Position + Len(buf) + Len(wire)
    BY <1>2, Lengths
  <2> QED BY <2>1, <2>2, <2>3
<1>6. ASSUME pc = "done" PROVE out = stream.frames
  <2>1. Len(out) = Len(stream.frames)
    BY <1>5, <1>6
  <2>2. \A k \in 1 .. Len(out) : out[k] = stream.frames[k]
    BY <1>3
  <2> QED BY <1>3, <2>1, <2>2, SameSeq
<1> QED BY <1>3, <1>4, <1>6 DEF IsPrefix

LEMMA PlainInvariant == Spec => []PlainInv
<1>1. Init => PlainInv
  BY InitTypes, InitAhead, InitStep DEF PlainInv
<1>2. PlainInv /\ [Next]_vars => PlainInv'
  BY NextPlain
<1> QED BY <1>1, <1>2, PTL DEF Spec

(* A tracker sends delimited frames (of a fixed layout, with any bytes in  *)
(* them, or radio reports with cells), any number of them: however TCP     *)
(* splits the bytes into reads, the frames handed on are those sent, in    *)
(* order, none cut short and none merged.                                  *)
THEOREM PlainStreamsInOrder == Spec => [](Plain(stream) => InOrder)
<1>1. PlainInv => (Plain(stream) => InOrder)
  BY PlainDelivered DEF InOrder
<1> QED BY <1>1, PlainInvariant, PTL

(* For the same streams: when the stream ends, every frame sent has been   *)
(* handed on, none waits in the buffer.                                    *)
THEOREM PlainStreamsDelivered == Spec => [](Plain(stream) => AllDelivered)
<1>1. PlainInv => (Plain(stream) => AllDelivered)
  BY PlainDelivered DEF AllDelivered
<1> QED BY <1>1, PlainInvariant, PTL

-----------------------------------------------------------------------------
(* Delimited frames among bytes that are no frames. starts[k] is where     *)
(* frame k begins; the bytes outside the frames hold no header.            *)
At(s, f, i) ==
  /\ i + Len(f) <= Len(s.bytes)
  /\ \A k \in Nat : 1 <= k /\ k <= Len(f) => f[k] = s.bytes[i + k]

Amid(s, starts) ==
  /\ starts \in [1 .. Len(s.frames) -> Nat]
  /\ \A k \in 1 .. Len(s.frames) : At(s, s.frames[k], starts[k])
  /\ \A j, k \in 1 .. Len(s.frames) : j < k => starts[j] + Len(s.frames[j]) <= starts[k]
  /\ \A i \in Headers(s.bytes) : \E k \in 1 .. Len(s.frames) :
       starts[k] <= i /\ i < starts[k] + Len(s.frames[k])

Noisy(s) == AllDelimited(s) /\ \E starts \in [1 .. Len(s.frames) -> Nat] : Amid(s, starts)

\* The frames handed on are frames sent, in order, all begun before Position.
Picks(starts, sent) ==
  /\ sent \in [1 .. Len(out) -> 1 .. Len(stream.frames)]
  /\ \A k \in 1 .. Len(out) : out[k] = stream.frames[sent[k]] /\ starts[sent[k]] < Position
  /\ \A j, k \in 1 .. Len(out) : j < k => sent[j] < sent[k]

Chosen(starts) == \E sent \in [1 .. Len(out) -> 1 .. Len(stream.frames)] : Picks(starts, sent)

LEMMA FrameTypes ==
  ASSUME Ahead, AllDelimited(stream), NEW k \in 1 .. Len(stream.frames)
  PROVE  /\ stream.frames[k] \in Seq(Byte) /\ Len(stream.frames[k]) \in Nat
         /\ Delimited(stream.frames[k])
<1>1. stream.frames \in Seq(Seq(Byte)) /\ Len(stream.frames) \in Nat
  BY DEF Ahead
<1>2. stream.frames[k] \in Seq(Byte)
  BY <1>1
<1>3. k - 1 \in Nat /\ k - 1 < Len(stream.frames) /\ (k - 1) + 1 = k
  BY <1>1
<1>4. Delimited(stream.frames[(k - 1) + 1])
  BY <1>3 DEF AllDelimited
<1> QED BY <1>2, <1>3, <1>4

\* Of a header in the stream that lies in a frame: the frame begins there.
LEMMA HeaderBegins ==
  ASSUME NEW f \in Seq(Byte), Delimited(f), Headers(f) = {0}, NEW b \in Seq(Byte),
         NEW i \in Nat, \A k \in Nat : 1 <= k /\ k <= Len(f) => f[k] = b[i + k],
         NEW h \in Nat, i <= h, h < i + Len(f), b[h + 1] = b[h + 2], b[h + 1] \in {120, 121}
  PROVE  h = i
<1> DEFINE d == h - i
<1>1. d \in Nat /\ d < Len(f) /\ Len(f) \in Nat /\ i + (d + 1) = h + 1 /\ i + (d + 2) = h + 2
  OBVIOUS
<1> HIDE DEF d
<1>2. f[d + 1] = b[h + 1]
  <2>1. d + 1 \in Nat /\ 1 <= d + 1 /\ d + 1 <= Len(f)
    BY <1>1
  <2> QED BY <1>1, <2>1
<1>3. d + 1 # Len(f)
  <2>1. f[Len(f)] = LF
    BY DelimitedWhole
  <2> QED BY <1>2, <2>1 DEF LF
<1>4. d + 2 <= Len(f) /\ d \in 0 .. Len(f) - 2
  BY <1>1, <1>3
<1>5. f[d + 2] = b[h + 2]
  <2>1. d + 2 \in Nat /\ 1 <= d + 2 /\ d + 2 <= Len(f)
    BY <1>1, <1>4
  <2> QED BY <1>1, <2>1
<1>6. d \in Headers(f)
  BY <1>2, <1>4, <1>5 DEF Headers
<1>7. d = 0
  BY <1>6
<1> QED BY <1>7 DEF d

\* What DrainFrame cuts off is the frame that begins at Position.
LEMMA FrameThere ==
  ASSUME TypeOK, Ahead, DrainFrame, NEW starts, Amid(stream, starts), AllDelimited(stream), OneHeaderEach
  PROVE  \E k \in 1 .. Len(stream.frames) :
           /\ starts[k] = Position /\ Position' = Position + Len(stream.frames[k])
           /\ out' = Append(out, stream.frames[k])
<1> DEFINE n == ExtractFrame(buf).n
<1>1. /\ n \in 1 .. Len(buf) /\ n >= 6 /\ buf \in Seq(Byte) /\ buf[1] = buf[2] /\ buf[1] \in {120, 121}
      /\ out' = Append(out, SubSeq(buf, 1, n)) /\ Position' = Position + n
  BY FrameStep
<1>2. /\ Len(buf) \in Nat /\ Len(wire) \in Nat /\ Len(stream.bytes) \in Nat /\ Position \in Nat
      /\ Len(stream.bytes) = Position + Len(buf) + Len(wire) /\ stream.bytes \in Seq(Byte)
  BY Lengths DEF Ahead
<1>3. Len(buf) >= 6
  <2> HIDE DEF n
  <2> QED BY <1>1, <1>2
<1>4. buf[1] = stream.bytes[Position + 1] /\ buf[2] = stream.bytes[Position + 2]
  BY <1>3 DEF Ahead
<1>5. Position \in Headers(stream.bytes)
  <2>1. Position \in 0 .. Len(stream.bytes) - 2
    BY <1>2, <1>3
  <2> QED BY <1>1, <1>4, <2>1 DEF Headers
<1>6. PICK k \in 1 .. Len(stream.frames) :
        starts[k] <= Position /\ Position < starts[k] + Len(stream.frames[k])
  BY <1>5 DEF Amid
<1> DEFINE f == stream.frames[k]
<1>7. f \in Seq(Byte) /\ Len(f) \in Nat /\ Delimited(f)
  BY FrameTypes
<1>8. Headers(f) = {0}
  <2>1. k \in DOMAIN stream.frames
    BY DEF Ahead
  <2> QED BY <2>1 DEF OneHeaderEach
<1>9. starts[k] \in Nat /\ \A i \in Nat : 1 <= i /\ i <= Len(f) => f[i] = stream.bytes[starts[k] + i]
  BY DEF Amid, At
<1> HIDE DEF f
<1>10. starts[k] = Position
  <2>1. Position < starts[k] + Len(f)
    BY <1>6 DEF f
  <2> DEFINE i == starts[k]
  <2>2. /\ i \in Nat /\ i <= Position /\ Position < i + Len(f)
        /\ \A j \in Nat : 1 <= j /\ j <= Len(f) => f[j] = stream.bytes[i + j]
    BY <1>6, <1>9, <2>1
  <2> HIDE DEF i
  <2>3. stream.bytes[Position + 1] = stream.bytes[Position + 2] /\ stream.bytes[Position + 1] \in {120, 121}
    BY <1>1, <1>4
  <2>4. Position = i
    BY <1>2, <1>7, <1>8, <2>2, <2>3, HeaderBegins
  <2> QED BY <2>4 DEF i
<1>11. Agree(buf, f)
  <2> SUFFICES ASSUME NEW i \in Nat \ {0}, i <= Len(buf), i <= Len(f) PROVE buf[i] = f[i]
    BY DEF Agree
  <2>1. i \in Nat /\ 1 <= i
    OBVIOUS
  <2>2. f[i] = stream.bytes[Position + i]
    BY <1>9, <1>10, <2>1
  <2>3. buf[i] = stream.bytes[Position + i]
    BY <2>1 DEF Ahead
  <2> QED BY <2>2, <2>3
<1>12. Len(buf) >= Len(f) /\ ExtractFrame(buf) = FrameOf(Len(f))
  <2>1. /\ Len(buf) < Len(f) => ExtractFrame(buf) = Incomplete
        /\ Len(buf) >= Len(f) => ExtractFrame(buf) = FrameOf(Len(f))
    BY <1>1, <1>7, <1>11 DEF Delimited
  <2>2. ExtractFrame(buf) # Incomplete
    BY DEF DrainFrame, Incomplete
  <2> QED BY <1>2, <1>7, <2>1, <2>2
<1>13. n = Len(f)
  BY <1>12 DEF FrameOf
<1> HIDE DEF n
<1>14. SubSeq(buf, 1, n) = f
  <2>1. /\ SubSeq(buf, 1, Len(f)) \in Seq(Byte) /\ Len(SubSeq(buf, 1, Len(f))) = Len(f)
        /\ \A i \in Nat : 1 <= i /\ i <= Len(f) => SubSeq(buf, 1, Len(f))[i] = buf[i]
    BY <1>1, <1>7, <1>12, TakeAt
  <2>2. \A i \in 1 .. Len(f) : SubSeq(buf, 1, Len(f))[i] = f[i]
    BY <1>1, <1>7, <1>11, <1>12, <2>1, AgreeAt
  <2> QED BY <1>7, <1>13, <2>1, <2>2
<1> QED BY <1>1, <1>10, <1>13, <1>14 DEF f

LEMMA MorePicks ==
  ASSUME TypeOK, Ahead, DrainFrame, NEW starts, Amid(stream, starts), AllDelimited(stream),
         OneHeaderEach, Chosen(starts)
  PROVE  Chosen(starts)'
<1> DEFINE K == Len(out)
           F == Len(stream.frames)
<1>1. PICK m \in 1 .. F : /\ starts[m] = Position /\ Position' = Position + Len(stream.frames[m])
                          /\ out' = Append(out, stream.frames[m])
  BY FrameThere
<1>2. /\ K \in Nat /\ F \in Nat /\ Position \in Nat /\ out \in Seq(Seq(Byte)) /\ stream' = stream
      /\ stream.frames[m] \in Seq(Byte)
  BY Lengths, OutTypes, FrameTypes DEF DrainFrame
<1>3. Len(stream.frames[m]) \in Nat /\ Len(stream.frames[m]) >= 6
  <2>1. Delimited(stream.frames[m])
    BY FrameTypes
  <2> QED BY <1>2, <2>1 DEF Delimited
<1>4. PICK sent \in [1 .. K -> 1 .. F] : Picks(starts, sent)
  BY DEF Chosen
<1>5. PICK more : more = [k \in 1 .. K + 1 |-> IF k = K + 1 THEN m ELSE sent[k]]
  OBVIOUS
<1>6. Len(out') = K + 1 /\ out'[K + 1] = stream.frames[m] /\ \A k \in 1 .. K : out'[k] = out[k]
  <2> DEFINE f == stream.frames[m]
  <2>1. f \in Seq(Byte) /\ out' = Append(out, f)
    BY <1>1, <1>2
  <2> HIDE DEF f
  <2>2. Len(out') = K + 1 /\ out'[K + 1] = f /\ \A k \in 1 .. K : out'[k] = out[k]
    BY <1>2, <2>1
  <2> QED BY <2>2 DEF f
<1> HIDE DEF K, F
<1>7. /\ more \in [1 .. K + 1 -> 1 .. F] /\ more[K + 1] = m
      /\ \A k \in 1 .. K : more[k] = sent[k] /\ sent[k] \in 1 .. F
  BY <1>2, <1>4, <1>5
<1>8. \A k \in 1 .. K + 1 : k = K + 1 \/ k \in 1 .. K
  BY <1>2
<1>9. starts \in [1 .. F -> Nat]
  BY DEF Amid, F
<1>10. Position' > Position /\ Position' \in Nat
  BY <1>1, <1>2, <1>3
<1>11. \A k \in 1 .. K : out[k] = stream.frames[sent[k]] /\ starts[sent[k]] < Position
  BY <1>4 DEF Picks, K
<1>12. ASSUME NEW k \in 1 .. K + 1 PROVE out'[k] = stream.frames[more[k]] /\ starts[more[k]] < Position'
  <2>1. CASE k = K + 1
    BY <1>1, <1>6, <1>7, <1>10, <2>1
  <2>2. CASE k \in 1 .. K
    <3>1. out'[k] = stream.frames[more[k]] /\ starts[more[k]] < Position /\ starts[more[k]] \in Nat
      BY <1>6, <1>7, <1>9, <1>11, <2>2
    <3> QED BY <1>2, <1>10, <3>1
  <2> QED BY <1>8, <2>1, <2>2
<1>13. ASSUME NEW j \in 1 .. K PROVE sent[j] < m
  <2>1. sent[j] \in 1 .. F /\ starts[sent[j]] < starts[m]
    BY <1>1, <1>7, <1>11
  <2>2. ASSUME m < sent[j] PROVE starts[m] + Len(stream.frames[m]) <= starts[sent[j]]
    BY <2>1, <2>2 DEF Amid, F
  <2>3. starts[m] \in Nat /\ starts[sent[j]] \in Nat /\ m \in Nat /\ sent[j] \in Nat
    BY <1>2, <1>9, <2>1
  <2>4. ~ (m < sent[j])
    <3> SUFFICES ASSUME m < sent[j] PROVE FALSE
      OBVIOUS
    <3>1. starts[m] + Len(stream.frames[m]) <= starts[sent[j]]
      BY <2>2
    <3> DEFINE a == starts[m]
               b == starts[sent[j]]
               l == Len(stream.frames[m])
    <3>2. a \in Nat /\ b \in Nat /\ l \in Nat /\ a + l <= b /\ b < a
      BY <1>3, <2>1, <2>3, <3>1
    <3> HIDE DEF a, b, l
    <3> QED BY <3>2
  <2>5. sent[j] # m
    BY <2>1, <2>3
  <2> QED BY <2>3, <2>4, <2>5
<1>14. ASSUME NEW j \in 1 .. K + 1, NEW k \in 1 .. K + 1, j < k PROVE more[j] < more[k]
  <2>1. j \in 1 .. K
    BY <1>2, <1>14
  <2>2. CASE k = K + 1
    BY <1>7, <1>13, <2>1, <2>2
  <2>3. CASE k \in 1 .. K
    BY <1>4, <1>7, <1>14, <2>1, <2>3 DEF Picks, K
  <2> QED BY <1>8, <2>2, <2>3
<1>15. Picks(starts, more)'
  BY <1>2, <1>6, <1>7, <1>12, <1>14 DEF Picks, F
<1> QED BY <1>2, <1>6, <1>7, <1>15 DEF Chosen, F

LEMMA SamePicks ==
  ASSUME Ahead, NEW starts, Amid(stream, starts), Chosen(starts),
         UNCHANGED <<stream, out>>, Position' \in Nat, Position' >= Position
  PROVE  Chosen(starts)'
<1>1. PICK sent \in [1 .. Len(out) -> 1 .. Len(stream.frames)] : Picks(starts, sent)
  BY DEF Chosen
<1>2. Position \in Nat /\ \A k \in 1 .. Len(out) : starts[sent[k]] \in Nat
  BY DEF Ahead, Amid
<1>3. \A k \in 1 .. Len(out) : starts[sent[k]] < Position'
  BY <1>1, <1>2 DEF Picks
<1>4. Picks(starts, sent)'
  BY <1>1, <1>3 DEF Picks
<1> QED BY <1>4 DEF Chosen

NoiseInv ==
  /\ TypeOK /\ Ahead
  /\ \A starts : Amid(stream, starts) /\ AllDelimited(stream) /\ OneHeaderEach => Chosen(starts)

LEMMA NextNoise ==
  ASSUME NoiseInv, [Next]_vars
  PROVE  NoiseInv'
<1>1. TypeOK /\ Ahead /\ Position \in Nat
  BY DEF NoiseInv, Ahead
<1>2. TypeOK'
  BY <1>1, NextTypes
<1>3. DrainFrame \/ (Position' >= Position /\ Ahead' /\ UNCHANGED <<stream, out>>)
  <2>1. ASSUME NEW n \in 1 .. ReadSize, Read(n)
        PROVE  Position' >= Position /\ Ahead' /\ UNCHANGED <<stream, out>>
    <3>1. Position' = Position /\ Ahead' /\ UNCHANGED <<stream, out>>
      BY <1>1, <2>1, ReadAhead DEF Read
    <3>2. Position' >= Position
      BY <1>1, <3>1
    <3> QED BY <3>1, <3>2
  <2>2. CASE DrainBad
    BY <1>1, <2>2, BadStep
  <2>3. CASE EndOfStream \/ DrainIncomplete \/ UNCHANGED vars
    <3>1. UNCHANGED <<stream, wire, buf, out>>
      BY <2>3 DEF EndOfStream, DrainIncomplete, vars
    <3>2. Position' = Position
      BY <3>1 DEF Position
    <3>3. Ahead'
      BY <1>1, <3>1 DEF Ahead, Position
    <3> QED BY <1>1, <3>1, <3>2, <3>3
  <2> QED BY <2>1, <2>2, <2>3 DEF Next, Drain
<1>4. Ahead' /\ stream' = stream
  BY <1>1, <1>3, FrameStep
<1>5. ASSUME NEW starts, Amid(stream, starts), AllDelimited(stream), OneHeaderEach PROVE Chosen(starts)'
  <2>1. Chosen(starts)
    BY <1>5 DEF NoiseInv
  <2>2. CASE DrainFrame
    BY <1>1, <1>5, <2>1, <2>2, MorePicks
  <2>3. CASE ~ DrainFrame
    <3>1. Position' >= Position /\ Ahead' /\ UNCHANGED <<stream, out>>
      BY <1>3, <2>3
    <3>2. Position' \in Nat
      BY <3>1 DEF Ahead
    <3> QED BY <1>1, <1>5, <2>1, <3>1, <3>2, SamePicks
  <2> QED BY <2>2, <2>3
<1>6. \A starts : (Amid(stream, starts) /\ AllDelimited(stream) /\ OneHeaderEach)'
                    <=> (Amid(stream, starts) /\ AllDelimited(stream) /\ OneHeaderEach)
  BY <1>4 DEF Amid, At, AllDelimited, OneHeaderEach
<1> QED BY <1>2, <1>4, <1>5, <1>6 DEF NoiseInv

(* A tracker sends delimited frames with bytes between them that hold no   *)
(* header: whatever is dropped to find a header again, and however TCP     *)
(* splits the bytes, what is handed on are frames that were sent, whole    *)
(* and in the order sent.                                                  *)
THEOREM NoisyStreams == Spec => [](Noisy(stream) => NothingInvented)
<1>1. Init => NoiseInv
  <2> SUFFICES ASSUME Init PROVE NoiseInv
    OBVIOUS
  <2>1. Len(out) = 0 /\ 1 .. 0 = {}
    BY DEF Init
  <2>2. ASSUME NEW starts PROVE Chosen(starts)
    <3> DEFINE none == [k \in {} |-> 0]
    <3>1. none \in [1 .. Len(out) -> 1 .. Len(stream.frames)]
      BY <2>1
    <3>2. Picks(starts, none)
      BY <2>1, <3>1 DEF Picks
    <3> QED BY <3>1, <3>2 DEF Chosen
  <2> QED BY <2>2, InitTypes, InitAhead DEF NoiseInv
<1>2. NoiseInv /\ [Next]_vars => NoiseInv'
  BY NextNoise
<1>3. NoiseInv => (Noisy(stream) => NothingInvented)
  <2> SUFFICES ASSUME NoiseInv, Noisy(stream), OneHeaderEach
               PROVE  \E sent \in [DOMAIN out -> DOMAIN stream.frames] :
                        /\ \A k \in DOMAIN out : out[k] = stream.frames[sent[k]]
                        /\ \A j, k \in DOMAIN out : j < k => sent[j] < sent[k]
    BY DEF NothingInvented
  <2>1. PICK starts : Amid(stream, starts) /\ AllDelimited(stream)
    BY DEF Noisy
  <2>2. PICK sent \in [1 .. Len(out) -> 1 .. Len(stream.frames)] : Picks(starts, sent)
    BY <2>1 DEF NoiseInv, Chosen
  <2>3. DOMAIN out = 1 .. Len(out) /\ DOMAIN stream.frames = 1 .. Len(stream.frames)
    BY DEF NoiseInv, TypeOK, Ahead
  <2> QED BY <2>2, <2>3 DEF Picks
<1> QED BY <1>1, <1>2, <1>3, PTL DEF Spec

=============================================================================
