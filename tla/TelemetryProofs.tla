-------------------------- MODULE TelemetryProofs --------------------------
(***************************************************************************)
(* Theorems about modules Messages and Telemetry, for any measurements     *)
(* that fit their bytes, any commands and any clock. The packets first:    *)
(* what ExtractFrame and the parsers read of what a tracker encodes, field *)
(* by field; then the steps of the tracker, one lemma per kind of frame;   *)
(* then the inductive invariant ReportInv and the theorems.                *)
(***************************************************************************)
EXTENDS Telemetry, FramingProofs

-----------------------------------------------------------------------------
(* Packets.                                                                *)

\* Where the bytes of a packet are.
LEMMA PacketShape ==
  ASSUME NEW len, NEW proto, NEW content \in Seq(Int)
  PROVE  /\ Len(Packet(len, proto, content)) = Len(content) + 6
         /\ Packet(len, proto, content)[1] = 120
         /\ Packet(len, proto, content)[4] = proto
         /\ \A k \in 1 .. Len(content) : Packet(len, proto, content)[4 + k] = content[k]
<1> DEFINE head == <<120, 120, len, proto>>
           tail == <<CR, LF>>
<1>1. Len(head) = 4 /\ Len(tail) = 2 /\ head[1] = 120 /\ head[4] = proto
  OBVIOUS
<1> QED BY <1>1 DEF Packet

LEMMA ByteInt ==
  ASSUME NEW s \in Seq(Byte)
  PROVE  s \in Seq(Int)
<1>1. \A k \in 1 .. Len(s) : s[k] \in Int
  <2>1. \A k \in 1 .. Len(s) : s[k] \in Byte
    OBVIOUS
  <2>2. \A b \in Byte : b \in Int
    BY DEF Byte
  <2> QED BY <2>1, <2>2
<1>2. s = [k \in 1 .. Len(s) |-> s[k]] /\ Len(s) \in Nat
  OBVIOUS
<1> QED BY <1>1, <1>2

LEMMA PacketByte ==
  ASSUME NEW len \in Byte, NEW proto \in Byte, NEW content \in Seq(Byte)
  PROVE  Packet(len, proto, content) \in Seq(Byte)
<1>1. <<120, 120, len, proto>> \in Seq(Byte) /\ <<CR, LF>> \in Seq(Byte)
  BY DEF Byte, CR, LF
<1> QED BY <1>1 DEF Packet

\* What arrives of a packet of fixed layout.
LEMMA Received ==
  ASSUME NEW len \in Byte, NEW proto \in Byte \ MsgWifiLBS, NEW content \in Seq(Byte),
         Len(content) = contentBounds(proto, <<>>).min
  PROVE  LET f == Packet(len, proto, content) IN
         /\ ExtractFrame(f).kind = "frame"
         /\ SubSeq(f, 1, ExtractFrame(f).n) = f
         /\ f[PrefixLen(f)] = proto
         /\ Body(f) = content
<1> DEFINE f == Packet(len, proto, content)
<1>1. f \in Seq(Byte) /\ content \in Seq(Int)
  BY PacketByte, ByteInt
<1>2. /\ Len(f) = Len(content) + 6 /\ f[1] = 120 /\ f[4] = proto
      /\ \A k \in 1 .. Len(content) : f[4 + k] = content[k]
  BY <1>1, PacketShape
<1>3. ExtractFrame(f) = FrameOf(Len(f))
  <2>1. f = <<120, 120, len, proto>> \o content \o <<CR, LF>>
    BY DEF Packet
  <2>2. Delimited(<<120, 120, len, proto>> \o content \o <<CR, LF>>)
    BY FixedLayoutsDelimited
  <2>3. Delimited(f)
    BY <2>1, <2>2, Zenon
  <2> QED BY <1>1, <2>3, DelimitedWhole, Zenon
<1> HIDE DEF f
<1>4. PrefixLen(f) = 4
  BY <1>2 DEF PrefixLen
<1>5. ExtractFrame(f).kind = "frame" /\ ExtractFrame(f).n = Len(f)
  BY <1>3 DEF FrameOf
<1>6. SubSeq(f, 1, Len(f)) = f
  BY <1>1
<1>7. Body(f) = content
  <2>1. Body(f) = SubSeq(f, 5, Len(content) + 4)
    <3>1. Len(content) \in Nat /\ Len(f) = Len(content) + 6
      BY <1>2
    <3>2. Len(f) - 2 = Len(content) + 4 /\ PrefixLen(f) + 1 = 5
      BY <1>4, <3>1
    <3> QED BY <3>2, Zenon DEF Body
  <2>2. Len(content) \in Nat
    OBVIOUS
  <2>3. SubSeq(f, 5, Len(content) + 4) = [k \in 1 .. Len(content) |-> f[4 + k]]
    BY <1>1, <1>2, <2>2
  <2>4. content = [k \in 1 .. Len(content) |-> content[k]]
    OBVIOUS
  <2> QED BY <1>2, <2>1, <2>3, <2>4
<1> QED BY <1>2, <1>4, <1>5, <1>6, <1>7 DEF f

-----------------------------------------------------------------------------
(* The login: IMEIs to nibbles and back.                                  *)

Nib == 0 .. 15

LEMMA SeqAt ==
  ASSUME NEW S, NEW s \in Seq(S), NEW k \in 1 .. Len(s)
  PROVE  s[k] \in S
OBVIOUS

LEMMA NibAt ==
  ASSUME NEW n \in Seq(Nib), Len(n) = 16, NEW k \in 1 .. 16
  PROVE  n[k] \in Nib
<1>1. k \in 1 .. Len(n)
  OBVIOUS
<1> QED BY <1>1, SeqAt, Zenon

\* The facts about concatenation that bytes are found by.
LEMMA Concat ==
  ASSUME NEW S, NEW s \in Seq(S), NEW t \in Seq(S)
  PROVE  /\ s \o t \in Seq(S)
         /\ Len(s \o t) = Len(s) + Len(t)
         /\ \A k \in 1 .. Len(s) : (s \o t)[k] = s[k]
         /\ \A k \in 1 .. Len(t) : (s \o t)[Len(s) + k] = t[k]
OBVIOUS

LEMMA SeqForm ==
  ASSUME NEW S, NEW s \in Seq(S)
  PROVE  s = [k \in 1 .. Len(s) |-> s[k]] /\ Len(s) \in Nat
OBVIOUS

LEMMA HalfBytes ==
  ASSUME NEW a \in Nib, NEW b \in Nib
  PROVE  /\ a * 16 + b \in Byte
         /\ (a * 16 + b) \div 16 = a
         /\ (a * 16 + b) % 16 = b
BY DEF Byte, Nib

\* Sixteen nibbles are eight bytes,
LEMMA NibblesBytes ==
  ASSUME NEW n \in Seq(Nib), Len(n) = 16
  PROVE  /\ Nibbles(n) \in Seq(Byte) /\ Len(Nibbles(n)) = 8
         /\ \A k \in 1 .. 8 : Nibbles(n)[k] = n[2 * k - 1] * 16 + n[2 * k]
<1>1. Len(n) \div 2 = 8
  OBVIOUS
<1>2. Nibbles(n) = [k \in 1 .. 8 |-> n[2 * k - 1] * 16 + n[2 * k]]
  BY <1>1 DEF Nibbles
<1>3. ASSUME NEW k \in 1 .. 8 PROVE n[2 * k - 1] * 16 + n[2 * k] \in Byte
  <2>1. 2 * k - 1 \in 1 .. 16 /\ 2 * k \in 1 .. 16
    OBVIOUS
  <2>2. n[2 * k - 1] \in Nib /\ n[2 * k] \in Nib
    BY <2>1, NibAt
  <2> QED BY <2>2, HalfBytes
<1> QED BY <1>2, <1>3

LoginContent(n) == Nibbles(n) \o <<57>>

LEMMA LoginBytes ==
  ASSUME NEW n \in Seq(Nib), Len(n) = 16
  PROVE  /\ LoginContent(n) \in Seq(Byte) /\ Len(LoginContent(n)) = 9
         /\ \A k \in 1 .. 8 : LoginContent(n)[k] = n[2 * k - 1] * 16 + n[2 * k]
<1> DEFINE s == Nibbles(n)
<1>1. /\ s \in Seq(Byte) /\ Len(s) = 8
      /\ \A k \in 1 .. 8 : s[k] = n[2 * k - 1] * 16 + n[2 * k]
  BY NibblesBytes
<1> HIDE DEF s
<1> DEFINE v == <<57>>
<1>2. v \in Seq(Byte) /\ Len(v) = 1
  BY DEF Byte
<1> HIDE DEF v
<1> DEFINE w == s \o v
<1>3. w \in Seq(Byte) /\ Len(w) = Len(s) + Len(v) /\ \A k \in 1 .. Len(s) : w[k] = s[k]
  <2>1. s \in Seq(Byte) /\ v \in Seq(Byte)
    BY <1>1, <1>2
  <2> QED BY <2>1, Concat
<1> HIDE DEF w
<1>4. Len(w) = 9
  BY <1>1, <1>2, <1>3
<1>5. \A k \in 1 .. 8 : w[k] = s[k]
  <2>1. Len(s) = 8
    BY <1>1
  <2>2. \A k \in 1 .. Len(s) : w[k] = s[k]
    BY <1>3
  <2> QED BY <2>1, <2>2, Zenon
<1>6. \A k \in 1 .. 8 : w[k] = n[2 * k - 1] * 16 + n[2 * k]
  BY <1>1, <1>5, Zenon
<1>7. LoginContent(n) = w
  BY DEF LoginContent, s, v, w
<1> QED BY <1>3, <1>4, <1>6, <1>7, Zenon

LEMMA TailForm ==
  ASSUME NEW S, NEW s \in Seq(S), s # <<>>
  PROVE  Tail(s) = [k \in 1 .. Len(s) - 1 |-> s[k + 1]]
<1>1. Tail(s) \in Seq(S) /\ Len(Tail(s)) = Len(s) - 1 /\ \A k \in 1 .. Len(s) - 1 : Tail(s)[k] = s[k + 1]
  OBVIOUS
<1>2. Tail(s) = [k \in 1 .. Len(Tail(s)) |-> Tail(s)[k]]
  BY <1>1, SeqForm, Zenon
<1> QED BY <1>1, <1>2

LEMMA ImeiField == \A p : [imei |-> p] # Fail /\ [imei |-> p].imei = p
BY DEF Fail

\* and the nibbles of the bytes are the nibbles.
LEMMA NibblesRead ==
  ASSUME NEW n \in Seq(Nib), Len(n) = 16, NEW k \in 1 .. 16
  PROVE  Nibble(LoginContent(n), k) = n[k]
<1> DEFINE s == LoginContent(n)
<1>1. \A j \in 1 .. 8 : s[j] = n[2 * j - 1] * 16 + n[2 * j]
  BY LoginBytes
<1> HIDE DEF s
<1>2. CASE k % 2 = 1
  <2>1. PICK j \in 1 .. 8 : k = 2 * j - 1
    <3>1. (k + 1) \div 2 \in 1 .. 8 /\ k = 2 * ((k + 1) \div 2) - 1
      BY <1>2
    <3> QED BY <3>1
  <2>2. (k + 1) \div 2 = j
    BY <2>1
  <2>3. n[2 * j - 1] \in Nib /\ n[2 * j] \in Nib
    <3>1. 2 * j - 1 \in 1 .. 16 /\ 2 * j \in 1 .. 16
      OBVIOUS
    <3> QED BY <3>1, NibAt
  <2>4. s[j] \div 16 = n[2 * j - 1]
    <3>1. s[j] = n[2 * j - 1] * 16 + n[2 * j]
      BY <1>1, Zenon
    <3>2. (n[2 * j - 1] * 16 + n[2 * j]) \div 16 = n[2 * j - 1]
      BY <2>3, HalfBytes, Zenon
    <3> QED BY <3>1, <3>2, Zenon
  <2> QED BY <1>2, <2>1, <2>2, <2>4 DEF Nibble, s
<1>3. CASE k % 2 # 1
  <2>1. PICK j \in 1 .. 8 : k = 2 * j
    <3>1. k \div 2 \in 1 .. 8 /\ k = 2 * (k \div 2)
      BY <1>3
    <3> QED BY <3>1
  <2>2. k \div 2 = j
    BY <2>1
  <2>3. n[2 * j - 1] \in Nib /\ n[2 * j] \in Nib
    <3>1. 2 * j - 1 \in 1 .. 16 /\ 2 * j \in 1 .. 16
      OBVIOUS
    <3> QED BY <3>1, NibAt
  <2>4. s[j] % 16 = n[2 * j]
    <3>1. s[j] = n[2 * j - 1] * 16 + n[2 * j]
      BY <1>1, Zenon
    <3>2. (n[2 * j - 1] * 16 + n[2 * j]) % 16 = n[2 * j]
      BY <2>3, HalfBytes, Zenon
    <3> QED BY <3>1, <3>2, Zenon
  <2> QED BY <1>3, <2>1, <2>2, <2>4 DEF Nibble, s
<1> QED BY <1>2, <1>3

\* The nibbles of an IMEI with its filler.
Holds(n, id) ==
  \/ n = <<0>> \o id
  \/ n = Append(id, 15) /\ id[1] # 0

\* ParseLogin drops the filler, be it in front or at the end.
LEMMA LoginRead ==
  ASSUME NEW n \in Seq(Nib), Len(n) = 16, NEW id \in Seq(Decimal), Len(id) = 15,
         Holds(n, id)
  PROVE  ParseLogin(LoginContent(n)) # Fail /\ ParseLogin(LoginContent(n)).imei = id
<1> DEFINE body == LoginContent(n)
           digits == [k \in 1 .. 16 |-> Digit(Nibble(body, k))]
           num == [k \in 1 .. 16 |-> Digit(n[k])]
<1>1. digits = num
  BY NibblesRead
<1>2. ParseLogin(body) = [imei |-> IF num[1] = 0 THEN Tail(num) ELSE SubSeq(num, 1, 15)]
  <2>1. Len(body) = 9
    BY LoginBytes, Zenon
  <2>2. ~ (Len(body) < 8)
    BY <2>1
  <2> HIDE DEF body
  <2> QED BY <1>1, <2>2 DEF ParseLogin
<1>3. \A k \in 1 .. 15 : id[k] \in Decimal /\ Digit(id[k]) = id[k]
  <2>1. \A k \in 1 .. Len(id) : id[k] \in Decimal
    BY SeqAt, Zenon
  <2>2. \A d \in Decimal : Digit(d) = d
    BY DEF Digit, Decimal
  <2> QED BY <2>1, <2>2
<1>4. id = [k \in 1 .. 15 |-> id[k]]
  OBVIOUS
<1>5. num \in Seq(Int) /\ Len(num) = 16
  <2>1. \A k \in 1 .. 16 : n[k] \in Nib
    BY NibAt, Zenon
  <2>2. \A d \in Nib : Digit(d) \in Int
    BY DEF Digit, Nib
  <2>3. \A k \in 1 .. 16 : Digit(n[k]) \in Int
    BY <2>1, <2>2, Zenon
  <2> QED BY <2>3
<1>6. CASE n = <<0>> \o id
  <2>1. n[1] = 0 /\ \A k \in 1 .. 15 : n[k + 1] = id[k]
    BY <1>6
  <2>2. num[1] = 0
    BY <2>1 DEF Digit
  <2>3. ASSUME NEW k \in 1 .. 15 PROVE num[k + 1] = id[k]
    <3>1. k + 1 \in 1 .. 16
      OBVIOUS
    <3>2. n[k + 1] = id[k] /\ Digit(id[k]) = id[k]
      BY <1>3, <2>1, Zenon
    <3> QED BY <3>1, <3>2, Zenon
  <2> HIDE DEF num
  <2>4. Tail(num) = id
    <3>1. Tail(num) = [k \in 1 .. Len(num) - 1 |-> num[k + 1]]
      <4>1. num # <<>>
        <5>1. Len(<<>>) = 0 /\ 16 # 0
          OBVIOUS
        <5> QED BY <1>5, <5>1, Zenon
      <4> QED BY <1>5, <4>1, TailForm, Zenon
    <3>2. Tail(num) = [k \in 1 .. 15 |-> num[k + 1]]
      BY <1>5, <3>1
    <3> QED BY <1>4, <2>3, <3>2
  <2>5. ParseLogin(body) = [imei |-> id]
    BY <1>2, <2>2, <2>4, Zenon
  <2> QED BY <2>5, ImeiField, Zenon
<1>7. CASE n = Append(id, 15) /\ id[1] # 0
  <2>1. \A k \in 1 .. 15 : n[k] = id[k]
    BY <1>7
  <2>2. \A k \in 1 .. 15 : num[k] = id[k]
    BY <2>1, <1>3
  <2> HIDE DEF num
  <2>3. num[1] # 0
    BY <1>7, <2>2
  <2>4. SubSeq(num, 1, 15) = id
    <3>1. SubSeq(num, 1, 15) = [k \in 1 .. 15 |-> num[k]]
      BY <1>5
    <3> QED BY <1>4, <2>2, <3>1
  <2>5. ParseLogin(body) = [imei |-> id]
    BY <1>2, <2>3, <2>4, Zenon
  <2> QED BY <2>5, ImeiField, Zenon
<1> QED BY <1>6, <1>7, Zenon DEF Holds

-----------------------------------------------------------------------------
(* Numbers in bytes.                                                       *)

\* The bytes of a 16-bit number and the halves of a 32-bit one.
Hi(n) == n \div 256
Lo(n) == n % 256
Upper(n) == n \div 65536
Lower(n) == n % 65536

Word == {n \in Nat : n < 65536}

LEMMA HiLo ==
  ASSUME NEW n \in Nat
  PROVE  Hi(n) \in Nat /\ Lo(n) \in 0 .. 255 /\ Hi(n) * 256 + Lo(n) = n
<1>1. PICK q \in Nat : q = n \div 256
  OBVIOUS
<1>2. PICK r \in 0 .. 255 : r = n % 256
  OBVIOUS
<1>3. q * 256 + r = n
  BY <1>1, <1>2
<1> QED BY <1>1, <1>2, <1>3 DEF Hi, Lo

\* n bytes.
Bytes(s, n) == s \in Seq(Byte) /\ Len(s) = n

\* The k-th of them.
Nth(s, k) == s[k]

\* Bytes after bytes.
LEMMA Join ==
  ASSUME NEW s, NEW t, NEW p \in Nat, NEW q \in Nat, Bytes(s, p), Bytes(t, q)
  PROVE  /\ Bytes(s \o t, p + q)
         /\ \A k \in 1 .. p : Nth(s \o t, k) = Nth(s, k)
         /\ \A k \in 1 .. q : Nth(s \o t, p + k) = Nth(t, k)
BY DEF Bytes, Nth

LEMMA OneByte ==
  ASSUME NEW b \in Byte
  PROVE  Bytes(<<b>>, 1) /\ Nth(<<b>>, 1) = b
BY DEF Bytes, Nth

LEMMA TwoBytes ==
  ASSUME NEW n \in Word
  PROVE  Bytes(BE16(n), 2) /\ Nth(BE16(n), 1) * 256 + Nth(BE16(n), 2) = n
<1>1. n \in Nat /\ n < 65536
  BY SMT DEF Word
<1>2. Hi(n) \in Nat /\ Lo(n) \in 0 .. 255 /\ Hi(n) * 256 + Lo(n) = n
  BY <1>1, HiLo, SMT
<1>3. Hi(n) <= 255
  BY <1>1, <1>2, SMT
<1>4. BE16(n) = <<Hi(n), Lo(n)>>
  BY DEF BE16, Hi, Lo
<1>5. Hi(n) \in Byte /\ Lo(n) \in Byte
  BY <1>2, <1>3 DEF Byte
<1> QED BY <1>2, <1>4, <1>5 DEF Bytes, Nth

\* The bytes of a 32-bit number.
LEMMA FourBytes ==
  ASSUME NEW n \in Nat, Upper(n) \in Word
  PROVE  /\ Bytes(BE32(n), 4)
         /\ Nth(BE32(n), 1) * 256 + Nth(BE32(n), 2) = Upper(n)
         /\ Nth(BE32(n), 3) * 256 + Nth(BE32(n), 4) = Lower(n)
<1> DEFINE h == Upper(n)
           l == Lower(n)
           s == BE16(h)
           t == BE16(l)
<1>1. h \in Word /\ l \in Word
  BY SMT DEF Lower, Word
<1>2. BE32(n) = s \o t
  BY SMT DEF BE32, Upper, Lower
<1> HIDE DEF h, l
<1>3. Bytes(s, 2) /\ Nth(s, 1) * 256 + Nth(s, 2) = h
  BY <1>1, TwoBytes, Zenon
<1>4. Bytes(t, 2) /\ Nth(t, 1) * 256 + Nth(t, 2) = l
  BY <1>1, TwoBytes, Zenon
<1> HIDE DEF s, t
<1>5. /\ Bytes(s \o t, 4)
      /\ Nth(s \o t, 1) = Nth(s, 1) /\ Nth(s \o t, 2) = Nth(s, 2)
      /\ Nth(s \o t, 3) = Nth(t, 1) /\ Nth(s \o t, 4) = Nth(t, 2)
  BY <1>3, <1>4, Join
<1> QED BY <1>2, <1>3, <1>4, <1>5 DEF h, l

\* Coordinates are 32-bit numbers.
Top == 324000000

LEMMA CoordinateRange ==
  ASSUME NEW top \in Nat, top <= Top, NEW n \in -top .. top
  PROVE  Abs(n) \in Nat /\ Upper(Abs(n)) \in Word
<1>1. PICK a \in Nat : a = Abs(n) /\ a <= top
  BY DEF Abs
<1>2. a \div 65536 < 65536 /\ a \div 65536 \in Nat
  BY <1>1, SMT DEF Top
<1> QED BY <1>1, <1>2, SMT DEF Upper, Word

LEMMA Coordinate ==
  /\ \A n \in -Degrees(90) .. Degrees(90) : Abs(n) \in Nat /\ Upper(Abs(n)) \in Word
  /\ \A n \in -Degrees(180) .. Degrees(180) : Abs(n) \in Nat /\ Upper(Abs(n)) \in Word
<1>1. Degrees(90) \in Nat /\ Degrees(90) <= Top /\ Degrees(180) \in Nat /\ Degrees(180) <= Top
  BY SMT DEF Degrees, Top
<1> QED BY <1>1, CoordinateRange, Zenon

-----------------------------------------------------------------------------
\* The content of a position, byte by byte.
PositionOf(d, a, o, v, c) == d \o <<156>> \o a \o o \o <<v>> \o c

LEMMA FixBytes ==
  ASSUME NEW d, Bytes(d, 6), NEW a, Bytes(a, 4), NEW o, Bytes(o, 4), NEW v \in Byte,
         NEW c, Bytes(c, 2)
  PROVE  /\ Bytes(PositionOf(d, a, o, v, c), 18)
         /\ \A k \in 1 .. 6 : Nth(PositionOf(d, a, o, v, c), k) = Nth(d, k)
         /\ Nth(PositionOf(d, a, o, v, c), 7) = 156
         /\ \A k \in 1 .. 4 : Nth(PositionOf(d, a, o, v, c), 7 + k) = Nth(a, k)
         /\ \A k \in 1 .. 4 : Nth(PositionOf(d, a, o, v, c), 11 + k) = Nth(o, k)
         /\ Nth(PositionOf(d, a, o, v, c), 16) = v
         /\ \A k \in 1 .. 2 : Nth(PositionOf(d, a, o, v, c), 16 + k) = Nth(c, k)
<1> DEFINE b1 == <<156>>
           b2 == <<v>>
           s1 == d \o b1
           s2 == s1 \o a
           s3 == s2 \o o
           s4 == s3 \o b2
           s5 == s4 \o c
<1>1. Bytes(b1, 1) /\ Nth(b1, 1) = 156 /\ Bytes(b2, 1) /\ Nth(b2, 1) = v
  <2>1. 156 \in Byte
    BY DEF Byte
  <2> QED BY <2>1, OneByte
<1> HIDE DEF b1, b2
<1>2. Bytes(s1, 7) /\ Nth(s1, 7) = 156 /\ \A k \in 1 .. 6 : Nth(s1, k) = Nth(d, k)
  BY <1>1, Join
<1> HIDE DEF s1
<1>3. /\ Bytes(s2, 11) /\ \A k \in 1 .. 7 : Nth(s2, k) = Nth(s1, k)
      /\ \A k \in 1 .. 4 : Nth(s2, 7 + k) = Nth(a, k)
  BY <1>2, Join
<1> HIDE DEF s2
<1>4. /\ Bytes(s3, 15) /\ \A k \in 1 .. 11 : Nth(s3, k) = Nth(s2, k)
      /\ \A k \in 1 .. 4 : Nth(s3, 11 + k) = Nth(o, k)
  BY <1>3, Join
<1> HIDE DEF s3
<1>5. Bytes(s4, 16) /\ Nth(s4, 16) = v /\ \A k \in 1 .. 15 : Nth(s4, k) = Nth(s3, k)
  BY <1>1, <1>4, Join
<1> HIDE DEF s4
<1>6. /\ Bytes(s5, 18) /\ \A k \in 1 .. 16 : Nth(s5, k) = Nth(s4, k)
      /\ \A k \in 1 .. 2 : Nth(s5, 16 + k) = Nth(c, k)
  BY <1>5, Join
<1> HIDE DEF s5
<1>7. PositionOf(d, a, o, v, c) = s5
  BY Zenon DEF PositionOf, s5, s4, s3, s2, s1, b1, b2
<1>8. ASSUME NEW k \in 1 .. 6 PROVE Nth(s5, k) = Nth(d, k)
  BY <1>2, <1>3, <1>4, <1>5, <1>6
<1>9. ASSUME NEW k \in 1 .. 4 PROVE Nth(s5, 7 + k) = Nth(a, k) /\ Nth(s5, 11 + k) = Nth(o, k)
  <2>1. 7 + k \in 1 .. 11 /\ 7 + k \in 1 .. 15 /\ 7 + k \in 1 .. 16
    OBVIOUS
  <2>2. 11 + k \in 1 .. 15 /\ 11 + k \in 1 .. 16
    OBVIOUS
  <2> QED BY <1>3, <1>4, <1>5, <1>6, <2>1, <2>2
<1>10. Nth(s5, 7) = 156 /\ Nth(s5, 16) = v
  BY <1>2, <1>3, <1>4, <1>5, <1>6
<1> QED BY <1>6, <1>7, <1>8, <1>9, <1>10

CourseBytes(x) == <<52 + ((x \div 256) % 4), x % 256>>

CourseOf(s) == (Nth(s, 1) * 256 + Nth(s, 2)) % 1024

Courses == 0 .. 359

\* The course survives the flag bits it shares its bytes with.
LEMMA CourseRead ==
  ASSUME NEW x \in Courses
  PROVE  Bytes(CourseBytes(x), 2) /\ CourseOf(CourseBytes(x)) = x
<1>0. x \in 0 .. 359
  BY DEF Courses
<1>1. PICK q \in {0, 1}, r \in 0 .. 255 : x = q * 256 + r
  <2>1. CASE x < 256
    BY <1>0, <2>1
  <2>2. CASE x >= 256
    <3>1. x - 256 \in 0 .. 255 /\ x = 1 * 256 + (x - 256)
      BY <1>0, <2>2
    <3> QED BY <3>1
  <2> QED BY <1>0, <2>1, <2>2
<1>2. x \div 256 = q /\ x % 256 = r
  BY <1>1
<1>3. (x \div 256) % 4 = q
  BY <1>2
<1>4. CourseBytes(x) = <<52 + q, r>>
  BY <1>2, <1>3 DEF CourseBytes
<1>5. 52 + q \in Byte /\ r \in Byte
  BY DEF Byte
<1>6. ((52 + q) * 256 + r) % 1024 = x
  <2>1. CASE q = 0
    BY <1>1, <2>1
  <2>2. CASE q = 1
    BY <1>1, <2>2
  <2> QED BY <2>1, <2>2
<1> QED BY <1>4, <1>5, <1>6 DEF Bytes, Nth, CourseOf

GpsContent(m) ==
  PositionOf(m.date, BE32(Abs(m.lat)), BE32(Abs(m.lon)), m.speed % 256, CourseBytes(m.course))

LEMMA GpsPacket ==
  ASSUME NEW m, m.kind = "gps"
  PROVE  Encode(m) = Packet(18, m.proto, GpsContent(m))
BY DEF Encode, buildGPS, GpsContent, PositionOf, CourseBytes

IsGps(m) ==
  /\ m.kind = "gps" /\ m.proto \in MsgGPS /\ m.date \in Seq(Byte) /\ Len(m.date) = 6
  /\ m.lat \in -Degrees(90) .. Degrees(90) /\ m.lon \in -Degrees(180) .. Degrees(180)
  /\ m.speed \in Byte /\ m.course \in 0 .. 359

\* Where a position's fields are,
LEMMA GpsBytes ==
  ASSUME NEW m, IsGps(m)
  PROVE  /\ Bytes(GpsContent(m), 18)
         /\ \A k \in 1 .. 6 : Nth(GpsContent(m), k) = Nth(m.date, k)
         /\ Nth(GpsContent(m), 7) = 156
         /\ Nth(GpsContent(m), 8) * 256 + Nth(GpsContent(m), 9) = Upper(Abs(m.lat))
         /\ Nth(GpsContent(m), 10) * 256 + Nth(GpsContent(m), 11) = Lower(Abs(m.lat))
         /\ Nth(GpsContent(m), 12) * 256 + Nth(GpsContent(m), 13) = Upper(Abs(m.lon))
         /\ Nth(GpsContent(m), 14) * 256 + Nth(GpsContent(m), 15) = Lower(Abs(m.lon))
         /\ Nth(GpsContent(m), 16) = m.speed
         /\ (Nth(GpsContent(m), 17) * 256 + Nth(GpsContent(m), 18)) % 1024 = m.course
<1> DEFINE d == m.date
           a == BE32(Abs(m.lat))
           o == BE32(Abs(m.lon))
           v == m.speed % 256
           c == CourseBytes(m.course)
           s == GpsContent(m)
<1>1. Bytes(d, 6)
  BY DEF IsGps, Bytes
<1>2. /\ Abs(m.lat) \in Nat /\ Upper(Abs(m.lat)) \in Word
      /\ Abs(m.lon) \in Nat /\ Upper(Abs(m.lon)) \in Word
  <2>1. m.lat \in -Degrees(90) .. Degrees(90) /\ m.lon \in -Degrees(180) .. Degrees(180)
    BY Zenon DEF IsGps
  <2> QED BY <2>1, Coordinate
<1>3. /\ Bytes(a, 4)
      /\ Nth(a, 1) * 256 + Nth(a, 2) = Upper(Abs(m.lat))
      /\ Nth(a, 3) * 256 + Nth(a, 4) = Lower(Abs(m.lat))
  BY <1>2, FourBytes, Zenon
<1>4. /\ Bytes(o, 4)
      /\ Nth(o, 1) * 256 + Nth(o, 2) = Upper(Abs(m.lon))
      /\ Nth(o, 3) * 256 + Nth(o, 4) = Lower(Abs(m.lon))
  BY <1>2, FourBytes, Zenon
<1>5. v = m.speed /\ v \in Byte
  <2>1. \A b \in Byte : b % 256 = b
    BY DEF Byte
  <2> QED BY <2>1 DEF IsGps
<1>6. Bytes(c, 2) /\ (Nth(c, 1) * 256 + Nth(c, 2)) % 1024 = m.course
  <2>1. m.course \in Courses
    BY DEF IsGps, Courses
  <2>2. Bytes(c, 2) /\ CourseOf(c) = m.course
    BY <2>1, CourseRead, Zenon
  <2> QED BY <2>2 DEF CourseOf
<1>7. s = PositionOf(d, a, o, v, c)
  BY DEF GpsContent
<1> HIDE DEF d, a, o, v, c, s
<1>8. /\ Bytes(s, 18)
      /\ \A k \in 1 .. 6 : Nth(s, k) = Nth(d, k)
      /\ Nth(s, 7) = 156
      /\ \A k \in 1 .. 4 : Nth(s, 7 + k) = Nth(a, k)
      /\ \A k \in 1 .. 4 : Nth(s, 11 + k) = Nth(o, k)
      /\ Nth(s, 16) = v
      /\ \A k \in 1 .. 2 : Nth(s, 16 + k) = Nth(c, k)
  BY <1>1, <1>3, <1>4, <1>5, <1>6, <1>7, FixBytes
<1>9. /\ Nth(s, 8) = Nth(a, 1) /\ Nth(s, 9) = Nth(a, 2) /\ Nth(s, 10) = Nth(a, 3) /\ Nth(s, 11) = Nth(a, 4)
      /\ Nth(s, 12) = Nth(o, 1) /\ Nth(s, 13) = Nth(o, 2) /\ Nth(s, 14) = Nth(o, 3) /\ Nth(s, 15) = Nth(o, 4)
      /\ Nth(s, 17) = Nth(c, 1) /\ Nth(s, 18) = Nth(c, 2)
  BY <1>8
<1>10. /\ Nth(s, 8) * 256 + Nth(s, 9) = Upper(Abs(m.lat))
       /\ Nth(s, 10) * 256 + Nth(s, 11) = Lower(Abs(m.lat))
       /\ Nth(s, 12) * 256 + Nth(s, 13) = Upper(Abs(m.lon))
       /\ Nth(s, 14) * 256 + Nth(s, 15) = Lower(Abs(m.lon))
       /\ (Nth(s, 17) * 256 + Nth(s, 18)) % 1024 = m.course
  BY <1>3, <1>4, <1>6, <1>9
<1> QED BY <1>5, <1>8, <1>10 DEF s, d

\* and that ParseGPS reads them there.
LEMMA GpsRead ==
  ASSUME NEW m, IsGps(m)
  PROVE  /\ ParseGPS(GpsContent(m)) # Fail
         /\ Expected(m) # None
         /\ \A f \in DOMAIN Expected(m) : ParseGPS(GpsContent(m))[f] = Expected(m)[f]
<1> DEFINE s == GpsContent(m)
           r == ParseGPS(s)
<1>1. /\ Len(s) = 18
      /\ s[1] = m.date[1] /\ s[2] = m.date[2] /\ s[3] = m.date[3]
      /\ s[4] = m.date[4] /\ s[5] = m.date[5] /\ s[6] = m.date[6]
      /\ s[7] = 156 /\ s[16] = m.speed
      /\ s[8] * 256 + s[9] = Upper(Abs(m.lat)) /\ s[10] * 256 + s[11] = Lower(Abs(m.lat))
      /\ s[12] * 256 + s[13] = Upper(Abs(m.lon)) /\ s[14] * 256 + s[15] = Lower(Abs(m.lon))
      /\ (s[17] * 256 + s[18]) % 1024 = m.course
  BY GpsBytes DEF Bytes, Nth
<1> HIDE DEF s
<1>2. U32(s, 7) = Halves(Abs(m.lat)) /\ U32(s, 11) = Halves(Abs(m.lon))
  BY <1>1, SMT DEF U32, U16, At, Halves, Upper, Lower
<1>3. At(s, 15) = m.speed /\ U16(s, 16) % 1024 = m.course /\ At(s, 6) % 16 = 12
  BY <1>1 DEF U16, At
<1>4. Date(s[1], s[2], s[3], s[4], s[5], s[6]) = DateOf(m)
  BY <1>1 DEF DateOf
<1>5. /\ r # Fail /\ r.time = DateOf(m) /\ r.lat = Halves(Abs(m.lat)) /\ r.lon = Halves(Abs(m.lon))
      /\ r.speed = m.speed /\ r.course = m.course /\ r.sats = 12
  BY <1>1, <1>2, <1>3, <1>4 DEF ParseGPS, Fail
<1>6. Expected(m) = [time |-> DateOf(m), lat |-> Halves(Abs(m.lat)), lon |-> Halves(Abs(m.lon)),
                     speed |-> m.speed, course |-> m.course, sats |-> 12]
  BY DEF Expected, IsGps
<1> HIDE DEF r
<1> QED BY <1>5, <1>6 DEF None, r, s

-----------------------------------------------------------------------------
(* Dates. The days of a month of the years 2000 to 2099; a date of those   *)
(* years.                                                                  *)
DaysIn(y, mo) ==
  CASE mo \in {4, 6, 9, 11} -> 30
    [] mo = 2 -> IF y % 4 = 0 THEN 29 ELSE 28
    [] OTHER -> 31

ValidDate(d) ==
  /\ d[1] \in 0 .. 99 /\ d[2] \in 1 .. 12 /\ d[3] \in 1 .. DaysIn(d[1], d[2])
  /\ d[4] \in 0 .. 23 /\ d[5] \in 0 .. 59 /\ d[6] \in 0 .. 59

\* The leap day of a year, and the first day of a month in the year.
Leap(y) == IF y % 4 = 0 THEN 1 ELSE 0
Start(y, mo) == DaysBeforeMonth[mo] + (IF mo > 2 THEN Leap(y) ELSE 0)

LEMMA Years ==
  ASSUME NEW y \in 0 .. 100
  PROVE  DaysBeforeYear(y) = 365 * y + (y + 3) \div 4
<1>1. (y + 99) \div 100 = (y + 399) \div 400
  <2>1. CASE y = 0
    BY <2>1
  <2>2. CASE y # 0
    <3>1. (y + 99) \div 100 = 1
      BY <2>2
    <3>2. (y + 399) \div 400 = 1
      BY <2>2
    <3> QED BY <3>1, <3>2
  <2> QED BY <2>1, <2>2
<1>2. (y + 99) \div 100 \in Int /\ (y + 3) \div 4 \in Int
  OBVIOUS
<1> QED BY <1>1, <1>2 DEF DaysBeforeYear

LEMMA Quarter ==
  ASSUME NEW y \in 0 .. 99
  PROVE  (y + 4) \div 4 = (y + 3) \div 4 + Leap(y)
BY DEF Leap

LEMMA YearLength ==
  ASSUME NEW y \in 0 .. 99
  PROVE  /\ DaysBeforeYear(y + 1) = DaysBeforeYear(y) + 365 + Leap(y)
         /\ IsLeap(y) <=> Leap(y) = 1
         /\ DaysBeforeYear(y) \in Nat /\ Leap(y) \in {0, 1}
<1>1. y \in 0 .. 100 /\ y + 1 \in 0 .. 100 /\ (y + 1) + 3 = y + 4
  OBVIOUS
<1>2. DaysBeforeYear(y) = 365 * y + (y + 3) \div 4
  BY <1>1, Years
<1>3. DaysBeforeYear(y + 1) = 365 * (y + 1) + (y + 4) \div 4
  BY <1>1, Years
<1>4. Leap(y) \in {0, 1} /\ (y + 3) \div 4 \in Nat
  BY DEF Leap
<1>5. DaysBeforeYear(y + 1) = DaysBeforeYear(y) + 365 + Leap(y) /\ DaysBeforeYear(y) \in Nat
  BY <1>2, <1>3, <1>4, Quarter
<1> QED BY <1>4, <1>5 DEF IsLeap

LEMMA YearsGrow ==
  ASSUME NEW y \in 0 .. 99, NEW z \in 0 .. 99, y < z
  PROVE  DaysBeforeYear(y + 1) <= DaysBeforeYear(z)
<1>1. y + 1 \in 0 .. 100 /\ z \in 0 .. 100 /\ (y + 1) + 3 = y + 4
  OBVIOUS
<1>2. DaysBeforeYear(y + 1) = 365 * (y + 1) + (y + 4) \div 4
  BY <1>1, Years
<1>3. DaysBeforeYear(z) = 365 * z + (z + 3) \div 4
  BY <1>1, Years
<1>4. (y + 4) \div 4 <= (z + 3) \div 4 /\ (y + 4) \div 4 \in Nat /\ (z + 3) \div 4 \in Nat
  OBVIOUS
<1> QED BY <1>2, <1>3, <1>4

LEMMA Months ==
  /\ DaysBeforeMonth[1] = 0 /\ DaysBeforeMonth[2] = 31 /\ DaysBeforeMonth[3] = 59
  /\ DaysBeforeMonth[4] = 90 /\ DaysBeforeMonth[5] = 120 /\ DaysBeforeMonth[6] = 151
  /\ DaysBeforeMonth[7] = 181 /\ DaysBeforeMonth[8] = 212 /\ DaysBeforeMonth[9] = 243
  /\ DaysBeforeMonth[10] = 273 /\ DaysBeforeMonth[11] = 304 /\ DaysBeforeMonth[12] = 334
BY DEF DaysBeforeMonth

\* A month ends where the next begins, and December with the year.
LEMMA MonthLength ==
  ASSUME NEW y \in 0 .. 99, NEW mo \in 1 .. 12
  PROVE  /\ Start(y, mo) \in Nat /\ DaysIn(y, mo) \in Nat
         /\ mo < 12 => Start(y, mo) + DaysIn(y, mo) = Start(y, mo + 1)
         /\ mo = 12 => Start(y, mo) + DaysIn(y, mo) = 365 + Leap(y)
<1>1. Leap(y) \in {0, 1} /\ (Leap(y) = 1 <=> y % 4 = 0)
  BY DEF Leap
<1>2. DaysIn(y, mo) = IF mo \in {4, 6, 9, 11} THEN 30 ELSE IF mo = 2 THEN 28 + Leap(y) ELSE 31
  BY <1>1 DEF DaysIn
<1> HIDE DEF Leap
<1>3. mo \in {1, 2, 3, 4, 5, 6, 7, 8, 9, 10, 11, 12}
  OBVIOUS
<1>4. CASE mo \in {1, 2, 3}
  BY <1>1, <1>2, <1>4, Months DEF Start
<1>5. CASE mo \in {4, 5, 6}
  BY <1>1, <1>2, <1>5, Months DEF Start
<1>6. CASE mo \in {7, 8, 9}
  BY <1>1, <1>2, <1>6, Months DEF Start
<1>7. CASE mo \in {10, 11, 12}
  BY <1>1, <1>2, <1>7, Months DEF Start
<1> QED BY <1>3, <1>4, <1>5, <1>6, <1>7

LEMMA MonthNat ==
  ASSUME NEW y \in 0 .. 99, NEW mo \in 1 .. 12
  PROVE  Start(y, mo) \in Nat /\ DaysIn(y, mo) \in Nat
BY MonthLength

\* Months begin in order.
LEMMA MonthsGrow ==
  ASSUME NEW y \in 0 .. 99, NEW mo \in 1 .. 12, NEW mp \in 1 .. 12, mo <= mp
  PROVE  Start(y, mo) <= Start(y, mp)
<1>1. Leap(y) \in {0, 1}
  BY DEF Leap
<1> HIDE DEF Leap
<1>2. ASSUME NEW a \in 1 .. 12, NEW b \in 1 .. 12, a <= b PROVE DaysBeforeMonth[a] <= DaysBeforeMonth[b]
  <2>1. a \in {1, 2, 3, 4, 5, 6, 7, 8, 9, 10, 11, 12} /\ b \in {1, 2, 3, 4, 5, 6, 7, 8, 9, 10, 11, 12}
    OBVIOUS
  <2> QED BY <1>2, <2>1, Months
<1>3. DaysBeforeMonth[mo] \in Nat /\ DaysBeforeMonth[mp] \in Nat
  <2>1. mo \in {1, 2, 3, 4, 5, 6, 7, 8, 9, 10, 11, 12} /\ mp \in {1, 2, 3, 4, 5, 6, 7, 8, 9, 10, 11, 12}
    OBVIOUS
  <2> QED BY <2>1, Months
<1>4. DaysBeforeMonth[mo] <= DaysBeforeMonth[mp]
  BY <1>2
<1> QED BY <1>1, <1>3, <1>4 DEF Start

Day(y, mo, d) == DaysBeforeYear(y) + Start(y, mo) + d - 1

LEMMA DaysOrdered ==
  ASSUME NEW y \in 0 .. 99, NEW mo \in 1 .. 12, NEW d \in 1 .. DaysIn(y, mo),
         NEW z \in 0 .. 99, NEW mp \in 1 .. 12, NEW e \in 1 .. DaysIn(z, mp)
  PROVE  /\ Day(y, mo, d) \in Nat
         /\ y < z => Day(y, mo, d) < Day(z, mp, e)
         /\ y = z /\ mo < mp => Day(y, mo, d) < Day(z, mp, e)
         /\ y = z /\ mo = mp /\ d < e => Day(y, mo, d) < Day(z, mp, e)
<1>1. /\ Start(y, mo) \in Nat /\ DaysIn(y, mo) \in Nat /\ Start(z, mp) \in Nat /\ DaysIn(z, mp) \in Nat
      /\ DaysBeforeYear(y) \in Nat /\ DaysBeforeYear(z) \in Nat /\ Leap(y) \in {0, 1}
  <2>1. Start(y, mo) \in Nat /\ DaysIn(y, mo) \in Nat /\ Start(z, mp) \in Nat /\ DaysIn(z, mp) \in Nat
    BY MonthNat
  <2>2. DaysBeforeYear(y) \in Nat /\ DaysBeforeYear(z) \in Nat /\ Leap(y) \in {0, 1}
    BY YearLength, Zenon
  <2> QED BY <2>1, <2>2
<1>2. ASSUME y < z PROVE Day(y, mo, d) < Day(z, mp, e)
  <2>1. Start(y, mo) + DaysIn(y, mo) <= 365 + Leap(y)
    <3>1. CASE mo = 12
      BY <1>1, <3>1, MonthLength
    <3>2. CASE mo < 12
      <4>1. mo + 1 \in 1 .. 12 /\ 12 \in 1 .. 12 /\ mo + 1 <= 12
        BY <3>2
      <4>2. Start(y, mo + 1) <= Start(y, 12) /\ Start(y, 12) \in Nat /\ Start(y, mo + 1) \in Nat
        <5>1. Start(y, mo + 1) <= Start(y, 12)
          BY <4>1, MonthsGrow
        <5>2. Start(y, 12) \in Nat /\ Start(y, mo + 1) \in Nat
          BY <4>1, MonthLength
        <5> QED BY <5>1, <5>2
      <4>3. Start(y, 12) + DaysIn(y, 12) = 365 + Leap(y) /\ DaysIn(y, 12) \in Nat
        BY <4>1, MonthLength
      <4>4. Start(y, mo) + DaysIn(y, mo) = Start(y, mo + 1)
        BY <3>2, MonthLength
      <4> QED BY <1>1, <4>2, <4>3, <4>4
    <3> QED BY <3>1, <3>2
  <2>2. DaysBeforeYear(y) + 365 + Leap(y) <= DaysBeforeYear(z)
    <3>1. DaysBeforeYear(y + 1) = DaysBeforeYear(y) + 365 + Leap(y)
      BY YearLength
    <3>2. DaysBeforeYear(y + 1) <= DaysBeforeYear(z)
      BY <1>2, YearsGrow
    <3> QED BY <3>1, <3>2
  <2> QED BY <1>1, <2>1, <2>2 DEF Day
<1>3. ASSUME y = z, mo < mp PROVE Day(y, mo, d) < Day(z, mp, e)
  <2>1. mo + 1 \in 1 .. 12 /\ mo + 1 <= mp /\ mo < 12
    BY <1>3
  <2>2. Start(y, mo + 1) <= Start(y, mp) /\ Start(y, mo + 1) \in Nat
    BY <2>1, MonthsGrow, MonthNat
  <2>3. Start(y, mo) + DaysIn(y, mo) = Start(y, mo + 1)
    BY <2>1, MonthLength
  <2> QED BY <1>1, <1>3, <2>2, <2>3 DEF Day
<1>4. ASSUME y = z, mo = mp, d < e PROVE Day(y, mo, d) < Day(z, mp, e)
  BY <1>1, <1>4 DEF Day
<1> QED BY <1>1, <1>2, <1>3, <1>4 DEF Day

\* The minutes since 2000.
Minutes(d) == (Day(d[1], d[2], d[3]) * 24 + d[4]) * 60 + d[5]

LEMMA DateValid ==
  ASSUME NEW d, ValidDate(d)
  PROVE  Date(d[1], d[2], d[3], d[4], d[5], d[6]) = <<Minutes(d), d[6]>> /\ Minutes(d) \in Nat
<1> DEFINE y == d[1]
           mo == d[2]
           year == y + (mo - 1) \div 12
           month == ((mo - 1) % 12) + 1
           day == DaysBeforeYear(year) + DaysBeforeMonth[month] + d[3] - 1
                    + (IF IsLeap(year) /\ month > 2 THEN 1 ELSE 0)
<1>1. Date(d[1], d[2], d[3], d[4], d[5], d[6]) = <<(day * 24 + d[4]) * 60 + d[5] + d[6] \div 60, d[6] % 60>>
  BY DEF Date
<1>2. /\ y \in 0 .. 99 /\ mo \in 1 .. 12 /\ d[3] \in 1 .. DaysIn(y, mo) /\ d[4] \in 0 .. 23
      /\ d[5] \in 0 .. 59 /\ d[6] \in 0 .. 59
  BY DEF ValidDate
<1>3. d[6] \div 60 = 0 /\ d[6] % 60 = d[6] /\ d[3] \in Nat
  <2>1. \A s \in 0 .. 59 : s \div 60 = 0 /\ s % 60 = s
    OBVIOUS
  <2>2. DaysIn(y, mo) \in Nat
    BY <1>2, MonthLength
  <2> QED BY <1>2, <2>1, <2>2
<1>4. year = y /\ month = mo
  <2>1. \A n \in 1 .. 12 : (n - 1) \div 12 = 0 /\ (n - 1) % 12 = n - 1
    OBVIOUS
  <2> HIDE DEF y, mo
  <2> QED BY <1>2, <2>1
<1>5. day = Day(y, mo, d[3])
  <2>1. /\ IsLeap(y) <=> Leap(y) = 1
        /\ Leap(y) \in {0, 1} /\ DaysBeforeYear(y) \in Nat
    BY <1>2, YearLength
  <2>2. DaysBeforeMonth[mo] \in Nat
    <3>1. mo \in {1, 2, 3, 4, 5, 6, 7, 8, 9, 10, 11, 12}
      BY <1>2
    <3> QED BY <3>1, Months
  <2> HIDE DEF y, mo, year, month
  <2>3. day = DaysBeforeYear(y) + DaysBeforeMonth[mo] + d[3] - 1 + (IF IsLeap(y) /\ mo > 2 THEN 1 ELSE 0)
    BY <1>4
  <2> HIDE DEF day
  <2>4. (IF IsLeap(y) /\ mo > 2 THEN 1 ELSE 0) = (IF mo > 2 THEN Leap(y) ELSE 0)
    BY <2>1
  <2> QED BY <1>2, <1>3, <2>1, <2>2, <2>3, <2>4 DEF Day, Start
<1>6. Day(y, mo, d[3]) \in Nat
  BY <1>2, DaysOrdered
<1> HIDE DEF day
<1>7. Minutes(d) = (day * 24 + d[4]) * 60 + d[5] /\ day \in Nat
  BY <1>5, <1>6 DEF Minutes
<1> QED BY <1>1, <1>2, <1>3, <1>7

\* Before, field by field.
LEMMA BeforeFields ==
  ASSUME NEW d, NEW e, DOMAIN d = 1 .. 6
  PROVE  Before(d, e) <=>
           \/ d[1] < e[1]
           \/ d[1] = e[1] /\ d[2] < e[2]
           \/ d[1] = e[1] /\ d[2] = e[2] /\ d[3] < e[3]
           \/ d[1] = e[1] /\ d[2] = e[2] /\ d[3] = e[3] /\ d[4] < e[4]
           \/ d[1] = e[1] /\ d[2] = e[2] /\ d[3] = e[3] /\ d[4] = e[4] /\ d[5] < e[5]
           \/ /\ d[1] = e[1] /\ d[2] = e[2] /\ d[3] = e[3] /\ d[4] = e[4] /\ d[5] = e[5]
              /\ d[6] < e[6]
<1> DEFINE At6(k) == d[k] < e[k] /\ \A j \in 1 .. k - 1 : d[j] = e[j]
<1>1. Before(d, e) <=> \E k \in 1 .. 6 : At6(k)
  BY DEF Before
<1>2. 1 .. 6 = {1, 2, 3, 4, 5, 6}
  OBVIOUS
<1>3. /\ 1 .. 1 - 1 = {} /\ 1 .. 2 - 1 = {1} /\ 1 .. 3 - 1 = {1, 2} /\ 1 .. 4 - 1 = {1, 2, 3}
      /\ 1 .. 5 - 1 = {1, 2, 3, 4} /\ 1 .. 6 - 1 = {1, 2, 3, 4, 5}
  OBVIOUS
<1>4. At6(1) <=> d[1] < e[1]
  BY <1>3, Zenon
<1>5. At6(2) <=> d[1] = e[1] /\ d[2] < e[2]
  BY <1>3, Zenon
<1>6. At6(3) <=> d[1] = e[1] /\ d[2] = e[2] /\ d[3] < e[3]
  BY <1>3, Zenon
<1>7. At6(4) <=> d[1] = e[1] /\ d[2] = e[2] /\ d[3] = e[3] /\ d[4] < e[4]
  BY <1>3, Zenon
<1>8. At6(5) <=> d[1] = e[1] /\ d[2] = e[2] /\ d[3] = e[3] /\ d[4] = e[4] /\ d[5] < e[5]
  BY <1>3, Zenon
<1>9. At6(6) <=> /\ d[1] = e[1] /\ d[2] = e[2] /\ d[3] = e[3] /\ d[4] = e[4] /\ d[5] = e[5]
                 /\ d[6] < e[6]
  BY <1>3, Zenon
<1> HIDE DEF At6
<1>10. (\E k \in 1 .. 6 : At6(k)) <=> (At6(1) \/ At6(2) \/ At6(3) \/ At6(4) \/ At6(5) \/ At6(6))
  BY <1>2, Zenon
<1> QED BY <1>1, <1>4, <1>5, <1>6, <1>7, <1>8, <1>9, <1>10

LEMMA BeforePair ==
  ASSUME NEW a, NEW b, NEW x, NEW y
  PROVE  Before(<<a, b>>, <<x, y>>) <=> (a < x \/ (a = x /\ b < y))
<1>1. DOMAIN <<a, b>> = {1, 2} /\ 1 .. 1 - 1 = {} /\ 1 .. 2 - 1 = {1}
  OBVIOUS
<1> DEFINE p == <<a, b>>
           q == <<x, y>>
<1>2. p[1] = a /\ p[2] = b /\ q[1] = x /\ q[2] = y /\ DOMAIN p = {1, 2}
  BY <1>1
<1> HIDE DEF p, q
<1>3. Before(p, q) <=> (a < x \/ (a = x /\ b < y))
  BY <1>1, <1>2, Zenon DEF Before
<1> QED BY <1>3 DEF p, q

\* An earlier date is an earlier time,
LEMMA EarlierDate ==
  ASSUME NEW d, NEW e, ValidDate(d), ValidDate(e), DOMAIN d = 1 .. 6, Before(d, e)
  PROVE  Minutes(d) < Minutes(e) \/ (Minutes(d) = Minutes(e) /\ d[6] < e[6])
<1> DEFINE a == Day(d[1], d[2], d[3])
           b == Day(e[1], e[2], e[3])
<1>1. /\ d[1] \in 0 .. 99 /\ d[2] \in 1 .. 12 /\ d[3] \in 1 .. DaysIn(d[1], d[2])
      /\ d[4] \in 0 .. 23 /\ d[5] \in 0 .. 59 /\ d[6] \in 0 .. 59
      /\ e[1] \in 0 .. 99 /\ e[2] \in 1 .. 12 /\ e[3] \in 1 .. DaysIn(e[1], e[2])
      /\ e[4] \in 0 .. 23 /\ e[5] \in 0 .. 59 /\ e[6] \in 0 .. 59
  BY DEF ValidDate
<1>2. /\ a \in Nat /\ b \in Nat
      /\ d[1] < e[1] => a < b
      /\ d[1] = e[1] /\ d[2] < e[2] => a < b
      /\ d[1] = e[1] /\ d[2] = e[2] /\ d[3] < e[3] => a < b
      /\ d[1] = e[1] /\ d[2] = e[2] /\ d[3] = e[3] => a = b
  <2>1. a \in Nat /\ b \in Nat
    BY <1>1, DaysOrdered
  <2>2. /\ d[1] < e[1] => a < b
        /\ d[1] = e[1] /\ d[2] < e[2] => a < b
        /\ d[1] = e[1] /\ d[2] = e[2] /\ d[3] < e[3] => a < b
    BY <1>1, DaysOrdered
  <2> QED BY <2>1, <2>2
<1> HIDE DEF a, b
<1>3. \/ a < b
      \/ a = b /\ d[4] < e[4]
      \/ a = b /\ d[4] = e[4] /\ d[5] < e[5]
      \/ a = b /\ d[4] = e[4] /\ d[5] = e[5] /\ d[6] < e[6]
  BY <1>2, BeforeFields
<1>4. Minutes(d) = (a * 24 + d[4]) * 60 + d[5] /\ Minutes(e) = (b * 24 + e[4]) * 60 + e[5]
  BY DEF Minutes, a, b
<1>5. /\ a < b => Minutes(d) < Minutes(e)
      /\ a = b /\ d[4] < e[4] => Minutes(d) < Minutes(e)
      /\ a = b /\ d[4] = e[4] /\ d[5] < e[5] => Minutes(d) < Minutes(e)
  <2>1. PICK h \in 0 .. 23, mi \in 0 .. 59, i \in 0 .. 23, mj \in 0 .. 59 :
          h = d[4] /\ mi = d[5] /\ i = e[4] /\ mj = e[5]
    BY <1>1
  <2> DEFINE M == (a * 24 + h) * 60 + mi
             N == (b * 24 + i) * 60 + mj
  <2>2. /\ a < b => M < N
        /\ a = b /\ h < i => M < N
        /\ a = b /\ h = i /\ mi < mj => M < N
    <3>1. a \in Nat /\ b \in Nat
      BY <1>2
    <3> QED BY <3>1
  <2>3. Minutes(d) = M /\ Minutes(e) = N
    BY <1>4, <2>1
  <2> HIDE DEF M, N
  <2> QED BY <2>1, <2>2, <2>3
<1>6. a = b /\ d[4] = e[4] /\ d[5] = e[5] => Minutes(d) = Minutes(e)
  BY <1>4
<1> QED BY <1>3, <1>5, <1>6

\* and conversely.
LEMMA DatesOrdered ==
  ASSUME NEW d, NEW e, ValidDate(d), ValidDate(e), DOMAIN d = 1 .. 6, DOMAIN e = 1 .. 6
  PROVE  Before(d, e) <=> Before(Date(d[1], d[2], d[3], d[4], d[5], d[6]),
                                 Date(e[1], e[2], e[3], e[4], e[5], e[6]))
<1> DEFINE Earlier(x, y) == Minutes(x) < Minutes(y) \/ (Minutes(x) = Minutes(y) /\ x[6] < y[6])
<1>1. /\ Date(d[1], d[2], d[3], d[4], d[5], d[6]) = <<Minutes(d), d[6]>>
      /\ Date(e[1], e[2], e[3], e[4], e[5], e[6]) = <<Minutes(e), e[6]>>
      /\ Minutes(d) \in Nat /\ Minutes(e) \in Nat
  BY DateValid
<1>2. Before(<<Minutes(d), d[6]>>, <<Minutes(e), e[6]>>) <=> Earlier(d, e)
  BY BeforePair
<1>3. /\ Before(d, e) => Earlier(d, e)
      /\ Before(e, d) => Earlier(e, d)
  BY EarlierDate
<1>4. /\ d[1] \in Nat /\ d[2] \in Nat /\ d[4] \in Nat /\ d[5] \in Nat /\ d[6] \in Nat
      /\ e[1] \in Nat /\ e[2] \in Nat /\ e[4] \in Nat /\ e[5] \in Nat /\ e[6] \in Nat
  BY DEF ValidDate
<1>5. d[3] \in Nat /\ e[3] \in Nat
  <2>1. DaysIn(d[1], d[2]) \in Nat /\ DaysIn(e[1], e[2]) \in Nat
    BY MonthLength DEF ValidDate
  <2> QED BY <2>1 DEF ValidDate
<1>6. ASSUME ~ Before(d, e), ~ Before(e, d)
      PROVE  d[1] = e[1] /\ d[2] = e[2] /\ d[3] = e[3] /\ d[4] = e[4] /\ d[5] = e[5] /\ d[6] = e[6]
  BY <1>4, <1>5, <1>6, BeforeFields
<1>7. ASSUME ~ Before(d, e), ~ Before(e, d) PROVE ~ Earlier(d, e)
  <2>1. Minutes(d) = Minutes(e) /\ d[6] = e[6]
    BY <1>6, <1>7 DEF Minutes
  <2> QED BY <1>1, <1>4, <2>1
<1>8. Earlier(e, d) => ~ Earlier(d, e)
  BY <1>1, <1>4
<1> QED BY <1>1, <1>2, <1>3, <1>7, <1>8

-----------------------------------------------------------------------------
(* Radio reports: the date, and what a frame found in one keeps of it.     *)

IsWifi(m) ==
  /\ m.kind = "wifi" /\ m.proto \in MsgWifiLBS /\ m.date \in Seq(0 .. 99) /\ Len(m.date) = 6
  /\ EncodeWifi(m.wifi) \in Seq(Byte) /\ EncodeCells(m.cells) \in Seq(Byte)

RadioContent(m) == wifiContent(m.date, m.wifi, m.cells)

LEMMA BcdRead ==
  ASSUME NEW n \in 0 .. 99
  PROVE  Bcd(n) \in Byte /\ BcdByte(Bcd(n)) = n
<1>1. PICK a \in 0 .. 9, b \in 0 .. 9 : a = n \div 10 /\ b = n % 10 /\ n = 10 * a + b
  <2>1. PICK a \in Nat : a = n \div 10
    OBVIOUS
  <2>2. PICK b \in 0 .. 9 : b = n % 10
    OBVIOUS
  <2>3. a * 10 + b = n
    BY <2>1, <2>2
  <2>4. a \in 0 .. 9
    BY <2>3
  <2> QED BY <2>1, <2>2, <2>3, <2>4
<1>2. a \in Nib /\ b \in Nib
  BY DEF Nib
<1>3. a * 16 + b \in Byte /\ (a * 16 + b) \div 16 = a /\ (a * 16 + b) % 16 = b
  BY <1>2, HalfBytes
<1>4. Bcd(n) = a * 16 + b
  BY <1>1 DEF Bcd
<1>5. BcdByte(Bcd(n)) = a * 10 + b
  BY <1>3, <1>4 DEF BcdByte
<1> QED BY <1>1, <1>3, <1>4, <1>5

\* A report starts with its date.
LEMMA RadioBytes ==
  ASSUME NEW m, IsWifi(m)
  PROVE  /\ RadioContent(m) \in Seq(Byte) /\ Len(RadioContent(m)) >= 6
         /\ \A k \in 1 .. 6 : m.date[k] \in 0 .. 99 /\ RadioContent(m)[k] = Bcd(m.date[k])
<1> DEFINE a == [k \in 1 .. 6 |-> Bcd(m.date[k])]
           b == EncodeWifi(m.wifi)
           c == EncodeCells(m.cells)
           s == RadioContent(m)
<1>1. \A k \in 1 .. 6 : m.date[k] \in 0 .. 99
  BY SeqAt DEF IsWifi
<1>2. \A k \in 1 .. 6 : Bcd(m.date[k]) \in Byte
  BY <1>1, BcdRead
<1>3. a \in Seq(Byte) /\ Len(a) = 6 /\ \A k \in 1 .. 6 : a[k] = Bcd(m.date[k])
  BY <1>2
<1>4. b \in Seq(Byte) /\ c \in Seq(Byte) /\ Len(b) \in Nat /\ Len(c) \in Nat
  BY DEF IsWifi
<1>5. s = (a \o b) \o c
  BY DEF RadioContent, wifiContent
<1> HIDE DEF a, b, c, s
<1>6. a \in Seq(Byte)
  BY <1>3
<1>7. /\ a \o b \in Seq(Byte) /\ Len(a \o b) = Len(a) + Len(b)
      /\ \A k \in 1 .. Len(a) : (a \o b)[k] = a[k]
  BY <1>4, <1>6, Concat
<1> DEFINE t == a \o b
<1>8. t \in Seq(Byte) /\ Len(t) = Len(a) + Len(b) /\ \A k \in 1 .. Len(a) : t[k] = a[k]
  BY <1>7
<1>9. s = t \o c
  BY <1>5
<1> HIDE DEF t
<1>10. s \in Seq(Byte) /\ Len(s) = Len(t) + Len(c) /\ \A k \in 1 .. Len(t) : s[k] = t[k]
  BY <1>4, <1>8, <1>9, Concat
<1>11. Len(s) >= 6 /\ \A k \in 1 .. 6 : k \in 1 .. Len(a) /\ k \in 1 .. Len(t)
  BY <1>3, <1>4, <1>8, <1>10
<1>12. \A k \in 1 .. 6 : s[k] = Bcd(m.date[k])
  BY <1>3, <1>8, <1>10, <1>11
<1> QED BY <1>1, <1>10, <1>11, <1>12 DEF s

LEMMA Middle ==
  ASSUME NEW s \in Seq(Byte), NEW n \in Nat, n >= 12, Len(s) = n
  PROVE  /\ SubSeq(s, 5, n - 2) \in Seq(Byte) /\ Len(SubSeq(s, 5, n - 2)) = n - 6
         /\ \A k \in 1 .. 6 : SubSeq(s, 5, n - 2)[k] = s[4 + k]
OBVIOUS

\* A frame of that type whose body starts as content does, with at least a date.
Kept(proto, content, raw) ==
  /\ raw[PrefixLen(raw)] = proto
  /\ Body(raw) \in Seq(Byte) /\ Len(Body(raw)) >= 6 /\ Len(content) >= 6
  /\ \A k \in 1 .. 6 : Body(raw)[k] = content[k]

\* The frame found in a report has its type and at least its date.
LEMMA RadioFrame ==
  ASSUME NEW proto \in MsgWifiLBS, NEW content \in Seq(Byte),
         NEW f, f = Packet(0, proto, content), ExtractFrame(f).kind = "frame",
         NEW raw, raw = SubSeq(f, 1, ExtractFrame(f).n)
  PROVE  Kept(proto, content, raw)
<1> DEFINE n == ExtractFrame(f).n
           m == Least(f[4], From(f, 4))
<1>1. proto \in Byte /\ 0 \in Byte
  BY DEF MsgWifiLBS, Byte
<1>2. f \in Seq(Byte) /\ content \in Seq(Int)
  BY <1>1, PacketByte, ByteInt
<1>3. /\ Len(f) = Len(content) + 6 /\ f[1] = 120 /\ f[4] = proto
      /\ \A k \in 1 .. Len(content) : f[4 + k] = content[k]
  BY <1>2, PacketShape
<1>4. /\ n \in 1 .. Len(f) /\ n >= 6 /\ f[1] = f[2] /\ Len(f) \in Nat /\ Len(content) \in Nat
  BY <1>2, ExtractTakes
<1>5. 4 \in 0 .. Len(f) /\ Len(f) > 4 /\ n \in Nat /\ n <= Len(f)
  BY <1>3, <1>4
<1>6. m \in Nat /\ m >= 6
  <2>1. From(f, 4) \in Seq(Byte)
    BY <1>2, <1>5, FromType
  <2> QED BY <1>3, <2>1, WifiContent
<1>7. Begun(f, 4, m)
  BY <1>3, <1>4, <1>5 DEF Begun, PrefixLen
<1> HIDE DEF m
<1>8. PICK i \in Nat : i >= m /\ ExtractFrame(f) = FrameOf(4 + i + 2)
  <2>1. ExtractFrame(f) # Incomplete
    BY DEF Incomplete
  <2> QED BY <1>2, <1>6, <1>7, <2>1, BegunExtract
<1>9. n >= 12
  <2>1. n = 4 + i + 2
    BY <1>8 DEF FrameOf
  <2> QED BY <1>6, <1>8, <2>1
<1> HIDE DEF n
<1>10. raw \in Seq(Byte) /\ Len(raw) = n /\ \A k \in 1 .. n : raw[k] = f[k]
  <2>1. raw = SubSeq(f, 1, n)
    BY DEF n
  <2>2. /\ SubSeq(f, 1, n) \in Seq(Byte) /\ Len(SubSeq(f, 1, n)) = n
        /\ \A k \in Nat : 1 <= k /\ k <= n => SubSeq(f, 1, n)[k] = f[k]
    BY <1>2, <1>5, TakeAt, Zenon
  <2>3. \A k \in 1 .. n : k \in Nat /\ 1 <= k /\ k <= n
    BY <1>5
  <2> QED BY <2>1, <2>2, <2>3, Zenon
<1>11. raw[1] = 120 /\ raw[4] = proto
  BY <1>3, <1>9, <1>10, <1>5
<1>12. PrefixLen(raw) = 4
  BY <1>11 DEF PrefixLen
<1>13. Body(raw) = SubSeq(raw, 5, n - 2)
  <2>1. PrefixLen(raw) + 1 = 5 /\ Len(raw) - 2 = n - 2
    BY <1>10, <1>12
  <2> QED BY <2>1, Zenon DEF Body
<1>14. /\ Body(raw) \in Seq(Byte) /\ Len(Body(raw)) = n - 6
       /\ \A k \in 1 .. 6 : Body(raw)[k] = raw[4 + k]
  <2>1. n \in Nat /\ n >= 12 /\ raw \in Seq(Byte) /\ Len(raw) = n
    BY <1>5, <1>9, <1>10
  <2>2. /\ SubSeq(raw, 5, n - 2) \in Seq(Byte) /\ Len(SubSeq(raw, 5, n - 2)) = n - 6
        /\ \A k \in 1 .. 6 : SubSeq(raw, 5, n - 2)[k] = raw[4 + k]
    BY <2>1, Middle, Zenon
  <2> QED BY <1>13, <2>2, Zenon
<1>15. Len(content) >= 6
  BY <1>3, <1>4, <1>5, <1>9
<1>16. ASSUME NEW k \in 1 .. 6 PROVE Body(raw)[k] = content[k]
  <2>1. 4 + k \in 1 .. n /\ k \in 1 .. Len(content)
    BY <1>4, <1>5, <1>9, <1>15
  <2>2. Body(raw)[k] = raw[4 + k] /\ raw[4 + k] = f[4 + k]
    BY <1>10, <1>14, <2>1
  <2> QED BY <1>3, <2>1, <2>2
<1>17. Len(Body(raw)) >= 6
  <2>1. Len(Body(raw)) = n - 6
    BY <1>14
  <2> QED BY <1>5, <1>9, <2>1
<1>18. raw[PrefixLen(raw)] = proto
  BY <1>11, <1>12, Zenon
<1> QED BY <1>14, <1>15, <1>16, <1>17, <1>18, Zenon DEF Kept

\* WifiDate reads a date that is one.
LEMMA RadioDate ==
  ASSUME NEW m, IsWifi(m), ValidDate(m.date), NEW body,
         \A k \in 1 .. 6 : body[k] = Bcd(m.date[k])
  PROVE  WifiDate(body) = DateOf(m)
<1> DEFINE d == m.date
           f == [k \in 1 .. 6 |-> BcdByte(body[k])]
<1>1. \A k \in 1 .. 6 : d[k] \in 0 .. 99
  BY RadioBytes
<1>2. \A k \in 1 .. 6 : f[k] = d[k]
  BY <1>1, BcdRead
<1>3. f[1] = d[1] /\ f[2] = d[2] /\ f[3] = d[3] /\ f[4] = d[4] /\ f[5] = d[5] /\ f[6] = d[6]
  BY <1>2
<1>4. /\ d[1] \in 0 .. 99 /\ d[2] \in 1 .. 12 /\ d[3] \in 1 .. 31
      /\ d[4] \in 0 .. 23 /\ d[5] \in 0 .. 59 /\ d[6] \in 0 .. 59
  <2>1. DaysIn(d[1], d[2]) \in {28, 29, 30, 31}
    BY DEF DaysIn
  <2> QED BY <2>1 DEF ValidDate
<1> DEFINE binary == \/ f[1] < 0 \/ f[2] \notin 1 .. 12 \/ f[3] \notin 1 .. 31
                     \/ f[4] > 23 \/ f[5] > 59 \/ f[6] > 59
           g == IF binary THEN SubSeq(body, 1, 6) ELSE f
<1>5. WifiDate(body) = Date(g[1], g[2], g[3], g[4], g[5], g[6])
  BY DEF WifiDate
<1> HIDE DEF f
<1>6. ~ binary
  BY <1>3, <1>4
<1> HIDE DEF binary
<1>7. g = f
  BY <1>6
<1> QED BY <1>3, <1>5, <1>7 DEF DateOf

-----------------------------------------------------------------------------
(* From the bytes to the handler.                                          *)

\* What a frame is taken for.
TypeOf(raw) == raw[PrefixLen(raw)]

LEMMA Dispatch ==
  ASSUME NEW raw, handleFrame(raw)
  PROVE  /\ TypeOf(raw) = MsgLogin => HandleLogin(Body(raw))
         /\ TypeOf(raw) = MsgTimeSync => HandleTimeSync
         /\ TypeOf(raw) = MsgParam => HandleParam
         /\ TypeOf(raw) = MsgICCID => HandleICCID(Body(raw))
         /\ TypeOf(raw) = MsgStatus => HandleStatus(raw)
         /\ TypeOf(raw) \in MsgGPS => HandleGPS(TypeOf(raw), Body(raw))
         /\ TypeOf(raw) \in MsgWifiLBS => HandleWifiLBS(TypeOf(raw), Body(raw))
         /\ TypeOf(raw) = 148 => HandleOther
BY DEF handleFrame, TypeOf, MsgLogin, MsgTimeSync, MsgParam, MsgICCID, MsgStatus, MsgGPS, MsgWifiLBS

\* A packet of fixed layout reaches its handler as it was sent.
LEMMA Handled ==
  ASSUME NEW m, Uplink(m),
         NEW len \in Byte, NEW proto \in Byte \ MsgWifiLBS, NEW content \in Seq(Byte),
         Len(content) = contentBounds(proto, <<>>).min, Encode(m) = Packet(len, proto, content)
  PROVE  /\ handleFrame(Encode(m)) /\ TypeOf(Encode(m)) = proto /\ Body(Encode(m)) = content
<1> DEFINE f == Packet(len, proto, content)
<1>1. /\ ExtractFrame(f).kind = "frame" /\ SubSeq(f, 1, ExtractFrame(f).n) = f
      /\ f[PrefixLen(f)] = proto /\ Body(f) = content
  BY Received
<1> HIDE DEF f
<1>2. Encode(m) = f
  BY DEF f
<1>3. handleFrame(SubSeq(f, 1, ExtractFrame(f).n))
  BY <1>1, <1>2 DEF Uplink
<1> QED BY <1>1, <1>2, <1>3 DEF TypeOf

\* Of any other packet some frame may be taken: one of the packet's type.
LEMMA HandledAs ==
  ASSUME NEW m, Uplink(m),
         NEW len \in Byte, NEW proto \in Byte, NEW content \in Seq(Byte),
         Encode(m) = Packet(len, proto, content)
  PROVE  HandleOther \/ \E raw : handleFrame(raw) /\ TypeOf(raw) = proto
<1> DEFINE f == Packet(len, proto, content)
           found == ExtractFrame(f)
           raw == SubSeq(f, 1, found.n)
<1>1. f \in Seq(Byte)
  BY PacketByte
<1>2. Len(f) = Len(content) + 6 /\ f[1] = 120 /\ f[4] = proto
  BY ByteInt, PacketShape
<1>3. Encode(m) = f
  OBVIOUS
<1> HIDE DEF f
<1>4. CASE found.kind # "frame"
  BY <1>3, <1>4 DEF Uplink
<1>5. CASE found.kind = "frame"
  <2>1. found.n \in 1 .. Len(f) /\ found.n >= 6
    BY <1>1, <1>5, ExtractTakes
  <2>2. handleFrame(raw)
    BY <1>3, <1>5 DEF Uplink
  <2>3. raw[1] = 120 /\ raw[4] = proto
    BY <1>1, <1>2, <2>1
  <2>4. TypeOf(raw) = proto
    BY <2>3 DEF TypeOf, PrefixLen
  <2> QED BY <2>2, <2>4
<1> QED BY <1>4, <1>5

-----------------------------------------------------------------------------
(* What a tracker's step leads to.                                         *)

\* UplinkTrue and AnswersMatch for a measurement, an owner and an outcome.
TrueOf(m, who, pub) ==
  IF pub = None THEN who = None \/ Expected(m) = None \/ m.kind = "wifi"
  ELSE /\ Expected(m) # None
       /\ pub.imei = who
       /\ \A f \in DOMAIN Expected(m) : pub.values[f] = Expected(m)[f]

AnswerOf(m, who, pub, rep) ==
  IF \/ m.kind \in {"iccid", "other"}
     \/ m.kind = "gps" /\ who = None
     \/ m.kind = "wifi" /\ pub # None
  THEN rep = <<>>
  ELSE /\ Len(rep) >= 6
       /\ rep[4] = Encode(m)[4]
       /\ m.kind = "status" => rep = Encode(m)
       /\ m.kind \in {"gps", "wifi"} => SubSeq(rep, 5, 10) = SubSeq(Encode(m), 5, 10)

LEMMA UplinkForm ==
  /\ UplinkTrue <=> (FromTracker => TrueOf(about.sent, about.owner, published))
  /\ UplinkTrue' <=> (FromTracker' => TrueOf(about'.sent, about'.owner, published'))
BY DEF UplinkTrue, TrueOf, FromTracker

LEMMA AnswerForm ==
  /\ AnswersMatch <=> (FromTracker => AnswerOf(about.sent, about.owner, published, reply))
  /\ AnswersMatch' <=> (FromTracker' => AnswerOf(about'.sent, about'.owner, published', reply'))
BY DEF AnswersMatch, AnswerOf, FromTracker

LEMMA Minimum ==
  /\ contentBounds(MsgLogin, <<>>).min = 9 /\ contentBounds(MsgStatus, <<>>).min = 4
  /\ contentBounds(MsgTimeSync, <<>>).min = 0 /\ contentBounds(MsgParam, <<>>).min = 0
  /\ \A proto \in MsgGPS : contentBounds(proto, <<>>).min = 18
BY DEF contentBounds, Bounds, MsgLogin, MsgStatus, MsgTimeSync, MsgParam, MsgGPS, MsgICCID, MsgWifiLBS

LEMMA Types ==
  /\ {MsgLogin, MsgStatus, MsgTimeSync, MsgParam} \cup MsgGPS \subseteq Byte \ MsgWifiLBS
  /\ MsgICCID \in Byte /\ MsgWifiLBS \subseteq Byte
  /\ \A n \in {0, 1, 2, 6, 10, 18, 148} : n \in Byte
BY DEF Byte, MsgLogin, MsgStatus, MsgTimeSync, MsgParam, MsgGPS, MsgICCID, MsgWifiLBS

\* An answer of the gateway.
LEMMA Answer ==
  ASSUME NEW len, NEW proto, NEW content \in Seq(Int)
  PROVE  Len(Packet(len, proto, content)) >= 6 /\ Packet(len, proto, content)[4] = proto
<1>1. Len(content) \in Nat
  OBVIOUS
<1> QED BY <1>1, PacketShape

LEMMA SentType ==
  ASSUME NEW len, NEW proto, NEW content \in Seq(Byte)
  PROVE  Packet(len, proto, content)[4] = proto
BY ByteInt, PacketShape

-----------------------------------------------------------------------------
\* What a step of the tracker leads to.
Outcome(m) ==
  /\ imei' = owner' /\ lookups' = lookups
  /\ TrueOf(m, owner', published')
  /\ AnswerOf(m, owner', published', reply')

LEMMA Widen ==
  ASSUME NEW S, NEW T, \A x \in S : x \in T, NEW s \in Seq(S)
  PROVE  s \in Seq(T)
<1>1. \A k \in 1 .. Len(s) : s[k] \in T
  BY SeqAt
<1>2. s = [k \in 1 .. Len(s) |-> s[k]] /\ Len(s) \in Nat
  BY SeqForm
<1> QED BY <1>1, <1>2

LEMMA Extend ==
  ASSUME NEW S, NEW s \in Seq(S), NEW e \in S
  PROVE  /\ <<e>> \o s \in Seq(S) /\ Len(<<e>> \o s) = Len(s) + 1
         /\ Append(s, e) \in Seq(S) /\ Len(Append(s, e)) = Len(s) + 1
OBVIOUS

LEMMA FillerNibbles ==
  ASSUME NEW id \in Seq(Decimal), Len(id) = 15
  PROVE  /\ <<0>> \o id \in Seq(Nib) /\ Len(<<0>> \o id) = 16
         /\ Append(id, 15) \in Seq(Nib) /\ Len(Append(id, 15)) = 16
<1>1. \A d \in Decimal : d \in Nib
  BY DEF Decimal, Nib
<1>2. id \in Seq(Nib)
  BY <1>1, Widen, Zenon
<1>3. 0 \in Nib /\ 15 \in Nib
  BY DEF Nib
<1>4. <<0>> \o id \in Seq(Nib) /\ Len(<<0>> \o id) = Len(id) + 1
  BY <1>2, <1>3, Extend, Zenon
<1>5. Append(id, 15) \in Seq(Nib) /\ Len(Append(id, 15)) = Len(id) + 1
  BY <1>2, <1>3, Extend, Zenon
<1> QED BY <1>4, <1>5

LEMMA Empty == <<>> \in Seq(Byte) /\ <<>> \in Seq(Int) /\ Len(<<>>) = 0
OBVIOUS

LEMMA ClockTail == Clock[1] \in Nat /\ Tail(Clock) \in Seq(Int)
<1>1. Clock \in Seq(Nat) /\ Len(Clock) = 6
  BY ClockAssumption, Zenon
<1>2. \A x \in Nat : x \in Int
  OBVIOUS
<1>3. 1 \in 1 .. Len(Clock) /\ Clock # <<>>
  <2>1. 1 \in 1 .. 6 /\ 6 # 0
    OBVIOUS
  <2> QED BY <1>1, <2>1, Empty, Zenon
<1>4. Clock[1] \in Nat
  BY <1>1, <1>3, SeqAt, Zenon
<1>5. Tail(Clock) \in Seq(Nat)
  <2>1. \A s \in Seq(Nat) : s # <<>> => Tail(s) \in Seq(Nat)
    OBVIOUS
  <2> QED BY <1>1, <1>3, <2>1, Zenon
<1> QED BY <1>2, <1>4, <1>5, Widen, Zenon

LEMMA SubSeqForm == \A s : SubSeq(s, 5, 10) = [k \in 1 .. 6 |-> s[4 + k]]
OBVIOUS

\* The answer to a report carries the type and the date of the report.
LEMMA DateEchoed ==
  ASSUME NEW len, NEW proto, NEW content \in Seq(Byte), Len(content) >= 6
  PROVE  LET f   == Packet(len, proto, content)
             ack == BuildDatetimeACK(proto, DatetimeFromBody(content))
         IN Len(ack) >= 6 /\ ack[4] = f[4] /\ SubSeq(ack, 5, 10) = SubSeq(f, 5, 10)
<1> DEFINE f == Packet(len, proto, content)
           date == SubSeq(content, 1, 6)
           ack == Packet(0, proto, date)
<1>1. BuildDatetimeACK(proto, DatetimeFromBody(content)) = ack
  BY DEF BuildDatetimeACK, DatetimeFromBody
<1>2. content \in Seq(Int)
  BY ByteInt
<1>3. date \in Seq(Int) /\ Len(date) = 6 /\ \A k \in 1 .. 6 : date[k] = content[k]
  BY <1>2
<1>date. date \in Seq(Int)
  BY <1>3
<1> HIDE DEF date
<1>4. /\ Len(f) = Len(content) + 6 /\ f[4] = proto
      /\ \A k \in 1 .. Len(content) : f[4 + k] = content[k]
  BY <1>2, PacketShape
<1>5. /\ Len(ack) = Len(date) + 6 /\ ack[4] = proto
      /\ \A k \in 1 .. Len(date) : ack[4 + k] = date[k]
  BY <1>date, PacketShape
<1> HIDE DEF f, ack
<1>6. ASSUME NEW k \in 1 .. 6 PROVE ack[4 + k] = f[4 + k]
  <2>1. k \in 1 .. Len(content)
    BY <1>2
  <2>2. f[4 + k] = content[k]
    BY <1>4, <2>1
  <2>3. ack[4 + k] = date[k]
    BY <1>3, <1>5
  <2> QED BY <1>3, <2>2, <2>3
<1>7. \A s : SubSeq(s, 5, 10) = [k \in 1 .. 6 |-> s[4 + k]]
  BY SubSeqForm
<1>8. SubSeq(ack, 5, 10) = SubSeq(f, 5, 10)
  BY <1>6, <1>7
<1> QED BY <1>1, <1>3, <1>4, <1>5, <1>8 DEF f

\* One lemma for each kind of frame. A login, in either filler convention:
LEMMA LoginStep ==
  ASSUME NEW m \in Measured, m.kind \in {"login", "filled"}, Uplink(m)
  PROVE  Outcome(m)
<1> DEFINE n == IF m.kind = "login" THEN <<0>> \o m.imei ELSE Append(m.imei, 15)
           content == LoginContent(n)
<1>1. m.imei \in Seq(Decimal) /\ Len(m.imei) = 15 /\ (m.kind = "filled" => m.imei[1] # 0)
  BY MeasuredAssumption
<1>2. n \in Seq(Nib) /\ Len(n) = 16
  BY <1>1, FillerNibbles
<1>3. content \in Seq(Byte) /\ Len(content) = 9
  <2> HIDE DEF n
  <2> QED BY <1>2, LoginBytes
<1>4. Encode(m) = Packet(10, MsgLogin, content)
  BY DEF Encode, buildLogin, imeiToBCD, LoginContent
<1>5. ParseLogin(content) # Fail /\ ParseLogin(content).imei = m.imei
  <2>1. Holds(n, m.imei)
    <3>1. m.kind = "login" => n = <<0>> \o m.imei
      OBVIOUS
    <3>2. m.kind = "filled" => n = Append(m.imei, 15)
      OBVIOUS
    <3> HIDE DEF n
    <3>3. m.kind = "login" \/ m.kind = "filled"
      OBVIOUS
    <3>4. m.kind = "filled" => m.imei[1] # 0
      BY <1>1, Zenon
    <3> QED BY <3>1, <3>2, <3>3, <3>4, Zenon DEF Holds
  <2> HIDE DEF n
  <2> QED BY <1>1, <1>2, <2>1, LoginRead
<1> HIDE DEF content
<1>6. handleFrame(Encode(m)) /\ TypeOf(Encode(m)) = MsgLogin /\ Body(Encode(m)) = content
  <2>1. 10 \in Byte /\ MsgLogin \in Byte \ MsgWifiLBS /\ Len(content) = contentBounds(MsgLogin, <<>>).min
    BY <1>3, Types, Minimum
  <2> QED BY <1>3, <1>4, <2>1, Handled
<1>7. HandleLogin(content)
  BY <1>6, Dispatch
<1>8. imei' = m.imei /\ published' = None /\ reply' = BuildLoginACK /\ lookups' = lookups /\ owner' = m.imei
  BY <1>5, <1>7 DEF HandleLogin, Uplink
<1>9. Expected(m) = None
  BY DEF Expected
<1>10. Len(BuildLoginACK) >= 6 /\ BuildLoginACK[4] = MsgLogin
  BY Empty, Answer, Zenon DEF BuildLoginACK
<1>11. Encode(m)[4] = MsgLogin
  <2>1. Packet(10, MsgLogin, content)[4] = MsgLogin
    BY <1>3, SentType
  <2> QED BY <1>4, <2>1, Zenon
<1> QED BY <1>8, <1>9, <1>10, <1>11 DEF Outcome, TrueOf, AnswerOf

LEMMA TimeStep ==
  ASSUME imei = owner, NEW m \in Measured, m.kind = "time", Uplink(m)
  PROVE  Outcome(m)
<1>1. Encode(m) = Packet(1, MsgTimeSync, <<>>)
  BY DEF Encode, buildTimeSyncReq
<1>2. handleFrame(Encode(m)) /\ TypeOf(Encode(m)) = MsgTimeSync
  <2>1. 1 \in Byte /\ MsgTimeSync \in Byte \ MsgWifiLBS /\ Len(<<>>) = contentBounds(MsgTimeSync, <<>>).min
    BY Types, Minimum
  <2> QED BY <1>1, <2>1, Empty, Handled, Zenon
<1>3. HandleTimeSync
  BY <1>2, Dispatch
<1>4. imei' = owner' /\ published' = None /\ reply' = BuildTimeSyncReply(Clock) /\ lookups' = lookups
  BY <1>3 DEF HandleTimeSync, Uplink
<1>5. Expected(m) = None
  BY DEF Expected
<1>6. Len(BuildTimeSyncReply(Clock)) >= 6 /\ BuildTimeSyncReply(Clock)[4] = MsgTimeSync
  <2> DEFINE content == BE16(Clock[1]) \o Tail(Clock)
  <2>1. Clock[1] \in Nat /\ Tail(Clock) \in Seq(Int)
    BY ClockTail
  <2>2. BE16(Clock[1]) \in Seq(Int)
    BY <2>1 DEF BE16
  <2>3. content \in Seq(Int)
    BY <2>1, <2>2
  <2> HIDE DEF content
  <2>4. BuildTimeSyncReply(Clock) = Packet(7, MsgTimeSync, content)
    BY DEF BuildTimeSyncReply, content
  <2> QED BY <2>3, <2>4, Answer
<1>7. Encode(m)[4] = MsgTimeSync
  <2>1. Packet(1, MsgTimeSync, <<>>)[4] = MsgTimeSync
    BY Empty, SentType
  <2> QED BY <1>1, <2>1, Zenon
<1> QED BY <1>4, <1>5, <1>6, <1>7 DEF Outcome, TrueOf, AnswerOf

LEMMA SettingsStep ==
  ASSUME imei = owner, NEW m \in Measured, m.kind = "settings", Uplink(m)
  PROVE  Outcome(m)
<1>1. Encode(m) = Packet(1, MsgParam, <<>>)
  BY DEF Encode
<1>2. handleFrame(Encode(m)) /\ TypeOf(Encode(m)) = MsgParam
  <2>1. 1 \in Byte /\ MsgParam \in Byte \ MsgWifiLBS /\ Len(<<>>) = contentBounds(MsgParam, <<>>).min
    BY Types, Minimum
  <2> QED BY <1>1, <2>1, Empty, Handled, Zenon
<1>3. HandleParam
  BY <1>2, Dispatch
<1>4. imei' = owner' /\ published' = None /\ reply' = BuildDefaultSettings /\ lookups' = lookups
  BY <1>3 DEF HandleParam, Uplink
<1>5. Expected(m) = None
  BY DEF Expected
<1>6. Len(BuildDefaultSettings) >= 6 /\ BuildDefaultSettings[4] = MsgParam
  <2> DEFINE content == <<0, 16, 1, 127, 24, 38>> \o [k \in 1 .. 21 |-> 0] \o <<59, 59, 59>>
  <2>1. content \in Seq(Int)
    OBVIOUS
  <2> HIDE DEF content
  <2>2. BuildDefaultSettings = Packet(31, MsgParam, content)
    BY DEF BuildDefaultSettings, content
  <2> QED BY <2>1, <2>2, Answer
<1>7. Encode(m)[4] = MsgParam
  <2>1. Packet(1, MsgParam, <<>>)[4] = MsgParam
    BY Empty, SentType
  <2> QED BY <1>1, <2>1, Zenon
<1> QED BY <1>4, <1>5, <1>6, <1>7 DEF Outcome, TrueOf, AnswerOf

\* A battery level is published if it is a percentage.
LEMMA StatusStep ==
  ASSUME imei = owner, NEW m \in Measured, m.kind = "status", Uplink(m)
  PROVE  Outcome(m)
<1> DEFINE content == <<m.battery, 57, 3, 2>>
           f == Encode(m)
<1>1. m.battery \in Byte
  BY MeasuredAssumption
<1>2. content \in Seq(Byte) /\ Len(content) = 4 /\ content[1] = m.battery
  BY <1>1 DEF Byte
<1>3. f = Packet(6, MsgStatus, content)
  BY DEF Encode, buildStatus
<1> HIDE DEF content, f
<1>4. handleFrame(f) /\ TypeOf(f) = MsgStatus /\ Body(f) = content
  <2>1. 6 \in Byte /\ MsgStatus \in Byte \ MsgWifiLBS /\ Len(content) = contentBounds(MsgStatus, <<>>).min
    BY <1>2, Types, Minimum
  <2> QED BY <1>2, <1>3, <2>1, Handled DEF f
<1>5. HandleStatus(f)
  BY <1>4, Dispatch
<1>6. imei' = owner' /\ lookups' = lookups
  BY <1>5 DEF HandleStatus, Uplink
<1>7. Len(f) >= 6 /\ reply' = f
  <2>0. content \in Seq(Byte)
    BY <1>2
  <2>1. Len(Packet(6, MsgStatus, content)) = Len(content) + 6
    BY <2>0, ByteInt, PacketShape
  <2>2. Len(f) = 10
    BY <1>2, <1>3, <2>1
  <2> QED BY <1>5, <2>2 DEF HandleStatus, BuildStatusEcho
<1>8. TrueOf(m, owner', published')
  <2>1. ParseStatus(content) = [battery |-> IF m.battery <= 100 THEN m.battery ELSE -1]
    BY <1>2 DEF ParseStatus
  <2>2. CASE m.battery <= 100
    <3>1. ParseStatus(content) = [battery |-> m.battery] /\ ~ (m.battery < 0)
      BY <1>1, <2>1, <2>2 DEF Byte
    <3>2. Expected(m) = [battery |-> m.battery]
      BY <2>2 DEF Expected
    <3>3. [battery |-> m.battery] # Fail /\ Expected(m) # None
      BY <3>2 DEF Fail, None
    <3>4. published' = IF imei = None THEN None ELSE [imei |-> imei, values |-> Expected(m)]
      BY <1>4, <1>5, <3>1, <3>2, <3>3 DEF HandleStatus, PublishFor
    <3>5. CASE imei = None
      BY <1>6, <3>4, <3>5 DEF HandleStatus, Uplink, TrueOf
    <3>6. CASE imei # None
      <4>1. published'.imei = imei /\ published'.values = Expected(m) /\ published' # None
        BY <3>4, <3>6 DEF None
      <4>2. owner' = imei
        BY DEF Uplink
      <4> QED BY <3>3, <4>1, <4>2 DEF TrueOf
    <3> QED BY <3>5, <3>6
  <2>3. CASE ~ (m.battery <= 100)
    <3>1. ParseStatus(content) = [battery |-> -1]
      BY <2>1, <2>3
    <3>2. published' = None
      BY <1>4, <1>5, <3>1 DEF HandleStatus
    <3>3. Expected(m) = None
      BY <2>3 DEF Expected
    <3> QED BY <3>2, <3>3 DEF TrueOf
  <2> QED BY <2>2, <2>3
<1>9. AnswerOf(m, owner', published', reply')
  BY <1>7 DEF AnswerOf, f
<1> QED BY <1>6, <1>8, <1>9 DEF Outcome

\* A position is published and answered once a tracker has logged in.
LEMMA GpsStep ==
  ASSUME imei = owner, NEW m \in Measured, m.kind = "gps", Uplink(m)
  PROVE  Outcome(m)
<1> DEFINE content == GpsContent(m)
           f == Encode(m)
           ack == BuildDatetimeACK(m.proto, DatetimeFromBody(content))
<1>1. IsGps(m)
  BY MeasuredAssumption DEF IsGps
<1>2. content \in Seq(Byte) /\ Len(content) = 18 /\ m.proto \in MsgGPS
  BY <1>1, GpsBytes DEF Bytes, IsGps
<1>3. f = Packet(18, m.proto, content)
  BY GpsPacket
<1>4. ParseGPS(content) # Fail /\ Expected(m) # None
      /\ \A x \in DOMAIN Expected(m) : ParseGPS(content)[x] = Expected(m)[x]
  BY <1>1, GpsRead
<1> HIDE DEF content, f
<1>5. handleFrame(f) /\ TypeOf(f) = m.proto /\ Body(f) = content
  <2>1. 18 \in Byte /\ m.proto \in Byte \ MsgWifiLBS /\ Len(content) = contentBounds(m.proto, <<>>).min
    BY <1>2, Types, Minimum
  <2> QED BY <1>2, <1>3, <2>1, Handled DEF f
<1>6. HandleGPS(m.proto, content)
  BY <1>2, <1>5, Dispatch
<1>7. /\ imei' = owner' /\ lookups' = lookups /\ owner' = imei
      /\ published' = IF imei = None THEN None ELSE [imei |-> imei, values |-> ParseGPS(content)]
      /\ reply' = IF imei = None THEN <<>> ELSE ack
  BY <1>4, <1>6 DEF HandleGPS, Uplink, PublishFor
<1>8. TrueOf(m, owner', published')
  <2>1. CASE imei = None
    BY <1>7, <2>1 DEF TrueOf
  <2>2. CASE imei # None
    <3>1. published'.imei = owner' /\ published'.values = ParseGPS(content) /\ published' # None
      BY <1>7, <2>2 DEF None
    <3> QED BY <1>4, <3>1 DEF TrueOf
  <2> QED BY <2>1, <2>2
<1>9. AnswerOf(m, owner', published', reply')
  <2>1. CASE imei = None
    BY <1>7, <2>1 DEF AnswerOf
  <2>2. CASE imei # None
    <3>1. Len(ack) >= 6 /\ ack[4] = f[4] /\ SubSeq(ack, 5, 10) = SubSeq(f, 5, 10)
      <4>1. content \in Seq(Byte) /\ Len(content) >= 6
        BY <1>2
      <4>2. LET p == Packet(18, m.proto, content)
            IN Len(ack) >= 6 /\ ack[4] = p[4] /\ SubSeq(ack, 5, 10) = SubSeq(p, 5, 10)
        BY <4>1, DateEchoed
      <4> HIDE DEF ack
      <4> QED BY <1>3, <4>2
    <3>2. reply' = ack /\ owner' # None
      BY <1>7, <2>2
    <3> HIDE DEF ack
    <3> QED BY <3>1, <3>2 DEF AnswerOf, f
  <2> QED BY <2>1, <2>2
<1> QED BY <1>7, <1>8, <1>9 DEF Outcome

LEMMA OtherStep ==
  ASSUME imei = owner, NEW m \in Measured, m.kind = "other", Uplink(m)
  PROVE  Outcome(m)
<1> DEFINE content == <<1>>
<1>1. content \in Seq(Byte) /\ 2 \in Byte /\ 148 \in Byte
  BY DEF Byte
<1>2. Encode(m) = Packet(2, 148, content)
  BY DEF Encode
<1> HIDE DEF content
<1>3. HandleOther
  <2>1. HandleOther \/ \E raw : handleFrame(raw) /\ TypeOf(raw) = 148
    BY <1>1, <1>2, HandledAs
  <2> QED BY <2>1, Dispatch
<1>4. imei' = owner' /\ lookups' = lookups /\ published' = None /\ reply' = <<>>
  BY <1>3 DEF HandleOther, Uplink
<1>5. Expected(m) = None
  BY DEF Expected
<1> QED BY <1>4, <1>5 DEF Outcome, TrueOf, AnswerOf

\* Of an ICCID, everything but the value.
LEMMA IccidStep ==
  ASSUME imei = owner, NEW m \in Measured, m.kind = "iccid", Uplink(m)
  PROVE  /\ imei' = owner' /\ lookups' = lookups
         /\ published' # None => published'.imei = owner'
         /\ AnswerOf(m, owner', published', reply')
<1>1. m.iccid \in Seq(Byte) /\ 1 \in Byte /\ MsgICCID \in Byte
  BY MeasuredAssumption, Types
<1>2. Encode(m) = Packet(1, MsgICCID, m.iccid)
  BY DEF Encode
<1>3. HandleOther \/ \E body : HandleICCID(body)
  <2>1. HandleOther \/ \E raw : handleFrame(raw) /\ TypeOf(raw) = MsgICCID
    BY <1>1, <1>2, HandledAs
  <2> QED BY <2>1, Dispatch
<1>4. owner' = owner
  BY DEF Uplink
<1>5. imei' = imei /\ lookups' = lookups /\ reply' = <<>>
  BY <1>3 DEF HandleOther, HandleICCID
<1>6. published' # None => published'.imei = imei
  BY <1>3 DEF HandleOther, HandleICCID, PublishFor
<1> QED BY <1>4, <1>5, <1>6 DEF AnswerOf

\* Some frame is found in the bytes of m.
Found(m) == ExtractFrame(Encode(m)).kind = "frame"

\* A report is looked up for who sent it, with the date the tracker put in it.
LookupOf(m, who, l) ==
  /\ l.about.sent = m /\ l.about.owner = who /\ l.imei = who /\ who # None
  /\ ValidDate(m.date) => l.wl.time = DateOf(m)

\* The handler of the frame found in a radio report.
LEMMA WifiHandled ==
  ASSUME NEW m, IsWifi(m), Found(m), Uplink(m)
  PROVE  \E body \in Seq(Byte) :
           /\ HandleWifiLBS(m.proto, body) /\ Len(body) >= 6 /\ Len(RadioContent(m)) >= 6
           /\ \A k \in 1 .. 6 : body[k] = RadioContent(m)[k]
<1> DEFINE f == Encode(m)
           raw == SubSeq(f, 1, ExtractFrame(f).n)
<1>1. RadioContent(m) \in Seq(Byte) /\ m.proto \in MsgWifiLBS
  BY RadioBytes DEF IsWifi
<1>2. f = Packet(0, m.proto, RadioContent(m)) /\ ExtractFrame(f).kind = "frame"
  BY DEF Encode, buildWifi, RadioContent, IsWifi, Found
<1>3. handleFrame(raw)
  BY DEF Uplink, Found
<1>raw. raw = SubSeq(f, 1, ExtractFrame(f).n)
  OBVIOUS
<1> HIDE DEF f, raw
<1>4. /\ raw[PrefixLen(raw)] = m.proto
      /\ Body(raw) \in Seq(Byte) /\ Len(Body(raw)) >= 6 /\ Len(RadioContent(m)) >= 6
      /\ \A k \in 1 .. 6 : Body(raw)[k] = RadioContent(m)[k]
  <2>1. Kept(m.proto, RadioContent(m), raw)
    BY <1>1, <1>2, <1>raw, RadioFrame, Zenon
  <2> QED BY <2>1 DEF Kept
<1>5. HandleWifiLBS(m.proto, Body(raw))
  <2>1. TypeOf(raw) = m.proto
    BY <1>4 DEF TypeOf
  <2> QED BY <1>1, <1>3, <2>1, Dispatch, Zenon
<1> QED BY <1>4, <1>5, Zenon

LEMMA SameDate ==
  ASSUME NEW s \in Seq(Byte), NEW t \in Seq(Byte), Len(s) >= 6, Len(t) >= 6,
         \A k \in 1 .. 6 : s[k] = t[k]
  PROVE  DatetimeFromBody(s) = DatetimeFromBody(t)
<1>1. SubSeq(s, 1, 6) = SubSeq(t, 1, 6)
  OBVIOUS
<1> QED BY <1>1 DEF DatetimeFromBody

LEMMA WifiStep ==
  ASSUME imei = owner, NEW m \in Measured, m.kind = "wifi", Uplink(m)
  PROVE  /\ imei' = owner' /\ published' = None
         /\ \/ lookups' = lookups
            \/ \E l : LookupOf(m, owner', l) /\ lookups' = lookups \cup {l}
         /\ Found(m) => AnswerOf(m, owner', published', reply')
<1>1. IsWifi(m)
  BY MeasuredAssumption DEF IsWifi
<1>2. owner' = owner /\ about' = [sent |-> m, owner |-> owner']
  BY DEF Uplink
<1>3. CASE ~ Found(m)
  <2>1. HandleOther
    BY <1>3 DEF Uplink, Found
  <2> QED BY <1>2, <1>3, <2>1 DEF HandleOther
<1>4. CASE Found(m)
  <2> DEFINE content == RadioContent(m)
  <2>1. PICK body \in Seq(Byte) :
          /\ HandleWifiLBS(m.proto, body) /\ Len(body) >= 6 /\ Len(content) >= 6
          /\ \A k \in 1 .. 6 : body[k] = content[k]
    BY <1>1, <1>4, WifiHandled
  <2>2. content \in Seq(Byte) /\ \A k \in 1 .. 6 : body[k] = Bcd(m.date[k])
    BY <1>1, <2>1, RadioBytes
  <2> DEFINE wl == ParseWifiLBS(body)
             l == [about |-> about', imei |-> imei, wl |-> wl]
             ack == BuildDatetimeACK(m.proto, DatetimeFromBody(content))
             f == Packet(0, m.proto, content)
  <2>3. /\ imei' = imei /\ published' = None
        /\ lookups' = IF wl = Fail \/ imei = None THEN lookups ELSE lookups \cup {l}
        /\ reply' = BuildDatetimeACK(m.proto, DatetimeFromBody(body))
    BY <2>1 DEF HandleWifiLBS
  <2>4. wl.time = WifiDate(body)
    BY <2>1 DEF ParseWifiLBS
  <2>5. ValidDate(m.date) => WifiDate(body) = DateOf(m)
    BY <1>1, <2>2, RadioDate
  <2>6. imei # None => LookupOf(m, owner', l)
    <3> HIDE DEF wl
    <3> QED BY <1>2, <2>4, <2>5 DEF LookupOf
  <2>7. reply' = ack
    BY <2>1, <2>2, <2>3, SameDate
  <2>8. Encode(m) = f
    BY DEF Encode, buildWifi, RadioContent
  <2>9. Len(ack) >= 6 /\ ack[4] = f[4] /\ SubSeq(ack, 5, 10) = SubSeq(f, 5, 10)
    BY <2>1, <2>2, DateEchoed
  <2> HIDE DEF ack, f, l, wl
  <2>10. AnswerOf(m, owner', published', reply')
    BY <2>3, <2>7, <2>8, <2>9 DEF AnswerOf
  <2> QED BY <1>2, <2>3, <2>6, <2>10
<1> QED BY <1>3, <1>4

-----------------------------------------------------------------------------
(* Commands.                                                               *)

\* The packet of setLocationInterval.
Interval(v) == BuildUploadInterval(v % 65536)

\* The values it accepts.
LocationRange == 10 .. 7200

Carried(packet) == U16(packet, 4)

\* A value in range is carried in two bytes, without wrapping.
LEMMA LocationInterval ==
  ASSUME NEW v \in LocationRange
  PROVE  Carried(Interval(v)) = v
<1>1. v % 65536 = v /\ ~ (v < 10) /\ ~ (v > 7200)
  BY DEF LocationRange
<1> DEFINE c == <<Hi(v), Lo(v)>>
<1>2. Interval(v) = Packet(3, MsgUploadInt, c)
  BY <1>1 DEF Interval, BuildUploadInterval, BE16, Hi, Lo
<1>3. v \in Nat
  BY DEF LocationRange
<1>4. Hi(v) \in Nat /\ Lo(v) \in 0 .. 255 /\ Hi(v) * 256 + Lo(v) = v
  BY <1>3, HiLo
<1>5. c \in Seq(Int) /\ 1 \in 1 .. Len(c) /\ 2 \in 1 .. Len(c) /\ c[1] = Hi(v) /\ c[2] = Lo(v)
  BY <1>4
<1> HIDE DEF c
<1>6. Interval(v)[4 + 1] = c[1] /\ Interval(v)[4 + 2] = c[2]
  BY <1>2, <1>5, PacketShape
<1>7. U16(Interval(v), 4) = Hi(v) * 256 + Lo(v)
  BY <1>5, <1>6 DEF U16, At
<1> QED BY <1>4, <1>7 DEF Carried

LEMMA StatusInterval ==
  ASSUME NEW v \in 1 .. 60
  PROVE  At(BuildStatusInterval(v), 4) = v
<1>1. (IF v = 0 THEN 1 ELSE v) % 256 = v /\ v \in Int
  OBVIOUS
<1>2. BuildStatusInterval(v) = Packet(2, MsgStatus, <<v>>)
  BY <1>1 DEF BuildStatusInterval
<1> DEFINE c == <<v>>
<1>3. c \in Seq(Int) /\ 1 \in 1 .. Len(c) /\ c[1] = v
  BY <1>1
<1> HIDE DEF c
<1>4. Packet(2, MsgStatus, c)[4 + 1] = c[1]
  BY <1>3, PacketShape
<1>5. BuildStatusInterval(v)[5] = v
  BY <1>2, <1>3, <1>4 DEF c
<1> QED BY <1>5 DEF At

LEMMA PlainCommands == BuildRestart # <<>> /\ BuildShutdown # <<>> /\ BuildLocate # <<>>
<1>1. <<1>> \in Seq(Int) /\ <<2>> \in Seq(Int) /\ <<>> \in Seq(Int)
  OBVIOUS
<1>2. \A len, proto : \A c \in Seq(Int) : Packet(len, proto, c) # <<>>
  BY Answer, Empty
<1> QED BY <1>1, <1>2, Zenon DEF BuildRestart, BuildShutdown, BuildLocate

LEMMA NotFail == \A p : [packet |-> p] # Fail /\ [packet |-> p].packet = p
BY DEF Fail

\* Every method with every value.
LEMMA CommandExact ==
  ASSUME NEW method, NEW v
  PROVE  Exact(method, v, IF ExecuteRPC(method, v) = Fail THEN <<>> ELSE ExecuteRPC(method, v).packet)
<1> DEFINE result == ExecuteRPC(method, v)
           packet == IF result = Fail THEN <<>> ELSE result.packet
<1>1. CASE method = "setLocationInterval" /\ v \in 10 .. 7200
  <2>1. result = [packet |-> Interval(v)]
    BY <1>1 DEF ExecuteRPC, Interval
  <2>2. packet = Interval(v)
    BY <2>1, NotFail
  <2> HIDE DEF packet
  <2>3. Exact(method, v, packet)
    <3>1. v \in 10 .. 7200 /\ method = "setLocationInterval"
      BY <1>1
    <3>2. v \in LocationRange
      BY <3>1 DEF LocationRange
    <3>3. Carried(Interval(v)) = v
      BY <3>2, LocationInterval, Zenon
    <3>4. U16(packet, 4) = v
      BY <2>2, <3>3 DEF Carried
    <3> QED BY <3>1, <3>4 DEF Exact
  <2> QED BY <2>3 DEF packet
<1>2. CASE method = "setStatusInterval" /\ v \in 1 .. 60
  <2>1. result = [packet |-> BuildStatusInterval(v)]
    BY <1>2 DEF ExecuteRPC
  <2>2. packet = BuildStatusInterval(v)
    BY <2>1, NotFail
  <2> HIDE DEF packet
  <2>3. Exact(method, v, packet)
    <3>1. At(packet, 4) = v
      BY <1>2, <2>2, StatusInterval, Zenon
    <3>2. method = "setStatusInterval" /\ method # "setLocationInterval" /\ v \in 1 .. 60
      BY <1>2
    <3> QED BY <3>1, <3>2 DEF Exact
  <2> QED BY <2>3 DEF packet
<1>3. CASE method \in {"reboot", "shutdown", "locate"}
  <2>1. \E p \in {BuildRestart, BuildShutdown, BuildLocate} : result = [packet |-> p]
    <3>1. CASE method = "reboot"
      <4>1. result = [packet |-> BuildRestart]
        BY <3>1 DEF ExecuteRPC
      <4> QED BY <4>1
    <3>2. CASE method = "shutdown"
      <4>1. result = [packet |-> BuildShutdown]
        BY <3>2 DEF ExecuteRPC
      <4> QED BY <4>1
    <3>3. CASE method = "locate"
      <4>1. result = [packet |-> BuildLocate]
        BY <3>3 DEF ExecuteRPC
      <4> QED BY <4>1
    <3> QED BY <1>3, <3>1, <3>2, <3>3
  <2>2. packet # <<>>
    BY <2>1, NotFail, PlainCommands
  <2> HIDE DEF packet
  <2>3. Exact(method, v, packet)
    <3>1. method # "setLocationInterval" /\ method # "setStatusInterval"
      BY <1>3
    <3>2. Exact(method, v, packet)
            <=> (packet = <<>>) = (method \notin {"reboot", "shutdown", "locate"})
      BY <3>1, Zenon DEF Exact
    <3> QED BY <1>3, <2>2, <3>2, Zenon
  <2> QED BY <2>3 DEF packet
<1>4. CASE /\ method \notin {"reboot", "shutdown", "locate"}
           /\ ~ (method = "setLocationInterval" /\ v \in 10 .. 7200)
           /\ ~ (method = "setStatusInterval" /\ v \in 1 .. 60)
  <2>1. result = Fail
    BY <1>4 DEF ExecuteRPC
  <2>2. packet = <<>>
    BY <2>1
  <2> HIDE DEF packet
  <2>3. Exact(method, v, packet)
    BY <1>4, <2>2 DEF Exact
  <2> QED BY <2>3 DEF packet
<1> QED BY <1>1, <1>2, <1>3, <1>4

-----------------------------------------------------------------------------
(* The invariant.                                                          *)

\* The handler's imei is that of the tracker that logged in last, and a lookup
\* carries the IMEI of the tracker whose report it is about, and its date.
Sound ==
  /\ imei = owner
  /\ \A l \in lookups :
       /\ l.about.sent \in Measured /\ l.about.sent.kind = "wifi"
       /\ LookupOf(l.about.sent, l.about.owner, l)

\* Whatever is published is published for the tracker that sent it.
UnderOwner == FromTracker /\ published # None => published.imei = about.owner

FramePublished == FromTracker /\ about.sent.kind \notin {"iccid", "wifi"} => UplinkTrue

FrameAnswered ==
  FromTracker /\ (about.sent.kind = "wifi" => Found(about.sent)) => AnswersMatch

\* What is published about a position or a radio report has its date, if it is one.
Timed ==
  published # None /\ about.sent.kind \in {"gps", "wifi"} =>
    /\ about.sent \in Measured
    /\ ValidDate(about.sent.date) => published.values.time = DateOf(about.sent)

\* Lookups outlive the login they were started under: what Resolve publishes is
\* bounded only by what Sound says of them.
ReportInv ==
  /\ Sound /\ UnderOwner /\ FramePublished /\ FrameAnswered /\ Timed /\ CommandsExact

\* ReportInv is preserved, one lemma per action.
LEMMA UplinkKeeps ==
  ASSUME Sound, NEW m \in Measured, Uplink(m)
  PROVE  ReportInv'
<1>1. about' = [sent |-> m, owner |-> owner'] /\ m.kind # "command"
  BY MeasuredAssumption DEF Uplink
<1>2. about'.sent = m /\ about'.owner = owner' /\ imei = owner
  BY <1>1 DEF Sound
<1>3. CommandsExact'
  BY <1>1, <1>2 DEF CommandsExact
<1>4. ASSUME Outcome(m) PROVE ReportInv'
  <2>1. UplinkTrue' /\ AnswersMatch'
    BY <1>2, <1>4, UplinkForm, AnswerForm DEF Outcome
  <2>2. Sound'
    BY <1>4 DEF Sound, Outcome
  <2>3. UnderOwner'
    BY <1>2, <1>4 DEF UnderOwner, Outcome, TrueOf
  <2>4. Timed'
    <3>1. ASSUME published' # None, m.kind = "gps" PROVE published'.values.time = DateOf(m)
      <4>1. "time" \in DOMAIN Expected(m) /\ Expected(m)["time"] = DateOf(m)
        BY <3>1 DEF Expected
      <4>2. published'.values["time"] = Expected(m)["time"]
        BY <1>4, <3>1, <4>1 DEF Outcome, TrueOf
      <4> QED BY <4>1, <4>2
    <3>2. m.kind = "wifi" => published' = None
      BY <1>2, WifiStep
    <3> QED BY <1>2, <3>1, <3>2 DEF Timed
  <2> QED BY <1>3, <2>1, <2>2, <2>3, <2>4 DEF ReportInv, FramePublished, FrameAnswered
<1>5. CASE m.kind = "iccid"
  <2>1. /\ imei' = owner' /\ lookups' = lookups /\ AnswerOf(m, owner', published', reply')
        /\ published' # None => published'.imei = owner'
    BY <1>2, <1>5, IccidStep
  <2>2. AnswersMatch'
    BY <1>2, <2>1, AnswerForm
  <2>3. Sound' /\ UnderOwner' /\ FramePublished' /\ Timed'
    BY <1>2, <1>5, <2>1 DEF Sound, UnderOwner, FramePublished, Timed
  <2> QED BY <1>3, <2>2, <2>3 DEF ReportInv, FrameAnswered
<1>6. CASE m.kind = "wifi"
  <2>1. /\ imei' = owner' /\ published' = None
        /\ \/ lookups' = lookups
           \/ \E l : LookupOf(m, owner', l) /\ lookups' = lookups \cup {l}
        /\ Found(m) => AnswerOf(m, owner', published', reply')
    BY <1>2, <1>6, WifiStep
  <2>2. Sound'
    <3>1. \A l : LookupOf(m, owner', l)
            => /\ l.about.sent \in Measured /\ l.about.sent.kind = "wifi"
               /\ LookupOf(l.about.sent, l.about.owner, l)
      BY <1>6 DEF LookupOf
    <3> QED BY <2>1, <3>1 DEF Sound
  <2>3. FrameAnswered'
    BY <1>2, <1>6, <2>1, AnswerForm DEF FrameAnswered
  <2>4. UnderOwner' /\ FramePublished' /\ Timed'
    BY <1>2, <1>6, <2>1 DEF UnderOwner, FramePublished, Timed
  <2> QED BY <1>3, <2>2, <2>3, <2>4 DEF ReportInv
<1>7. CASE m.kind \in {"login", "filled", "time", "settings", "gps", "status", "other"}
  <2>1. Outcome(m)
    BY <1>2, <1>7, LoginStep, TimeStep, SettingsStep, GpsStep, StatusStep, OtherStep
  <2> QED BY <1>4, <2>1
<1>8. m.kind \in {"login", "filled", "time", "settings", "gps", "status", "other", "iccid", "wifi"}
  BY MeasuredAssumption
<1> QED BY <1>5, <1>6, <1>7, <1>8

LEMMA ResolveKeeps ==
  ASSUME Sound, NEW l \in lookups, Resolve(l)
  PROVE  ReportInv'
<1>1. /\ about' = l.about /\ imei' = imei /\ owner' = owner /\ lookups' = lookups \ {l}
      /\ published' = IF l.imei = None THEN None ELSE [imei |-> l.imei, values |-> l.wl]
      /\ reply' = <<>>
  BY DEF Resolve, PublishFor
<1>2. /\ about'.sent \in Measured /\ about'.sent.kind = "wifi"
      /\ l.imei = about'.owner /\ l.imei # None
      /\ ValidDate(about'.sent.date) => l.wl.time = DateOf(about'.sent)
  BY <1>1 DEF Sound, LookupOf
<1>3. Sound'
  BY <1>1 DEF Sound
<1>4. published' # None /\ published'.imei = about'.owner /\ published'.values = l.wl
  BY <1>1, <1>2 DEF None
<1>5. AnswersMatch'
  BY <1>1, <1>2, <1>4, AnswerForm DEF AnswerOf
<1>6. Timed'
  BY <1>2, <1>4 DEF Timed
<1> QED BY <1>2, <1>3, <1>4, <1>5, <1>6
        DEF ReportInv, UnderOwner, FramePublished, FrameAnswered, CommandsExact

LEMMA ResolveFailsKeeps ==
  ASSUME ReportInv, NEW l \in lookups, ResolveFails(l)
  PROVE  ReportInv'
<1>1. UNCHANGED <<owner, imei, about, published, reply>> /\ lookups' = lookups \ {l}
  BY DEF ResolveFails
<1>2. Sound'
  BY <1>1 DEF ReportInv, Sound
<1>3. UnderOwner' /\ FramePublished' /\ FrameAnswered' /\ Timed' /\ CommandsExact'
  BY <1>1 DEF ReportInv, UnderOwner, FramePublished, FrameAnswered, Timed, CommandsExact,
              FromTracker, UplinkTrue, AnswersMatch
<1> QED BY <1>2, <1>3 DEF ReportInv

LEMMA DownlinkKeeps ==
  ASSUME Sound, NEW method, NEW v, Downlink(method, v)
  PROVE  ReportInv'
<1>1. /\ about'.sent.kind = "command" /\ about'.sent.method = method /\ about'.sent.value = v
      /\ reply' = IF ExecuteRPC(method, v) = Fail THEN <<>> ELSE ExecuteRPC(method, v).packet
      /\ UNCHANGED <<owner, imei, lookups>>
  BY DEF Downlink
<1>2. CommandsExact'
  BY <1>1, CommandExact DEF CommandsExact
<1>3. Sound'
  BY <1>1 DEF Sound
<1> QED BY <1>1, <1>2, <1>3
        DEF ReportInv, UnderOwner, FramePublished, FrameAnswered, Timed, FromTracker

LEMMA NextKeeps ==
  ASSUME ReportInv, [Next]_vars
  PROVE  ReportInv'
<1>1. Sound
  BY DEF ReportInv
<1>2. CASE UNCHANGED vars
  <2>1. Sound'
    BY <1>1, <1>2 DEF Sound, vars
  <2>2. UnderOwner' /\ FramePublished' /\ FrameAnswered' /\ Timed' /\ CommandsExact'
    BY <1>2 DEF ReportInv, UnderOwner, FramePublished, FrameAnswered, Timed, CommandsExact,
                FromTracker, UplinkTrue, AnswersMatch, vars
  <2> QED BY <2>1, <2>2 DEF ReportInv
<1>3. CASE Next
  BY <1>1, <1>3, UplinkKeeps, ResolveKeeps, ResolveFailsKeeps, DownlinkKeeps DEF Next
<1> QED BY <1>2, <1>3

\* The dates of positions and radio reports have six fields.
LEMMA Dated ==
  ASSUME NEW m \in Measured, m.kind \in {"gps", "wifi"}
  PROVE  DOMAIN m.date = 1 .. 6
<1>1. \E S : m.date \in Seq(S) /\ Len(m.date) = 6
  BY MeasuredAssumption
<1> QED BY <1>1

LEMMA InitReports == Init => ReportInv
BY DEF Init, ReportInv, Sound, UnderOwner, FramePublished, FrameAnswered, Timed, FromTracker,
       CommandsExact

LEMMA ReportsHold == Spec => []ReportInv
<1>1. ReportInv /\ [Next]_vars => ReportInv'
  BY NextKeeps
<1> QED BY <1>1, InitReports, PTL DEF Spec

(* Whatever is published about a tracker's frame, at once or when a lookup *)
(* ends, is published under the IMEI of the tracker that was logged in     *)
(* when the frame was sent, however many logins have followed.             *)
THEOREM PublishedForOwner == Spec => []UnderOwner
<1>1. ReportInv => UnderOwner
  BY DEF ReportInv
<1> QED BY <1>1, ReportsHold, PTL

(* Every position and battery level a tracker can encode is published      *)
(* value for value under its IMEI, and a login, time request, settings     *)
(* request or unknown frame publishes nothing.                             *)
THEOREM FixedReportsTrue ==
  Spec => [](FromTracker /\ about.sent.kind \notin {"iccid", "wifi"} => UplinkTrue)
<1>1. ReportInv => FramePublished
  BY DEF ReportInv
<1>2. FramePublished <=> (FromTracker /\ about.sent.kind \notin {"iccid", "wifi"} => UplinkTrue)
  BY DEF FramePublished
<1> QED BY <1>1, <1>2, ReportsHold, PTL

(* README.md:80 "Must-reply": the answer has the frame's type and echoes   *)
(* its date or the frame itself, and only what need not be answered is     *)
(* not. Of a Wi-Fi/LBS report some frame must have been found, as it is in *)
(* the reports of CellReportsDelimited (module FramingProofs).             *)
THEOREM FramesAnswered ==
  Spec => [](FromTracker /\ (about.sent.kind = "wifi" => Found(about.sent)) => AnswersMatch)
<1>1. ReportInv => FrameAnswered
  BY DEF ReportInv
<1>2. FrameAnswered
        <=> (FromTracker /\ (about.sent.kind = "wifi" => Found(about.sent)) => AnswersMatch)
  BY DEF FrameAnswered
<1> QED BY <1>1, <1>2, ReportsHold, PTL

\* The trackers put dates in their reports.
ValidDates == \A m \in Measured : m.kind \in {"gps", "wifi"} => ValidDate(m.date)

(* For all dates of the years 2000 to 2099: whichever positions and radio  *)
(* reports follow each other, one date binary and the other BCD or not,    *)
(* however late a lookup ends, the published times are ordered as the      *)
(* tracker's dates are.                                                    *)
THEOREM TimesAlwaysOrdered == ValidDates /\ Spec => TimesOrdered
<1> DEFINE Ordered ==
             /\ published # None /\ published' # None
             /\ {about.sent.kind, about'.sent.kind} \subseteq {"gps", "wifi"}
             => (Before(about.sent.date, about'.sent.date)
                   <=> Before(published.values.time, published'.values.time))
<1> SUFFICES ASSUME ValidDates PROVE Spec => TimesOrdered
  OBVIOUS
<1>1. ASSUME ReportInv, ReportInv' PROVE Ordered
  <2> SUFFICES ASSUME published # None, published' # None,
                      about.sent.kind \in {"gps", "wifi"}, about'.sent.kind \in {"gps", "wifi"}
               PROVE  Before(about.sent.date, about'.sent.date)
                        <=> Before(published.values.time, published'.values.time)
    OBVIOUS
  <2> DEFINE m == about.sent
             n == about'.sent
             d == m.date
             e == n.date
  <2>1. m \in Measured /\ (ValidDate(d) => published.values.time = DateOf(m))
    BY <1>1 DEF ReportInv, Timed
  <2>2. n \in Measured /\ (ValidDate(e) => published'.values.time = DateOf(n))
    BY <1>1 DEF ReportInv, Timed
  <2>3. ValidDate(d) /\ ValidDate(e)
    BY <2>1, <2>2 DEF ValidDates
  <2>4. DOMAIN d = 1 .. 6 /\ DOMAIN e = 1 .. 6
    BY <2>1, <2>2, Dated
  <2>5. published.values.time = Date(d[1], d[2], d[3], d[4], d[5], d[6])
    BY <2>1, <2>3 DEF DateOf
  <2>6. published'.values.time = Date(e[1], e[2], e[3], e[4], e[5], e[6])
    BY <2>2, <2>3 DEF DateOf
  <2> HIDE DEF d, e
  <2>7. Before(d, e) <=> Before(Date(d[1], d[2], d[3], d[4], d[5], d[6]),
                                Date(e[1], e[2], e[3], e[4], e[5], e[6]))
    BY <2>3, <2>4, DatesOrdered, Zenon
  <2>8. Before(d, e) <=> Before(published.values.time, published'.values.time)
    BY <2>5, <2>6, <2>7, Zenon
  <2> QED BY <2>8 DEF d, e
<1>2. ReportInv /\ ReportInv' => [Ordered]_vars
  BY <1>1
<1>3. TimesOrdered <=> [][Ordered]_vars
  BY DEF TimesOrdered
<1> HIDE DEF Ordered
<1> QED BY <1>2, <1>3, ReportsHold, PTL

(* For every method and every value asked for: the packet written carries  *)
(* exactly that value, or the command is refused and nothing is written.   *)
THEOREM CommandsAlwaysExact == Spec => []CommandsExact
<1>1. ReportInv => CommandsExact
  BY DEF ReportInv
<1> QED BY <1>1, ReportsHold, PTL

=============================================================================
