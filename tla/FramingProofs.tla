--------------------------- MODULE FramingProofs ---------------------------
(***************************************************************************)
(* Theorems about module Framing, for every buffer.                        *)
(***************************************************************************)
EXTENDS Framing, WellFoundedInduction, NaturalsInduction, TLAPS

\* The least element of a set of naturals.
LEMMA MinNat ==
  ASSUME NEW S \in SUBSET Nat, S # {}
  PROVE  Min(S) \in S /\ \A y \in S : Min(S) <= y
<1> DEFINE Less == {ss \in Nat \X Nat : ss[1] < ss[2]}
<1>1. OpToRel(<, Nat) = Less
  BY Zenon DEF OpToRel
<1>2. PICK x \in S : \A y \in S : ~ (<<y, x>> \in Less)
  <2> HIDE DEF Less
  <2>1. IsWellFoundedOn(Less, Nat)
    BY <1>1, NatLessThanWellFounded
  <2> QED BY <2>1, WFMin
<1>3. \A y \in S : x <= y
  <2> SUFFICES ASSUME NEW y \in S PROVE x <= y
    OBVIOUS
  <2>1. <<y, x>> \in Less <=> y < x
    BY Zenon
  <2>2. ~ (y < x)
    BY <1>2, <2>1
  <2> QED BY <2>2
<1> QED BY <1>3 DEF Min

LEMMA FromType ==
  ASSUME NEW s \in Seq(Byte), NEW i \in 0 .. Len(s)
  PROVE  From(s, i) \in Seq(Byte) /\ Len(From(s, i)) = Len(s) - i
BY DEF From

LEMMA FromAt ==
  ASSUME NEW s \in Seq(Byte), NEW i \in Nat, i <= Len(s), NEW k \in Nat, 1 <= k, k <= Len(s) - i
  PROVE  From(s, i)[k] = s[i + k]
BY DEF From

LEMMA TakeAt ==
  ASSUME NEW s \in Seq(Byte), NEW n \in Nat, n <= Len(s)
  PROVE  /\ SubSeq(s, 1, n) \in Seq(Byte) /\ Len(SubSeq(s, 1, n)) = n
         /\ \A k \in Nat : 1 <= k /\ k <= n => SubSeq(s, 1, n)[k] = s[k]
OBVIOUS

LEMMA LBSHeaderRange ==
  ASSUME NEW rest \in Seq(Byte)
  PROVE  findLBSHeader(rest) \in {-1} \cup (0 .. Len(rest) - 4)
<1> DEFINE Plausible == {i \in 0 .. Len(rest) - 4 :
        /\ rest[i + 1] \in 1 .. 6
        /\ rest[i + 2] * 256 + rest[i + 3] \in 1 .. 999
        /\ Len(rest) - (i + 4) >= rest[i + 1] * 6}
<1>1. Plausible \in SUBSET Nat /\ Plausible \subseteq 0 .. Len(rest) - 4
  <2>1. Len(rest) \in Nat
    OBVIOUS
  <2>2. 0 .. Len(rest) - 4 \subseteq Nat
    BY <2>1
  <2> QED BY <2>2, Zenon
<1>2. findLBSHeader(rest) = IF Plausible = {} THEN -1 ELSE Min(Plausible)
  BY DEF findLBSHeader
<1>3. CASE Plausible = {}
  <2>1. Len(rest) \in Nat
    OBVIOUS
  <2> QED BY <1>2, <1>3, <2>1
<1>4. CASE Plausible # {}
  <2>1. Min(Plausible) \in Plausible
    BY <1>1, <1>4, MinNat
  <2> HIDE DEF Plausible
  <2> QED BY <1>1, <1>2, <1>4, <2>1
<1> QED BY <1>3, <1>4

LEMMA WifiBounds ==
  ASSUME NEW content \in Seq(Byte)
  PROVE  /\ wifiLBSContentBounds(content) \in [min : Nat, exact : Int]
         /\ wifiLBSContentBounds(content).min >= 6
         /\ wifiLBSContentBounds(content).exact \in Nat => wifiLBSContentBounds(content).exact >= 6
<1> DEFINE rest == From(content, 6)
           lbsStart == findLBSHeader(rest)
           lbs == From(rest, lbsStart)
           cellSize == IF 4 + lbs[1] * 7 > Len(lbs) /\ 4 + lbs[1] * 6 <= Len(lbs) THEN 6 ELSE 7
           need == 4 + lbs[1] * cellSize
           end == 6 + lbsStart + need
<1>1. wifiLBSContentBounds(content) =
        IF Len(content) < 6 \/ lbsStart < 0 THEN Bounds(6, -1)
        ELSE IF Len(lbs) < need THEN Bounds(end, -1)
        ELSE Bounds(6, end)
  BY DEF wifiLBSContentBounds
<1>2. ASSUME ~ (Len(content) < 6 \/ lbsStart < 0)
      PROVE  end \in Nat /\ end >= 6
  <2>1. rest \in Seq(Byte)
    BY <1>2, FromType
  <2>2. lbsStart \in {-1} \cup (0 .. Len(rest) - 4)
    BY <2>1, LBSHeaderRange
  <2>3. lbsStart \in 0 .. Len(rest) /\ lbsStart + 4 <= Len(rest) /\ Len(rest) \in Nat
    BY <1>2, <2>1, <2>2
  <2>4. lbs \in Seq(Byte) /\ Len(lbs) = Len(rest) - lbsStart
    BY <2>1, <2>3, FromType
  <2>5. 1 \in 1 .. Len(lbs)
    BY <2>3, <2>4
  <2>6. lbs[1] \in Byte
    BY <2>4, <2>5
  <2>7. lbs[1] \in Nat
    <3>1. Byte \subseteq Nat
      BY DEF Byte
    <3> QED BY <2>6, <3>1
  <2>8. cellSize \in {6, 7}
    <3> HIDE DEF lbs
    <3> QED OBVIOUS
  <2> HIDE DEF lbsStart, lbs, cellSize, rest
  <2>9. need \in Nat
    <3>1. CASE cellSize = 6
      BY <2>7, <3>1
    <3>2. CASE cellSize = 7
      BY <2>7, <3>2
    <3> QED BY <2>8, <3>1, <3>2
  <2> HIDE DEF need
  <2> QED BY <2>3, <2>9
<1> HIDE DEF need, lbsStart, lbs, end
<1>3. ASSUME NEW e \in Nat, e >= 6
      PROVE  /\ Bounds(e, -1) \in [min : Nat, exact : Int] /\ Bounds(e, -1).min = e /\ Bounds(e, -1).exact = -1
             /\ Bounds(6, e) \in [min : Nat, exact : Int] /\ Bounds(6, e).min = 6 /\ Bounds(6, e).exact = e
  BY DEF Bounds
<1>4. CASE Len(content) < 6 \/ lbsStart < 0
  BY <1>1, <1>3, <1>4
<1>5. CASE ~ (Len(content) < 6 \/ lbsStart < 0)
  BY <1>1, <1>2, <1>3, <1>5
<1> QED BY <1>4, <1>5

LEMMA BoundsType ==
  ASSUME NEW proto \in Byte, NEW content \in Seq(Byte)
  PROVE  contentBounds(proto, content) \in [min : Nat, exact : Int]
<1>1. contentBounds(proto, content) \in
        {Bounds(9, -1), Bounds(4, -1), Bounds(1, -1), Bounds(18, -1), Bounds(0, -1),
         wifiLBSContentBounds(content)}
  BY DEF contentBounds
<1>2. \A m \in {0, 1, 4, 9, 18} : Bounds(m, -1) \in [min : Nat, exact : Int]
  BY DEF Bounds
<1> QED BY <1>1, <1>2, WifiBounds

LEMMA TrailerFirst ==
  ASSUME NEW content \in Seq(Byte), NEW min \in Nat
  PROVE  \/ /\ findTrailer(content, min) = -1
            /\ \A i \in Nat : i >= min => ~ TrailerAt(content, i)
         \/ \E i \in Nat : /\ i >= min /\ TrailerAt(content, i) /\ findTrailer(content, min) = i + 2
                           /\ \A j \in Nat : j >= min /\ j < i => ~ TrailerAt(content, j)
<1> DEFINE E == {i \in min .. Len(content) : TrailerAt(content, i)}
<1>1. findTrailer(content, min) = IF E = {} THEN -1 ELSE Min(E) + 2
  BY DEF findTrailer
<1>2. E \in SUBSET Nat
  OBVIOUS
<1>3. \A i \in Nat : i >= min /\ TrailerAt(content, i) => i \in E
  BY DEF TrailerAt
<1>4. \A i \in E : i \in Nat /\ i >= min /\ TrailerAt(content, i)
  OBVIOUS
<1> HIDE DEF E
<1>5. CASE E = {}
  BY <1>1, <1>3, <1>5
<1>6. CASE E # {}
  <2>1. Min(E) \in E /\ \A y \in E : Min(E) <= y
    BY <1>2, <1>6, MinNat
  <2>2. PICK i \in E : i = Min(E)
    BY <2>1
  <2>3. i \in Nat /\ i >= min /\ TrailerAt(content, i) /\ findTrailer(content, min) = i + 2
    BY <1>1, <1>4, <1>6, <2>2
  <2>4. \A j \in Nat : j >= min /\ j < i => ~ TrailerAt(content, j)
    BY <1>3, <2>1, <2>2, <2>3
  <2> QED BY <2>3, <2>4
<1> QED BY <1>5, <1>6

(* What ExtractFrame takes from the buffer: at least one byte and at most  *)
(* all of it, so drainFrames neither loops nor slices out of range; and a  *)
(* frame starts with a header and ends with a trailer.                     *)
THEOREM ExtractTakes ==
  ASSUME NEW b \in Seq(Byte)
  PROVE  LET r == ExtractFrame(b) IN
         /\ r.kind \in {"incomplete", "bad", "frame"}
         /\ r.kind # "incomplete" => r.n \in 1 .. Len(b)
         /\ r.kind = "frame" => /\ b[1] = b[2] /\ b[1] \in {120, 121}
                                /\ r.n >= 6 /\ b[r.n - 1] = CR /\ b[r.n] = LF
<1> DEFINE H == Headers(b)
<1>1. H \in SUBSET Nat /\ H \subseteq 0 .. Len(b) - 2 /\ Len(b) \in Nat
  BY DEF Headers
<1>2. H # {} => Min(H) \in H
  <2> HIDE DEF H
  <2> QED BY <1>1, MinNat
<1>3. CASE Len(b) < 5
  BY <1>3 DEF ExtractFrame, Incomplete
<1>4. CASE Len(b) >= 5 /\ H = {}
  BY <1>1, <1>4 DEF ExtractFrame, BadHeader
<1>5. CASE Len(b) >= 5 /\ H # {} /\ Min(H) > 0
  BY <1>1, <1>2, <1>5 DEF ExtractFrame, BadHeader
<1>6. CASE Len(b) >= 5 /\ H # {} /\ Min(H) = 0 /\ b[1] = 121 /\ Len(b) < 6
  BY <1>6 DEF ExtractFrame, Incomplete
<1>7. CASE Len(b) >= 5 /\ H # {} /\ Min(H) = 0 /\ ~ (b[1] = 121 /\ Len(b) < 6)
  <2> DEFINE prefix == PrefixLen(b)
             content == From(b, prefix)
             bounds == contentBounds(b[prefix], content)
             min == IF bounds.exact >= 0 THEN bounds.exact ELSE bounds.min
             relEnd == findTrailer(content, min)
  <2>1. ExtractFrame(b) = FrameAtFront(b)
    BY <1>7 DEF ExtractFrame
  <2>2. prefix \in {4, 5} /\ prefix \in 0 .. Len(b) /\ b[prefix] \in Byte
    BY <1>1, <1>7 DEF PrefixLen
  <2>3. content \in Seq(Byte) /\ Len(content) = Len(b) - prefix
    BY <2>2, FromType
  <2>4. bounds \in [min : Nat, exact : Int]
    BY <2>2, <2>3, BoundsType
  <2>5. min \in Nat
    BY <2>4
  <2>6. FrameAtFront(b) = IF Len(content) < min + 2 \/ relEnd < 0 THEN Incomplete ELSE FrameOf(prefix + relEnd)
    BY DEF FrameAtFront
  <2>7. CASE Len(content) < min + 2 \/ relEnd < 0
    BY <2>1, <2>6, <2>7 DEF Incomplete
  <2>8. CASE ~ (Len(content) < min + 2 \/ relEnd < 0)
    <3> HIDE DEF prefix, content, bounds, min, relEnd
    <3>1. PICK i \in Nat : i >= min /\ TrailerAt(content, i) /\ relEnd = i + 2
      BY <2>3, <2>5, <2>8, TrailerFirst DEF relEnd
    <3>2. ExtractFrame(b) = FrameOf(prefix + i + 2)
      BY <2>1, <2>2, <2>6, <2>8, <3>1
    <3>3. i + 2 <= Len(content) /\ content[i + 1] = CR /\ content[i + 2] = LF
      BY <3>1 DEF TrailerAt
    <3>4. content[i + 1] = b[prefix + i + 1] /\ content[i + 2] = b[prefix + i + 2]
      BY <1>1, <2>2, <2>3, <3>1, <3>3 DEF content, From
    <3>5. b[1] = b[2] /\ b[1] \in {120, 121}
      BY <1>2, <1>7 DEF Headers
    <3> QED BY <1>1, <2>2, <2>3, <3>1, <3>2, <3>3, <3>4, <3>5 DEF FrameOf
  <2> QED BY <2>7, <2>8
<1> QED BY <1>1, <1>2, <1>3, <1>4, <1>5, <1>6, <1>7

-----------------------------------------------------------------------------
(* Where a frame ends.                                                     *)

\* A buffer that agrees with a frame as far as both go.
Agree(b, f) == \A k \in Nat \ {0} : k <= Len(b) /\ k <= Len(f) => b[k] = f[k]

(* A frame that ExtractFrame finds whatever follows it: it waits for the   *)
(* rest of it as long as some is missing, and then takes exactly it.       *)
Delimited(f) ==
  /\ Len(f) >= 6
  /\ \A b \in Seq(Byte) : Agree(b, f) =>
       /\ Len(b) < Len(f) => ExtractFrame(b) = Incomplete
       /\ Len(b) >= Len(f) => ExtractFrame(b) = FrameOf(Len(f))

LEMMA DelimitedWhole ==
  ASSUME NEW f \in Seq(Byte), Delimited(f)
  PROVE  /\ Len(f) >= 6 /\ ExtractFrame(f) = FrameOf(Len(f))
         /\ f[1] = f[2] /\ f[1] \in {120, 121} /\ f[Len(f)] = LF
<1>1. Agree(f, f) /\ Len(f) >= Len(f)
  BY DEF Agree
<1>2. Len(f) >= 6 /\ ExtractFrame(f) = FrameOf(Len(f))
  BY <1>1 DEF Delimited
<1>3. ExtractFrame(f).kind = "frame" /\ ExtractFrame(f).n = Len(f)
  BY <1>2 DEF FrameOf
<1> QED BY <1>2, <1>3, ExtractTakes

(* Fixed layouts: the type alone tells how much content comes before the   *)
(* trailer. Such a frame is delimited if it is found when it is alone in   *)
(* the buffer.                                                             *)
Alone(f) ==
  /\ ExtractFrame(f) = FrameOf(Len(f))
  /\ f[PrefixLen(f)] \notin MsgWifiLBS

\* A trailer at offset i of the content of a frame with prefix p.
Ends(b, p, i) == p + i + 2 <= Len(b) /\ b[p + i + 1] = CR /\ b[p + i + 2] = LF

\* The trailer is searched from the exact length on, if there is one.
Least(proto, content) ==
  LET bounds == contentBounds(proto, content) IN IF bounds.exact >= 0 THEN bounds.exact ELSE bounds.min

\* A buffer that starts with a header, with prefix p and at least m bytes of content;
\* and one that starts with the header of a fixed layout.
Begun(b, p, m) ==
  /\ Len(b) > p /\ b[1] = b[2] /\ b[1] \in {120, 121} /\ p = PrefixLen(b)
  /\ m = Least(b[p], From(b, p))

Fixed(b, p, m) ==
  /\ Len(b) > p /\ b[1] = b[2] /\ b[1] \in {120, 121} /\ p = PrefixLen(b)
  /\ b[p] \in Byte \ MsgWifiLBS /\ m = contentBounds(b[p], <<>>).min

\* Outside the Wi-Fi/LBS types the bounds depend on the type only.
LEMMA FixedBounds ==
  ASSUME NEW proto \in Byte \ MsgWifiLBS, NEW content
  PROVE  /\ contentBounds(proto, content) = Bounds(contentBounds(proto, <<>>).min, -1)
         /\ contentBounds(proto, <<>>).min \in {0, 1, 4, 9, 18}
BY DEF contentBounds, Bounds

LEMMA HeaderFirst ==
  ASSUME NEW b \in Seq(Byte), Len(b) >= 5, b[1] = b[2], b[1] \in {120, 121}
  PROVE  Headers(b) # {} /\ Min(Headers(b)) = 0
<1> DEFINE H == Headers(b)
<1>1. H \in SUBSET Nat /\ 0 \in H
  BY DEF Headers
<1> HIDE DEF H
<1>2. Min(H) \in Nat /\ Min(H) <= 0
  BY <1>1, MinNat
<1>3. Min(H) = 0
  BY <1>2
<1> QED BY <1>1, <1>3 DEF H

LEMMA ContentTrailer ==
  ASSUME NEW b \in Seq(Byte), NEW p \in Nat, p <= Len(b), NEW i \in Nat
  PROVE  TrailerAt(From(b, p), i) <=> Ends(b, p, i)
<1> DEFINE content == From(b, p)
<1>1. content \in Seq(Byte) /\ Len(content) = Len(b) - p /\ Len(b) \in Nat
  BY FromType
<1>2. i + 2 <= Len(content) <=> p + i + 2 <= Len(b)
  <2> HIDE DEF content
  <2> QED BY <1>1
<1>3. ASSUME i + 2 <= Len(content) PROVE content[i + 1] = b[p + i + 1] /\ content[i + 2] = b[p + i + 2]
  BY <1>1, <1>3 DEF From
<1> QED BY <1>2, <1>3 DEF TrailerAt, Ends

LEMMA FirstEnd ==
  ASSUME NEW b \in Seq(Byte), NEW p \in Nat, p <= Len(b), NEW m \in Nat
  PROVE  \/ findTrailer(From(b, p), m) = -1 /\ \A i \in Nat : i >= m => ~ Ends(b, p, i)
         \/ \E i \in Nat : /\ i >= m /\ Ends(b, p, i) /\ findTrailer(From(b, p), m) = i + 2
                           /\ \A j \in Nat : j >= m /\ j < i => ~ Ends(b, p, j)
<1> DEFINE content == From(b, p)
<1>1. content \in Seq(Byte)
  BY FromType
<1>2. \A i \in Nat : TrailerAt(content, i) <=> Ends(b, p, i)
  BY ContentTrailer
<1> HIDE DEF content
<1>3. \/ findTrailer(content, m) = -1 /\ \A i \in Nat : i >= m => ~ TrailerAt(content, i)
      \/ \E i \in Nat : /\ i >= m /\ TrailerAt(content, i) /\ findTrailer(content, m) = i + 2
                        /\ \A j \in Nat : j >= m /\ j < i => ~ TrailerAt(content, j)
  BY <1>1, TrailerFirst
<1> QED BY <1>2, <1>3, Zenon DEF content

\* ExtractFrame on a buffer that starts with a header.
LEMMA BegunExtract ==
  ASSUME NEW b \in Seq(Byte), NEW p \in {4, 5}, NEW m \in Nat, Begun(b, p, m)
  PROVE  \/ /\ ExtractFrame(b) = Incomplete
            /\ \A i \in Nat : i >= m => ~ Ends(b, p, i)
         \/ \E i \in Nat : /\ i >= m /\ Ends(b, p, i) /\ ExtractFrame(b) = FrameOf(p + i + 2)
                           /\ \A j \in Nat : j >= m /\ j < i => ~ Ends(b, p, j)
<1> DEFINE content == From(b, p)
           relEnd == findTrailer(content, m)
<1>1. p \in 0 .. Len(b) /\ Len(b) > p /\ Len(b) >= 5 /\ Len(b) \in Nat
  BY DEF Begun
<1>2. ExtractFrame(b) = FrameAtFront(b)
  <2>1. ~ (b[1] = 121 /\ Len(b) < 6)
    BY <1>1 DEF Begun, PrefixLen
  <2>2. Headers(b) # {} /\ Min(Headers(b)) = 0
    BY <1>1, HeaderFirst DEF Begun
  <2> QED BY <1>1, <2>1, <2>2 DEF ExtractFrame
<1>3. content \in Seq(Byte) /\ Len(content) = Len(b) - p
  BY <1>1, FromType
<1>4. FrameAtFront(b) = IF Len(content) < m + 2 \/ relEnd < 0 THEN Incomplete ELSE FrameOf(p + relEnd)
  <2>1. m = Least(b[p], content) /\ p = PrefixLen(b)
    BY DEF Begun
  <2> QED BY <2>1 DEF FrameAtFront, Least
<1>5. \/ relEnd = -1 /\ \A i \in Nat : i >= m => ~ Ends(b, p, i)
      \/ \E i \in Nat : /\ i >= m /\ Ends(b, p, i) /\ relEnd = i + 2
                        /\ \A j \in Nat : j >= m /\ j < i => ~ Ends(b, p, j)
  BY <1>1, FirstEnd
<1> HIDE DEF content, relEnd
<1>6. CASE relEnd = -1
  BY <1>2, <1>4, <1>5, <1>6
<1>7. ASSUME NEW i \in Nat, i >= m, Ends(b, p, i), relEnd = i + 2
      PROVE  ExtractFrame(b) = FrameOf(p + i + 2)
  <2>1. ~ (Len(content) < m + 2 \/ relEnd < 0)
    BY <1>1, <1>3, <1>7 DEF Ends
  <2>2. ExtractFrame(b) = FrameOf(p + (i + 2))
    BY <1>2, <1>4, <1>7, <2>1
  <2>3. p + (i + 2) = p + i + 2
    OBVIOUS
  <2> QED BY <2>2, <2>3
<1> QED BY <1>5, <1>6, <1>7

LEMMA FixedBegun ==
  ASSUME NEW b, NEW p, NEW m, Fixed(b, p, m)
  PROVE  Begun(b, p, m)
<1>1. contentBounds(b[p], From(b, p)) = Bounds(m, -1)
  BY FixedBounds DEF Fixed
<1>2. contentBounds(b[p], From(b, p)).exact = -1 /\ contentBounds(b[p], From(b, p)).min = m
  BY <1>1 DEF Bounds
<1> QED BY <1>2 DEF Fixed, Begun, Least

\* Such a frame is of a fixed layout and ends with its first trailer.
LEMMA AloneShape ==
  ASSUME NEW f \in Seq(Byte), Alone(f)
  PROVE  \E p \in {4, 5}, m \in Nat :
           /\ Fixed(f, p, m) /\ Len(f) >= p + m + 2 /\ Ends(f, p, Len(f) - p - 2)
           /\ \A j \in Nat : j >= m /\ j < Len(f) - p - 2 => ~ Ends(f, p, j)
<1> DEFINE p == PrefixLen(f)
           m == contentBounds(f[p], <<>>).min
           H == Headers(f)
<1>1. ExtractFrame(f) = FrameOf(Len(f)) /\ Len(f) \in Nat /\ p \in {4, 5}
  BY DEF Alone, PrefixLen
<1>2. /\ Len(f) >= 5 /\ H # {} /\ ~ (Min(H) > 0) /\ ~ (f[1] = 121 /\ Len(f) < 6)
  BY <1>1 DEF ExtractFrame, FrameOf, Incomplete, BadHeader
<1>3. 0 \in H
  <2>1. H \in SUBSET Nat
    BY DEF Headers
  <2> HIDE DEF H
  <2>2. Min(H) \in H /\ Min(H) \in Nat
    BY <1>2, <2>1, MinNat
  <2>3. Min(H) = 0
    BY <1>2, <2>2
  <2> QED BY <2>2, <2>3
<1>4. f[1] = f[2] /\ f[1] \in {120, 121}
  BY <1>3 DEF Headers
<1>5. Len(f) > p /\ f[p] \in Byte \ MsgWifiLBS
  BY <1>1, <1>2, <1>4 DEF PrefixLen, Alone
<1>6. Fixed(f, p, m) /\ m \in Nat
  BY <1>4, <1>5, FixedBounds DEF Fixed
<1> HIDE DEF p, m, H
<1>7. Incomplete # FrameOf(Len(f)) /\ \A i \in Nat : FrameOf(p + i + 2) = FrameOf(Len(f)) => i = Len(f) - p - 2
  BY <1>1 DEF Incomplete, FrameOf
<1>8. PICK i \in Nat : /\ i >= m /\ Ends(f, p, i) /\ ExtractFrame(f) = FrameOf(p + i + 2)
                       /\ \A j \in Nat : j >= m /\ j < i => ~ Ends(f, p, j)
  BY <1>1, <1>6, <1>7, FixedBegun, BegunExtract
<1>9. i = Len(f) - p - 2 /\ Len(f) >= p + m + 2
  BY <1>1, <1>6, <1>7, <1>8 DEF Ends
<1> QED BY <1>1, <1>6, <1>8, <1>9

LEMMA AgreeAt ==
  ASSUME NEW f \in Seq(Byte), NEW b \in Seq(Byte), Agree(b, f),
         NEW k \in Nat, k >= 1, k <= Len(b), k <= Len(f)
  PROVE  b[k] = f[k]
BY DEF Agree

LEMMA AloneInBuffer ==
  ASSUME NEW f \in Seq(Byte), Alone(f), NEW b \in Seq(Byte), Agree(b, f)
  PROVE  /\ Len(f) >= 6
         /\ Len(b) < Len(f) => ExtractFrame(b) = Incomplete
         /\ Len(b) >= Len(f) => ExtractFrame(b) = FrameOf(Len(f))
<1>1. PICK p \in {4, 5}, m \in Nat :
           /\ Fixed(f, p, m) /\ Len(f) >= p + m + 2 /\ Ends(f, p, Len(f) - p - 2)
           /\ \A j \in Nat : j >= m /\ j < Len(f) - p - 2 => ~ Ends(f, p, j)
  BY AloneShape
<1>2. Len(f) >= 6 /\ Len(f) \in Nat /\ Len(b) \in Nat
  BY <1>1
<1>3. CASE Len(b) < 5
  BY <1>2, <1>3 DEF ExtractFrame
<1>4. CASE Len(b) >= 5 /\ Len(b) <= p
  <2>0. p \in Nat /\ p <= 5
    OBVIOUS
  <2>1. p = 5 /\ Len(b) = 5
    <3> DEFINE len == Len(b)
    <3>1. len \in Nat /\ len >= 5 /\ len <= p
      BY <1>2, <1>4
    <3> HIDE DEF len
    <3>2. p = 5 /\ len = 5
      BY <2>0, <3>1
    <3> QED BY <3>2 DEF len
  <2>2. b[1] = f[1] /\ b[2] = f[2]
    <3>1. 1 <= Len(b) /\ 2 <= Len(b) /\ 1 <= Len(f) /\ 2 <= Len(f)
      BY <1>2, <2>1
    <3> QED BY <3>1, AgreeAt
  <2>3. f[1] = f[2] /\ f[1] = 121
    BY <1>1, <2>1 DEF Fixed, PrefixLen
  <2>4. Headers(b) # {} /\ Min(Headers(b)) = 0
    <3>1. Len(b) >= 5 /\ b[1] = b[2] /\ b[1] \in {120, 121}
      BY <2>1, <2>2, <2>3
    <3> QED BY <3>1, HeaderFirst
  <2>5. ExtractFrame(b) = Incomplete
    BY <2>1, <2>2, <2>3, <2>4 DEF ExtractFrame
  <2> QED BY <1>2, <2>1, <2>5
<1>5. CASE Len(b) > p
  <2>1. Fixed(b, p, m)
    <3>1. b[1] = f[1] /\ b[2] = f[2] /\ b[p] = f[p]
      <4>1. 1 <= Len(b) /\ 2 <= Len(b) /\ p <= Len(b) /\ p <= Len(f)
        BY <1>1, <1>2, <1>5
      <4> QED BY <1>2, <4>1, AgreeAt
    <3> QED BY <1>1, <1>5, <3>1 DEF Fixed, PrefixLen
  <2>2. ASSUME NEW i \in Nat, p + i + 2 <= Len(f), p + i + 2 <= Len(b)
        PROVE  Ends(b, p, i) <=> Ends(f, p, i)
    <3>1. p + i + 1 \in Nat /\ p + i + 2 \in Nat /\ p + i + 1 >= 1 /\ p + i + 2 >= 1
          /\ p + i + 1 <= Len(f) /\ p + i + 1 <= Len(b)
      BY <1>2, <2>2
    <3>2. b[p + i + 1] = f[p + i + 1] /\ b[p + i + 2] = f[p + i + 2]
      BY <2>2, <3>1, AgreeAt
    <3> QED BY <2>2, <3>2 DEF Ends
  <2>3. ASSUME Len(b) >= Len(f) PROVE Ends(b, p, Len(f) - p - 2)
    <3>1. Len(f) - p - 2 \in Nat /\ p + (Len(f) - p - 2) + 2 <= Len(f) /\ p + (Len(f) - p - 2) + 2 <= Len(b)
      BY <1>1, <1>2, <2>3
    <3> QED BY <1>1, <2>2, <3>1
  <2>4. \A i \in Nat : Ends(b, p, i) => p + i + 2 <= Len(b)
    BY DEF Ends
  <2>5. \/ /\ ExtractFrame(b) = Incomplete
            /\ \A i \in Nat : i >= m => ~ Ends(b, p, i)
        \/ \E i \in Nat : /\ i >= m /\ Ends(b, p, i) /\ ExtractFrame(b) = FrameOf(p + i + 2)
                           /\ \A j \in Nat : j >= m /\ j < i => ~ Ends(b, p, j)
    BY <2>1, FixedBegun, BegunExtract
  <2>6. CASE Len(b) < Len(f)
    <3>1. \A i \in Nat : i >= m => ~ Ends(b, p, i)
      BY <1>1, <1>2, <2>2, <2>4, <2>6
    <3> QED BY <1>2, <2>5, <2>6, <3>1
  <2>7. CASE Len(b) >= Len(f)
    <3> DEFINE last == Len(f) - p - 2
    <3>1. last \in Nat /\ last >= m /\ Ends(b, p, last) /\ p + last + 2 = Len(f)
      BY <1>1, <1>2, <2>3, <2>7
    <3>2. ASSUME NEW j \in Nat, j >= m, j < last PROVE ~ Ends(b, p, j)
      <4>1. ~ Ends(f, p, j)
        BY <1>1, <3>2
      <4>2. p + j + 2 <= Len(f) /\ p + j + 2 <= Len(b)
        BY <1>2, <2>7, <3>2
      <4> QED BY <2>2, <4>1, <4>2
    <3> HIDE DEF last
    <3>3. PICK i \in Nat : /\ i >= m /\ Ends(b, p, i) /\ ExtractFrame(b) = FrameOf(p + i + 2)
                           /\ \A j \in Nat : j >= m /\ j < i => ~ Ends(b, p, j)
      BY <2>5, <3>1
    <3>4. i = last
      BY <3>1, <3>2, <3>3
    <3> QED BY <1>2, <2>7, <3>1, <3>3, <3>4
  <2> QED BY <1>2, <2>6, <2>7
<1> QED BY <1>2, <1>3, <1>4, <1>5

LEMMA AloneDelimited ==
  ASSUME NEW f \in Seq(Byte), Alone(f)
  PROVE  Delimited(f)
<1>1. Len(f) >= 6
  <2>1. <<>> \in Seq(Byte) /\ Agree(<<>>, f)
    BY DEF Agree
  <2> QED BY <2>1, AloneInBuffer
<1> QED BY <1>1, AloneInBuffer DEF Delimited

LEMMA WithTrailer ==
  ASSUME NEW g \in Seq(Byte)
  PROVE  (g \o <<CR, LF>>)[Len(g) + 1] = CR /\ (g \o <<CR, LF>>)[Len(g) + 2] = LF
BY DEF CR, LF, Byte

(* The frames of the gateway's own layouts are delimited: a login (9 bytes *)
(* of content), a status (4), a position (18), a time or settings request  *)
(* (none), whatever the bytes, CR LF and header bytes among them included. *)
THEOREM FixedLayoutsDelimited ==
  ASSUME NEW proto \in Byte \ MsgWifiLBS, NEW len \in Byte, NEW content \in Seq(Byte),
         Len(content) = contentBounds(proto, <<>>).min
  PROVE  Delimited(<<120, 120, len, proto>> \o content \o <<CR, LF>>)
<1> DEFINE head == <<120, 120, len, proto>>
           f == head \o content \o <<CR, LF>>
           m == Len(content)
<1>1. head \in Seq(Byte) /\ <<CR, LF>> \in Seq(Byte) /\ Len(head) = 4 /\ m \in Nat
  BY DEF Byte, CR, LF
<1>2. f \in Seq(Byte) /\ Len(f) = m + 6
  BY <1>1
<1>3. f[1] = 120 /\ f[2] = 120 /\ f[4] = proto
  BY <1>1
<1>4. f[m + 5] = CR /\ f[m + 6] = LF
  <2>1. head \o content \in Seq(Byte) /\ Len(head \o content) = m + 4
    BY <1>1
  <2>2. Len(head \o content) + 1 = m + 5 /\ Len(head \o content) + 2 = m + 6
    BY <1>1, <2>1
  <2> DEFINE g == head \o content
  <2>3. g \in Seq(Byte) /\ Len(g) + 1 = m + 5 /\ Len(g) + 2 = m + 6
    BY <2>1, <2>2
  <2> HIDE DEF g, m
  <2>4. (g \o <<CR, LF>>)[Len(g) + 1] = CR /\ (g \o <<CR, LF>>)[Len(g) + 2] = LF
    BY <2>3, WithTrailer, Zenon
  <2>5. (g \o <<CR, LF>>)[m + 5] = CR /\ (g \o <<CR, LF>>)[m + 6] = LF
    BY <2>3, <2>4, Zenon
  <2> QED BY <2>5, Zenon DEF g
<1> HIDE DEF f
<1>5. Fixed(f, 4, m)
  BY <1>1, <1>2, <1>3 DEF Fixed, PrefixLen
<1> HIDE DEF m
<1>6. Ends(f, 4, m) /\ \A i \in Nat : i >= m /\ Ends(f, 4, i) => i = m
  <2>1. 4 + m + 2 = m + 6 /\ 4 + m + 1 = m + 5
    BY <1>1
  <2>2. Ends(f, 4, m)
    BY <1>1, <1>2, <1>4, <2>1 DEF Ends
  <2>3. ASSUME NEW i \in Nat, i >= m, 4 + i + 2 <= Len(f) PROVE i = m
    BY <1>1, <1>2, <2>3
  <2> QED BY <2>2, <2>3 DEF Ends
<1>7. \E i \in Nat : i >= m /\ Ends(f, 4, i) /\ ExtractFrame(f) = FrameOf(4 + i + 2)
  <2>1. m >= m
    BY <1>1
  <2> QED BY <1>1, <1>2, <1>5, <1>6, <2>1, FixedBegun, BegunExtract
<1>8. ExtractFrame(f) = FrameOf(4 + m + 2) /\ 4 + m + 2 = Len(f)
  BY <1>1, <1>2, <1>6, <1>7
<1>9. f[PrefixLen(f)] = proto
  BY <1>3 DEF PrefixLen
<1>10. Delimited(f)
  BY <1>2, <1>8, <1>9, AloneDelimited DEF Alone
<1> QED BY <1>10 DEF f

-----------------------------------------------------------------------------
(* Reports with cells. findLBSHeader guesses where the cells begin; the    *)
(* guess is right if nothing before them looks like their header.          *)

\* A plausible count and MCC at offset i of what follows the date.
LooksLikeCells(rest, i) ==
  /\ rest[i + 1] \in 1 .. 6
  /\ rest[i + 2] * 256 + rest[i + 3] \in 1 .. 999

LEMMA Looks ==
  ASSUME NEW rest, NEW i, rest[i + 1] \in 1 .. 6, rest[i + 2] * 256 + rest[i + 3] \in 1 .. 999
  PROVE  LooksLikeCells(rest, i)
BY DEF LooksLikeCells

LEMMA HeaderFound ==
  ASSUME NEW rest \in Seq(Byte), NEW i \in Nat, NEW n \in 1 .. 6, rest[i + 1] = n,
         i + 4 + 6 * n <= Len(rest), LooksLikeCells(rest, i),
         \A j \in Nat : j < i => ~ LooksLikeCells(rest, j)
  PROVE  findLBSHeader(rest) = i
<1> DEFINE Plausible == {j \in 0 .. Len(rest) - 4 :
        /\ rest[j + 1] \in 1 .. 6
        /\ rest[j + 2] * 256 + rest[j + 3] \in 1 .. 999
        /\ Len(rest) - (j + 4) >= rest[j + 1] * 6}
<1>1. findLBSHeader(rest) = IF Plausible = {} THEN -1 ELSE Min(Plausible)
  BY DEF findLBSHeader
<1>2. Len(rest) \in Nat
  OBVIOUS
<1>3. i \in Plausible
  <2>1. i \in 0 .. Len(rest) - 4 /\ Len(rest) - (i + 4) >= rest[i + 1] * 6
    BY <1>2
  <2> QED BY <2>1, Zenon DEF LooksLikeCells
<1>4. Plausible \in SUBSET Nat
  <2>1. 0 .. Len(rest) - 4 \subseteq Nat
    BY <1>2
  <2> QED BY <2>1, Zenon
<1>5. \A j \in Plausible : j \in Nat /\ LooksLikeCells(rest, j)
  <2> SUFFICES ASSUME NEW j \in Plausible PROVE j \in Nat /\ LooksLikeCells(rest, j)
    OBVIOUS
  <2>1. rest[j + 1] \in 1 .. 6 /\ rest[j + 2] * 256 + rest[j + 3] \in 1 .. 999
    BY Zenon
  <2>2. j \in Nat
    BY <1>4, Zenon
  <2> HIDE DEF Plausible
  <2>3. LooksLikeCells(rest, j)
    BY <2>1, Looks, Zenon
  <2> QED BY <2>2, <2>3
<1> HIDE DEF Plausible
<1>6. Min(Plausible) \in Plausible /\ Min(Plausible) <= i
  BY <1>3, <1>4, MinNat
<1>7. Min(Plausible) \in Nat /\ ~ (Min(Plausible) < i)
  BY <1>5, <1>6
<1>8. Min(Plausible) = i
  BY <1>6, <1>7
<1> QED BY <1>1, <1>3, <1>8

\* All the cells are in the buffer: their length is the content's.
LEMMA CellBounds ==
  ASSUME NEW content \in Seq(Byte), NEW i \in Nat, NEW n \in 1 .. 6,
         NEW rest, rest = From(content, 6), rest[i + 1] = n, Len(content) >= 10 + i + 7 * n,
         LooksLikeCells(rest, i), \A j \in Nat : j < i => ~ LooksLikeCells(rest, j)
  PROVE  wifiLBSContentBounds(content) = Bounds(6, 10 + i + 7 * n)
<1> DEFINE lbs == From(rest, i)
<1>1. Len(content) \in Nat /\ 6 \in 0 .. Len(content)
  OBVIOUS
<1>2. rest \in Seq(Byte) /\ Len(rest) = Len(content) - 6
  BY <1>1, FromType
<1>3. Len(rest) \in Nat /\ Len(rest) >= 4 + i + 7 * n /\ i + 4 + 6 * n <= Len(rest) /\ i \in 0 .. Len(rest)
  BY <1>1, <1>2
<1>4. findLBSHeader(rest) = i
  BY <1>2, <1>3, HeaderFound
<1>5. lbs \in Seq(Byte) /\ Len(lbs) = Len(rest) - i
  BY <1>2, <1>3, FromType
<1>6. lbs[1] = n
  <2>1. i <= Len(rest) /\ 1 <= Len(rest) - i
    BY <1>3
  <2>2. lbs[1] = rest[i + 1]
    BY <1>2, <2>1, FromAt
  <2> QED BY <2>2
<1>7. Len(lbs) >= 4 + 7 * n /\ Len(lbs) \in Nat
  BY <1>3, <1>5
<1> DEFINE cellSize == IF 4 + lbs[1] * 7 > Len(lbs) /\ 4 + lbs[1] * 6 <= Len(lbs) THEN 6 ELSE 7
           need == 4 + lbs[1] * cellSize
<1>8. wifiLBSContentBounds(content) =
        IF Len(content) < 6 \/ i < 0 THEN Bounds(6, -1)
        ELSE IF Len(lbs) < need THEN Bounds(6 + i + need, -1)
        ELSE Bounds(6, 6 + i + need)
  BY <1>4 DEF wifiLBSContentBounds
<1> HIDE DEF lbs
<1>9. need = 4 + 7 * n
  BY <1>6, <1>7
<1> HIDE DEF need
<1>10. ~ (Len(content) < 6 \/ i < 0) /\ ~ (Len(lbs) < need) /\ 6 + i + need = 10 + i + 7 * n
  BY <1>1, <1>7, <1>9
<1> QED BY <1>8, <1>10

(* The content of a report whose cells, of 7 bytes, begin at offset i of   *)
(* what follows the date: no earlier bytes are plausible as their header,  *)
(* and no CR LF comes after the date.                                      *)
CellReport(content, i) ==
  /\ Len(content) = 10 + i + 7 * From(content, 6)[i + 1]
  /\ LooksLikeCells(From(content, 6), i)
  /\ \A j \in Nat : j < i => ~ LooksLikeCells(From(content, 6), j)
  /\ \A j \in Nat : j >= 6 => ~ TrailerAt(content, j)

LEMMA WifiContent ==
  ASSUME NEW proto \in MsgWifiLBS, NEW content \in Seq(Byte)
  PROVE  /\ contentBounds(proto, content) = wifiLBSContentBounds(content)
         /\ Least(proto, content) \in Nat /\ Least(proto, content) >= 6
<1>1. contentBounds(proto, content) = wifiLBSContentBounds(content)
  BY DEF contentBounds, MsgWifiLBS, MsgGPS, MsgLogin, MsgStatus, MsgICCID
<1> DEFINE bounds == wifiLBSContentBounds(content)
<1>2. bounds \in [min : Nat, exact : Int] /\ bounds.min >= 6 /\ (bounds.exact \in Nat => bounds.exact >= 6)
  BY WifiBounds
<1>3. Least(proto, content) = IF bounds.exact >= 0 THEN bounds.exact ELSE bounds.min
  BY <1>1 DEF Least
<1> HIDE DEF bounds
<1>4. Least(proto, content) \in Nat /\ Least(proto, content) >= 6
  BY <1>2, <1>3
<1> QED BY <1>1, <1>4

LEMMA ReportLength ==
  ASSUME NEW content \in Seq(Byte), NEW i \in Nat, CellReport(content, i), NEW n, n = From(content, 6)[i + 1]
  PROVE  n \in 1 .. 6 /\ Len(content) \in Nat /\ Len(content) = 10 + i + 7 * n /\ Len(content) >= 17
<1>1. n \in 1 .. 6 /\ Len(content) = 10 + i + 7 * n
  BY DEF CellReport, LooksLikeCells
<1> QED BY <1>1

\* f is a report with that content.
Carries(f, content) ==
  /\ Len(f) = Len(content) + 6 /\ f[1] = 120 /\ f[2] = 120 /\ f[4] \in MsgWifiLBS
  /\ \A k \in Nat : 1 <= k /\ k <= Len(content) => f[4 + k] = content[k]
  /\ f[Len(content) + 5] = CR /\ f[Len(content) + 6] = LF

\* The only trailer after the date is the last.
LEMMA OneTrailer ==
  ASSUME NEW f \in Seq(Byte), NEW content \in Seq(Byte), NEW i \in Nat,
         Carries(f, content), CellReport(content, i), NEW j \in Nat, j >= 6
  PROVE  Ends(f, 4, j) <=> j = Len(content)
<1>1. Len(content) \in Nat /\ Len(f) = Len(content) + 6 /\ f[Len(content) + 5] = CR /\ f[Len(content) + 6] = LF
  BY DEF Carries
<1>2. CASE j = Len(content)
  <2>1. 4 + j + 2 <= Len(f) /\ 4 + j + 1 = Len(content) + 5 /\ 4 + j + 2 = Len(content) + 6
    BY <1>1, <1>2
  <2>2. Ends(f, 4, j)
    BY <1>1, <2>1 DEF Ends
  <2> QED BY <1>2, <2>2
<1>3. CASE j > Len(content)
  <2>1. ~ (4 + j + 2 <= Len(f))
    BY <1>1, <1>3
  <2> QED BY <1>1, <1>3, <2>1 DEF Ends
<1>4. CASE j + 1 = Len(content)
  <2>1. 4 + j + 2 = Len(content) + 5
    BY <1>1, <1>4
  <2>2. f[4 + j + 2] # LF
    BY <1>1, <2>1 DEF CR, LF
  <2> QED BY <1>4, <2>2 DEF Ends
<1>5. CASE j + 2 <= Len(content)
  <2>1. ~ TrailerAt(content, j)
    BY DEF CellReport
  <2>2. f[4 + (j + 1)] = content[j + 1] /\ f[4 + (j + 2)] = content[j + 2]
    <3>1. j + 1 \in Nat /\ j + 2 \in Nat /\ 1 <= j + 1 /\ 1 <= j + 2 /\ j + 1 <= Len(content)
      BY <1>1, <1>5
    <3> QED BY <1>5, <3>1 DEF Carries
  <2>3. 4 + (j + 1) = 4 + j + 1 /\ 4 + (j + 2) = 4 + j + 2
    OBVIOUS
  <2>4. ~ Ends(f, 4, j)
    BY <1>5, <2>1, <2>2, <2>3 DEF Ends, TrailerAt
  <2> QED BY <1>1, <1>5, <2>4
<1> QED BY <1>1, <1>2, <1>3, <1>4, <1>5

\* A buffer with the whole report, and perhaps more.
LEMMA CellLeast ==
  ASSUME NEW f \in Seq(Byte), NEW content \in Seq(Byte), NEW i \in Nat,
         Carries(f, content), CellReport(content, i),
         NEW b \in Seq(Byte), Agree(b, f), Len(b) >= Len(f)
  PROVE  Least(b[4], From(b, 4)) = Len(content)
<1> DEFINE c == From(b, 4)
           rest == From(c, 6)
           n == From(content, 6)[i + 1]
<1>1. /\ Len(content) \in Nat /\ Len(b) \in Nat /\ Len(b) >= Len(content) + 6 /\ n \in 1 .. 6
      /\ Len(content) = 10 + i + 7 * n /\ f[4] \in MsgWifiLBS
  <2>1. n \in 1 .. 6 /\ Len(content) \in Nat /\ Len(content) = 10 + i + 7 * n
    BY ReportLength
  <2> HIDE DEF n
  <2> QED BY <2>1 DEF Carries
<1> HIDE DEF n
<1>2. b[4] = f[4]
  <2>1. Len(f) = Len(content) + 6
    BY DEF Carries
  <2>2. 4 \in Nat /\ 4 >= 1 /\ 4 <= Len(b) /\ 4 <= Len(f)
    BY <1>1, <2>1
  <2> QED BY <2>2, AgreeAt, Zenon
<1>3. c \in Seq(Byte) /\ Len(c) = Len(b) - 4
  <2>1. 4 \in 0 .. Len(b)
    BY <1>1
  <2> QED BY <2>1, FromType
<1>4. ASSUME NEW k \in Nat, 1 <= k, k <= Len(content) PROVE c[k] = content[k]
  <2>1. 4 + k \in Nat /\ 4 + k >= 1 /\ 4 + k <= Len(b) /\ 4 + k <= Len(f) /\ 4 <= Len(b) /\ k <= Len(b) - 4
    <3>1. Len(f) = Len(content) + 6
      BY DEF Carries
    <3> QED BY <1>1, <1>4, <3>1
  <2>2. c[k] = b[4 + k]
    BY <1>4, <2>1, FromAt
  <2>3. b[4 + k] = f[4 + k]
    BY <2>1, AgreeAt
  <2>4. f[4 + k] = content[k]
    BY <1>4 DEF Carries
  <2> QED BY <2>2, <2>3, <2>4
<1> HIDE DEF c
<1>5. Len(c) \in Nat /\ Len(c) >= Len(content) + 2
  BY <1>1, <1>3
<1>6. ASSUME NEW k \in Nat, 1 <= k, k <= Len(content) - 6 PROVE rest[k] = From(content, 6)[k]
  <2>1. 6 <= Len(c) /\ k <= Len(c) - 6 /\ 6 <= Len(content) /\ 6 + k \in Nat /\ 1 <= 6 + k /\ 6 + k <= Len(content)
    BY <1>1, <1>5, <1>6
  <2>2. rest[k] = c[6 + k]
    <3>1. c \in Seq(Byte)
      BY <1>3
    <3>2. From(c, 6)[k] = c[6 + k]
      BY <1>6, <2>1, <3>1, FromAt
    <3> QED BY <3>2
  <2>3. From(content, 6)[k] = content[6 + k]
    BY <1>6, <2>1, FromAt
  <2> QED BY <1>4, <2>1, <2>2, <2>3
<1> HIDE DEF rest
<1>7. ASSUME NEW j \in Nat, j <= i PROVE LooksLikeCells(rest, j) <=> LooksLikeCells(From(content, 6), j)
  <2>1. /\ j + 1 \in Nat /\ 1 <= j + 1 /\ j + 1 <= Len(content) - 6
        /\ j + 2 \in Nat /\ 1 <= j + 2 /\ j + 2 <= Len(content) - 6
        /\ j + 3 \in Nat /\ 1 <= j + 3 /\ j + 3 <= Len(content) - 6
    BY <1>1, <1>7
  <2>2. /\ rest[j + 1] = From(content, 6)[j + 1] /\ rest[j + 2] = From(content, 6)[j + 2]
        /\ rest[j + 3] = From(content, 6)[j + 3]
    BY <1>6, <2>1
  <2> QED BY <2>2 DEF LooksLikeCells
<1>8. rest[i + 1] = n
  <2>1. i + 1 \in Nat /\ 1 <= i + 1 /\ i + 1 <= Len(content) - 6
    BY <1>1
  <2> QED BY <1>6, <2>1 DEF n
<1>9. LooksLikeCells(rest, i) /\ \A j \in Nat : j < i => ~ LooksLikeCells(rest, j)
  BY <1>7 DEF CellReport
<1>10. Len(c) >= 10 + i + 7 * n
  BY <1>1, <1>5
<1>11. wifiLBSContentBounds(c) = Bounds(6, Len(content))
  <2>1. wifiLBSContentBounds(c) = Bounds(6, 10 + i + 7 * n)
    BY <1>1, <1>3, <1>8, <1>9, <1>10, CellBounds DEF rest
  <2> QED BY <1>1, <2>1
<1>12. Least(b[4], c) = Len(content)
  <2>1. contentBounds(b[4], c) = Bounds(6, Len(content))
    BY <1>1, <1>2, <1>3, <1>11, WifiContent
  <2>2. contentBounds(b[4], c).exact = Len(content)
    BY <2>1 DEF Bounds
  <2> QED BY <1>1, <2>2 DEF Least
<1> QED BY <1>12 DEF c

LEMMA CellsInBuffer ==
  ASSUME NEW f \in Seq(Byte), NEW content \in Seq(Byte), NEW i \in Nat,
         Carries(f, content), CellReport(content, i), NEW b \in Seq(Byte), Agree(b, f)
  PROVE  /\ Len(b) < Len(f) => ExtractFrame(b) = Incomplete
         /\ Len(b) >= Len(f) => ExtractFrame(b) = FrameOf(Len(f))
<1>1. /\ Len(f) \in Nat /\ Len(b) \in Nat /\ Len(content) \in Nat
      /\ Len(f) = Len(content) + 6 /\ Len(content) >= 6
  <2>1. Len(content) \in Nat /\ Len(content) >= 17
    BY ReportLength
  <2> QED BY <2>1 DEF Carries
<1>2. CASE Len(b) < 5
  BY <1>1, <1>2 DEF ExtractFrame
<1>3. CASE Len(b) >= 5
  <2> DEFINE m == Least(b[4], From(b, 4))
  <2>1. b[1] = 120 /\ b[2] = 120 /\ b[4] \in MsgWifiLBS
    <3>1. 1 <= Len(b) /\ 2 <= Len(b) /\ 4 <= Len(b) /\ 1 <= Len(f) /\ 2 <= Len(f) /\ 4 <= Len(f)
      BY <1>1, <1>3
    <3>2. b[1] = f[1] /\ b[2] = f[2] /\ b[4] = f[4]
      BY <3>1, AgreeAt
    <3> QED BY <3>2 DEF Carries
  <2>2. Begun(b, 4, m)
    BY <1>3, <2>1 DEF Begun, PrefixLen
  <2>3. From(b, 4) \in Seq(Byte)
    BY <1>3, FromType
  <2>4. m \in Nat /\ m >= 6
    BY <2>1, <2>3, WifiContent
  <2>5. Len(b) >= Len(f) => m = Len(content)
    BY CellLeast
  <2> HIDE DEF m
  <2>6. \/ /\ ExtractFrame(b) = Incomplete
           /\ \A j \in Nat : j >= m => ~ Ends(b, 4, j)
        \/ \E j \in Nat : /\ j >= m /\ Ends(b, 4, j) /\ ExtractFrame(b) = FrameOf(4 + j + 2)
                          /\ \A k \in Nat : k >= m /\ k < j => ~ Ends(b, 4, k)
    BY <2>2, <2>4, BegunExtract
  <2>7. ASSUME NEW j \in Nat, j >= 6, j <= Len(content), 4 + j + 2 <= Len(b)
        PROVE  Ends(b, 4, j) <=> j = Len(content)
    <3>1. /\ 4 + j + 1 \in Nat /\ 4 + j + 1 >= 1 /\ 4 + j + 1 <= Len(b) /\ 4 + j + 1 <= Len(f)
          /\ 4 + j + 2 \in Nat /\ 4 + j + 2 >= 1 /\ 4 + j + 2 <= Len(b) /\ 4 + j + 2 <= Len(f)
      BY <1>1, <2>7
    <3>2. b[4 + j + 1] = f[4 + j + 1] /\ b[4 + j + 2] = f[4 + j + 2]
      BY <3>1, AgreeAt
    <3>3. Ends(b, 4, j) <=> Ends(f, 4, j)
      BY <3>1, <3>2 DEF Ends
    <3> QED BY <2>7, <3>3, OneTrailer
  <2>8. CASE Len(b) < Len(f)
    <3>1. \A j \in Nat : j >= m => ~ Ends(b, 4, j)
      <4> SUFFICES ASSUME NEW j \in Nat, j >= m, Ends(b, 4, j) PROVE FALSE
        OBVIOUS
      <4>1. 4 + j + 2 <= Len(b)
        BY DEF Ends
      <4>2. j >= 6 /\ j <= Len(content) /\ j # Len(content)
        BY <1>1, <2>4, <2>8, <4>1
      <4> QED BY <2>7, <4>1, <4>2
    <3> QED BY <1>1, <2>6, <2>8, <3>1
  <2>9. CASE Len(b) >= Len(f)
    <3>1. m = Len(content) /\ Ends(b, 4, Len(content)) /\ 4 + Len(content) + 2 = Len(f)
      <4>1. 4 + Len(content) + 2 <= Len(b) /\ 4 + Len(content) + 2 = Len(f) /\ Len(content) <= Len(content)
        BY <1>1, <2>9
      <4>2. Ends(b, 4, Len(content))
        BY <1>1, <2>7, <4>1
      <4> QED BY <2>5, <2>9, <4>1, <4>2
    <3>2. PICK j \in Nat : /\ j >= m /\ Ends(b, 4, j) /\ ExtractFrame(b) = FrameOf(4 + j + 2)
                           /\ \A k \in Nat : k >= m /\ k < j => ~ Ends(b, 4, k)
      <4>1. Len(content) >= m
        BY <1>1, <3>1
      <4> QED BY <1>1, <2>6, <3>1, <4>1
    <3>3. j = m
      <4>1. ~ (m < j)
        BY <1>1, <2>4, <3>1, <3>2
      <4> QED BY <2>4, <3>2, <4>1
    <3>4. ExtractFrame(b) = FrameOf(4 + m + 2)
      BY <3>2, <3>3
    <3> QED BY <1>1, <2>9, <3>1, <3>4
  <2> QED BY <1>1, <2>8, <2>9
<1> QED BY <1>1, <1>2, <1>3

(* Wi-Fi/LBS reports with cells are delimited too, whatever is sent after  *)
(* them, as long as nothing in the access points looks like the header of  *)
(* the cells and no CR LF follows the date: ExtractFrame neither cuts the  *)
(* report at a cell of six bytes nor reads on into the next frame.         *)
THEOREM CellReportsDelimited ==
  ASSUME NEW proto \in MsgWifiLBS, NEW len \in Byte, NEW content \in Seq(Byte),
         NEW i \in Nat, CellReport(content, i)
  PROVE  Delimited(<<120, 120, len, proto>> \o content \o <<CR, LF>>)
<1> DEFINE head == <<120, 120, len, proto>>
           g == head \o content
           f == g \o <<CR, LF>>
<1>1. head \in Seq(Byte) /\ <<CR, LF>> \in Seq(Byte) /\ Len(head) = 4 /\ Len(content) \in Nat
  BY DEF Byte, CR, LF, MsgWifiLBS
<1>2. /\ g \in Seq(Byte) /\ Len(g) = Len(content) + 4 /\ g[1] = 120 /\ g[2] = 120 /\ g[4] = proto
      /\ \A k \in Nat : 1 <= k /\ k <= Len(content) => g[4 + k] = content[k]
  BY <1>1
<1> HIDE DEF g
<1>3. f[Len(g) + 1] = CR /\ f[Len(g) + 2] = LF
  BY <1>2, WithTrailer
<1>4. f \in Seq(Byte) /\ Len(f) = Len(g) + 2 /\ \A k \in Nat : 1 <= k /\ k <= Len(g) => f[k] = g[k]
  BY <1>1, <1>2
<1> HIDE DEF f
<1>5. Carries(f, content)
  <2>1. f[1] = g[1] /\ f[2] = g[2] /\ f[4] = g[4]
    BY <1>1, <1>2, <1>4
  <2>2. ASSUME NEW k \in Nat, 1 <= k, k <= Len(content) PROVE f[4 + k] = content[k]
    <3>1. 4 + k \in Nat /\ 1 <= 4 + k /\ 4 + k <= Len(g)
      BY <1>1, <1>2, <2>2
    <3> QED BY <1>2, <1>4, <2>2, <3>1
  <2>3. /\ Len(f) = Len(content) + 6 /\ Len(g) + 1 = Len(content) + 5 /\ Len(g) + 2 = Len(content) + 6
    BY <1>1, <1>2, <1>4
  <2>4. f[Len(content) + 5] = CR /\ f[Len(content) + 6] = LF
    BY <1>3, <2>3
  <2> QED BY <1>2, <2>1, <2>2, <2>3, <2>4 DEF Carries
<1>6. Delimited(f)
  <2>1. Len(f) >= 6
    BY <1>1, <1>2, <1>4
  <2> QED BY <1>4, <1>5, <2>1, CellsInBuffer DEF Delimited
<1> QED BY <1>6 DEF f, g

=============================================================================
