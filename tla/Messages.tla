------------------------------ MODULE Messages ------------------------------
(***************************************************************************)
(* The contents of frames (internal/protocol): what the parsers read from  *)
(* a body, the packets the gateway builds, and the checks of               *)
(* internal/command. Bodies and packets are byte sequences; offsets are    *)
(* 0-based as in the code. Floating-point values keep the unit of the      *)
(* bytes they come from (1/1,800,000 degree, km/h, degrees of course).     *)
(***************************************************************************)
EXTENDS Framing

MsgParam == 87
MsgRestart == 72
MsgUploadInt == 151
MsgLocate == 128

At(s, i) == s[i + 1]
U16(s, i) == At(s, i) * 256 + At(s, i + 1)

\* A 32-bit number as its two halves, which TLC's integers can hold.
Halves(n) == <<n \div 65536, n % 65536>>
U32(s, i) == <<U16(s, i), U16(s, i + 2)>>
Slice(s, i, j) == SubSeq(s, i + 1, j)

\* A parser's error.
Fail == [err |-> TRUE]

-----------------------------------------------------------------------------
(* time.Date in UTC, as minutes since the start of 2000 and seconds. Fields *)
(* out of range carry over as in Go: month 13 is January of the next year, *)
(* hour -1 the last hour of the day before.                                *)

DaysBeforeMonth == <<0, 31, 59, 90, 120, 151, 181, 212, 243, 273, 304, 334>>

DaysBeforeYear(y) == 365 * y + (y + 3) \div 4 - (y + 99) \div 100 + (y + 399) \div 400

IsLeap(y) == DaysBeforeYear(y + 1) - DaysBeforeYear(y) = 366

Date(y, mo, d, h, mi, s) ==
  LET year  == y + (mo - 1) \div 12
      month == ((mo - 1) % 12) + 1
      day   == DaysBeforeYear(year) + DaysBeforeMonth[month] + d - 1
                 + (IF IsLeap(year) /\ month > 2 THEN 1 ELSE 0)
  IN <<(day * 24 + h) * 60 + mi + s \div 60, s % 60>>

-----------------------------------------------------------------------------
(* Parsers.                                                                *)

\* A nibble that is no decimal digit counts as 0.
Digit(n) == IF n > 9 THEN 0 ELSE n

Nibble(body, k) == IF k % 2 = 1 THEN body[(k + 1) \div 2] \div 16 ELSE body[k \div 2] % 16

\* 16 digits, of which a leading 0 is dropped or else the last digit, whatever
\* it is (trimming a trailing filler and cutting to 15 do the same).
ParseLoginKeep(body) ==  \* mutant: the leading filler is kept
  IF Len(body) < 8 THEN Fail ELSE [imei |-> [k \in 1 .. 15 |-> Digit(Nibble(body, k))]]

ParseLogin(body) ==
  LET digits == [k \in 1 .. 16 |-> Digit(Nibble(body, k))]
  IN IF Len(body) < 8 THEN Fail
     ELSE [imei |-> IF digits[1] = 0 THEN Tail(digits) ELSE SubSeq(digits, 1, 15)]

\* Latitude and longitude come without a sign. The fix counts as valid if bit 4
\* or bit 11 of course/status is set or both coordinates are non-zero.
ParseGPS(body) ==
  LET cs == U16(body, 16) IN
  IF Len(body) < 18 THEN Fail
  ELSE [time   |-> Date(body[1], body[2], body[3], body[4], body[5], body[6]),
        lat    |-> U32(body, 7),
        lon    |-> U32(body, 11),
        speed  |-> At(body, 15),
        course |-> cs % 1024,
        sats   |-> At(body, 6) % 16,
        valid  |-> \/ (cs \div 16) % 2 = 1
                   \/ (cs \div 2048) % 2 = 1
                   \/ <<0, 0>> \notin {U32(body, 7), U32(body, 11)}]

\* Only the battery level leaves the gateway; version, time zone and interval
\* are logged.
ParseStatus(body) ==
  IF Len(body) < 1 THEN Fail ELSE [battery |-> IF body[1] <= 100 THEN body[1] ELSE -1]

\* unicode.IsPrint on a Latin-1 code point.
Printable(b) == b \in 32 .. 126 \/ b \in 161 .. 255 \ {173}

ParseICCID(body) ==
  LET zeros == {k \in DOMAIN body : body[k] = 0}
      upTo  == IF zeros = {} THEN body ELSE SubSeq(body, 1, Min(zeros) - 1)
      iccid == SelectSeq(upTo, Printable)
  IN IF iccid = <<>> THEN Fail ELSE [iccid |-> iccid]

BcdByte(b) == IF b \div 16 > 9 \/ b % 16 > 9 THEN -1 ELSE (b \div 16) * 10 + (b % 16)

WifiDateBinary(body) ==  \* mutant: read as a GPS date
  Date(body[1], body[2], body[3], body[4], body[5], body[6])

\* The date of a Wi-Fi/LBS report: BCD, or binary when year, month or day are no
\* BCD or a field is too large (an hour, minute or second that is no BCD is not
\* noticed: it is -1).
WifiDate(body) ==
  LET f == [k \in 1 .. 6 |-> BcdByte(body[k])]
      binary == \/ f[1] < 0 \/ f[2] \notin 1 .. 12 \/ f[3] \notin 1 .. 31
                \/ f[4] > 23 \/ f[5] > 59 \/ f[6] > 59
      g == IF binary THEN SubSeq(body, 1, 6) ELSE f
  IN Date(g[1], g[2], g[3], g[4], g[5], g[6])

\* Access points in groups of 7 bytes; cells of 7 bytes (4 of cell id) if they
\* fit, else of 6 (3 of cell id).
Wifi(bytes) ==
  [k \in 1 .. Len(bytes) \div 7 |->
     [mac |-> Slice(bytes, 7 * (k - 1), 7 * k - 1), rssi |-> At(bytes, 7 * k - 1)]]

Cells(lbs) ==
  LET count == lbs[1]
      size  == IF 4 + count * 7 > Len(lbs) /\ 4 + count * 6 <= Len(lbs) THEN 6 ELSE 7
      fit   == (Len(lbs) - 4) \div size
      at(k) == 4 + (k - 1) * size
  IN [k \in 1 .. IF count < fit THEN count ELSE fit |->
        [mcc |-> U16(lbs, 1), mnc |-> At(lbs, 3), lac |-> U16(lbs, at(k)),
         ci  |-> IF size = 7 THEN U32(lbs, at(k) + 2)
                 ELSE <<At(lbs, at(k) + 2), U16(lbs, at(k) + 3)>>,
         signal |-> At(lbs, at(k) + size - 1)]]

ParseWifiLBS(body) ==
  LET rest  == From(body, 6)
      start == findLBSHeader(rest)
  IN IF Len(body) < 6 THEN Fail
     ELSE [time  |-> WifiDate(body),
           wifi  |-> Wifi(IF start >= 0 THEN SubSeq(rest, 1, start) ELSE rest),
           cells |-> IF start >= 0 THEN Cells(From(rest, start)) ELSE <<>>]

-----------------------------------------------------------------------------
(* Packets the gateway builds. All are 78 78, a length byte, the protocol, *)
(* the content and 0D 0A.                                                  *)

Packet(len, proto, content) == <<120, 120, len, proto>> \o content \o <<CR, LF>>

BE16(n) == <<n \div 256, n % 256>>

BuildLoginACK == Packet(1, MsgLogin, <<>>)

\* t: year, month, day, hour, minute, second.
BuildTimeSyncReply(t) == Packet(7, MsgTimeSync, BE16(t[1]) \o Tail(t))

BuildDefaultSettings ==
  Packet(31, MsgParam, <<0, 16, 1, 127, 24, 38>> \o [k \in 1 .. 21 |-> 0] \o <<59, 59, 59>>)

DatetimeFromBodyLate(body) ==  \* mutant: one byte late
  IF Len(body) >= 7 THEN SubSeq(body, 2, 7) ELSE [k \in 1 .. 6 |-> 0]

DatetimeFromBody(body) ==
  IF Len(body) >= 6 THEN SubSeq(body, 1, 6) ELSE [k \in 1 .. 6 |-> 0]

BuildDatetimeACK(proto, datetime) == Packet(0, proto, datetime)

\* A frame is never shorter than 5 bytes, so the fallback is not used.
BuildStatusEcho(raw) == IF Len(raw) >= 5 THEN raw ELSE Packet(1, MsgStatus, <<>>)

BuildRestart  == Packet(2, MsgRestart, <<1>>)
BuildShutdown == Packet(2, MsgRestart, <<2>>)
BuildLocate   == Packet(1, MsgLocate, <<>>)

BuildUploadInterval(seconds) ==
  Packet(3, MsgUploadInt, BE16(IF seconds < 10 THEN 10 ELSE IF seconds > 7200 THEN 7200 ELSE seconds))

BuildStatusInterval(minutes) ==
  Packet(2, MsgStatus, <<(IF minutes = 0 THEN 1 ELSE minutes) % 256>>)

\* The packet for an RPC, or Fail: unknown method or value out of range.
ExecuteRPCUnchecked(method, v) ==  \* mutant: no range checks
  CASE method = "reboot" -> [packet |-> BuildRestart]
    [] method = "shutdown" -> [packet |-> BuildShutdown]
    [] method = "locate" -> [packet |-> BuildLocate]
    [] method = "setLocationInterval" -> [packet |-> BuildUploadInterval(v % 65536)]
    [] method = "setStatusInterval" -> [packet |-> BuildStatusInterval(v)]
    [] OTHER -> Fail

ExecuteRPC(method, v) ==
  CASE method = "reboot" -> [packet |-> BuildRestart]
    [] method = "shutdown" -> [packet |-> BuildShutdown]
    [] method = "locate" -> [packet |-> BuildLocate]
    [] method = "setLocationInterval" /\ v \in 10 .. 7200 ->
         [packet |-> BuildUploadInterval(v % 65536)]
    [] method = "setStatusInterval" /\ v \in 1 .. 60 -> [packet |-> BuildStatusInterval(v)]
    [] OTHER -> Fail

=============================================================================
