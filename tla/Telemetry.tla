----------------------------- MODULE Telemetry -----------------------------
(***************************************************************************)
(* What goes through the gateway: a tracker encodes what it has measured,  *)
(* handleFrame (internal/server/server.go) parses it, publishes it for the *)
(* IMEI of the last login and answers, and commands are encoded for the    *)
(* tracker. The encodings of login, position, status and time request are  *)
(* those of cmd/toy; the repository has no encoder for the others, whose   *)
(* layout is the one in the parsers' comments. One connection; frames      *)
(* arrive whole (module FrameStream); the registry and the broker accept   *)
(* (module Sessions has their failures).                                   *)
(***************************************************************************)
EXTENDS Messages, SequencesExt

CONSTANTS
  Measured,    \* what the tracker may send, see Encode
  Commands,    \* pairs of a method and a value
  Clock,       \* the gateway's wall clock: year, month, day, hour, minute, second
  MaxLookups   \* bound on the geolocation lookups in progress

None == [none |-> TRUE]

VARIABLES
  owner,      \* history: the IMEI of the tracker that logged in last
  imei,       \* the handler's imei
  lookups,    \* resolveAndPublishLBS goroutines: about what, for whom and the report
  about,      \* history: what the last step was about, and the owner at that time
  published,  \* what it published, None if nothing
  reply       \* the packet it wrote to the tracker, <<>> if none

vars == <<owner, imei, lookups, about, published, reply>>

-----------------------------------------------------------------------------
(* The tracker.                                                            *)

Nibbles(n) == [k \in 1 .. Len(n) \div 2 |-> n[2 * k - 1] * 16 + n[2 * k]]

Decimal == 0 .. 9

\* A 15-digit IMEI in 8 bytes, with a leading 0.
imeiToBCD(id) == Nibbles(<<0>> \o id)

buildLogin(id) == Packet(10, MsgLogin, imeiToBCD(id) \o <<57>>)

buildTimeSyncReq == Packet(1, MsgTimeSync, <<>>)

Abs(n) == IF n < 0 THEN -n ELSE n

BE32(n) == BE16(n \div 65536) \o BE16(n % 65536)

\* North, East, fixed, 12 satellites.
buildGPS(proto, date, lat, lon, speed, heading) ==
  Packet(18, proto,
    date \o <<156>> \o BE32(Abs(lat)) \o BE32(Abs(lon)) \o <<speed % 256>>
         \o <<52 + ((heading \div 256) % 4), heading % 256>>)

buildStatus(battery) == Packet(6, MsgStatus, <<battery, 57, 3, 2>>)

Bcd(n) == (n \div 10) * 16 + (n % 10)

EncodeCells(cells) ==
  IF cells = <<>> THEN <<>>
  ELSE <<Len(cells)>> \o BE16(cells[1].mcc) \o <<cells[1].mnc>>
         \o FlattenSeq([k \in DOMAIN cells |->
                          BE16(cells[k].lac) \o BE32(cells[k].ci) \o <<cells[k].signal>>])

EncodeWifi(wifi) == FlattenSeq([k \in DOMAIN wifi |-> Append(wifi[k].mac, wifi[k].rssi)])

wifiContent(date, wifi, cells) ==
  [k \in 1 .. 6 |-> Bcd(date[k])] \o EncodeWifi(wifi) \o EncodeCells(cells)

buildWifi(proto, date, wifi, cells) == Packet(0, proto, wifiContent(date, wifi, cells))

Encode(m) ==
  CASE m.kind = "login" -> buildLogin(m.imei)
    [] m.kind = "filled" -> Packet(10, MsgLogin, Nibbles(Append(m.imei, 15)) \o <<57>>)
    [] m.kind = "time" -> buildTimeSyncReq
    [] m.kind = "settings" -> Packet(1, MsgParam, <<>>)
    [] m.kind = "gps" -> buildGPS(m.proto, m.date, m.lat, m.lon, m.speed, m.course)
    [] m.kind = "status" -> buildStatus(m.battery)
    [] m.kind = "iccid" -> Packet(1, MsgICCID, m.iccid)
    [] m.kind = "wifi" -> buildWifi(m.proto, m.date, m.wifi, m.cells)
    [] m.kind = "other" -> Packet(2, 148, <<1>>)

\* Coordinates are in 1/1,800,000 degree.
Degrees(n) == n * 1800000

\* IMEIs have 15 digits (and a 0 in front of one whose filler is at the end would
\* be taken for the filler), and what is encoded fits its bytes.
ASSUME MeasuredAssumption ==
  \A m \in Measured :
    \/ m.kind \in {"login", "filled"} /\ m.imei \in Seq(Decimal) /\ Len(m.imei) = 15
       /\ (m.kind = "filled" => m.imei[1] # 0)
    \/ m.kind \in {"time", "settings", "other"}
    \/ /\ m.kind = "gps" /\ m.proto \in MsgGPS /\ m.date \in Seq(Byte) /\ Len(m.date) = 6
       /\ m.lat \in -Degrees(90) .. Degrees(90) /\ m.lon \in -Degrees(180) .. Degrees(180)
       /\ m.speed \in Byte /\ m.course \in 0 .. 359
    \/ m.kind = "status" /\ m.battery \in Byte
    \/ m.kind = "iccid" /\ m.iccid \in Seq(Byte)
    \/ /\ m.kind = "wifi" /\ m.proto \in MsgWifiLBS /\ m.date \in Seq(0 .. 99) /\ Len(m.date) = 6
       /\ EncodeWifi(m.wifi) \in Seq(Byte) /\ EncodeCells(m.cells) \in Seq(Byte)

ASSUME ClockAssumption == Clock \in Seq(Nat) /\ Len(Clock) = 6

-----------------------------------------------------------------------------
(* The gateway: handleFrame on a frame's raw bytes. imei is None before a  *)
(* login.                                                                  *)

Body(raw) == SubSeq(raw, PrefixLen(raw) + 1, Len(raw) - 2)

\* publishTelemetry and publishLocation return at once without an IMEI.
PublishFor(id, values) ==
  published' = IF id = None THEN None ELSE [imei |-> id, values |-> values]

HandleLogin(body) ==
  /\ imei' = IF ParseLogin(body) = Fail THEN imei ELSE ParseLogin(body).imei
  /\ published' = None
  /\ reply' = BuildLoginACK
  /\ lookups' = lookups

HandleTimeSync ==
  /\ reply' = BuildTimeSyncReply(Clock)
  /\ published' = None
  /\ UNCHANGED <<imei, lookups>>

HandleParam ==
  /\ reply' = BuildDefaultSettings
  /\ published' = None
  /\ UNCHANGED <<imei, lookups>>

HandleICCID(body) ==
  /\ IF ParseICCID(body) = Fail THEN published' = None ELSE PublishFor(imei, ParseICCID(body))
  /\ reply' = <<>>
  /\ UNCHANGED <<imei, lookups>>

HandleStatus(raw) ==
  LET st == ParseStatus(Body(raw)) IN
  /\ IF st = Fail \/ st.battery < 0 THEN published' = None ELSE PublishFor(imei, st)
  /\ reply' = BuildStatusEcho(raw)
  /\ UNCHANGED <<imei, lookups>>

\* GPS before login is ignored, not even answered.
HandleGPS(proto, body) ==
  /\ IF ParseGPS(body) = Fail THEN published' = None ELSE PublishFor(imei, ParseGPS(body))
  /\ reply' = IF imei = None THEN <<>> ELSE BuildDatetimeACK(proto, DatetimeFromBody(body))
  /\ UNCHANGED <<imei, lookups>>

\* The report goes to a goroutine of its own. Geolocation is enabled.
HandleWifiLBS(proto, body) ==
  LET wl == ParseWifiLBS(body) IN
  /\ lookups' = IF wl = Fail \/ imei = None THEN lookups
                ELSE lookups \cup {[about |-> about', imei |-> imei, wl |-> wl]}
  /\ published' = None
  /\ reply' = BuildDatetimeACK(proto, DatetimeFromBody(body))
  /\ imei' = imei

HandleOther ==
  /\ published' = None
  /\ reply' = <<>>
  /\ UNCHANGED <<imei, lookups>>

handleFrame(raw) ==
  LET proto == raw[PrefixLen(raw)] IN
  CASE proto = MsgLogin -> HandleLogin(Body(raw))
    [] proto = MsgTimeSync -> HandleTimeSync
    [] proto = MsgParam -> HandleParam
    [] proto = MsgICCID -> HandleICCID(Body(raw))
    [] proto = MsgStatus -> HandleStatus(raw)
    [] proto \in MsgGPS -> HandleGPS(proto, Body(raw))
    [] proto \in MsgWifiLBS -> HandleWifiLBS(proto, Body(raw))
    [] OTHER -> HandleOther

-----------------------------------------------------------------------------
Init ==
  /\ owner = None
  /\ imei = None
  /\ lookups = {}
  /\ about = None
  /\ published = None
  /\ reply = <<>>

\* The tracker sends m; ExtractFrame finds a frame at the front of the bytes, or
\* waits for more. (What remains of bytes not taken whole starts no frame.)
Uplink(m) ==
  LET bytes == Encode(m)
      found == ExtractFrame(bytes)
  IN /\ m.kind = "wifi" => Cardinality(lookups) < MaxLookups
     /\ owner' = IF m.kind \in {"login", "filled"} THEN m.imei ELSE owner
     /\ about' = [sent |-> m, owner |-> owner']
     /\ IF found.kind = "frame" THEN handleFrame(SubSeq(bytes, 1, found.n)) ELSE HandleOther

\* resolveAndPublishLBS: Locate refuses a report with neither access points nor
\* cells; what it is asked stands for the position it answers. The imei is the
\* one captured when the goroutine was started.
Resolve(l) ==
  /\ lookups' = lookups \ {l}
  /\ l.wl.wifi # <<>> \/ l.wl.cells # <<>>
  /\ about' = l.about
  /\ PublishFor(l.imei, l.wl)
  /\ reply' = <<>>
  /\ UNCHANGED <<owner, imei>>

\* No answer within 5 s, an error, or an answer without coordinates.
ResolveFails(l) ==
  /\ lookups' = lookups \ {l}
  /\ UNCHANGED <<owner, imei, about, published, reply>>

\* A command for this tracker; a refused one sends nothing.
Downlink(method, v) ==
  LET result == ExecuteRPC(method, v) IN
  /\ about' = [sent |-> [kind |-> "command", method |-> method, value |-> v], owner |-> owner]
  /\ reply' = IF result = Fail THEN <<>> ELSE result.packet
  /\ published' = None
  /\ UNCHANGED <<owner, imei, lookups>>

Next ==
  \/ \E m \in Measured : Uplink(m)
  \/ \E l \in lookups : Resolve(l) \/ ResolveFails(l)
  \/ \E cmd \in Commands : Downlink(cmd[1], cmd[2])

Spec == Init /\ [][Next]_vars

-----------------------------------------------------------------------------
DateOf(m) == Date(m.date[1], m.date[2], m.date[3], m.date[4], m.date[5], m.date[6])

\* What should be published for a measurement, in the tracker's own terms;
\* nothing for a battery level that is no percentage.
Expected(m) ==
  CASE m.kind = "gps" ->
         [time |-> DateOf(m), lat |-> Halves(Abs(m.lat)), lon |-> Halves(Abs(m.lon)),
          speed |-> m.speed, course |-> m.course, sats |-> 12]
    [] m.kind = "status" /\ m.battery <= 100 -> [battery |-> m.battery]
    [] m.kind = "iccid" -> [iccid |-> m.iccid]
    [] m.kind = "wifi" ->
         [time |-> DateOf(m), wifi |-> m.wifi,
          cells |-> [k \in DOMAIN m.cells |-> [m.cells[k] EXCEPT !.ci = Halves(@)]]]
    [] OTHER -> None

FromTracker == about # None /\ about.sent.kind # "command"

(* Encoding, framing and parsing together lose and invent nothing: after   *)
(* any sequence of logins, in either filler convention, what a logged-in   *)
(* tracker measures is published, value for value, under its own 15-digit  *)
(* IMEI, even if the lookup of its radio report ends after another login.  *)
(* (Hemispheres aside, which gps.go drops knowingly.)                      *)
UplinkTrue ==
  FromTracker =>
    LET expected == Expected(about.sent) IN
    IF published = None
    THEN about.owner = None \/ expected = None \/ about.sent.kind = "wifi"
    ELSE /\ expected # None
         /\ published.imei = about.owner
         /\ \A f \in DOMAIN expected : published.values[f] = expected[f]

\* Earlier in the calendar or on the clock.
Before(d, e) ==
  \E k \in DOMAIN d : d[k] < e[k] /\ \A j \in 1 .. k - 1 : d[j] = e[j]

(* GPS dates are binary, Wi-Fi/LBS dates BCD: whichever of the two follow  *)
(* each other, across ends of days, months, leap days and years, the       *)
(* published times are ordered as the tracker's dates are.                 *)
TimesOrdered ==
  [][/\ published # None /\ published' # None
     /\ {about.sent.kind, about'.sent.kind} \subseteq {"gps", "wifi"}
     => (Before(about.sent.date, about'.sent.date)
           <=> Before(published.values.time, published'.values.time))]_vars

(* README.md:80 "Must-reply": the answer to a frame carries the protocol   *)
(* byte of that frame, and the date the tracker put in it (GPS, Wi-Fi/LBS) *)
(* or the whole frame (status). Only an ICCID, a frame of unknown type and *)
(* a position before login go unanswered.                                  *)
AnswersMatch ==
  FromTracker =>
    LET m     == about.sent
        frame == Encode(m)
    IN IF \/ m.kind \in {"iccid", "other"}
          \/ m.kind = "gps" /\ about.owner = None
          \/ m.kind = "wifi" /\ published # None
       THEN reply = <<>>
       ELSE /\ Len(reply) >= 6
            /\ reply[4] = frame[4]
            /\ m.kind = "status" => reply = frame
            /\ m.kind \in {"gps", "wifi"} => SubSeq(reply, 5, 10) = SubSeq(frame, 5, 10)

\* The packet a command should put on the wire.
Exact(method, value, packet) ==
  CASE method = "setLocationInterval" ->
         IF value \in 10 .. 7200 THEN U16(packet, 4) = value ELSE packet = <<>>
    [] method = "setStatusInterval" ->
         IF value \in 1 .. 60 THEN At(packet, 4) = value ELSE packet = <<>>
    [] OTHER -> (packet = <<>>) = (method \notin {"reboot", "shutdown", "locate"})

(* handler.go:49 "seconds out of range (10-7200)", handler.go:60 "minutes  *)
(* out of range (1-60)": a command packet carries exactly the value asked  *)
(* for, neither clamped nor wrapped to its width, or none is sent.         *)
CommandsExact ==
  about # None /\ about.sent.kind = "command" =>
    Exact(about.sent.method, about.sent.value, reply)

=============================================================================
