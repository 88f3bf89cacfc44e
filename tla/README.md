# zx909-gw in TLA+

zx909-gw is a gateway between ZX909-class GPS trackers and ThingsBoard. Trackers
keep a TCP connection and send binary frames; the gateway answers them, keeps a
session per tracker, and forwards positions and status to ThingsBoard over MQTT,
for trackers that the Paapeli service says are claimed. Commands travel the other
way. These modules model the gateway's own logic, TLC checks them on small
instances, and TLAPS proves the main invariants for every instance.

## The system

| Part | State | Operations | Shared with |
|------|-------|------------|-------------|
| Session handling (`internal/server/server.go`) | `sessions` map, each `Session`'s `tbConnected`, the handler's `imei` and `sess` | `handleConn` and its clean-up, `handleFrame`, `registerSession`, `removeSession`, `maybeConnectTB`, `ensureTBConnected`, `publish*`, `resolveAndPublishLBS` | one goroutine per connection, one per login, one per Wi-Fi/LBS report |
| Accept loop and shutdown (`server.go`, `cmd/gateway/main.go`) | `ln`, `closing`, the WaitGroup | `ListenAndServe`, `Shutdown`, signals | main goroutine, accept goroutine, handlers |
| Framing (`internal/protocol/frame.go`, `wifilbs.go`) | the connection's byte buffer | `Read`, `drainFrames`, `ExtractFrame` | one handler |
| Registration (`internal/registry/paapeli.go`) | answer cache, bearer token | `IsRegistered` | every goroutine that talks to ThingsBoard |
| ThingsBoard client (`internal/mqtt/client.go`) | MQTT connection | `ConnectDevice`, `DisconnectDevice`, `PublishTelemetry`, `onRPC` | handlers, background goroutines, the MQTT callback |
| Downlink (`internal/command`, `debug_api.go`) | none of its own; the request in progress | `onRPC`, `ExecuteRPC`, `ApplySharedAttributes`, `SendToDevice`, REST handlers | MQTT callback, HTTP goroutines |
| Connection writes (`SafeConn` in `server.go`) | the write lock, the socket | `WriteWithDeadline`, `Close` | handlers, commands, the login that takes a session over |
| Parsers, builders (`internal/protocol`) | none | pure functions from bytes and to bytes | handlers, commands |
| Geolocation client (`internal/geolocation`) | none | one HTTP request per report | a goroutine per report |
| Configuration, mock client, toy tracker | none | read once; logging; stand-alone | |

What is hard here:

* a tracker that reconnects before its old connection is noticed to be dead: the
  new login takes the session over while the old handler, its announcement
  goroutine and its clean-up are still running;
* state looked up before a blocking call (registry, MQTT, geolocation) and used
  after it;
* shutdown racing the accept loop;
* TCP splitting and joining frames whose bodies may contain the trailer `0D 0A`
  and whose length bytes are not trusted;
* two locks in one order (`Server.mu`, then `SafeConn.mu`), the second held while a
  tracker that no longer reads blocks a write;
* commands of several packets that fail between two of them, or whose connection is
  replaced between look-up and write;
* numbers that change width and base on their way: BCD and binary dates, 15 digits in
  16 nibbles, `int` to `uint16` to a byte;
* cached registration answers under concurrent lookups and changing claims;
* MQTT publishes with no timeout on the path to a protocol answer.

`PROJECT.json` lists these hazards at their lines, each with the properties that
would catch it or the reason there is none yet.

## Modules

### Sessions

One action is a stretch of a goroutine that nothing can interleave with: a
critical section of `Server.mu` or `Session.mu`, or one blocking call. `hpc[c]` is
where the handler of connection `c` is (its read loop, inside `handleFrame`, or in
the deferred clean-up), `task[s]` where the `maybeConnectTB` goroutine of session
`s` is, `up[w]` the `ensureTBConnected`-and-publish call that a handler or a
`resolveAndPublishLBS` goroutine `w` is in, with the IMEI it was called with and
the session it looked up. A session object is named by its connection and the
number of the login on it, which makes pointer comparison (`cur == sess`) equality
of names. `tb[i]` is the last presence published for a device and `granted[i]`
remembers that the registry has ever said "registered".

The registry's answer is arbitrary at every check. A failed publish may or may not
have reached the broker. A frame is reduced to what its handler does: a login, an
answer only, a publish and an answer (GPS, status), a publish only (ICCID), a
background lookup and an answer (Wi-Fi/LBS). Frames that change nothing (GPS before
login, unknown types, an ICCID that does not parse) are stuttering steps.

### Lifecycle

`main` from `tb.Connect` to exit, `ListenAndServe`, `Shutdown`, the WaitGroup.
A handler is "running" from `wg.Add` to `wg.Done`; what it does in between is
Sessions. `Accept` may fail at any time, and `closing` is read some time after it did:
an error is followed by a retry or by the end of the loop. `s.ln` is read by `Shutdown` and written by `ListenAndServe` without a
lock, so assignment and read are separate actions in either order.

### Framing and FrameStream

Framing has `ExtractFrame` and its helpers as operators on byte sequences, with the
code's offsets. FrameStream sends a stream through `Read` (any split) and
`drainFrames`. What the frames mean is left out; `frameFromRaw` copies the bytes.

### Registry

`IsRegistered` of `PaapeliClient` called by several goroutines: cache look-up,
token, login, request, the single retry on 401, cache store. The service's answer
is fixed when it serves the request (`Serve`) and stored when the reply is
processed (`CacheSet`), so answers can overtake each other. Time is a counter, and
a call lasts at most `Deadline`: that is the 5 s context of `uplinkAllowed`, with
the assumption that the goroutine is scheduled promptly once its call returns.
A cache hit changes nothing and is no action. Tokens have no identity: the service
may refuse any token at any time.

### SessionDirectory

The abstract specification of the session map, a directory of live connections: which
connection serves an IMEI. `Login` takes the IMEI over and closes the connection that
served it in one step, `Leave` gives up every IMEI the connection still serves, `Close`
closes. There are no sessions, locks or goroutines in it. Sessions and Downlink both
implement it, each with the mapping `Phase`, `Current` (`who`), `Serving` (`sessions`),
`Open` beside its `INSTANCE`; the property is `ImplementsDirectory` in both. They do so
only if a connection logs in under one IMEI, since a handler remembers its last IMEI
only; `sessions_leak` shows what happens otherwise.

### Downlink

Commands, and the locks they share with logins. Handlers are those of Sessions
without their uplink: they read, log in, answer, and clean up. A goroutine `r` carries
one request `req[r]`: an RPC, a REST call, a list, or shared attributes, as a sequence
of parts, each a packet to send ("good") or a value the checks refuse ("bad"). An RPC
has one part, `POST interval` up to two. `done[r]` counts the finished parts, `conn[r]`
is the connection `SendToDevice` found.

Locks are held exactly at certain control points: `SafeConn.mu` of a connection while a
goroutine is at "writing" to it, `Server.mu` while a handler is at "close", where
`registerSession` waits for the lock of the connection it replaces. A write ends when
the tracker has taken the packet or at its deadline. `wire` records which parts have
been written whole. `ApplySharedAttributes` is called by no code at this commit; it is
here because it is exported for the client to call.

### Messages and Telemetry

Messages has the parsers, the packet builders and `ExecuteRPC`'s checks as operators on
bytes, with the code's offsets, including what it does with fields out of range (`Date`
carries over as Go's `time.Date` does). A 32-bit number is a pair of halves, because
TLC's integers are 32 bits wide and signed. Coordinates and speeds keep the unit of
their bytes; the division to degrees is left out.

Telemetry closes the loop: the tracker encodes a measurement, `ExtractFrame` of module
Framing takes it out of the bytes, `handleFrame` parses, publishes and answers, and a
geolocation lookup may end any time later. The tracker's encoders are those of
`cmd/toy` where it has one; Wi-Fi/LBS and ICCID frames are laid out as the parsers'
comments say. `Expected` states in the tracker's own terms what ought to be published,
so the properties compare two independent descriptions.

### Proof and instance modules

`SessionsProofs`, `AnnouncementProofs`, `LifecycleProofs`, `FramingProofs`,
`StreamProofs`, `RegistryProofs`, `DownlinkProofs` and `TelemetryProofs` hold the
theorems, `MCSessions`, `MCLifecycle`, `MCFrameStream`, `MCRegistry`, `MCDownlink` and
`MCTelemetry` the constants for TLC. Operators marked "mutant" in the modules are faulty
variants of the operator that follows them; they are part of no specification and exist
to show that the properties notice the fault.

## Runs

| Run | Instance | Checks |
|-----|----------|--------|
| `sessions` | 2 connections, 1 IMEI, every frame kind, 1 lookup, 1 login each | `TypeOK`, `LiveConnReachable`, `SessionIsLive`, `OnlyClaimedAnnounced`, `FlagMeansAnnounced`, `TelemetryAfterConnect`, `NeverDownBeforeUp`, `ImplementsDirectory` |
| `sessions_leak` | 2 connections, 2 IMEIs, 2 logins each, logins only | `SessionIsLive`, violated |
| `sessions_live` | 2 connections, 1 IMEI, reports | `ClosedHandlerEnds`, `ReportAnswered` |
| `sessions_stall` | as `sessions_live`, no fairness of the broker | `ReportAnswered`, violated |
| `sessions_takeover` | 2 connections, 1 IMEI | `DisconnectMeansOffline`, violated |
| `lifecycle` | 3 connections | `TypeOK`, `HandlersCounted`, `AtMostOneLate`, `ClosedNotRetried`, `AcceptLoopEnds`, `ShutdownEnds` |
| `frame_stream` | all pairs of 7 frames (and a Wi-Fi report last), 18 noisy triples, 3 noisy pairs with a header inside a frame | `InOrder`, `AllDelivered`, `NothingInvented`, `Slices`, `DrainProgress` |
| `frame_merge` | a Wi-Fi report, then one with a cell | `InOrder`, violated |
| `registry` | 2 callers, 1 IMEI, TTLs 2 and 1, deadline 2, 5 ticks | `TypeOK`, `AnswersRecent`, `CallReturns` |
| `downlink` | 2 connections of 1 tracker, the MQTT callback and 1 HTTP goroutine | `TypeOK`, `WritesUndisturbed`, `AnswerTellsWhatWasSent`, `ImplementsDirectory`, `LoginCompletes`, `RequestAnswered` |
| `telemetry` | 65 measurements, 18 commands, 2 IMEIs, 1 lookup in progress | `UplinkTrue`, `AnswersMatch`, `CommandsExact`, `TimesOrdered` |
| `telemetry_mac` | a report of two access points, one with `01` in its address | `UplinkTrue`, violated |

Why the bounds are enough. A takeover needs two connections and one IMEI; a
session left behind needs a second IMEI and a second login; a stale lookup needs
one background goroutine. A third connection or login repeats these patterns, and
the session map's invariants are proved for any number of connections, IMEIs and logins.
Repeated logins on one connection are in `downlink`, which bounds them not at all.
For shutdown,
three connections allow one running, one being handed over and one waiting.
Every split of every stream is explored; two frames show every way in which one
frame can be taken for part of its neighbour, three are needed with noise because
the first may be lost. After noise the bytes `78 78` inside a position can be taken for
its header; `Slices` is the property that covers those streams too. The registry bound `TTL + Deadline` is tight on this
instance: with one unit less TLC finds a violation. For commands, two connections of
one tracker give a takeover during a write, and two goroutines a command that waits for
another's write; every kind of request and each place where one can fail is among the
requests. Telemetry takes each field at the edges of its encoding (ends of months,
years and centuries, 29 February, the pole and the date line, one below and above each
range, values that wrap to a valid one) and every order of two measurements; one lookup
in progress is enough for it to end after another login.

The connections and the IMEIs are symmetric in the runs of invariants and action
properties only, not in the liveness runs.

### What the violated runs show

* `sessions_leak`: a login under a second IMEI on the same connection overwrites the
  handler's `imei` and `sess` (`server.go:301`), and the clean-up removes the entry of
  the last IMEI only. The first stays in the map after the connection has ended, and
  commands to it fail on a closed connection until that tracker logs in again.
* `sessions_takeover`: after a tracker has logged in on a new connection, the old
  handler's clean-up (`server.go:160`) still publishes a disconnect, and ThingsBoard
  shows a live device as offline until it next logs in: the new session's
  `tbConnected` is set, so telemetry does not announce it again.
* `sessions_stall`: status and GPS frames are answered after the publish returns,
  and `token.Wait()` has no timeout.
* `frame_merge`: `findLBSHeader` looks at the whole buffer, past the trailer of the
  frame at its front, and takes the cells of the next report for this one's.
* `telemetry_mac`: it also tries every offset inside the access points. An address such
  as `00:01:02:a3:b4:c5` reads as one cell of country 675, and the geolocation service
  is asked about a cell made of address bytes.

### Known limits of the code

Met while modelling, and kept out of the passing instances or visible in the models:

* What `sessions_leak` shows: `SessionIsLive` and `ImplementsDirectory` pass, and are
  proved, for one IMEI per connection. `LiveConnReachable` and `OwnEntryRemoved` are
  proved without that.
* A Shutdown that reads `s.ln` while `ListenAndServe` is just assigning it closes nothing:
  connections are accepted until the process exits. `AtMostOneLate` and `ShutdownEnds`
  except that case.
* A Wi-Fi/LBS report with one or two cells of 6 bytes is not taken out until more bytes
  follow, because the two trailer bytes count as cell bytes (`frame.go:186`), and one with
  more of them is cut in the next frame if that has already arrived; one whose
  cells contain `0D 0A` may be cut there (`frame.go:190`), and so may access points in a
  report without cells. Cells in the passing runs have 7 bytes without `0D 0A`, and no
  report without cells stands in front of another frame.
* `ParseGPS` drops the hemisphere; `UplinkTrue` speaks of absolute coordinates. Its test
  of bit 4 for a valid fix (`gps.go:66`) hits a bit of the course.
* A login whose filler nibble is at the end and whose IMEI starts with 0 loses that 0 and
  keeps the filler, because `ParseLogin` takes any leading 0 for the filler. No IMEI in
  the instances, and by `MeasuredAssumption` none in the proofs, is of that kind.
* A BCD hour, minute or second that is no decimal number counts as -1 instead of causing
  the fall-back to binary.
* A write cut off by its deadline may leave half a packet on a connection that stays in
  use. `wire` has whole packets only.

### Fairness

* Sessions: every gateway step that stays possible is taken, since goroutines are
  scheduled fairly and writes, registry and geolocation calls have deadlines. A
  drain ends because its buffer is finite, although more frames may be in it (strong
  fairness of `DrainDone`). Reading from a socket the gateway closed fails. Data
  from the tracker is never assumed. That MQTT publishes return is a separate
  assumption, `BrokerFairness`; `sessions_stall` drops it.
* Lifecycle: main's and the accept loop's steps; `Accept` on a closed listener
  fails. `ShutdownEnds` assumes in addition (`TrackersLeave`) that every handler
  ends, because `Shutdown` closes no connection and waits for them;
  `AcceptLoopEnds` does not.
* Registry: HTTP calls time out, so calls in progress take steps.
* Downlink: a goroutine waiting for a lock gets it if it becomes free again and again
  (strong fairness: Go's mutexes hand over to a waiter that has waited too long); a
  write ends at its deadline; the broker takes the RPC's response. Nothing is assumed
  of the trackers, which may stop reading for ever. Without the deadline TLC finds a
  login that never completes.
* Telemetry has no liveness property.

## Proofs

All proofs are checked by TLAPS from the assumptions named in the modules.
`ConstantsAssumption`, `ConnsAssumption`, `StreamsAssumption`, `DownlinkAssumption` and
`ClockAssumption` only fix the types of the constants; `RegistryAssumption` says that the
times to live and the deadline are positive (`config.go` replaces 0 by its defaults);
`MeasuredAssumption` that what a tracker measures fits the bytes it is encoded in (an
IMEI of 15 digits, a latitude of at most 90 degrees, a course below 360, two digits for
each field of a radio report's date). TLC evaluates
all of them on the instances.

**SessionsProofs.** `TypeCorrect` needs `LoggedIn`: a handler past its login has a
session with an IMEI, and so has every `maybeConnectTB` goroutine; otherwise `Imei(c)`
might be `None` when it is published. The map properties are not inductive either.
`MapInv` adds that entries are stored under their session's IMEI (`Keyed`), that of
the sessions one handler created for its current IMEI only the last can be in the
map (`LastOfHandler`), that a handler past its clean-up is not in the map under its
last IMEI (`Removed`), that a handler inside a publish call is not in its clean-up
(`InCall`), that an unstarted handler has no session (`Unstarted`), and that IMEIs
of sessions were reported on their connections (`Reported`). The interesting cases
are `LoginFrame` (`LoginDirectory`), where the replaced entry's connection is closed
by the same critical section, and `RemoveSession` (`RemoveDirectory`), where the
pointer comparison keeps the clean-up from removing another handler's entry. From
`MapInv` follow `LiveConnectionsReachable`, `OwnEntriesRemoved`, and, if every
connection logs in under one IMEI only (`OneIMEI`), `SessionsAreLive`: by `LastEntry`
every entry is then the last session of its handler, under its current IMEI.

`DirectoryImplemented`, also under `OneIMEI`: by the mapping `Phase`, `Current`, `Serving`, `Open` every step
of Sessions is a step of the directory or leaves it alone. A login is the directory's
`Login`; `RemoveSession` is its `Leave`, where the code compares session pointers and the
directory connections. The two agree because of `LastEntry`, which rests on `Keyed`,
`Reported` and `LastOfHandler` in `MapInv`.

**AnnouncementProofs.** What ThingsBoard is told. `ensureTBConnected`, `maybeConnectTB` and
the deferred clean-up each look up a Session, block in a call, and act on the Session
afterwards, when another handler may have replaced or removed it. `AnnounceInv` adds to
`MapInv` what each goroutine may rely on at each control point: past the registry check
its IMEI has been granted, past the announcement its device has been announced
(`CallSound`, `TaskSound`), a clean-up that announces the end has seen the flag
(`EndSound`). It is inductive because grants, announcements, flags and the IMEI of a
Session only ever grow (`Grows`), so what one goroutine has established no other undoes.
`OnlyClaimed`, `FlagsTrue`, `TelemetryAnnounced` and `DownOnlyAfterUp` follow.

**LifecycleProofs.** `LifecycleTypes`, `WaitGroupExact`, `OneLateHandler` and
`NoRetryAfterClose`, which needs that a closed listener implies `closing`
(`ClosingFirst`). The
invariant adds that the accept loop holds a connection exactly when it is about to hand
it over, and that the connection then has no handler (`Handing`), so `wg.Add` counts it
once; and that nothing has started before `main` starts it (`Starting`).

**FramingProofs.** `ExtractTakes`: for every buffer, `ExtractFrame` takes at least
one and at most all bytes, and a frame starts with a header and ends with `0D 0A`. It
rests on lemmas that bound what `findLBSHeader`, `contentBounds` and `findTrailer` return.
A frame is `Delimited` if `ExtractFrame` finds exactly it in front of whatever follows, and
nothing in a proper prefix of it. `FixedLayoutsDelimited`: a login, status, position, time
or settings frame is, whatever its content, `0D 0A` and header bytes included, because
`findTrailer` starts at the minimum length of the type. `CellReportsDelimited`: so is a
Wi-Fi/LBS report with cells of seven bytes, if no bytes before its cells are plausible as
their header and no `0D 0A` comes after its date (`CellReport`). `ExtractFrame` bounds the
search by what is in the buffer, so the proof goes through every way the buffer can end:
inside the access points, inside the cells (where six-byte cells may already fit, and the
search finds no trailer), or after the report, where the count tells the exact length
(`CellLeast`, `CellsInBuffer`).

**StreamProofs.** `StreamTypes` and `DrainTerminates` hold for every stream and every
split. `FramesAreSlices`, likewise: what is handed on are disjoint stretches of the
stream, in order, each from a header to a trailer (`Slices`); the invariant `Ahead` says that buffer
and wire are the rest of the stream from `Position` on. `PlainStreamsInOrder` and
`PlainStreamsDelivered`: if a stream is `Plain` (all its frames delimited, the stream
their concatenation) then they are handed on as sent, and all of them in the end.
`PlainInv` says that the handler stands at the end of as many frames as it has handed on,
and that when it waits, the next frame is not complete in its buffer. Concatenation is
stated by the positions at which frames end (`Cuts`), because what a fold computes cannot
be proved by induction here. A Wi-Fi/LBS report without cells is not delimited: where it
ends depends on the bytes that follow, and `frame_merge` shows what comes of it.

`NoisyStreams`: with bytes between the frames that are no frames, and in which no header
begins (`Amid`), what is handed on are frames sent, whole and in order. Frames may be lost
(a header split between two reads is dropped with the noise), so the invariant `NoiseInv`
cannot count them: it says that there is a growing choice of frames sent that are the ones
handed on, all begun before `Position` (`Chosen`). A frame is only found where a header
is; every header of the stream is in a frame, and the only one in a frame is at its start
(`OneHeaderEach`, a premise of `NothingInvented`), so the buffer then starts with a frame
that was sent, later than those chosen.

**RegistryProofs.** `RegistryTypes`, and `CachedAnswersRecent` for any number of callers and
any times to live. `RecentInv` adds that a call in progress began at most `Deadline` ago
(`InTime`), that an answer waiting to be stored was true at some time since its call
began (`ReplyTrue`), and that a stored answer was true at most `Deadline` before it was
stored (`CacheTrue`): calls overlap, and a slow one may overwrite a fresher entry.

**DownlinkProofs.** `DownlinkTypes` needs `Registering`: while a handler waits to close
the connection it replaces, the map still holds that connection, another one than its own,
and no second handler is at that point. `Server.mu` keeps registrations, removals and look-ups
out meanwhile. `WritesNeverDisturbed` follows from it and from the lock of a connection, and
`LockedDirectoryImplemented` takes `CloseOld`, the end of the critical section, as the
directory's `Login`; it assumes one IMEI per connection (`OneIMEI`), and `Reported` says
that entries are under IMEIs their connection reported. `AnswersTrue` needs `Accounted`: before the answer is chosen, what is
on the wires is exactly the good parts among those done, and a request that is not running
has left nothing there.

**TelemetryProofs.** The way of a value through the gateway: a lemma per field says where
the encoder puts it and that the parser reads it there (16- and 32-bit numbers, the course
next to its flag bits, nibbles of an IMEI in either filler convention);
`FixedLayoutsDelimited` brings the packet to its handler whole; a lemma per kind of frame
says what is published and answered. `ReportInv` needs `Sound`: the handler's `imei` is
that of the tracker that logged in last, and every lookup in progress carries the IMEI its
report was sent under and the time in it, since `Resolve` may publish after any number of
other logins. From it follow `PublishedForOwner`, for all frames; `FixedReportsTrue`, which
is `UplinkTrue` for all frames but ICCID and Wi-Fi/LBS; and `CommandsAlwaysExact`, for every
method and every value.

`FramesAnswered` is `AnswersMatch` for all frames, Wi-Fi/LBS reports included if `ExtractFrame`
finds a frame in their bytes at all (`Found`). It need not be the whole report: by
`RadioFrame` whatever is found has the report's type and starts with its date, since no
trailer is accepted within the date.

`TimesAlwaysOrdered` is `TimesOrdered` for all dates of the years 2000 to 2099 (`ValidDates`).
`Timed`, a part of `ReportInv`, says that what is published has the time of its report's
date: binary in positions, BCD in radio reports (`RadioDate`, for which a decimal date must
not be taken for a binary one). `DatesOrdered` says that `Date`, which carries into days as
`time.Date` does, keeps the order of dates: years and months are intervals of days in order
(`YearsGrow`, `MonthsGrow`), a date counts the minutes up to it and its second.

`AnnounceInv`, `RecentInv`, `ReportInv` and `Chosen` were also checked by TLC, as invariants
of the instances of `sessions`, `registry`, `telemetry` and `frame_stream`; so were the
hypotheses of the theorems that have any: the measurements of `telemetry` satisfy
`ValidDates` and `Found`, and the streams of `frame_stream` with noise satisfy `Amid`.

Only model-checked:

* liveness (`ClosedHandlerEnds`, `ReportAnswered`, `AcceptLoopEnds`, `ShutdownEnds`,
  `CallReturns`, `LoginCompletes`, `RequestAnswered`), which is outside this prover's
  reach;
* `InOrder` and `AllDelivered` for streams that end with a Wi-Fi/LBS report without cells,
  and `NothingInvented` for frames that are not delimited: they depend on the particular
  frames;
* `UplinkTrue` for the digits of an ICCID and for the access points and cells of Wi-Fi/LBS
  reports: their encoders and parsers select from and flatten sequences of any length,
  which takes induction over data.

## Not modelled

* the MQTT client's reconnect and what ThingsBoard remembers over it (external);
* `BuildACK` and the CRC, which no code of the gateway calls;
* `GET /health`, JSON that does not decode, status fields that are only logged: they
  change nothing;
* the contents of the geolocation exchange: an answer stands for what was asked;
* configuration (its values are constants), the mock client (logs), the toy tracker's
  sending loop (not part of the gateway), logging;
* `Session.LastSeen`, only shown by the debug API.

## Plan

1. Done: Sessions, Lifecycle, Framing and FrameStream, Registry; SessionDirectory and
   the two modules that implement it; Downlink with both locks; Messages and Telemetry;
   the proofs above.
2. Proofs: a Wi-Fi/LBS report without cells as the last frame of a stream.
3. Composition of Sessions and Lifecycle, for work that outlives `tb.Close`, once it is
   settled what a publish on a closed MQTT client does.
