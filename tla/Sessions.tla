------------------------------ MODULE Sessions ------------------------------
(***************************************************************************)
(* The connection handlers of zx909-gw (internal/server/server.go): one    *)
(* handleConn goroutine per tracker connection, the session map keyed by   *)
(* IMEI, and the goroutines that announce a tracker to ThingsBoard         *)
(* (maybeConnectTB) or resolve a Wi-Fi/LBS report (resolveAndPublishLBS).  *)
(* The accept loop and Shutdown are in module Lifecycle.                   *)
(*                                                                         *)
(* An action is a stretch of one goroutine that no other goroutine can     *)
(* interleave with: a critical section of Server.mu or Session.mu, or one  *)
(* blocking call (socket read or write, registry lookup, MQTT publish).    *)
(* Bytes, clocks, log lines and Session.LastSeen are left out; a frame is  *)
(* reduced to what its handler does to this state.                         *)
(***************************************************************************)
EXTENDS Naturals

CONSTANTS
  Conns,      \* connections trackers may open, each accepted at most once
  IMEIs,      \* tracker identities
  Reports,    \* Reports[c]: the IMEIs that login frames on c carry
  Kinds,      \* the kinds of frames the trackers send besides logins
  Lookups,    \* bound: resolveAndPublishLBS goroutines running at once
  MaxLogins,  \* bound: accepted login frames per connection
  None        \* nil *Session, no connection, no IMEI

ASSUME ConstantsAssumption ==
  /\ Reports \in [Conns -> SUBSET IMEIs]
  /\ Kinds \subseteq {"answer", "report", "iccid", "wifi"}
  /\ MaxLogins \in Nat \ {0}
  /\ Conns \cap Lookups = {}
  /\ None \notin Conns /\ None \notin IMEIs
  /\ None \notin Conns \X (1 .. MaxLogins)

(***************************************************************************)
(* A Session object is named by the connection whose handler created it    *)
(* and the number of that login on the connection; its Conn field is s[1]. *)
(***************************************************************************)
Sids == Conns \X (1 .. MaxLogins)

VARIABLES
  sessions,    \* Server.sessions: IMEI -> Session, None when absent
  nlogin,      \* number of Sessions the handler of a connection has created
  imeiOf,      \* Session.IMEI
  tbConnected, \* Session.tbConnected
  closed,      \* connections whose socket the gateway has closed
  hpc,         \* control point of each connection's handler
  task,        \* control point of the maybeConnectTB goroutine of a Session
  up,          \* ensureTBConnected + publish call in progress, per caller
  tb,          \* last presence ThingsBoard was told for an IMEI
  granted      \* history: the registry has answered "registered" for an IMEI

sessVars == <<sessions, nlogin, imeiOf, tbConnected>>
tbVars   == <<tb, granted>>
vars     == <<sessVars, closed, hpc, task, up, tbVars>>

HandlerPCs == {"none", "read", "drain", "registered", "report", "iccid", "reply",
               "ending", "removed", "announce", "closing", "done"}
TaskPCs    == {"none", "check", "connect", "mark", "done"}
UplinkPCs  == {"locate", "check", "lookup", "test", "connect", "mark", "publish"}
Callers    == Conns \cup Lookups
Idle       == [pc |-> "idle", imei |-> None, sess |-> None]

\* The local variables imei and sess of handleConn: both are set by the last
\* accepted login of the connection.
Sess(c) == IF nlogin[c] = 0 THEN None ELSE <<c, nlogin[c]>>
Imei(c) == IF nlogin[c] = 0 THEN None ELSE imeiOf[<<c, nlogin[c]>>]

Goto(c, from, to) ==
  /\ hpc[c] = from
  /\ hpc' = [hpc EXCEPT ![c] = to]

(***************************************************************************)
(* registerSession closes the connection of the session it replaces, unless*)
(* that is the caller's own; removeSession deletes the entry only while it *)
(* still is the caller's Session object.                                   *)
(***************************************************************************)
\* Mutants: the replaced connection is left open; the entry is deleted whoever
\* owns it; it is never deleted.
ClosedByLoginNever(c, i) == closed
SessionsWithoutAny(i, s) == [sessions EXCEPT ![i] = None]
SessionsWithoutNever(i, s) == sessions

ClosedByLogin(c, i) ==
  IF sessions[i] # None /\ sessions[i][1] # c THEN closed \cup {sessions[i][1]} ELSE closed

SessionsWithout(i, s) ==
  [sessions EXCEPT ![i] = IF @ = s THEN None ELSE @]

(***************************************************************************)
(* The publishes that announce a device's presence. A successful one has   *)
(* reached ThingsBoard; one that fails may have.                           *)
(***************************************************************************)
ConnectDevice(i, ok) ==
  \/ tb' = [tb EXCEPT ![i] = "up"]
  \/ ~ ok /\ tb' = tb

DisconnectDevice(i) ==
  \/ tb' = [tb EXCEPT ![i] = "down"]
  \/ tb' = tb

-----------------------------------------------------------------------------
Init ==
  /\ sessions = [i \in IMEIs |-> None]
  /\ nlogin = [c \in Conns |-> 0]
  /\ imeiOf = [s \in Sids |-> None]
  /\ tbConnected = [s \in Sids |-> FALSE]
  /\ closed = {}
  /\ hpc = [c \in Conns |-> "none"]
  /\ task = [s \in Sids |-> "none"]
  /\ up = [w \in Callers |-> Idle]
  /\ tb = [i \in IMEIs |-> "none"]
  /\ granted = [i \in IMEIs |-> FALSE]

-----------------------------------------------------------------------------
(* handleConn: the read loop and the deferred clean-up.                    *)

\* The accept loop hands the connection to a new handler goroutine.
Start(c) ==
  /\ Goto(c, "none", "read")
  /\ UNCHANGED <<sessVars, closed, task, up, tbVars>>

\* Read returns data; a socket the gateway closed returns none.
ReadData(c) ==
  /\ c \notin closed
  /\ Goto(c, "read", "drain")
  /\ UNCHANGED <<sessVars, closed, task, up, tbVars>>

\* Read fails: end of stream, the read deadline, a reset or a closed socket.
ReadFailsRetry(c) ==  \* mutant: the loop reads again after an error
  /\ Goto(c, "read", "read")
  /\ UNCHANGED <<sessVars, closed, task, up, tbVars>>

ReadFails(c) ==
  /\ Goto(c, "read", "ending")
  /\ UNCHANGED <<sessVars, closed, task, up, tbVars>>

\* drainFrames finds no further complete frame in the buffer.
DrainDone(c) ==
  /\ Goto(c, "drain", "read")
  /\ UNCHANGED <<sessVars, closed, task, up, tbVars>>

RemoveSession(c) ==
  \/ /\ nlogin[c] = 0
     /\ Goto(c, "ending", "closing")
     /\ UNCHANGED <<sessVars, closed, task, up, tbVars>>
  \/ /\ nlogin[c] > 0
     /\ Goto(c, "ending", "removed")
     /\ sessions' = SessionsWithout(Imei(c), Sess(c))
     /\ UNCHANGED <<nlogin, imeiOf, tbConnected, closed, task, up, tbVars>>

TestConnectedAlways(c) ==  \* mutant: the flag is not consulted
  /\ Goto(c, "removed", "announce")
  /\ UNCHANGED <<sessVars, closed, task, up, tbVars>>

TestConnected(c) ==
  /\ Goto(c, "removed", IF tbConnected[Sess(c)] THEN "announce" ELSE "closing")
  /\ UNCHANGED <<sessVars, closed, task, up, tbVars>>

\* The error of tb.DisconnectDevice is dropped.
Disconnect(c) ==
  /\ Goto(c, "announce", "closing")
  /\ DisconnectDevice(Imei(c))
  /\ UNCHANGED <<sessVars, closed, task, up, granted>>

\* The remaining deferred calls: sc.Close() (and wg.Done()).
Finish(c) ==
  /\ Goto(c, "closing", "done")
  /\ closed' = closed \cup {c}
  /\ UNCHANGED <<sessVars, task, up, tbVars>>

-----------------------------------------------------------------------------
(* handleFrame, by what a frame does.                                      *)

\* Login with a parsable IMEI: registerSession, under Server.mu.
LoginFrame(c, i) ==
  LET s == <<c, nlogin[c] + 1>> IN
  /\ i \in Reports[c]
  /\ nlogin[c] < MaxLogins
  /\ Goto(c, "drain", "registered")
  /\ closed' = ClosedByLogin(c, i)
  /\ nlogin' = [nlogin EXCEPT ![c] = @ + 1]
  /\ imeiOf' = [imeiOf EXCEPT ![s] = i]
  /\ sessions' = [sessions EXCEPT ![i] = s]
  /\ UNCHANGED <<tbConnected, task, up, tbVars>>

\* The login ACK is written, then maybeConnectTB is started.
LoginReply(c) ==
  /\ Goto(c, "registered", "drain")
  /\ task' = [task EXCEPT ![Sess(c)] = "check"]
  /\ UNCHANGED <<sessVars, closed, up, tbVars>>

\* A frame that is only answered: time sync, settings request, a login, GPS,
\* status or Wi-Fi/LBS body that does not parse, a status before login or
\* without a battery level, a Wi-Fi/LBS report with geolocation disabled or
\* before login.
AnswerFrame(c) ==
  /\ "answer" \in Kinds
  /\ Goto(c, "drain", "reply")
  /\ UNCHANGED <<sessVars, closed, task, up, tbVars>>

\* A GPS fix or battery status after login, answered when the publish call has
\* returned; an ICCID is published and not answered.
PublishFrameEarly(c) ==  \* mutant: published before login
  /\ \E kind \in {"report", "iccid"} \cap Kinds : Goto(c, "drain", kind)
  /\ up' = [up EXCEPT ![c] = [pc |-> "check", imei |-> Imei(c), sess |-> None]]
  /\ UNCHANGED <<sessVars, closed, task, tbVars>>

PublishFrame(c) ==
  /\ nlogin[c] > 0
  /\ \E kind \in {"report", "iccid"} \cap Kinds : Goto(c, "drain", kind)
  /\ up' = [up EXCEPT ![c] = [pc |-> "check", imei |-> Imei(c), sess |-> None]]
  /\ UNCHANGED <<sessVars, closed, task, tbVars>>

\* A Wi-Fi/LBS report after login: resolveAndPublishLBS is started.
WifiFrame(c, l) ==
  /\ "wifi" \in Kinds
  /\ nlogin[c] > 0
  /\ up[l].pc = "idle"
  /\ Goto(c, "drain", "reply")
  /\ up' = [up EXCEPT ![l] = [pc |-> "locate", imei |-> Imei(c), sess |-> None]]
  /\ UNCHANGED <<sessVars, closed, task, tbVars>>

\* writeFrame: a failed write is only logged.
Reply(c) ==
  /\ Goto(c, "reply", "drain")
  /\ UNCHANGED <<sessVars, closed, task, up, tbVars>>

-----------------------------------------------------------------------------
(* maybeConnectTB(sess, imei), one goroutine per accepted login.           *)

TaskStep(s, from, to) ==
  /\ task[s] = from
  /\ task' = [task EXCEPT ![s] = to]
  /\ UNCHANGED <<sessions, nlogin, imeiOf, closed, hpc, up>>

\* uplinkAllowed: the registry's answer is arbitrary (claims come and go, the
\* cache may be stale, errors answer "not registered").
TaskCheckSkipped(s) ==  \* mutant: the registry is not consulted
  /\ TaskStep(s, "check", "connect")
  /\ UNCHANGED <<tbConnected, tb, granted>>

TaskCheck(s) ==
  \/ /\ TaskStep(s, "check", "connect")
     /\ granted' = [granted EXCEPT ![imeiOf[s]] = TRUE]
     /\ UNCHANGED <<tbConnected, tb>>
  \/ /\ TaskStep(s, "check", "done")
     /\ UNCHANGED <<tbConnected, tb, granted>>

TaskConnectUnchecked(s) ==  \* mutant: the error of ConnectDevice is ignored
  /\ TaskStep(s, "connect", "mark")
  /\ ConnectDevice(imeiOf[s], FALSE)
  /\ UNCHANGED <<tbConnected, granted>>

TaskConnect(s) ==
  \/ /\ TaskStep(s, "connect", "mark")
     /\ ConnectDevice(imeiOf[s], TRUE)
     /\ UNCHANGED <<tbConnected, granted>>
  \/ /\ TaskStep(s, "connect", "done")
     /\ ConnectDevice(imeiOf[s], FALSE)
     /\ UNCHANGED <<tbConnected, granted>>

TaskMark(s) ==
  /\ TaskStep(s, "mark", "done")
  /\ tbConnected' = [tbConnected EXCEPT ![s] = TRUE]
  /\ UNCHANGED <<tb, granted>>

-----------------------------------------------------------------------------
(* publishLocation / publishTelemetry through ensureTBConnected, called by a *)
(* handler or by a resolveAndPublishLBS goroutine w. The call keeps the    *)
(* IMEI it was made with and the Session it looked up.                     *)

\* The call returns: a goroutine ends, a handler goes on to its reply.
ReturnUnanswered(w) ==  \* mutant: the reply after a publish is forgotten
  /\ up' = [up EXCEPT ![w] = Idle]
  /\ hpc' = IF w \in Conns THEN [hpc EXCEPT ![w] = "drain"] ELSE hpc

Return(w) ==
  /\ up' = [up EXCEPT ![w] = Idle]
  /\ hpc' = IF w \in Conns
            THEN [hpc EXCEPT ![w] = IF @ = "report" THEN "reply" ELSE "drain"]
            ELSE hpc

At(w, pc) == up[w].pc = pc

Advance(w, pc) == up' = [up EXCEPT ![w].pc = pc] /\ hpc' = hpc

\* geo.Locate answers a position, or fails and nothing is published.
Locate(l) ==
  /\ At(l, "locate")
  /\ Advance(l, "check") \/ Return(l)
  /\ UNCHANGED <<sessVars, closed, task, tbVars>>

Check(w) ==
  /\ At(w, "check")
  /\ \/ /\ Advance(w, "lookup")
        /\ granted' = [granted EXCEPT ![up[w].imei] = TRUE]
     \/ /\ Return(w)
        /\ granted' = granted
  /\ UNCHANGED <<sessVars, closed, task, tb>>

\* sess := s.sessions[imei], under Server.mu; a device with no session any
\* more goes straight to ConnectDevice.
Lookup(w) ==
  LET s == sessions[up[w].imei] IN
  /\ At(w, "lookup")
  /\ up' = [up EXCEPT ![w] = [pc |-> IF s = None THEN "connect" ELSE "test",
                              imei |-> up[w].imei, sess |-> s]]
  /\ UNCHANGED <<sessVars, closed, hpc, task, tbVars>>

Test(w) ==
  /\ At(w, "test")
  /\ Advance(w, IF tbConnected[up[w].sess] THEN "publish" ELSE "connect")
  /\ UNCHANGED <<sessVars, closed, task, tbVars>>

ConnectUnchecked(w) ==  \* mutant: the error of ConnectDevice is ignored
  /\ At(w, "connect")
  /\ Advance(w, "mark")
  /\ ConnectDevice(up[w].imei, FALSE)
  /\ UNCHANGED <<sessVars, closed, task, granted>>

Connect(w) ==
  /\ At(w, "connect")
  /\ \/ Advance(w, "mark") /\ ConnectDevice(up[w].imei, TRUE)
     \/ Return(w) /\ ConnectDevice(up[w].imei, FALSE)
  /\ UNCHANGED <<sessVars, closed, task, granted>>

Mark(w) ==
  LET s == up[w].sess IN
  /\ At(w, "mark")
  /\ Advance(w, "publish")
  /\ tbConnected' = IF s = None THEN tbConnected ELSE [tbConnected EXCEPT ![s] = TRUE]
  /\ UNCHANGED <<sessions, nlogin, imeiOf, closed, task, tbVars>>

\* tb.PublishTelemetry; its error is logged or dropped.
Publish(w) ==
  /\ At(w, "publish")
  /\ Return(w)
  /\ UNCHANGED <<sessVars, closed, task, tbVars>>

-----------------------------------------------------------------------------
Handler(c) ==
  \/ Start(c) \/ ReadData(c) \/ ReadFails(c) \/ DrainDone(c)
  \/ RemoveSession(c) \/ TestConnected(c) \/ Disconnect(c) \/ Finish(c)
  \/ (\E i \in IMEIs : LoginFrame(c, i)) \/ LoginReply(c)
  \/ AnswerFrame(c) \/ PublishFrame(c) \/ Reply(c)
  \/ (\E l \in Lookups : WifiFrame(c, l))

ConnectTask(s) == TaskCheck(s) \/ TaskConnect(s) \/ TaskMark(s)

Uplink(w) == Check(w) \/ Lookup(w) \/ Test(w) \/ Connect(w) \/ Mark(w) \/ Publish(w)

Next ==
  \/ \E c \in Conns : Handler(c)
  \/ \E s \in Sids : ConnectTask(s)
  \/ \E w \in Callers : Uplink(w)
  \/ \E l \in Lookups : Locate(l)

Spec == Init /\ [][Next]_vars

-----------------------------------------------------------------------------
(* Fairness. Every gateway step is taken once it stays possible: socket    *)
(* writes, registry and geolocation calls carry deadlines in the code. A   *)
(* drain ends because the buffer it works on is finite, although complete  *)
(* frames may follow one another in it (hence SF). A read on a socket the  *)
(* gateway closed fails. MQTT publishes wait on a token without a deadline,*)
(* so that they return is an assumption of its own on the broker.          *)

GatewayFairness ==
  /\ \A c \in Conns :
       /\ WF_vars(RemoveSession(c) \/ TestConnected(c) \/ Finish(c) \/ LoginReply(c) \/ Reply(c))
       /\ SF_vars(DrainDone(c))
       /\ WF_vars(c \in closed /\ ReadFails(c))
  /\ \A w \in Callers : WF_vars(Check(w) \/ Lookup(w) \/ Test(w) \/ Mark(w))

BrokerFairness ==
  /\ \A c \in Conns : WF_vars(Disconnect(c))
  /\ \A w \in Callers : WF_vars(Connect(w) \/ Publish(w))

FairSpec == Spec /\ GatewayFairness /\ BrokerFairness
BrokerStallsSpec == Spec /\ GatewayFairness

-----------------------------------------------------------------------------
TypeOK ==
  /\ sessions \in [IMEIs -> Sids \cup {None}]
  /\ nlogin \in [Conns -> 0 .. MaxLogins]
  /\ imeiOf \in [Sids -> IMEIs \cup {None}]
  /\ tbConnected \in [Sids -> BOOLEAN]
  /\ closed \in SUBSET Conns
  /\ hpc \in [Conns -> HandlerPCs]
  /\ task \in [Sids -> TaskPCs]
  /\ up \in [Callers -> {Idle} \cup [pc : UplinkPCs, imei : IMEIs, sess : Sids \cup {None}]]
  /\ tb \in [IMEIs -> {"none", "up", "down"}]
  /\ granted \in [IMEIs -> BOOLEAN]

Active == {"read", "drain", "registered", "report", "iccid", "reply", "ending"}

(* server.go:72 "Session is one live tracker TCP connection": an entry of  *)
(* the session map belongs to a handler that still runs its read loop. It  *)
(* holds as long as a connection only ever logs in under one IMEI; after a *)
(* login under a second one, removeSession never removes the first entry.  *)
SessionIsLive ==
  \A i \in IMEIs : sessions[i] # None => hpc[sessions[i][1]] \in Active

(* registerSession and removeSession together: a logged-in connection the  *)
(* gateway has not closed is the one the session map holds for its IMEI,   *)
(* whatever logins, takeovers and clean-ups of other handlers interleave,  *)
(* so commands reach it (and no two open connections share an IMEI).       *)
LiveConnReachable ==
  \A c \in Conns :
    hpc[c] \in Active /\ c \notin closed /\ nlogin[c] > 0 => sessions[Imei(c)] = Sess(c)

(***************************************************************************)
(* The directory the handlers keep, as module SessionDirectory describes   *)
(* it: a handler leaves when removeSession has run and is gone when its    *)
(* connection is closed.                                                   *)
(***************************************************************************)
Phase ==
  [c \in Conns |-> IF hpc[c] \in Active \cup {"none"} THEN "active"
                   ELSE IF hpc[c] = "done" THEN "gone" ELSE "leaving"]
Current == [c \in Conns |-> Imei(c)]
Serving == [i \in IMEIs |-> IF sessions[i] = None THEN None ELSE sessions[i][1]]
Open    == Conns \ closed

Dir == INSTANCE SessionDirectory WITH
  phase <- Phase, current <- Current, serving <- Serving, open <- Open

(* registerSession and removeSession keep a directory of live connections: *)
(* with Session objects compared by pointer and the clean-up in several    *)
(* steps, every step of any handler is a login that closes exactly the     *)
(* connection it replaces, a departure that gives up all the connection    *)
(* still serves and nothing of another's, or invisible. The handler only   *)
(* remembers its last IMEI, so this too holds as long as a connection logs *)
(* in under one.                                                           *)
ImplementsDirectory == Dir!Spec

(* uplinkAllowed guards every path to ThingsBoard: no device is announced  *)
(* (in either direction) that the registry never answered for.             *)
OnlyClaimedAnnounced ==
  \A i \in IMEIs : tb[i] # "none" => granted[i]

(* Session.tbConnected, "true after successful TB ConnectDevice": a flag,  *)
(* set by whichever goroutine on whichever Session object it looked up, is *)
(* never set for a device that was not announced.                          *)
FlagMeansAnnounced ==
  \A s \in Sids : tbConnected[s] => imeiOf[s] # None /\ tb[imeiOf[s]] # "none"

(* ensureTBConnected: telemetry of a device is only sent after the device  *)
(* was announced, also by a lookup that outlives the session it found.     *)
TelemetryAfterConnect ==
  \A w \in Callers : At(w, "publish") => tb[up[w].imei] # "none"

(* ThingsBoard is never told that a device it was never told of went       *)
(* offline.                                                                *)
NeverDownBeforeUp ==
  [][\A i \in IMEIs : tb[i] = "none" => tb'[i] # "down"]_vars

(* client.go:96 "DisconnectDevice announces a child device went offline":  *)
(* when it is announced, no session of that device is in the map.          *)
DisconnectMeansOffline ==
  [][\A i \in IMEIs : tb[i] = "up" /\ tb'[i] = "down" => sessions[i] = None]_vars

(* A takeover takes effect: the handler of a connection that another login *)
(* closed cleans up and ends, whatever its buffer still holds.             *)
ClosedHandlerEnds ==
  \A c \in Conns : c \in closed ~> hpc[c] = "done"

(* README.md:80 "Must-reply (device reconnects if ignored)": a GPS or      *)
(* status frame is answered.                                               *)
ReportAnswered ==
  \A c \in Conns : hpc[c] = "report" ~> hpc[c] = "reply"

=============================================================================
