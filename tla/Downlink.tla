------------------------------ MODULE Downlink ------------------------------
(***************************************************************************)
(* Commands on their way to trackers, and the two locks they meet:         *)
(* Server.mu around the session map and SafeConn.mu around every write and *)
(* close of a connection (internal/server/server.go). Commands come from   *)
(* ThingsBoard RPCs (internal/mqtt/client.go), the debug REST API          *)
(* (debug_api.go) or shared attributes, all through internal/command.      *)
(*                                                                         *)
(* Handlers are those of module Sessions without their uplink. Locks are   *)
(* not variables: SafeConn.mu of a connection is held while a goroutine is *)
(* at "writing" to it, Server.mu across steps only at "close", where       *)
(* registerSession waits for the lock of the connection it replaces; every *)
(* other critical section is one step.                                     *)
(***************************************************************************)
EXTENDS Naturals, Sequences

CONSTANTS
  Conns,     \* connections
  IMEIs,     \* tracker identities
  Reports,   \* Reports[c]: the IMEIs that login frames on c carry
  Threads,   \* goroutines that carry requests: the MQTT callback, HTTP handlers
  Requests,  \* Requests[r]: what r may be asked, see Request
  None       \* no connection, no IMEI, no request

\* A request is for a tracker; its parts are the packets it asks for, "bad" ones
\* having a value out of range or an unknown method. A list asks for none.
Request ==
  {q \in [via : {"rest", "rpc", "attrs", "list"}, imei : IMEIs, parts : Seq({"good", "bad"})] :
     q.via = "list" => q.parts = <<>>}

ASSUME DownlinkAssumption ==
  /\ Reports \in [Conns -> SUBSET IMEIs]
  /\ Requests \in [Threads -> SUBSET Request]
  /\ Conns \cap Threads = {}
  /\ None \notin Conns /\ None \notin IMEIs /\ None \notin Request

VARIABLES
  pc,        \* control point of every handler and every request's goroutine
  sessions,  \* Server.sessions: the connection of an IMEI's session, or None
  who,       \* the IMEI a handler last logged in with (imei in handleConn)
  want,      \* the IMEI a handler is registering
  closed,    \* connections the gateway has closed
  req,       \* the request a goroutine carries
  done,      \* how many parts of it are finished
  conn,      \* the connection SendToDevice found
  answer,    \* "none", "ok" or "error"
  wire       \* history: parts of requests in progress written whole to a connection

handlerVars == <<sessions, who, want, closed>>
requestVars == <<req, done, conn, answer, wire>>
vars == <<pc, handlerVars, requestVars>>

Writers == Conns \cup Threads

\* The connection a goroutine writes to.
Target(w) == IF w \in Conns THEN w ELSE conn[w]

ServerMuHeld == \E c \in Conns : pc[c] = "close"
ConnMuHeld(c) == \E w \in Writers : pc[w] = "writing" /\ Target(w) = c

Goto(w, from, to) ==
  /\ pc[w] = from
  /\ pc' = [pc EXCEPT ![w] = to]

Init ==
  /\ pc = [w \in Writers |-> IF w \in Conns THEN "read" ELSE "idle"]
  /\ sessions = [i \in IMEIs |-> None]
  /\ who = [c \in Conns |-> None]
  /\ want = [c \in Conns |-> None]
  /\ closed = {}
  /\ req = [r \in Threads |-> None]
  /\ done = [r \in Threads |-> 0]
  /\ conn = [r \in Threads |-> None]
  /\ answer = [r \in Threads |-> "none"]
  /\ wire = [c \in Conns |-> {}]

-----------------------------------------------------------------------------
(* Handlers.                                                               *)

Read(c) ==
  /\ c \notin closed
  /\ Goto(c, "read", "drain")
  /\ UNCHANGED <<handlerVars, requestVars>>

ReadFails(c) ==
  /\ Goto(c, "read", "ending")
  /\ UNCHANGED <<handlerVars, requestVars>>

DrainDone(c) ==
  /\ Goto(c, "drain", "read")
  /\ UNCHANGED <<handlerVars, requestVars>>

\* A frame other than a login that is answered.
AnswerFrame(c) ==
  /\ Goto(c, "drain", "write")
  /\ UNCHANGED <<handlerVars, requestVars>>

LoginFrame(c, i) ==
  /\ i \in Reports[c]
  /\ Goto(c, "drain", "register")
  /\ want' = [want EXCEPT ![c] = i]
  /\ UNCHANGED <<sessions, who, closed, requestVars>>

\* The rest of registerSession once no other connection is in the way; the
\* login ACK is written next.
Store(c) ==
  /\ sessions' = [sessions EXCEPT ![want[c]] = c]
  /\ who' = [who EXCEPT ![c] = want[c]]

\* registerSession takes Server.mu and keeps it if it has a connection to close.
Register(c) ==
  /\ pc[c] = "register"
  /\ ~ ServerMuHeld
  /\ IF sessions[want[c]] \in {None, c}
     THEN Goto(c, "register", "write") /\ Store(c)
     ELSE Goto(c, "register", "close") /\ UNCHANGED <<sessions, who>>
  /\ UNCHANGED <<want, closed, requestVars>>

CloseOldUnlocked(c) ==  \* mutant: Close does not take SafeConn.mu
  /\ Goto(c, "close", "write")
  /\ closed' = closed \cup {sessions[want[c]]}
  /\ Store(c)
  /\ UNCHANGED <<want, requestVars>>

CloseOldLeft(c) ==  \* mutant: the connection is not closed
  /\ Goto(c, "close", "write")
  /\ Store(c)
  /\ UNCHANGED <<want, closed, requestVars>>

CloseOld(c) ==
  /\ pc[c] = "close"
  /\ ~ ConnMuHeld(sessions[want[c]])
  /\ Goto(c, "close", "write")
  /\ closed' = closed \cup {sessions[want[c]]}
  /\ Store(c)
  /\ UNCHANGED <<want, requestVars>>

RemoveSession(c) ==
  /\ who[c] # None => ~ ServerMuHeld
  /\ Goto(c, "ending", "closing")
  /\ sessions' = [i \in IMEIs |-> IF i = who[c] /\ sessions[i] = c THEN None ELSE sessions[i]]
  /\ UNCHANGED <<who, want, closed, requestVars>>

Finish(c) ==
  /\ ~ ConnMuHeld(c)
  /\ Goto(c, "closing", "done")
  /\ closed' = closed \cup {c}
  /\ UNCHANGED <<sessions, who, want, requestVars>>

-----------------------------------------------------------------------------
(* Requests.                                                               *)

\* A request arrives. The MQTT client calls onRPC for one message at a time, so
\* RPCs have one goroutine; with QoS 1 the same RPC may arrive again.
Arrive(r, q) ==
  /\ Goto(r, "idle", "run")
  /\ req' = [req EXCEPT ![r] = q]
  /\ UNCHANGED <<handlerVars, done, conn, answer, wire>>

\* The outcome of the calls below is known: what remains is to answer.
Conclude(r, result) ==
  /\ Goto(r, "run", "respond")
  /\ answer' = [answer EXCEPT ![r] = result]
  /\ UNCHANGED <<handlerVars, req, done, conn, wire>>

\* GET /devices: ListSessions under Server.mu.
ListSessions(r) ==
  /\ req[r].via = "list"
  /\ ~ ServerMuHeld
  /\ Conclude(r, "ok")

\* No part is left. The interval handler refuses a request without parts.
AllParts(r) ==
  /\ req[r].via # "list"
  /\ done[r] = Len(req[r].parts)
  /\ Conclude(r, IF req[r].via = "rest" /\ req[r].parts = <<>> THEN "error" ELSE "ok")

\* ExecuteRPC refuses an unknown method or a value out of range;
\* ApplySharedAttributes skips it.
BadPart(r) ==
  /\ done[r] < Len(req[r].parts)
  /\ req[r].parts[done[r] + 1] = "bad"
  /\ IF req[r].via = "attrs"
     THEN /\ Goto(r, "run", "run")
          /\ done' = [done EXCEPT ![r] = @ + 1]
          /\ UNCHANGED <<handlerVars, req, conn, answer, wire>>
     ELSE Conclude(r, "error")

SendToDeviceUnchecked(r) ==  \* mutant: the look-up's ok is not tested
  /\ done[r] < Len(req[r].parts)
  /\ req[r].parts[done[r] + 1] = "good"
  /\ ~ ServerMuHeld
  /\ Goto(r, "run", "write")
  /\ conn' = [conn EXCEPT ![r] = sessions[req[r].imei]]
  /\ UNCHANGED <<handlerVars, req, done, answer, wire>>

\* SendToDevice: the session is looked up under Server.mu, the write comes later.
SendToDevice(r) ==
  LET c == sessions[req[r].imei] IN
  /\ done[r] < Len(req[r].parts)
  /\ req[r].parts[done[r] + 1] = "good"
  /\ ~ ServerMuHeld
  /\ IF c = None THEN Conclude(r, "error")
     ELSE /\ Goto(r, "run", "write")
          /\ conn' = [conn EXCEPT ![r] = c]
          /\ UNCHANGED <<handlerVars, req, done, answer, wire>>

\* The RPC response is published or the HTTP answer written; the goroutine ends
\* (its name is free for another one).
Respond(r) ==
  /\ Goto(r, "respond", "idle")
  /\ req' = [req EXCEPT ![r] = None]
  /\ done' = [done EXCEPT ![r] = 0]
  /\ conn' = [conn EXCEPT ![r] = None]
  /\ answer' = [answer EXCEPT ![r] = "none"]
  /\ wire' = [c \in Conns |-> {p \in wire[c] : p[1] # r}]
  /\ UNCHANGED handlerVars

-----------------------------------------------------------------------------
(* WriteWithDeadline, called by a handler or by SendToDevice. An ACK that  *)
(* cannot be written is only logged; an error ends a request.              *)

FailedIgnored(w) ==  \* mutant: the error is dropped and the next part is sent
  /\ pc' = [pc EXCEPT ![w] = IF w \in Conns THEN "drain" ELSE "run"]
  /\ done' = IF w \in Conns THEN done ELSE [done EXCEPT ![w] = @ + 1]
  /\ UNCHANGED <<handlerVars, req, conn, answer, wire>>

Failed(w) ==
  /\ IF w \in Conns
     THEN pc' = [pc EXCEPT ![w] = "drain"] /\ answer' = answer
     ELSE pc' = [pc EXCEPT ![w] = "respond"] /\ answer' = [answer EXCEPT ![w] = "error"]
  /\ UNCHANGED <<handlerVars, req, done, conn, wire>>

\* Once it has SafeConn.mu; a write to a closed connection fails at once.
BeginWrite(w) ==
  /\ pc[w] = "write"
  /\ ~ ConnMuHeld(Target(w))
  /\ IF Target(w) \in closed THEN Failed(w)
     ELSE Goto(w, "write", "writing") /\ UNCHANGED <<handlerVars, requestVars>>

\* The tracker's side has taken the whole packet.
WriteDone(w) ==
  /\ IF w \in Conns
     THEN Goto(w, "writing", "drain") /\ UNCHANGED <<done, wire>>
     ELSE /\ Goto(w, "writing", "run")
          /\ done' = [done EXCEPT ![w] = @ + 1]
          /\ wire' = [wire EXCEPT ![conn[w]] = @ \cup {<<w, done[w] + 1>>}]
  /\ UNCHANGED <<handlerVars, req, conn, answer>>

\* The deadline passes, or the tracker is gone.
WriteFailsReset(w) ==  \* mutant: no deadline, a tracker that reads nothing blocks
  /\ pc[w] = "writing"
  /\ Target(w) \in closed
  /\ Failed(w)

WriteFails(w) ==
  /\ pc[w] = "writing"
  /\ Failed(w)

-----------------------------------------------------------------------------
Handler(c) ==
  \/ Read(c) \/ ReadFails(c) \/ DrainDone(c) \/ AnswerFrame(c)
  \/ (\E i \in IMEIs : LoginFrame(c, i)) \/ Register(c) \/ CloseOld(c)
  \/ RemoveSession(c) \/ Finish(c)

Execute(r) ==
  /\ pc[r] = "run"
  /\ ListSessions(r) \/ AllParts(r) \/ BadPart(r) \/ SendToDevice(r)

Next ==
  \/ \E c \in Conns : Handler(c)
  \/ \E r \in Threads : (\E q \in Requests[r] : Arrive(r, q)) \/ Execute(r) \/ Respond(r)
  \/ \E w \in Writers : BeginWrite(w) \/ WriteDone(w) \/ WriteFails(w)

Spec == Init /\ [][Next]_vars

(***************************************************************************)
(* Fairness: a goroutine that waits for a lock gets it if it is released   *)
(* again and again (Go's mutexes hand over to a waiter that has waited too *)
(* long, hence SF); a write that the tracker does not take ends at its     *)
(* deadline; the broker takes the RPC's response. Nothing is assumed of    *)
(* the trackers.                                                           *)
(***************************************************************************)
Fairness ==
  /\ \A c \in Conns :
       /\ SF_vars(Register(c) \/ CloseOld(c) \/ BeginWrite(c))
       /\ WF_vars(WriteFails(c))
  /\ \A r \in Threads :
       /\ SF_vars(Execute(r) \/ BeginWrite(r))
       /\ WF_vars(WriteFails(r) \/ Respond(r))

FairSpec == Spec /\ Fairness

-----------------------------------------------------------------------------
HandlerPCs == {"read", "drain", "register", "close", "write", "writing", "ending", "closing", "done"}
RequestPCs == {"idle", "run", "write", "writing", "respond"}

TypeOK ==
  /\ pc \in [Writers -> HandlerPCs \cup RequestPCs]
  /\ \A c \in Conns :
       /\ pc[c] \in HandlerPCs
       /\ pc[c] \in {"register", "close"} => want[c] \in IMEIs
  /\ \A r \in Threads :
       /\ pc[r] \in RequestPCs
       /\ pc[r] # "idle" => req[r] \in Requests[r]
       /\ pc[r] \in {"write", "writing"} => conn[r] \in Conns
  /\ sessions \in [IMEIs -> Conns \cup {None}]
  /\ who \in [Conns -> IMEIs \cup {None}]
  /\ want \in [Conns -> IMEIs \cup {None}]
  /\ closed \in SUBSET Conns
  /\ req \in [Threads -> Request \cup {None}]
  /\ done \in [Threads -> Nat]
  /\ conn \in [Threads -> Conns \cup {None}]
  /\ answer \in [Threads -> {"none", "ok", "error"}]
  /\ wire \in [Conns -> SUBSET (Threads \X (Nat \ {0}))]

(* server.go:34 "SafeConn serialises all writes": while a goroutine writes *)
(* an ACK or a command, no other one writes to that connection, and        *)
(* neither a takeover nor the handler's own end closes it.                 *)
WritesUndisturbed ==
  \A w \in Writers : pc[w] = "writing" =>
    /\ Target(w) \notin closed
    /\ \A v \in Writers : pc[v] = "writing" /\ Target(v) = Target(w) => v = w

\* The parts of a request that are whole on some connection.
Sent(r) == {n \in 1 .. Len(req[r].parts) : \E c \in Conns : <<r, n>> \in wire[c]}

GoodUpTo(r, m) == {n \in 1 .. m : req[r].parts[n] = "good"}

(* Whatever takes the session over between look-up and write, and wherever *)
(* a request of two parts fails: an RPC or REST call that is answered with *)
(* success has put every packet it asked for, whole, on a connection; one  *)
(* answered with an error has put there exactly those before the one that  *)
(* failed.                                                                 *)
AnswerTellsWhatWasSent ==
  \A r \in Threads :
    /\ answer[r] = "ok" => Sent(r) = GoodUpTo(r, Len(req[r].parts))
    /\ answer[r] = "error" => Sent(r) = GoodUpTo(r, done[r])

Phase ==
  [c \in Conns |-> IF pc[c] = "closing" THEN "leaving"
                   ELSE IF pc[c] = "done" THEN "gone" ELSE "active"]
Open == Conns \ closed

Dir == INSTANCE SessionDirectory WITH
  phase <- Phase, current <- who, serving <- sessions, open <- Open

(* registerSession waits for the lock of another connection half-way and    *)
(* writes, look-ups and clean-ups run meanwhile: it still is one step of   *)
(* the directory of live connections, as long as a connection logs in      *)
(* under one IMEI (however often).                                         *)
ImplementsDirectory == Dir!Spec

(* registerSession holds Server.mu while it waits for the old connection's *)
(* lock, which a write to a tracker that no longer reads holds until its   *)
(* deadline: every login still completes, ...                              *)
LoginCompletes ==
  \A c \in Conns : pc[c] = "register" ~> pc[c] = "drain"

(* ... and every command, RPC or REST call is answered.                    *)
RequestAnswered ==
  \A r \in Threads : pc[r] = "run" ~> pc[r] = "idle"

=============================================================================
