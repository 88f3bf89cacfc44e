--------------------------- MODULE DownlinkProofs ---------------------------
(***************************************************************************)
(* Theorems about module Downlink, for any number of connections, IMEIs,   *)
(* goroutines and requests.                                                *)
(***************************************************************************)
EXTENDS Downlink, TLAPS

-----------------------------------------------------------------------------
(* Types and the critical section of registerSession.                      *)

\* registerSession waits for another connection's lock only while the map holds
\* that connection, and nobody else is at that point: Server.mu excludes other
\* registrations and removals.
Registering ==
  \A c \in Conns : pc[c] = "close" =>
    /\ sessions[want[c]] \in Conns \ {c}
    /\ \A d \in Conns : pc[d] = "close" => d = c

TypeInv == TypeOK /\ Registering

LEMMA InitTypeInv == Init => TypeInv
BY DownlinkAssumption DEF Init, TypeInv, TypeOK, Registering, Writers, HandlerPCs, RequestPCs

\* A step of a handler that only moves its control point, not into registration.
LEMMA MoveTypeInv ==
  ASSUME TypeInv, NEW c \in Conns, NEW to \in HandlerPCs \ {"register", "close"},
         pc' = [pc EXCEPT ![c] = to], UNCHANGED <<sessions, who, want, requestVars>>,
         closed' \in {closed, closed \cup {c}}
  PROVE  TypeInv'
BY DownlinkAssumption DEF TypeInv, TypeOK, Registering, Writers, HandlerPCs, requestVars

\* registerSession has stored the session.
LEMMA StoreTypeInv ==
  ASSUME TypeInv, NEW c \in Conns, pc[c] \in {"register", "close"},
         pc[c] = "register" => ~ ServerMuHeld,
         pc' = [pc EXCEPT ![c] = "write"], Store(c), UNCHANGED <<want, requestVars>>,
         closed' \in SUBSET Conns
  PROVE  TypeInv'
<1>1. want[c] \in IMEIs /\ \A d \in Conns \ {c} : pc[d] # "close"
  BY DEF TypeInv, TypeOK, Registering, ServerMuHeld
<1>2. TypeOK'
  BY <1>1, DownlinkAssumption DEF TypeInv, TypeOK, Store, Writers, HandlerPCs, requestVars
<1>3. Registering'
  BY <1>1 DEF TypeInv, TypeOK, Registering, Writers
<1> QED BY <1>2, <1>3 DEF TypeInv

LEMMA HandlerTypeInv ==
  ASSUME TypeInv, NEW c \in Conns, Handler(c)
  PROVE  TypeInv'
<1>1. CASE Read(c) \/ ReadFails(c) \/ DrainDone(c) \/ AnswerFrame(c) \/ Finish(c)
  BY <1>1, MoveTypeInv DEF Read, ReadFails, DrainDone, AnswerFrame, Finish, Goto, HandlerPCs, handlerVars
<1>2. ASSUME NEW i \in IMEIs, LoginFrame(c, i) PROVE TypeInv'
  BY <1>2, DownlinkAssumption
     DEF LoginFrame, Goto, TypeInv, TypeOK, Registering, Writers, HandlerPCs, requestVars
<1>3. CASE Register(c) /\ sessions[want[c]] \in {None, c}
  <2>1. closed' \in SUBSET Conns
    BY <1>3 DEF Register, TypeInv, TypeOK
  <2> QED BY <1>3, <2>1, StoreTypeInv DEF Register, Goto
<1>4. CASE Register(c) /\ sessions[want[c]] \notin {None, c}
  <2>1. /\ pc[c] = "register" /\ pc' = [pc EXCEPT ![c] = "close"] /\ ~ ServerMuHeld
        /\ UNCHANGED <<sessions, who, want, closed, requestVars>>
    BY <1>4 DEF Register, Goto
  <2>2. want[c] \in IMEIs /\ sessions[want[c]] \in Conns \ {c}
    BY <1>4, <2>1 DEF TypeInv, TypeOK
  <2>3. TypeOK'
    BY <2>1, <2>2, DownlinkAssumption DEF TypeInv, TypeOK, Writers, HandlerPCs, requestVars
  <2>4. Registering'
    BY <2>1, <2>2 DEF ServerMuHeld, TypeInv, TypeOK, Registering, Writers
  <2> QED BY <2>3, <2>4 DEF TypeInv
<1>5. CASE CloseOld(c)
  <2>1. closed' \in SUBSET Conns
    BY <1>5 DEF CloseOld, TypeInv, TypeOK, Registering
  <2> QED BY <1>5, <2>1, StoreTypeInv DEF CloseOld, Goto
<1>6. CASE RemoveSession(c)
  <2>1. /\ pc' = [pc EXCEPT ![c] = "closing"] /\ UNCHANGED <<who, want, closed, requestVars>>
        /\ sessions' = [i \in IMEIs |-> IF i = who[c] /\ sessions[i] = c THEN None ELSE sessions[i]]
    BY <1>6 DEF RemoveSession, Goto
  <2>2. TypeOK'
    BY <2>1, DownlinkAssumption DEF TypeInv, TypeOK, Writers, HandlerPCs, requestVars
  <2>3. Registering'
    <3> SUFFICES ASSUME NEW d \in Conns, pc'[d] = "close"
                 PROVE  /\ sessions'[want'[d]] \in Conns \ {d}
                        /\ \A e \in Conns : pc'[e] = "close" => e = d
      BY DEF Registering
    <3>1. pc[d] = "close" /\ \A e \in Conns : pc'[e] = "close" => pc[e] = "close"
      BY <2>1 DEF TypeInv, TypeOK, Writers
    <3>2. who[c] = None /\ want[d] \in IMEIs
      BY <1>6, <3>1 DEF RemoveSession, ServerMuHeld, TypeInv, TypeOK
    <3>3. sessions'[want[d]] = sessions[want[d]]
      BY <2>1, <3>2, DownlinkAssumption
    <3> QED BY <2>1, <3>1, <3>3 DEF TypeInv, Registering
  <2> QED BY <2>2, <2>3 DEF TypeInv
<1> QED BY <1>1, <1>2, <1>3, <1>4, <1>5, <1>6 DEF Handler, Register

\* A goroutine with a request has one of those it may be asked.
LEMMA RequestType ==
  ASSUME TypeInv, NEW r \in Threads, pc[r] # "idle"
  PROVE  /\ req[r] \in Request /\ req[r].imei \in IMEIs /\ req[r].parts \in Seq({"good", "bad"})
         /\ req[r].via = "list" => req[r].parts = <<>>
BY DownlinkAssumption DEF TypeInv, TypeOK, Request

\* Steps of a request leave the handlers alone.
LEMMA RequestTypeInv ==
  ASSUME TypeInv, NEW r \in Threads, NEW to \in RequestPCs,
         pc' = [pc EXCEPT ![r] = to], UNCHANGED handlerVars,
         req' \in [Threads -> Request \cup {None}], done' \in [Threads -> Nat],
         conn' \in [Threads -> Conns \cup {None}], answer' \in [Threads -> {"none", "ok", "error"}],
         wire' \in [Conns -> SUBSET (Threads \X (Nat \ {0}))],
         \A t \in Threads \ {r} : req'[t] = req[t] /\ conn'[t] = conn[t],
         to # "idle" => req'[r] \in Requests[r],
         to \in {"write", "writing"} => conn'[r] \in Conns
  PROVE  TypeInv'
<1>1. TypeOK'
  BY DownlinkAssumption DEF TypeInv, TypeOK, Writers, RequestPCs, handlerVars
<1>2. Registering'
  BY DownlinkAssumption DEF TypeInv, TypeOK, Registering, Writers, handlerVars
<1> QED BY <1>1, <1>2 DEF TypeInv

LEMMA ConcludeTypeInv ==
  ASSUME TypeInv, NEW r \in Threads, NEW result \in {"ok", "error"}, Conclude(r, result)
  PROVE  TypeInv'
BY RequestTypeInv DEF Conclude, Goto, TypeInv, TypeOK, RequestPCs

LEMMA ThreadTypeInv ==
  ASSUME TypeInv, NEW r \in Threads,
         (\E q \in Requests[r] : Arrive(r, q)) \/ Execute(r) \/ Respond(r)
  PROVE  TypeInv'
<1>1. ASSUME NEW q \in Requests[r], Arrive(r, q) PROVE TypeInv'
  <2>1. q \in Request
    BY DownlinkAssumption
  <2> QED BY <1>1, <2>1, RequestTypeInv DEF Arrive, Goto, TypeInv, TypeOK, RequestPCs
<1>2. CASE Execute(r)
  <2>1. pc[r] = "run" /\ req[r].imei \in IMEIs
    BY <1>2, RequestType DEF Execute
  <2>2. CASE ListSessions(r) \/ AllParts(r)
    BY <2>2, ConcludeTypeInv DEF ListSessions, AllParts
  <2>3. CASE BadPart(r)
    <3>1. CASE req[r].via = "attrs"
      <4>1. /\ pc' = [pc EXCEPT ![r] = "run"] /\ done' = [done EXCEPT ![r] = done[r] + 1]
            /\ UNCHANGED <<handlerVars, req, conn, answer, wire>>
        BY <2>3, <3>1 DEF BadPart, Goto
      <4>2. req[r] \in Requests[r] /\ done[r] + 1 \in Nat
        BY <2>1 DEF TypeInv, TypeOK
      <4> QED BY <4>1, <4>2, RequestTypeInv DEF TypeInv, TypeOK, RequestPCs
    <3> QED BY <2>3, <3>1, ConcludeTypeInv DEF BadPart
  <2>4. CASE SendToDevice(r)
    <3>1. CASE sessions[req[r].imei] = None
      BY <2>4, <3>1, ConcludeTypeInv DEF SendToDevice
    <3>2. CASE sessions[req[r].imei] # None
      <4>1. /\ pc' = [pc EXCEPT ![r] = "write"] /\ UNCHANGED <<handlerVars, req, done, answer, wire>>
            /\ conn' = [conn EXCEPT ![r] = sessions[req[r].imei]]
        BY <2>4, <3>2 DEF SendToDevice, Goto
      <4>2. sessions[req[r].imei] \in Conns /\ req[r] \in Requests[r]
        BY <2>1, <3>2 DEF TypeInv, TypeOK
      <4> QED BY <4>1, <4>2, RequestTypeInv DEF TypeInv, TypeOK, RequestPCs
    <3> QED BY <3>1, <3>2
  <2> QED BY <1>2, <2>2, <2>3, <2>4 DEF Execute
<1>3. CASE Respond(r)
  <2>1. wire' \in [Conns -> SUBSET (Threads \X (Nat \ {0}))]
    BY <1>3 DEF Respond, TypeInv, TypeOK
  <2>2. /\ pc' = [pc EXCEPT ![r] = "idle"] /\ UNCHANGED handlerVars
        /\ req' = [req EXCEPT ![r] = None] /\ done' = [done EXCEPT ![r] = 0]
        /\ conn' = [conn EXCEPT ![r] = None] /\ answer' = [answer EXCEPT ![r] = "none"]
    BY <1>3 DEF Respond, Goto
  <2> QED BY <2>1, <2>2, RequestTypeInv DEF TypeInv, TypeOK, RequestPCs
<1> QED BY <1>1, <1>2, <1>3

LEMMA FailedTypeInv ==
  ASSUME TypeInv, NEW w \in Writers, pc[w] \in {"write", "writing"}, Failed(w)
  PROVE  TypeInv'
<1>1. CASE w \in Conns
  BY <1>1, MoveTypeInv DEF Failed, HandlerPCs, handlerVars, requestVars
<1>2. CASE w \in Threads
  <2>1. w \notin Conns
    BY <1>2, DownlinkAssumption
  <2> QED BY <1>2, <2>1, RequestTypeInv DEF Failed, TypeInv, TypeOK, RequestPCs
<1> QED BY <1>1, <1>2 DEF Writers

LEMMA WriteTypeInv ==
  ASSUME TypeInv, NEW w \in Writers, BeginWrite(w) \/ WriteDone(w) \/ WriteFails(w)
  PROVE  TypeInv'
<1>1. CASE WriteFails(w) \/ (BeginWrite(w) /\ Target(w) \in closed)
  BY <1>1, FailedTypeInv DEF WriteFails, BeginWrite
<1>2. CASE w \in Conns /\ (WriteDone(w) \/ (BeginWrite(w) /\ Target(w) \notin closed))
  BY <1>2, MoveTypeInv DEF WriteDone, BeginWrite, Goto, HandlerPCs, handlerVars, requestVars
<1>3. CASE w \in Threads /\ BeginWrite(w) /\ Target(w) \notin closed
  BY <1>3, RequestTypeInv DEF BeginWrite, Goto, TypeInv, TypeOK, RequestPCs, requestVars
<1>4. CASE w \in Threads /\ WriteDone(w)
  <2>1. w \notin Conns
    BY <1>4, DownlinkAssumption
  <2>2. done[w] + 1 \in Nat \ {0} /\ conn[w] \in Conns
    BY <1>4, <2>1 DEF WriteDone, Goto, TypeInv, TypeOK
  <2> QED BY <1>4, <2>1, <2>2, RequestTypeInv DEF WriteDone, Goto, TypeInv, TypeOK, RequestPCs
<1> QED BY <1>1, <1>2, <1>3, <1>4 DEF Writers

LEMMA StutterTypeInv == TypeInv /\ UNCHANGED vars => TypeInv'
BY DEF TypeInv, TypeOK, Registering, vars, handlerVars, requestVars

LEMMA TypeInvariance == Spec => []TypeInv
<1>1. TypeInv /\ [Next]_vars => TypeInv'
  BY HandlerTypeInv, ThreadTypeInv, WriteTypeInv, StutterTypeInv DEF Next
<1> QED BY <1>1, InitTypeInv, PTL DEF Spec

(* Every variable keeps its type: in particular SendToDevice never writes  *)
(* to a connection it did not find, and registerSession never closes one   *)
(* that is not there.                                                      *)
THEOREM DownlinkTypes == Spec => []TypeOK
<1>1. TypeInv => TypeOK
  BY DEF TypeInv
<1> QED BY <1>1, TypeInvariance, PTL

-----------------------------------------------------------------------------
(* Writes. WritesUndisturbed is inductive given the types.                 *)

LEMMA HandlerWrites ==
  ASSUME TypeInv, WritesUndisturbed, NEW c \in Conns, Handler(c)
  PROVE  WritesUndisturbed'
<1>1. conn' = conn /\ \A w \in Writers : Target(w)' = Target(w)
  BY DEF Handler, Read, ReadFails, DrainDone, AnswerFrame, LoginFrame, Register, CloseOld,
     RemoveSession, Finish, requestVars, Target
<1>2. \A w \in Writers : pc'[w] = "writing" => pc[w] = "writing"
  BY DEF Handler, Read, ReadFails, DrainDone, AnswerFrame, LoginFrame, Register, CloseOld,
     RemoveSession, Finish, Goto, TypeInv, TypeOK, Writers
<1>3. \A w \in Writers : pc[w] = "writing" => Target(w) \notin closed' \ closed
  BY DEF Handler, Read, ReadFails, DrainDone, AnswerFrame, LoginFrame, Register, CloseOld,
     RemoveSession, Finish, ConnMuHeld, handlerVars
<1> QED BY <1>1, <1>2, <1>3 DEF WritesUndisturbed

LEMMA ThreadWrites ==
  ASSUME TypeInv, WritesUndisturbed, NEW r \in Threads,
         (\E q \in Requests[r] : Arrive(r, q)) \/ Execute(r) \/ Respond(r)
  PROVE  WritesUndisturbed'
<1>1. closed' = closed /\ pc[r] # "writing" /\ pc'[r] # "writing"
  BY DEF Arrive, Execute, ListSessions, AllParts, BadPart, SendToDevice, Conclude, Respond, Goto,
     handlerVars, TypeInv, TypeOK, Writers
<1>2. \A w \in Writers \ {r} : pc'[w] = pc[w]
  BY DEF Arrive, Execute, ListSessions, AllParts, BadPart, SendToDevice, Conclude, Respond, Goto,
     TypeInv, TypeOK, Writers
<1>3. \A t \in Threads \ {r} : conn'[t] = conn[t]
  BY DEF Arrive, Execute, ListSessions, AllParts, BadPart, SendToDevice, Conclude, Respond, TypeInv, TypeOK
<1>4. \A w \in Writers \ {r} : Target(w)' = Target(w)
  BY <1>3 DEF Target, Writers
<1> QED BY <1>1, <1>2, <1>4 DEF WritesUndisturbed

LEMMA WriterWrites ==
  ASSUME TypeInv, WritesUndisturbed, NEW w \in Writers, BeginWrite(w) \/ WriteDone(w) \/ WriteFails(w)
  PROVE  WritesUndisturbed'
<1>1. closed' = closed /\ conn' = conn /\ \A v \in Writers : Target(v)' = Target(v)
  BY DEF BeginWrite, WriteDone, WriteFails, Failed, Goto, handlerVars, requestVars, Target
<1>2. \A v \in Writers \ {w} : pc'[v] = pc[v]
  BY DEF BeginWrite, WriteDone, WriteFails, Failed, Goto, TypeInv, TypeOK, Writers
<1>3. CASE pc'[w] = "writing"
  <2>1. ~ ConnMuHeld(Target(w)) /\ Target(w) \notin closed
    BY <1>3 DEF BeginWrite, WriteDone, WriteFails, Failed, Goto, TypeInv, TypeOK, Writers
  <2> QED BY <1>1, <1>2, <2>1 DEF WritesUndisturbed, ConnMuHeld
<1>4. CASE pc'[w] # "writing"
  BY <1>1, <1>2, <1>4 DEF WritesUndisturbed
<1> QED BY <1>3, <1>4

(* SafeConn.mu does its work for any number of handlers and requests: no   *)
(* two packets are ever written to a connection at the same time, and none *)
(* is being written when the connection is closed.                         *)
THEOREM WritesNeverDisturbed == Spec => []WritesUndisturbed
<1>1. Init => WritesUndisturbed
  BY DEF Init, WritesUndisturbed
<1>2. TypeInv /\ WritesUndisturbed /\ UNCHANGED vars => WritesUndisturbed'
  BY DEF WritesUndisturbed, Target, vars, handlerVars, requestVars
<1>3. TypeInv /\ WritesUndisturbed /\ [Next]_vars => WritesUndisturbed'
  BY <1>2, HandlerWrites, ThreadWrites, WriterWrites DEF Next
<1> QED BY <1>1, <1>3, TypeInvariance, PTL DEF Spec

-----------------------------------------------------------------------------
(***************************************************************************)
(* Answers. The packets of a request on some connection are exactly the    *)
(* good ones among its finished parts; a write is of the next part, a good *)
(* one; an answer stands only while it is being given, and a success only  *)
(* after the last part.                                                    *)
(***************************************************************************)
OnWire(r, n) == \E c \in Conns : <<r, n>> \in wire[c]

Accounted(r) ==
  /\ pc[r] = "idle" => done[r] = 0 /\ \A n \in Nat : ~ OnWire(r, n)
  /\ pc[r] # "idle" =>
       /\ done[r] <= Len(req[r].parts)
       /\ \A n \in Nat \ {0} : OnWire(r, n) <=> n <= done[r] /\ req[r].parts[n] = "good"
  /\ pc[r] \in {"write", "writing"} =>
       done[r] < Len(req[r].parts) /\ req[r].parts[done[r] + 1] = "good"
  /\ answer[r] # "none" => pc[r] = "respond"
  /\ answer[r] = "ok" => done[r] = Len(req[r].parts)

AnswerInv == TypeInv /\ \A r \in Threads : Accounted(r)

\* A request is accounted for as long as nobody but its own goroutine acts.
LEMMA OthersAccounted ==
  ASSUME AnswerInv, NEW r \in Threads,
         pc'[r] = pc[r], req'[r] = req[r], done'[r] = done[r], answer'[r] = answer[r],
         \A n \in Nat : OnWire(r, n)' <=> OnWire(r, n)
  PROVE  Accounted(r)'
BY DEF AnswerInv, Accounted

LEMMA HandlerAccounted ==
  ASSUME AnswerInv, NEW c \in Conns, Handler(c), NEW r \in Threads
  PROVE  Accounted(r)'
<1>1. UNCHANGED <<req, done, answer, wire>>
  BY DEF Handler, Read, ReadFails, DrainDone, AnswerFrame, LoginFrame, Register, CloseOld,
     RemoveSession, Finish, requestVars
<1>2. pc'[r] = pc[r]
  BY DownlinkAssumption DEF Handler, Read, ReadFails, DrainDone, AnswerFrame, LoginFrame, Register,
     CloseOld, RemoveSession, Finish, Goto, AnswerInv, TypeInv, TypeOK, Writers
<1>3. \A n \in Nat : OnWire(r, n)' <=> OnWire(r, n)
  BY <1>1 DEF OnWire
<1> QED BY <1>1, <1>2, <1>3, OthersAccounted

LEMMA ThreadAccounted ==
  ASSUME AnswerInv, NEW t \in Threads,
         (\E q \in Requests[t] : Arrive(t, q)) \/ Execute(t) \/ Respond(t), NEW r \in Threads
  PROVE  Accounted(r)'
<1> USE DEF AnswerInv
<1>1. CASE r # t
  <2>1. pc'[r] = pc[r] /\ req'[r] = req[r] /\ done'[r] = done[r] /\ answer'[r] = answer[r]
    BY <1>1 DEF Arrive, Execute, ListSessions, AllParts, BadPart, SendToDevice, Conclude, Respond, Goto,
       TypeInv, TypeOK, Writers
  <2>2. \A n \in Nat, c \in Conns : <<r, n>> \in wire'[c] <=> <<r, n>> \in wire[c]
    BY <1>1 DEF Arrive, Execute, ListSessions, AllParts, BadPart, SendToDevice, Conclude, Respond
  <2>3. \A n \in Nat : OnWire(r, n)' <=> OnWire(r, n)
    BY <2>2 DEF OnWire
  <2> QED BY <2>1, <2>3, OthersAccounted
<1>2. CASE r = t
  <2>1. ASSUME NEW q \in Requests[r], Arrive(r, q) PROVE Accounted(r)'
    <3>1. /\ pc[r] = "idle" /\ pc'[r] = "run" /\ req'[r] = q /\ q.parts \in Seq({"good", "bad"})
          /\ UNCHANGED <<done, answer, wire>>
      <4>1. q.parts \in Seq({"good", "bad"})
        BY DownlinkAssumption DEF Request
      <4>2. pc[r] = "idle" /\ pc'[r] = "run" /\ req'[r] = q /\ UNCHANGED <<done, answer, wire>>
        BY <2>1 DEF Arrive, Goto, TypeInv, TypeOK, Writers
      <4> QED BY <4>1, <4>2
    <3>2. done[r] = 0 /\ answer[r] = "none" /\ \A n \in Nat : ~ OnWire(r, n)' /\ ~ OnWire(r, n)
      BY <3>1 DEF Accounted, OnWire
    <3> QED BY <3>1, <3>2 DEF Accounted
  <2>2. CASE Respond(r)
    <3>1. pc'[r] = "idle" /\ done'[r] = 0 /\ answer'[r] = "none"
      BY <2>2 DEF Respond, Goto, TypeInv, TypeOK, Writers
    <3>2. \A n \in Nat, c \in Conns : <<r, n>> \notin wire'[c]
      BY <2>2 DEF Respond
    <3> QED BY <3>1, <3>2 DEF Accounted, OnWire
  <2>3. CASE Execute(r)
    <3>1. /\ pc[r] = "run" /\ req[r].parts \in Seq({"good", "bad"}) /\ done[r] \in Nat
          /\ req[r].via = "list" => req[r].parts = <<>>
          /\ answer[r] = "none" /\ done[r] <= Len(req[r].parts)
          /\ \A n \in Nat \ {0} : OnWire(r, n) <=> n <= done[r] /\ req[r].parts[n] = "good"
      BY <2>3, RequestType DEF Execute, Accounted, TypeInv, TypeOK
    <3>2. wire' = wire /\ req' = req /\ \A n \in Nat : OnWire(r, n)' <=> OnWire(r, n)
      BY <2>3 DEF Execute, ListSessions, AllParts, BadPart, SendToDevice, Conclude, OnWire
    <3>3. ASSUME NEW result \in {"ok", "error"}, Conclude(r, result),
                 result = "ok" => done[r] = Len(req[r].parts)
          PROVE  Accounted(r)'
      <4>1. pc'[r] = "respond" /\ answer'[r] = result /\ done' = done
        BY <3>3 DEF Conclude, Goto, TypeInv, TypeOK, Writers
      <4> QED BY <3>1, <3>2, <3>3, <4>1 DEF Accounted
    <3>4. CASE ListSessions(r)
      <4>1. done[r] = Len(req[r].parts) /\ Conclude(r, "ok")
        BY <3>1, <3>4 DEF ListSessions
      <4> QED BY <3>3, <4>1
    <3>5. CASE AllParts(r)
      BY <3>3, <3>5 DEF AllParts
    <3>6. CASE BadPart(r)
      <4>1. CASE req[r].via = "attrs"
        <5>1. pc'[r] = "run" /\ done'[r] = done[r] + 1 /\ answer' = answer
          BY <3>6, <4>1 DEF BadPart, Goto, TypeInv, TypeOK, Writers
        <5>2. done[r] + 1 <= Len(req[r].parts) /\ req[r].parts[done[r] + 1] = "bad"
          BY <3>1, <3>6 DEF BadPart
        <5>3. \A n \in Nat \ {0} : OnWire(r, n)' <=> n <= done[r] + 1 /\ req[r].parts[n] = "good"
          BY <3>1, <3>2, <5>2
        <5> QED BY <3>1, <3>2, <5>1, <5>2, <5>3 DEF Accounted
      <4> QED BY <3>3, <3>6, <4>1 DEF BadPart
    <3>7. CASE SendToDevice(r)
      <4>1. CASE sessions[req[r].imei] = None
        BY <3>3, <3>7, <4>1 DEF SendToDevice
      <4>2. CASE sessions[req[r].imei] # None
        <5>1. pc'[r] = "write" /\ done' = done /\ answer' = answer
          BY <3>7, <4>2 DEF SendToDevice, Goto, TypeInv, TypeOK, Writers
        <5>2. done[r] < Len(req[r].parts) /\ req[r].parts[done[r] + 1] = "good"
          BY <3>7 DEF SendToDevice
        <5> QED BY <3>1, <3>2, <5>1, <5>2 DEF Accounted
      <4> QED BY <4>1, <4>2
    <3> QED BY <2>3, <3>4, <3>5, <3>6, <3>7 DEF Execute
  <2> QED BY <1>2, <2>1, <2>2, <2>3
<1> QED BY <1>1, <1>2

LEMMA WriterAccounted ==
  ASSUME AnswerInv, NEW w \in Writers, BeginWrite(w) \/ WriteDone(w) \/ WriteFails(w), NEW r \in Threads
  PROVE  Accounted(r)'
<1> USE DEF AnswerInv
<1>1. CASE r # w
  <2>1. pc'[r] = pc[r] /\ req'[r] = req[r] /\ done'[r] = done[r] /\ answer'[r] = answer[r]
    BY <1>1 DEF BeginWrite, WriteDone, WriteFails, Failed, Goto, handlerVars, requestVars, TypeInv, TypeOK, Writers
  <2>2. \A n \in Nat, c \in Conns : <<r, n>> \in wire'[c] <=> <<r, n>> \in wire[c]
    BY <1>1 DEF BeginWrite, WriteDone, WriteFails, Failed, requestVars, TypeInv, TypeOK
  <2>3. \A n \in Nat : OnWire(r, n)' <=> OnWire(r, n)
    BY <2>2 DEF OnWire
  <2> QED BY <2>1, <2>3, OthersAccounted
<1>2. CASE r = w
  <2>1. /\ r \notin Conns /\ pc[r] \in {"write", "writing"} /\ done[r] \in Nat /\ conn[r] \in Conns
        /\ req[r].parts \in Seq({"good", "bad"})
    BY <1>2, DownlinkAssumption, RequestType DEF BeginWrite, WriteDone, WriteFails, Goto, TypeInv, TypeOK
  <2>2. /\ done[r] < Len(req[r].parts) /\ req[r].parts[done[r] + 1] = "good" /\ answer[r] = "none"
        /\ \A n \in Nat \ {0} : OnWire(r, n) <=> n <= done[r] /\ req[r].parts[n] = "good"
    BY <2>1 DEF Accounted, TypeInv, TypeOK
  <2>3. CASE WriteFails(r) \/ (BeginWrite(r) /\ Target(r) \in closed)
    <3>1. pc'[r] = "respond" /\ answer'[r] = "error" /\ UNCHANGED <<req, done, wire>>
      BY <2>1, <2>3 DEF WriteFails, BeginWrite, Failed, TypeInv, TypeOK, Writers
    <3>2. \A n \in Nat : OnWire(r, n)' <=> OnWire(r, n)
      BY <3>1 DEF OnWire
    <3> QED BY <2>1, <2>2, <3>1, <3>2 DEF Accounted
  <2>4. CASE BeginWrite(r) /\ Target(r) \notin closed
    <3>1. pc'[r] = "writing" /\ UNCHANGED <<req, done, answer, wire>>
      BY <2>4 DEF BeginWrite, Goto, requestVars, TypeInv, TypeOK, Writers
    <3>2. \A n \in Nat : OnWire(r, n)' <=> OnWire(r, n)
      BY <3>1 DEF OnWire
    <3> QED BY <2>1, <2>2, <3>1, <3>2 DEF Accounted
  <2>5. CASE WriteDone(r)
    <3>1. /\ pc'[r] = "run" /\ done'[r] = done[r] + 1 /\ UNCHANGED <<req, answer>>
          /\ wire' = [wire EXCEPT ![conn[r]] = wire[conn[r]] \cup {<<r, done[r] + 1>>}]
      BY <2>1, <2>5 DEF WriteDone, Goto, TypeInv, TypeOK, Writers
    <3>2. \A n \in Nat, c \in Conns :
            <<r, n>> \in wire'[c] <=> <<r, n>> \in wire[c] \/ (c = conn[r] /\ n = done[r] + 1)
      BY <2>1, <3>1 DEF TypeInv, TypeOK
    <3>3. \A n \in Nat : OnWire(r, n)' <=> OnWire(r, n) \/ n = done[r] + 1
      BY <2>1, <3>2 DEF OnWire
    <3>4. \A n \in Nat \ {0} : OnWire(r, n)' <=> n <= done[r] + 1 /\ req[r].parts[n] = "good"
      BY <2>1, <2>2, <3>3
    <3> QED BY <2>1, <2>2, <3>1, <3>4 DEF Accounted
  <2> QED BY <1>2, <2>3, <2>4, <2>5
<1> QED BY <1>1, <1>2

LEMMA AnswerInvariance == Spec => []AnswerInv
<1>1. Init => AnswerInv
  BY InitTypeInv, DownlinkAssumption DEF Init, AnswerInv, Accounted, OnWire, Writers
<1>2. AnswerInv /\ UNCHANGED vars => \A r \in Threads : Accounted(r)'
  BY DEF AnswerInv, Accounted, OnWire, vars, requestVars
<1>3. AnswerInv /\ [Next]_vars => \A r \in Threads : Accounted(r)'
  BY <1>2, HandlerAccounted, ThreadAccounted, WriterAccounted DEF Next
<1>4. AnswerInv /\ [Next]_vars => TypeInv'
  BY HandlerTypeInv, ThreadTypeInv, WriteTypeInv, StutterTypeInv DEF AnswerInv, Next
<1>5. AnswerInv /\ [Next]_vars => AnswerInv'
  BY <1>3, <1>4 DEF AnswerInv
<1> QED BY <1>1, <1>5, PTL DEF Spec

(* Whatever happens to the session between look-up and write, the answer   *)
(* to an RPC or REST call is true: success means that every packet asked   *)
(* for went out whole, an error that exactly the parts before it did.      *)
THEOREM AnswersTrue == Spec => []AnswerTellsWhatWasSent
<1>1. AnswerInv => AnswerTellsWhatWasSent
  <2> SUFFICES ASSUME AnswerInv, NEW r \in Threads, answer[r] # "none"
               PROVE  /\ answer[r] = "ok" => Sent(r) = GoodUpTo(r, Len(req[r].parts))
                      /\ answer[r] = "error" => Sent(r) = GoodUpTo(r, done[r])
    BY DEF AnswerTellsWhatWasSent
  <2>1. /\ pc[r] = "respond" /\ done[r] \in Nat /\ req[r].parts \in Seq({"good", "bad"})
        /\ answer[r] = "ok" => done[r] = Len(req[r].parts)
        /\ done[r] <= Len(req[r].parts)
        /\ \A n \in Nat \ {0} : OnWire(r, n) <=> n <= done[r] /\ req[r].parts[n] = "good"
    BY RequestType DEF AnswerInv, Accounted, TypeInv, TypeOK
  <2>2. Sent(r) = GoodUpTo(r, done[r])
    BY <2>1 DEF Sent, GoodUpTo, OnWire
  <2> QED BY <2>1, <2>2
<1> QED BY <1>1, AnswerInvariance, PTL

-----------------------------------------------------------------------------
(* The session directory, for trackers that log in under one IMEI per      *)
(* connection.                                                             *)
OneIMEI == \A c \in Conns : \A i, j \in Reports[c] : i = j

\* A handler registers, remembers and has entries under IMEIs its tracker reported.
Reported ==
  /\ \A c \in Conns : want[c] # None => want[c] \in Reports[c]
  /\ \A c \in Conns : who[c] # None => who[c] \in Reports[c]
  /\ \A i \in IMEIs : sessions[i] # None => i \in Reports[sessions[i]] /\ who[sessions[i]] # None

LEMMA StoreReported ==
  ASSUME TypeInv, Reported, NEW c \in Conns, want[c] \in IMEIs, Store(c), want' = want
  PROVE  Reported'
BY DownlinkAssumption DEF Store, TypeInv, TypeOK, Reported

LEMMA SameReported ==
  ASSUME Reported, UNCHANGED <<who, want, sessions>>
  PROVE  Reported'
BY DEF Reported

LEMMA HandlerReported ==
  ASSUME TypeInv, Reported, NEW c \in Conns, Handler(c)
  PROVE  Reported'
<1>1. CASE \/ Read(c) \/ ReadFails(c) \/ DrainDone(c) \/ AnswerFrame(c) \/ Finish(c)
           \/ Register(c) /\ sessions[want[c]] \notin {None, c}
  BY <1>1, SameReported DEF Read, ReadFails, DrainDone, AnswerFrame, Finish, Register, handlerVars
<1>2. ASSUME NEW i \in IMEIs, LoginFrame(c, i) PROVE Reported'
  BY <1>2 DEF LoginFrame, TypeInv, TypeOK, Reported
<1>3. CASE CloseOld(c) \/ (Register(c) /\ sessions[want[c]] \in {None, c})
  BY <1>3, StoreReported DEF CloseOld, Register, TypeInv, TypeOK
<1>4. CASE RemoveSession(c)
  BY <1>4 DEF RemoveSession, TypeInv, TypeOK, Reported
<1> QED BY <1>1, <1>2, <1>3, <1>4 DEF Handler

LEMMA ReportedInvariance == Spec => []Reported
<1>1. Init => Reported
  BY DEF Init, Reported
<1>2. ASSUME TypeInv, Reported, [Next]_vars PROVE Reported'
  <2>1. ASSUME NEW c \in Conns, Handler(c) PROVE Reported'
    BY <1>2, <2>1, HandlerReported
  <2>2. ASSUME NEW r \in Threads, (\E q \in Requests[r] : Arrive(r, q)) \/ Execute(r) \/ Respond(r)
        PROVE  Reported'
    BY <1>2, <2>2, SameReported DEF Arrive, Execute, ListSessions, AllParts, BadPart, SendToDevice,
       Conclude, Respond, handlerVars
  <2>3. ASSUME NEW w \in Writers, BeginWrite(w) \/ WriteDone(w) \/ WriteFails(w) PROVE Reported'
    BY <1>2, <2>3, SameReported DEF BeginWrite, WriteDone, WriteFails, Failed, handlerVars
  <2>4. CASE UNCHANGED vars
    BY <1>2, <2>4, SameReported DEF vars, handlerVars
  <2> QED BY <1>2, <2>1, <2>2, <2>3, <2>4 DEF Next
<1> QED BY <1>1, <1>2, TypeInvariance, PTL DEF Spec

LEMMA InvisibleStep ==
  ASSUME UNCHANGED <<who, sessions, closed>>,
         \A c \in Conns : (pc[c] = "closing" <=> pc'[c] = "closing") /\ (pc[c] = "done" <=> pc'[c] = "done")
  PROVE  UNCHANGED Dir!dirVars
BY DEF Dir!dirVars, Phase, Open

LEMMA HandlerRefines ==
  ASSUME OneIMEI, TypeInv, Reported, NEW c \in Conns, Handler(c)
  PROVE  Dir!Next \/ UNCHANGED Dir!dirVars
<1> USE DownlinkAssumption DEF TypeInv
<1>1. CASE \/ Read(c) \/ ReadFails(c) \/ DrainDone(c) \/ AnswerFrame(c)
           \/ \E i \in IMEIs : LoginFrame(c, i)
           \/ Register(c) /\ sessions[want[c]] \notin {None, c}
  <2>1. UNCHANGED <<who, sessions, closed>>
    BY <1>1 DEF Read, ReadFails, DrainDone, AnswerFrame, LoginFrame, Register, handlerVars
  <2>2. \A d \in Conns : (pc[d] = "closing" <=> pc'[d] = "closing") /\ (pc[d] = "done" <=> pc'[d] = "done")
    BY <1>1 DEF Read, ReadFails, DrainDone, AnswerFrame, LoginFrame, Register, Goto, TypeOK, Writers
  <2> QED BY <2>1, <2>2, InvisibleStep
<1>2. CASE Register(c) /\ sessions[want[c]] \in {None, c}
  <2>1. /\ pc[c] = "register" /\ pc' = [pc EXCEPT ![c] = "write"] /\ Store(c) /\ closed' = closed
        /\ want[c] \in IMEIs
    BY <1>2 DEF Register, Goto, TypeOK
  <2>2. Phase[c] = "active" /\ Phase' = Phase
    BY <2>1 DEF Phase, TypeOK, Writers
  <2>3. Open' = Open \ ({sessions[want[c]]} \ {c})
    BY <1>2, <2>1 DEF Open
  <2>4. Dir!Login(c, want[c])
    BY <2>1, <2>2, <2>3 DEF Dir!Login, Store
  <2> QED BY <2>1, <2>4 DEF Dir!Next
<1>3. CASE CloseOld(c)
  <2>1. /\ pc[c] = "close" /\ pc' = [pc EXCEPT ![c] = "write"] /\ Store(c)
        /\ closed' = closed \cup {sessions[want[c]]}
        /\ want[c] \in IMEIs /\ sessions[want[c]] # c
    BY <1>3 DEF CloseOld, Goto, TypeOK, Registering
  <2>2. Phase[c] = "active" /\ Phase' = Phase
    BY <2>1 DEF Phase, TypeOK, Writers
  <2>3. Open' = Open \ ({sessions[want[c]]} \ {c})
    BY <2>1 DEF Open
  <2>4. Dir!Login(c, want[c])
    BY <2>1, <2>2, <2>3 DEF Dir!Login, Store
  <2> QED BY <2>1, <2>4 DEF Dir!Next
<1>4. CASE RemoveSession(c)
  <2>1. /\ pc[c] = "ending" /\ pc' = [pc EXCEPT ![c] = "closing"] /\ who' = who /\ closed' = closed
        /\ sessions' = [i \in IMEIs |-> IF i = who[c] /\ sessions[i] = c THEN None ELSE sessions[i]]
    BY <1>4 DEF RemoveSession, Goto
  <2>2. Phase[c] = "active" /\ Phase' = [Phase EXCEPT ![c] = "leaving"] /\ Open' = Open
    BY <2>1 DEF Phase, Open, TypeOK, Writers
  <2>3. \A i \in IMEIs : sessions[i] = c => i = who[c]
    BY DEF OneIMEI, Reported, TypeOK
  <2>4. sessions' = [i \in IMEIs |-> IF sessions[i] = c THEN None ELSE sessions[i]]
    BY <2>1, <2>3
  <2>5. Dir!Leave(c)
    BY <2>1, <2>2, <2>4 DEF Dir!Leave
  <2> QED BY <2>5 DEF Dir!Next
<1>5. CASE Finish(c)
  <2>1. /\ pc[c] = "closing" /\ pc' = [pc EXCEPT ![c] = "done"] /\ closed' = closed \cup {c}
        /\ who' = who /\ sessions' = sessions
    BY <1>5 DEF Finish, Goto
  <2>2. Phase[c] = "leaving" /\ Phase' = [Phase EXCEPT ![c] = "gone"] /\ Open' = Open \ {c}
    BY <2>1 DEF Phase, Open, TypeOK, Writers
  <2>3. Dir!Close(c)
    BY <2>1, <2>2 DEF Dir!Close
  <2> QED BY <2>3 DEF Dir!Next
<1> QED BY <1>1, <1>2, <1>3, <1>4, <1>5 DEF Handler

LEMMA ThreadRefines ==
  ASSUME TypeInv, NEW r \in Threads,
         (\E q \in Requests[r] : Arrive(r, q)) \/ Execute(r) \/ Respond(r)
  PROVE  UNCHANGED Dir!dirVars
<1>1. UNCHANGED <<who, sessions, closed>>
  BY DEF Arrive, Execute, ListSessions, AllParts, BadPart, SendToDevice, Conclude, Respond, handlerVars
<1>2. \A c \in Conns : pc'[c] = pc[c]
  BY DownlinkAssumption DEF Arrive, Execute, ListSessions, AllParts, BadPart, SendToDevice, Conclude,
     Respond, Goto, TypeInv, TypeOK, Writers
<1> QED BY <1>1, <1>2, InvisibleStep

LEMMA WriterRefines ==
  ASSUME TypeInv, NEW w \in Writers, BeginWrite(w) \/ WriteDone(w) \/ WriteFails(w)
  PROVE  UNCHANGED Dir!dirVars
<1>1. UNCHANGED <<who, sessions, closed>>
  BY DEF BeginWrite, WriteDone, WriteFails, Failed, handlerVars
<1>2. \A c \in Conns : (pc[c] = "closing" <=> pc'[c] = "closing") /\ (pc[c] = "done" <=> pc'[c] = "done")
  BY DEF BeginWrite, WriteDone, WriteFails, Failed, Goto, TypeInv, TypeOK, Writers
<1> QED BY <1>1, <1>2, InvisibleStep

(* If each connection logs in under one IMEI (as often as it likes),       *)
(* registerSession is one step of the directory of live connections        *)
(* although it waits for another lock half-way, with writes, look-ups and  *)
(* requests going on meanwhile: Server.mu keeps the map as it was read     *)
(* (Registering).                                                          *)
THEOREM LockedDirectoryImplemented ==
  ASSUME OneIMEI
  PROVE  Spec => ImplementsDirectory
<1>1. Init => Dir!Init
  BY DEF Init, Dir!Init, Phase, Open, Writers
<1>2. UNCHANGED vars => UNCHANGED Dir!dirVars
  BY InvisibleStep DEF vars, handlerVars
<1>3. TypeInv /\ Reported /\ [Next]_vars => Dir!Next \/ UNCHANGED Dir!dirVars
  BY <1>2, HandlerRefines, ThreadRefines, WriterRefines DEF Next
<1>4. TypeInv /\ Reported /\ [Next]_vars => [Dir!Next]_(Dir!dirVars)
  BY <1>3
<1> QED BY <1>1, <1>4, TypeInvariance, ReportedInvariance, PTL DEF Spec, ImplementsDirectory, Dir!Spec

=============================================================================
