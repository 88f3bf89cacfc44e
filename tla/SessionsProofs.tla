--------------------------- MODULE SessionsProofs ---------------------------
(***************************************************************************)
(* Theorems about module Sessions, for any number of connections, IMEIs,   *)
(* lookups and logins.                                                     *)
(***************************************************************************)
EXTENDS Sessions, TLAPS

-----------------------------------------------------------------------------
(* Type correctness.                                                       *)

\* The session a handler has registered, and its IMEI.
LEMMA SessType ==
  ASSUME TypeOK, NEW c \in Conns, nlogin[c] > 0
  PROVE  Sess(c) = <<c, nlogin[c]>> /\ Sess(c) \in Sids /\ Imei(c) = imeiOf[Sess(c)]
BY ConstantsAssumption DEF TypeOK, Sess, Imei, Sids

\* A handler is past its registration step, or about to publish, only after a
\* login: the nil checks on imei and sess of handleConn are in the right places.
LoggedIn ==
  /\ \A c \in Conns : hpc[c] \in {"registered", "removed", "announce"} => nlogin[c] > 0
  /\ \A c \in Conns, n \in 1 .. MaxLogins : n <= nlogin[c] <=> imeiOf[<<c, n>>] # None
  /\ \A s \in Sids : task[s] # "none" => imeiOf[s] # None

TypeInv == TypeOK /\ LoggedIn

LEMMA InitTypeInv == Init => TypeInv
BY ConstantsAssumption DEF Init, TypeInv, TypeOK, LoggedIn, Sids, Callers, Idle,
   HandlerPCs, TaskPCs, UplinkPCs

\* The uplink record a caller may hold.
Calls == {Idle} \cup [pc : UplinkPCs, imei : IMEIs, sess : Sids \cup {None}]

LEMMA HandlerTypeInv ==
  ASSUME TypeInv, NEW c \in Conns, Handler(c)
  PROVE  TypeInv'
<1> USE ConstantsAssumption DEF TypeInv
<1>1. CASE Start(c) \/ ReadData(c) \/ ReadFails(c) \/ DrainDone(c) \/ AnswerFrame(c) \/ Reply(c)
  BY <1>1 DEF Start, ReadData, ReadFails, DrainDone, AnswerFrame, Reply, Goto,
     TypeOK, LoggedIn, HandlerPCs, sessVars, tbVars
<1>2. CASE RemoveSession(c)
  BY <1>2, SessType DEF RemoveSession, SessionsWithout, Goto, TypeOK, LoggedIn, HandlerPCs, sessVars, tbVars
<1>3. CASE TestConnected(c)
  BY <1>3, SessType DEF TestConnected, Goto, TypeOK, LoggedIn, HandlerPCs, sessVars, tbVars
<1>4. CASE Disconnect(c)
  BY <1>4, SessType DEF Disconnect, DisconnectDevice, Goto, TypeOK, LoggedIn, HandlerPCs, sessVars, tbVars
<1>5. CASE Finish(c)
  BY <1>5 DEF Finish, Goto, TypeOK, LoggedIn, HandlerPCs, sessVars, tbVars
<1>6. ASSUME NEW i \in IMEIs, LoginFrame(c, i)
      PROVE  TypeInv'
  <2> DEFINE s == <<c, nlogin[c] + 1>>
  <2>1. nlogin[c] + 1 \in 1 .. MaxLogins /\ s \in Sids
    BY <1>6 DEF LoginFrame, TypeOK, Sids
  <2>2. ClosedByLogin(c, i) \in SUBSET Conns
    BY DEF ClosedByLogin, TypeOK, Sids
  <2>3. TypeOK'
    BY <1>6, <2>1, <2>2 DEF LoginFrame, Goto, TypeOK, HandlerPCs, tbVars
  <2>4. \A d \in Conns, n \in 1 .. MaxLogins :
          imeiOf'[<<d, n>>] = IF <<d, n>> = s THEN i ELSE imeiOf[<<d, n>>]
    BY <1>6, <2>1 DEF LoginFrame, TypeOK, Sids
  <2>5. \A d \in Conns : nlogin'[d] = IF d = c THEN nlogin[c] + 1 ELSE nlogin[d]
    BY <1>6 DEF LoginFrame, TypeOK
  <2>6. \A d \in Conns, n \in 1 .. MaxLogins : n <= nlogin'[d] <=> imeiOf'[<<d, n>>] # None
    <3> SUFFICES ASSUME NEW d \in Conns, NEW n \in 1 .. MaxLogins
                 PROVE  n <= nlogin'[d] <=> imeiOf'[<<d, n>>] # None
      OBVIOUS
    <3>1. n <= nlogin[d] <=> imeiOf[<<d, n>>] # None
      BY DEF LoggedIn
    <3>2. nlogin[d] \in 0 .. MaxLogins /\ i # None
      BY DEF TypeOK
    <3>3. CASE d = c /\ n = nlogin[c] + 1
      BY <2>4, <2>5, <3>2, <3>3
    <3>4. CASE ~ (d = c /\ n = nlogin[c] + 1)
      <4>1. <<d, n>> # s
        BY <3>4
      <4> QED BY <2>4, <2>5, <3>1, <3>2, <3>4, <4>1
    <3> QED BY <3>3, <3>4
  <2>7. \A t \in Sids : task'[t] # "none" => imeiOf'[t] # None
    BY <1>6, <2>1 DEF LoginFrame, TypeOK, LoggedIn
  <2>8. \A d \in Conns : hpc'[d] \in {"registered", "removed", "announce"} => nlogin'[d] > 0
    BY <1>6, <2>5 DEF LoginFrame, Goto, TypeOK, LoggedIn
  <2> QED BY <2>3, <2>6, <2>7, <2>8 DEF LoggedIn
<1>7. CASE LoginReply(c)
  <2>1. nlogin[c] > 0 /\ imeiOf[Sess(c)] # None
    BY <1>7, SessType DEF LoginReply, Goto, LoggedIn, TypeOK, Sids
  <2> QED BY <1>7, <2>1, SessType DEF LoginReply, Goto, TypeOK, LoggedIn, HandlerPCs, TaskPCs, sessVars, tbVars
<1>8. CASE PublishFrame(c)
  <2>1. Imei(c) \in IMEIs
    BY <1>8, SessType DEF PublishFrame, TypeOK, LoggedIn, Sids
  <2> QED BY <1>8, <2>1 DEF PublishFrame, Goto, TypeOK, LoggedIn, HandlerPCs, UplinkPCs, Callers, sessVars, tbVars
<1>9. ASSUME NEW l \in Lookups, WifiFrame(c, l)
      PROVE  TypeInv'
  <2>1. Imei(c) \in IMEIs
    BY <1>9, SessType DEF WifiFrame, TypeOK, LoggedIn, Sids
  <2> QED BY <1>9, <2>1 DEF WifiFrame, Goto, TypeOK, LoggedIn, HandlerPCs, UplinkPCs, Callers, sessVars, tbVars
<1> QED BY <1>1, <1>2, <1>3, <1>4, <1>5, <1>6, <1>7, <1>8, <1>9 DEF Handler

LEMMA ConnectTaskTypeInv ==
  ASSUME TypeInv, NEW s \in Sids, ConnectTask(s)
  PROVE  TypeInv'
<1>1. imeiOf[s] \in IMEIs
  BY DEF TypeInv, TypeOK, LoggedIn, ConnectTask, TaskCheck, TaskConnect, TaskMark, TaskStep
<1>2. /\ task' \in [Sids -> TaskPCs] /\ \A t \in Sids : task'[t] # "none" => task[t] # "none"
      /\ UNCHANGED <<sessions, nlogin, imeiOf, closed, hpc, up>>
  BY DEF TypeInv, TypeOK, ConnectTask, TaskCheck, TaskConnect, TaskMark, TaskStep, TaskPCs
<1>3. /\ tbConnected' \in [Sids -> BOOLEAN] /\ granted' \in [IMEIs -> BOOLEAN]
      /\ tb' \in [IMEIs -> {"none", "up", "down"}]
  BY <1>1 DEF TypeInv, TypeOK, ConnectTask, TaskCheck, TaskConnect, ConnectDevice, TaskMark
<1> QED BY <1>2, <1>3 DEF TypeInv, TypeOK, LoggedIn

\* A call in progress has an IMEI, and its end keeps the handler's type.
LEMMA ReturnType ==
  ASSUME TypeInv, NEW w \in Callers, up[w] # Idle
  PROVE  /\ up[w] \in [pc : UplinkPCs, imei : IMEIs, sess : Sids \cup {None}]
         /\ Return(w) => up' \in [Callers -> Calls] /\ hpc' \in [Conns -> HandlerPCs]
                         /\ \A c \in Conns : hpc'[c] \in {"registered", "removed", "announce"} => nlogin[c] > 0
         /\ \A pc \in UplinkPCs : Advance(w, pc) => up' \in [Callers -> Calls] /\ hpc' = hpc
BY DEF TypeInv, TypeOK, LoggedIn, Return, Advance, Calls, HandlerPCs

\* Only a caller inside a call takes a step of one.
LEMMA BusyCaller ==
  ASSUME NEW w \in Callers, Uplink(w) \/ Locate(w)
  PROVE  up[w] # Idle
<1>1. up[w].pc \in UplinkPCs
  BY DEF Uplink, Locate, Check, Lookup, Test, Connect, ConnectDevice, Mark, Publish, At, UplinkPCs
<1>2. Idle.pc \notin UplinkPCs
  BY DEF Idle, UplinkPCs
<1> QED BY <1>1, <1>2

LEMMA UplinkTypeInv ==
  ASSUME TypeInv, NEW w \in Callers, Uplink(w) \/ Locate(w)
  PROVE  TypeInv'
<1>1. up[w] # Idle
  BY BusyCaller
<1> USE ReturnType, <1>1 DEF TypeInv
<1>2. CASE Locate(w)
  BY <1>2 DEF Locate, TypeOK, LoggedIn, Calls, UplinkPCs, sessVars, tbVars
<1>3. CASE Check(w)
  BY <1>3 DEF Check, TypeOK, LoggedIn, Calls, UplinkPCs, sessVars
<1>4. CASE Lookup(w)
  <2>1. sessions[up[w].imei] \in Sids \cup {None}
    BY DEF TypeOK
  <2> DEFINE t == sessions[up[w].imei]
             call == [pc |-> IF t = None THEN "connect" ELSE "test", imei |-> up[w].imei, sess |-> t]
  <2>2. up' = [up EXCEPT ![w] = call]
    BY <1>4 DEF Lookup, TypeOK
  <2>3. call \in Calls
    BY <2>1 DEF Calls, UplinkPCs
  <2>4. up' \in [Callers -> Calls]
    BY <2>2, <2>3 DEF TypeOK, Calls
  <2> QED BY <1>4, <2>4 DEF Lookup, TypeOK, LoggedIn, Calls, sessVars, tbVars
<1>5. CASE Test(w)
  BY <1>5 DEF Test, TypeOK, LoggedIn, Calls, UplinkPCs, sessVars, tbVars
<1>6. CASE Connect(w)
  BY <1>6 DEF Connect, ConnectDevice, TypeOK, LoggedIn, Calls, UplinkPCs, sessVars
<1>7. CASE Mark(w)
  BY <1>7 DEF Mark, TypeOK, LoggedIn, Calls, UplinkPCs, tbVars
<1>8. CASE Publish(w)
  BY <1>8 DEF Publish, TypeOK, LoggedIn, Calls, UplinkPCs, sessVars, tbVars
<1> QED BY <1>2, <1>3, <1>4, <1>5, <1>6, <1>7, <1>8 DEF Uplink

LEMMA StutterTypeInv == TypeInv /\ UNCHANGED vars => TypeInv'
BY DEF TypeInv, TypeOK, LoggedIn, vars, sessVars, tbVars

LEMMA TypeInvariance == Spec => []TypeInv
<1>1. TypeInv /\ [Next]_vars => TypeInv'
  BY HandlerTypeInv, ConnectTaskTypeInv, UplinkTypeInv, StutterTypeInv DEF Next, Callers
<1> QED BY <1>1, InitTypeInv, PTL DEF Spec

(* Every variable keeps its type; in particular a call to ThingsBoard      *)
(* always carries an IMEI, so the nil checks on imei and sess suffice.     *)
THEOREM TypeCorrect == Spec => []TypeOK
<1>1. TypeInv => TypeOK
  BY DEF TypeInv
<1> QED BY <1>1, TypeInvariance, PTL

-----------------------------------------------------------------------------
(***************************************************************************)
(* The session map. LiveConnReachable and OwnEntryRemoved hold together    *)
(* with three facts about the entries: an entry is stored under the IMEI   *)
(* of its Session; of the Sessions one handler created for its current     *)
(* IMEI, only the last can be in the map; and a handler inside a publish   *)
(* call has not begun its clean-up.                                        *)
(***************************************************************************)
Keyed ==
  \A i \in IMEIs : sessions[i] # None => imeiOf[sessions[i]] = i

LastOfHandler ==
  \A i \in IMEIs, c \in Conns, n \in 1 .. MaxLogins :
    sessions[i] = <<c, n>> /\ Imei(c) = i => n = nlogin[c]

Removed ==
  \A c \in Conns : nlogin[c] > 0 /\ hpc[c] \notin Active => sessions[Imei(c)] # Sess(c)

InCall ==
  \A c \in Conns : up[c] # Idle => hpc[c] \in {"report", "iccid"}

Unstarted ==
  \A c \in Conns : hpc[c] = "none" => nlogin[c] = 0

\* The IMEI of a Session was reported on its connection.
Reported ==
  \A s \in Sids : imeiOf[s] # None => imeiOf[s] \in Reports[s[1]]

Directory == Keyed /\ LastOfHandler /\ LiveConnReachable /\ Removed /\ Unstarted /\ Reported

MapInv == TypeInv /\ InCall /\ Directory

LEMMA InitMapInv == Init => MapInv
<1> SUFFICES ASSUME Init PROVE MapInv
  OBVIOUS
<1>1. TypeInv
  BY InitTypeInv
<1>2. InCall /\ Unstarted /\ Reported /\ Keyed /\ LiveConnReachable /\ Removed
  BY ConstantsAssumption DEF Init, InCall, Unstarted, Reported, Keyed, LiveConnReachable, Removed, Callers
<1>3. LastOfHandler
  BY ConstantsAssumption DEF Init, LastOfHandler, Imei
<1> QED BY <1>1, <1>2, <1>3 DEF MapInv, Directory

\* Steps that leave the map alone and move no logged-in handler into or out of
\* its read loop.
LEMMA DirectoryKept ==
  ASSUME MapInv, UNCHANGED <<sessions, nlogin, imeiOf>>, closed \subseteq closed',
         \A c \in Conns : (hpc[c] \in Active <=> hpc'[c] \in Active) \/ nlogin[c] = 0,
         \A c \in Conns : hpc'[c] = "none" => hpc[c] = "none"
  PROVE  Directory'
<1>1. \A c \in Conns : Imei(c)' = Imei(c) /\ Sess(c)' = Sess(c)
  BY DEF Imei, Sess
<1>2. \A c \in Conns : nlogin[c] \in Nat
  BY ConstantsAssumption DEF MapInv, TypeInv, TypeOK
<1>3. (Keyed /\ LastOfHandler /\ Unstarted /\ Reported)'
  BY <1>1 DEF MapInv, Directory, Keyed, LastOfHandler, Unstarted, Reported
<1>4. (LiveConnReachable /\ Removed)'
  BY <1>1, <1>2 DEF MapInv, Directory, LiveConnReachable, Removed
<1> QED BY <1>3, <1>4 DEF Directory

LEMMA HandlerInCall ==
  ASSUME MapInv, NEW c \in Conns, Handler(c)
  PROVE  InCall'
<1> USE DEF MapInv, TypeInv, TypeOK, InCall
<1>1. CASE \/ Start(c) \/ ReadData(c) \/ ReadFails(c) \/ DrainDone(c) \/ AnswerFrame(c) \/ Reply(c)
           \/ RemoveSession(c) \/ TestConnected(c) \/ Disconnect(c) \/ Finish(c) \/ LoginReply(c)
  BY <1>1 DEF Start, ReadData, ReadFails, DrainDone, AnswerFrame, Reply, RemoveSession,
     TestConnected, Disconnect, Finish, LoginReply, Goto
<1>2. ASSUME NEW i \in IMEIs, LoginFrame(c, i) PROVE InCall'
  BY <1>2 DEF LoginFrame, Goto
<1>3. CASE PublishFrame(c)
  BY <1>3 DEF PublishFrame, Goto, Callers
<1>4. ASSUME NEW l \in Lookups, WifiFrame(c, l) PROVE InCall'
  BY <1>4, ConstantsAssumption DEF WifiFrame, Goto, Callers
<1> QED BY <1>1, <1>2, <1>3, <1>4 DEF Handler

LEMMA LoginDirectory ==
  ASSUME MapInv, NEW c \in Conns, NEW i \in IMEIs, LoginFrame(c, i)
  PROVE  Directory'
<1> DEFINE k == nlogin[c] + 1
           s == <<c, k>>
<1> USE ConstantsAssumption DEF MapInv, TypeInv, Directory
<1>1. /\ k \in 1 .. MaxLogins /\ s \in Sids /\ s # None /\ i # None
      /\ nlogin[c] \in Nat /\ nlogin \in [Conns -> 0 .. MaxLogins]
  BY DEF LoginFrame, TypeOK, Sids
<1>2. /\ hpc[c] = "drain" /\ hpc' = [hpc EXCEPT ![c] = "registered"]
      /\ nlogin' = [nlogin EXCEPT ![c] = k]
      /\ imeiOf' = [imeiOf EXCEPT ![s] = i]
      /\ sessions' = [sessions EXCEPT ![i] = s]
      /\ closed' = ClosedByLogin(c, i)
      /\ i \in Reports[c]
  BY DEF LoginFrame, Goto
<1>3. Sess(c)' = s /\ Imei(c)' = i
  BY <1>1, <1>2 DEF Sess, Imei, TypeOK
<1>4. \A d \in Conns \ {c} : Sess(d)' = Sess(d) /\ Imei(d)' = Imei(d) /\ nlogin'[d] = nlogin[d]
  BY <1>1, <1>2 DEF Sess, Imei, TypeOK, Sids
<1>5. \A j \in IMEIs : sessions[j] # s
  <2> SUFFICES ASSUME NEW j \in IMEIs, sessions[j] = s PROVE FALSE
    OBVIOUS
  <2>1. imeiOf[s] = j /\ j # None
    BY <1>1 DEF Keyed
  <2> QED BY <2>1, <1>1 DEF LoggedIn
<1>6. \A j \in IMEIs : sessions'[j] = IF j = i THEN s ELSE sessions[j]
  BY <1>2 DEF TypeOK
<1>7. Keyed'
  BY <1>1, <1>2, <1>5, <1>6 DEF Keyed, TypeOK
<1>8. LastOfHandler'
  <2> SUFFICES ASSUME NEW j \in IMEIs, NEW d \in Conns, NEW n \in 1 .. MaxLogins,
                      sessions'[j] = <<d, n>>, Imei(d)' = j
               PROVE  n = nlogin'[d]
    BY DEF LastOfHandler
  <2>1. CASE j = i
    BY <2>1, <1>1, <1>2, <1>6
  <2>2. CASE j # i
    <3>1. d # c
      BY <2>2, <1>3
    <3> QED BY <2>2, <3>1, <1>4, <1>6 DEF LastOfHandler
  <2> QED BY <2>1, <2>2
<1>9. LiveConnReachable'
  <2> SUFFICES ASSUME NEW d \in Conns, hpc'[d] \in Active, d \notin closed', nlogin'[d] > 0
               PROVE  sessions'[Imei(d)'] = Sess(d)'
    BY DEF LiveConnReachable
  <2>1. CASE d = c
    BY <2>1, <1>3, <1>6
  <2>2. CASE d # c
    <3>1. sessions[Imei(d)] = Sess(d) /\ Imei(d) \in IMEIs /\ Sess(d) = <<d, nlogin[d]>> /\ Sess(d) \in Sids
      <4>1. hpc[d] \in Active /\ nlogin[d] > 0
        BY <2>2, <1>2, <1>4 DEF TypeOK
      <4>2. d \notin closed
        BY <1>2 DEF ClosedByLogin
      <4>3. Sess(d) = <<d, nlogin[d]>> /\ Sess(d) \in Sids /\ Imei(d) = imeiOf[Sess(d)]
        BY <4>1, SessType
      <4>4. Imei(d) \in IMEIs
        BY <4>1, <4>3, <1>1 DEF LoggedIn, TypeOK, Sids
      <4> QED BY <4>1, <4>2, <4>3, <4>4 DEF LiveConnReachable
    <3>2. Imei(d) # i
      <4> SUFFICES ASSUME Imei(d) = i PROVE FALSE
        OBVIOUS
      <4>1. sessions[i] # None /\ sessions[i][1] = d
        BY <3>1 DEF Sids
      <4> QED BY <4>1, <2>2, <1>2 DEF ClosedByLogin
    <3> QED BY <2>2, <3>1, <3>2, <1>4, <1>6
  <2> QED BY <2>1, <2>2
<1>10. Removed'
  <2> SUFFICES ASSUME NEW d \in Conns, nlogin'[d] > 0, hpc'[d] \notin Active
               PROVE  sessions'[Imei(d)'] # Sess(d)'
    BY DEF Removed
  <2>1. d # c
    BY <1>2 DEF Active, TypeOK
  <2>2. nlogin[d] > 0 /\ hpc[d] \notin Active
    BY <2>1, <1>2, <1>4 DEF TypeOK
  <2>3. sessions[Imei(d)] # Sess(d) /\ Sess(d) = <<d, nlogin[d]>> /\ Imei(d) \in IMEIs
    BY <2>2, <1>1, SessType DEF Removed, LoggedIn, TypeOK, Sids
  <2> QED BY <2>1, <2>3, <1>4, <1>6
<1>11. Unstarted' /\ Reported'
  BY <1>1, <1>2 DEF Unstarted, Reported, TypeOK, Sids
<1> QED BY <1>7, <1>8, <1>9, <1>10, <1>11

LEMMA RemoveDirectory ==
  ASSUME MapInv, NEW c \in Conns, RemoveSession(c)
  PROVE  Directory'
<1> USE ConstantsAssumption DEF MapInv, TypeInv, Directory
<1>1. CASE nlogin[c] = 0
  BY <1>1, DirectoryKept DEF RemoveSession, Goto, sessVars, TypeOK, Active
<1>2. CASE nlogin[c] > 0
  <2>1. Sess(c) = <<c, nlogin[c]>> /\ Sess(c) \in Sids /\ Imei(c) \in IMEIs /\ Sess(c) # None
    BY <1>2, SessType DEF LoggedIn, TypeOK, Sids
  <2>2. /\ hpc' = [hpc EXCEPT ![c] = "removed"] /\ UNCHANGED <<nlogin, imeiOf, closed>>
        /\ sessions' = SessionsWithout(Imei(c), Sess(c))
    BY <1>2 DEF RemoveSession, Goto
  <2>3. \A d \in Conns : Sess(d)' = Sess(d) /\ Imei(d)' = Imei(d)
    BY <2>2 DEF Sess, Imei
  <2>4. \A j \in IMEIs : sessions'[j] = IF j = Imei(c) /\ sessions[j] = Sess(c) THEN None ELSE sessions[j]
    BY <2>2 DEF SessionsWithout, TypeOK
  <2>5. \A d \in Conns, n \in 1 .. MaxLogins : <<d, n>> # None
    BY DEF Sids
  <2>11. Keyed'
    BY <2>2, <2>4 DEF Keyed
  <2>12. LastOfHandler'
    <3> SUFFICES ASSUME NEW j \in IMEIs, NEW d \in Conns, NEW n \in 1 .. MaxLogins,
                        sessions'[j] = <<d, n>>, Imei(d)' = j
                 PROVE  n = nlogin'[d]
      BY DEF LastOfHandler
    <3>1. sessions[j] = <<d, n>> /\ Imei(d) = j
      BY <2>3, <2>4, <2>5
    <3> QED BY <2>2, <3>1 DEF LastOfHandler
  <2>6. Keyed' /\ LastOfHandler'
    BY <2>11, <2>12
  <2>7. \A d \in Conns : nlogin[d] > 0 => Sess(d) = <<d, nlogin[d]>> /\ Imei(d) \in IMEIs
    BY SessType DEF LoggedIn, TypeOK, Sids
  <2>8. LiveConnReachable'
    BY <2>1, <2>2, <2>3, <2>4, <2>7 DEF LiveConnReachable, TypeOK, Active
  <2>9. Removed'
    BY <2>1, <2>2, <2>3, <2>4, <2>5, <2>7 DEF Removed, TypeOK, Active
  <2>10. (Unstarted /\ Reported)'
    BY <2>2 DEF Unstarted, Reported, TypeOK
  <2> QED BY <2>6, <2>8, <2>9, <2>10
<1> QED BY <1>1, <1>2 DEF TypeOK

LEMMA HandlerDirectory ==
  ASSUME MapInv, NEW c \in Conns, Handler(c)
  PROVE  Directory'
<1>1. CASE \/ Start(c) \/ ReadData(c) \/ ReadFails(c) \/ DrainDone(c) \/ AnswerFrame(c) \/ Reply(c)
           \/ TestConnected(c) \/ Disconnect(c) \/ Finish(c) \/ LoginReply(c) \/ PublishFrame(c)
           \/ \E l \in Lookups : WifiFrame(c, l)
  <2>1. UNCHANGED <<sessions, nlogin, imeiOf>> /\ closed \subseteq closed'
    BY <1>1 DEF Start, ReadData, ReadFails, DrainDone, AnswerFrame, Reply, TestConnected, Disconnect,
       Finish, LoginReply, PublishFrame, WifiFrame, sessVars
  <2>2. /\ \A d \in Conns : (hpc[d] \in Active <=> hpc'[d] \in Active) \/ nlogin[d] = 0
        /\ \A d \in Conns : hpc'[d] = "none" => hpc[d] = "none"
    BY <1>1 DEF Start, ReadData, ReadFails, DrainDone, AnswerFrame, Reply, TestConnected, Disconnect,
       Finish, LoginReply, PublishFrame, WifiFrame, Goto, Active, MapInv, Directory, Unstarted, TypeInv, TypeOK
  <2> QED BY <2>1, <2>2, DirectoryKept
<1> QED BY <1>1, LoginDirectory, RemoveDirectory DEF Handler

LEMMA ConnectTaskMapInv ==
  ASSUME MapInv, NEW s \in Sids, ConnectTask(s)
  PROVE  InCall' /\ Directory'
<1>1. UNCHANGED <<sessions, nlogin, imeiOf, closed, hpc, up>>
  BY DEF ConnectTask, TaskCheck, TaskConnect, TaskMark, TaskStep
<1> QED BY <1>1, DirectoryKept DEF InCall, MapInv

LEMMA UplinkMapInv ==
  ASSUME MapInv, NEW w \in Callers, Uplink(w) \/ Locate(w)
  PROVE  InCall' /\ Directory'
<1>1. up[w] # Idle
  BY BusyCaller
<1>2. UNCHANGED <<sessions, nlogin, imeiOf, closed>>
  BY DEF Uplink, Locate, Check, Lookup, Test, Connect, Mark, Publish, sessVars
<1>3. \/ \E t : up' = [up EXCEPT ![w] = t] /\ hpc' = hpc
      \/ Return(w)
  BY DEF Uplink, Locate, Check, Lookup, Test, Connect, Mark, Publish, Advance
<1>4. \A d \in Conns : d # w => hpc'[d] = hpc[d] /\ up'[d] = up[d]
  BY <1>3 DEF Return, MapInv, TypeInv, TypeOK, Callers
<1>5. w \in Conns => hpc[w] \in {"report", "iccid"}
  BY <1>1 DEF MapInv, InCall
<1>6. w \in Conns => hpc'[w] = hpc[w] \/ (hpc'[w] \in {"reply", "drain"} /\ up'[w] = Idle)
  BY <1>3 DEF Return, MapInv, TypeInv, TypeOK, Callers
<1>7. InCall'
  BY <1>4, <1>5, <1>6 DEF InCall, MapInv
<1>8. Directory'
  BY <1>2, <1>4, <1>5, <1>6, DirectoryKept DEF Active
<1> QED BY <1>7, <1>8

LEMMA StutterMapInv == MapInv /\ UNCHANGED vars => InCall' /\ Directory'
BY DirectoryKept DEF MapInv, InCall, vars, sessVars

(* The inductive invariant of the session map: registerSession and         *)
(* removeSession keep every entry under its Session's IMEI, the last of    *)
(* its handler's logins there, and the entry of every open connection.     *)
THEOREM MapInvariant == Spec => []MapInv
<1>1. MapInv /\ [Next]_vars => TypeInv'
  BY HandlerTypeInv, ConnectTaskTypeInv, UplinkTypeInv, StutterTypeInv DEF MapInv, Next, Callers
<1>2. MapInv /\ [Next]_vars => InCall' /\ Directory'
  BY HandlerInCall, HandlerDirectory, ConnectTaskMapInv, UplinkMapInv, StutterMapInv DEF Next, Callers
<1>3. MapInv /\ [Next]_vars => MapInv'
  BY <1>1, <1>2 DEF MapInv
<1> QED BY <1>3, InitMapInv, PTL DEF Spec

(* Whatever logins, takeovers and clean-ups interleave, a logged-in        *)
(* connection that the gateway has not closed is the one the session map   *)
(* holds for its IMEI.                                                     *)
THEOREM LiveConnectionsReachable == Spec => []LiveConnReachable
<1>1. MapInv => LiveConnReachable
  BY DEF MapInv, Directory
<1> QED BY <1>1, MapInvariant, PTL

(* removeSession compares Session pointers: once a handler has cleaned up, *)
(* the entry of the IMEI it last logged in with is not one of its own,     *)
(* even if it logged in several times and under several IMEIs.             *)
OwnEntryRemoved ==
  \A c \in Conns : nlogin[c] > 0 /\ hpc[c] \in HandlerPCs \ (Active \cup {"none"}) =>
    \A n \in 1 .. MaxLogins : sessions[Imei(c)] # <<c, n>>

(* A handler that has cleaned up leaves no Session of its own under the    *)
(* IMEI it last logged in with.                                            *)
THEOREM OwnEntriesRemoved == Spec => []OwnEntryRemoved
<1>1. MapInv => OwnEntryRemoved
  <2> SUFFICES ASSUME MapInv, NEW c \in Conns, nlogin[c] > 0, hpc[c] \notin Active,
                      NEW n \in 1 .. MaxLogins, sessions[Imei(c)] = <<c, n>>
               PROVE  FALSE
    BY DEF OwnEntryRemoved
  <2>1. Sess(c) = <<c, nlogin[c]>> /\ Imei(c) \in IMEIs
    BY SessType, ConstantsAssumption DEF MapInv, TypeInv, LoggedIn, TypeOK, Sids
  <2>2. n = nlogin[c]
    BY <2>1 DEF MapInv, Directory, LastOfHandler
  <2> QED BY <2>1, <2>2 DEF MapInv, Directory, Removed
<1> QED BY <1>1, MapInvariant, PTL

-----------------------------------------------------------------------------
(* Trackers that log in under one IMEI per connection. Without that a      *)
(* second login leaves the entry of the first behind for ever.             *)
OneIMEI == \A c \in Conns : \A i, j \in Reports[c] : i = j

\* Then an entry is of the last Session of its handler, under its current IMEI.
LEMMA LastEntry ==
  ASSUME OneIMEI, MapInv, NEW i \in IMEIs, sessions[i] # None
  PROVE  LET c == sessions[i][1]
         IN  c \in Conns /\ nlogin[c] > 0 /\ Imei(c) = i /\ sessions[i] = Sess(c)
<1>1. sessions[i] \in Sids
  BY DEF MapInv, TypeInv, TypeOK
<1>2. PICK c \in Conns, n \in 1 .. MaxLogins : sessions[i] = <<c, n>>
  BY <1>1 DEF Sids
<1>3. imeiOf[<<c, n>>] = i /\ <<c, n>> \in Sids /\ i # None
  BY <1>1, <1>2, ConstantsAssumption DEF MapInv, Directory, Keyed
<1>4. nlogin[c] > 0
  BY <1>3, ConstantsAssumption DEF MapInv, TypeInv, LoggedIn, TypeOK
<1>5. Sess(c) = <<c, nlogin[c]>> /\ Sess(c) \in Sids /\ Imei(c) = imeiOf[Sess(c)] /\ Imei(c) # None
  BY <1>4, SessType, ConstantsAssumption DEF MapInv, TypeInv, LoggedIn, TypeOK, Sids
<1>6. i \in Reports[c] /\ Imei(c) \in Reports[c]
  BY <1>3, <1>5 DEF MapInv, Directory, Reported
<1>7. Imei(c) = i
  BY <1>6 DEF OneIMEI
<1>8. sessions[i] = Sess(c)
  BY <1>2, <1>5, <1>7 DEF MapInv, Directory, LastOfHandler
<1> QED BY <1>2, <1>4, <1>7, <1>8

(* With trackers that log in under one IMEI per connection, every entry of *)
(* the session map belongs to a handler still in its read loop.            *)
THEOREM SessionsAreLive ==
  ASSUME OneIMEI
  PROVE  Spec => []SessionIsLive
<1>1. MapInv => SessionIsLive
  <2> SUFFICES ASSUME MapInv, NEW i \in IMEIs, sessions[i] # None
               PROVE  hpc[sessions[i][1]] \in Active
    BY DEF SessionIsLive
  <2> DEFINE c == sessions[i][1]
  <2>1. c \in Conns /\ nlogin[c] > 0 /\ sessions[Imei(c)] = Sess(c)
    BY LastEntry
  <2> HIDE DEF c
  <2>2. hpc[c] \in Active
    BY <2>1 DEF MapInv, Directory, Removed
  <2> QED BY <2>2 DEF c
<1> QED BY <1>1, MapInvariant, PTL

-----------------------------------------------------------------------------
(* Module Sessions implements module SessionDirectory, for any number of   *)
(* connections, IMEIs and logins, if every connection logs in under one    *)
(* IMEI. The refinement mapping is the one of Sessions (Phase, Current,    *)
(* Serving, Open).                                                         *)

\* The directory before anyone has connected.
LEMMA InitDirectory == Init => Dir!Init
<1> SUFFICES ASSUME Init PROVE Dir!Init
  OBVIOUS
<1>1. Phase = [c \in Conns |-> "active"] /\ Open = Conns
  BY DEF Init, Phase, Open
<1>2. Current = [c \in Conns |-> None]
  BY DEF Init, Current, Imei
<1>3. Serving = [i \in IMEIs |-> None]
  BY DEF Init, Serving
<1> QED BY <1>1, <1>2, <1>3 DEF Dir!Init

\* A step that neither touches the map nor the logins, closes no connection and
\* moves no handler to another phase is invisible.
LEMMA DirectoryUnchanged ==
  ASSUME UNCHANGED <<sessions, nlogin, imeiOf, closed>>,
         \A c \in Conns :
           /\ hpc[c] \in Active \cup {"none"} <=> hpc'[c] \in Active \cup {"none"}
           /\ hpc[c] = "done" <=> hpc'[c] = "done"
  PROVE  UNCHANGED Dir!dirVars
<1>1. Phase' = Phase
  BY DEF Phase
<1>2. Current' = Current
  BY DEF Current, Imei
<1>3. Serving' = Serving /\ Open' = Open
  BY DEF Serving, Open
<1> QED BY <1>1, <1>2, <1>3 DEF Dir!dirVars

\* registerSession logs in: it closes the connection it replaces, and no other.
LEMMA LoginStep ==
  ASSUME MapInv, NEW c \in Conns, NEW i \in IMEIs, LoginFrame(c, i)
  PROVE  Dir!Login(c, i)
<1> DEFINE k == nlogin[c] + 1
           s == <<c, k>>
<1> USE ConstantsAssumption DEF MapInv, TypeInv
<1>1. k \in 1 .. MaxLogins /\ s \in Sids /\ s # None /\ nlogin[c] \in Nat /\ k # 0
  BY DEF LoginFrame, TypeOK, Sids
<1>2. /\ hpc[c] = "drain" /\ hpc' = [hpc EXCEPT ![c] = "registered"]
      /\ nlogin' = [nlogin EXCEPT ![c] = k]
      /\ imeiOf' = [imeiOf EXCEPT ![s] = i]
      /\ sessions' = [sessions EXCEPT ![i] = s]
      /\ closed' = ClosedByLogin(c, i)
  BY DEF LoginFrame, Goto
<1>3. Phase[c] = "active" /\ Phase' = Phase
  BY <1>2 DEF Phase, Active, TypeOK
<1>4. Current' = [Current EXCEPT ![c] = i]
  <2>1. Imei(c)' = i
    BY <1>1, <1>2 DEF Imei, TypeOK
  <2>2. \A d \in Conns \ {c} : Imei(d)' = Imei(d)
    BY <1>1, <1>2 DEF Imei, TypeOK, Sids
  <2> QED BY <2>1, <2>2 DEF Current
<1>5. Serving' = [Serving EXCEPT ![i] = c]
  BY <1>1, <1>2 DEF Serving, TypeOK
<1>6. Open' = Open \ ({Serving[i]} \ {c})
  <2>1. CASE sessions[i] = None
    BY <2>1, <1>2 DEF ClosedByLogin, Serving, Open
  <2>2. CASE sessions[i] # None
    BY <2>2, <1>2 DEF ClosedByLogin, Serving, Open
  <2> QED BY <2>1, <2>2
<1> QED BY <1>3, <1>4, <1>5, <1>6 DEF Dir!Login

\* removeSession leaves: comparing Session pointers under the last IMEI gives up
\* exactly what still leads to this connection (LastEntry).
LEMMA LeaveStep ==
  ASSUME OneIMEI, MapInv, NEW c \in Conns, RemoveSession(c)
  PROVE  Dir!Leave(c)
<1> USE ConstantsAssumption DEF MapInv, TypeInv, Directory
<1>1. hpc[c] = "ending" /\ hpc' \in {[hpc EXCEPT ![c] = "closing"], [hpc EXCEPT ![c] = "removed"]}
  <2>1. CASE nlogin[c] = 0
    BY <2>1 DEF RemoveSession, Goto
  <2>2. CASE nlogin[c] > 0
    BY <2>2 DEF RemoveSession, Goto
  <2> QED BY <2>1, <2>2 DEF RemoveSession
<1>2. Phase[c] = "active" /\ Phase' = [Phase EXCEPT ![c] = "leaving"]
  <2>1. Phase[c] = "active"
    BY <1>1 DEF Phase, Active
  <2>2. \A d \in Conns \ {c} : hpc'[d] = hpc[d]
    BY <1>1 DEF TypeOK
  <2>3. hpc'[c] \in {"closing", "removed"}
    BY <1>1 DEF TypeOK
  <2> QED BY <2>1, <2>2, <2>3 DEF Phase, Active
<1>3. Current' = Current /\ Open' = Open
  BY DEF RemoveSession, Current, Imei, Open, sessVars
<1> DEFINE Left == [i \in IMEIs |-> IF Serving[i] = c THEN None ELSE Serving[i]]
<1>4. \A i \in IMEIs : sessions'[i] = IF Serving[i] = c THEN None ELSE sessions[i]
  <2> SUFFICES ASSUME NEW i \in IMEIs
               PROVE  sessions'[i] = IF Serving[i] = c THEN None ELSE sessions[i]
    OBVIOUS
  <2>1. Serving[i] = c => nlogin[c] > 0 /\ i = Imei(c) /\ sessions[i] = Sess(c)
    BY LastEntry DEF Serving
  <2>2. CASE nlogin[c] = 0
    BY <2>1, <2>2 DEF RemoveSession, sessVars
  <2>3. CASE nlogin[c] > 0
    <3>1. Sess(c) = <<c, nlogin[c]>> /\ Sess(c) # None
      BY <2>3, SessType DEF TypeOK, Sids
    <3>2. i = Imei(c) /\ sessions[i] = Sess(c) => Serving[i] = c
      BY <3>1 DEF Serving
    <3>3. sessions'[i] = IF i = Imei(c) /\ sessions[i] = Sess(c) THEN None ELSE sessions[i]
      BY <2>3 DEF RemoveSession, SessionsWithout, TypeOK
    <3> QED BY <2>1, <3>2, <3>3
  <2> QED BY <2>2, <2>3 DEF TypeOK
<1>5. Serving' = Left
  BY <1>4 DEF Serving
<1> QED BY <1>2, <1>3, <1>5 DEF Dir!Leave

\* sc.Close ends the connection.
LEMMA CloseStep ==
  ASSUME MapInv, NEW c \in Conns, Finish(c)
  PROVE  Dir!Close(c)
<1> USE DEF MapInv, TypeInv
<1>1. hpc[c] = "closing" /\ hpc' = [hpc EXCEPT ![c] = "done"] /\ closed' = closed \cup {c}
  BY DEF Finish, Goto
<1>2. Phase[c] = "leaving" /\ Phase' = [Phase EXCEPT ![c] = "gone"]
  BY <1>1 DEF Phase, Active, TypeOK
<1>3. Open' = Open \ {c}
  BY <1>1 DEF Open
<1>4. Current' = Current /\ Serving' = Serving
  BY DEF Finish, sessVars, Current, Imei, Serving
<1> QED BY <1>2, <1>3, <1>4 DEF Dir!Close

LEMMA HandlerStep ==
  ASSUME OneIMEI, MapInv, NEW c \in Conns, Handler(c)
  PROVE  Dir!Next \/ UNCHANGED Dir!dirVars
<1>1. CASE \/ Start(c) \/ ReadData(c) \/ ReadFails(c) \/ DrainDone(c) \/ AnswerFrame(c) \/ Reply(c)
           \/ TestConnected(c) \/ Disconnect(c) \/ LoginReply(c) \/ PublishFrame(c)
           \/ \E l \in Lookups : WifiFrame(c, l)
  <2>1. UNCHANGED <<sessions, nlogin, imeiOf, closed>>
    BY <1>1 DEF Start, ReadData, ReadFails, DrainDone, AnswerFrame, Reply, TestConnected, Disconnect,
       LoginReply, PublishFrame, WifiFrame, sessVars
  <2>2. \A d \in Conns :
          /\ hpc[d] \in Active \cup {"none"} <=> hpc'[d] \in Active \cup {"none"}
          /\ hpc[d] = "done" <=> hpc'[d] = "done"
    BY <1>1 DEF Start, ReadData, ReadFails, DrainDone, AnswerFrame, Reply, TestConnected, Disconnect,
       LoginReply, PublishFrame, WifiFrame, Goto, Active, MapInv, TypeInv, TypeOK
  <2> QED BY <2>1, <2>2, DirectoryUnchanged
<1>2. ASSUME NEW i \in IMEIs, LoginFrame(c, i) PROVE Dir!Next
  BY <1>2, LoginStep DEF Dir!Next
<1>3. CASE RemoveSession(c)
  BY <1>3, LeaveStep DEF Dir!Next
<1>4. CASE Finish(c)
  BY <1>4, CloseStep DEF Dir!Next
<1> QED BY <1>1, <1>2, <1>3, <1>4 DEF Handler

LEMMA ConnectTaskStep ==
  ASSUME NEW s \in Sids, ConnectTask(s)
  PROVE  UNCHANGED Dir!dirVars
<1>1. UNCHANGED <<sessions, nlogin, imeiOf, closed, hpc>>
  BY DEF ConnectTask, TaskCheck, TaskConnect, TaskMark, TaskStep
<1> QED BY <1>1, DirectoryUnchanged

\* A publish call may end and move its handler on, within its read loop.
LEMMA UplinkStep ==
  ASSUME MapInv, NEW w \in Callers, Uplink(w) \/ Locate(w)
  PROVE  UNCHANGED Dir!dirVars
<1>1. w \in Conns => hpc[w] \in {"report", "iccid"}
  BY BusyCaller DEF MapInv, InCall
<1>2. UNCHANGED <<sessions, nlogin, imeiOf, closed>>
  BY DEF Uplink, Locate, Check, Lookup, Test, Connect, Mark, Publish, sessVars
<1>3. hpc' = hpc \/ Return(w)
  BY DEF Uplink, Locate, Check, Lookup, Test, Connect, Mark, Publish, Advance
<1>4. \A d \in Conns :
        /\ hpc[d] \in Active \cup {"none"} <=> hpc'[d] \in Active \cup {"none"}
        /\ hpc[d] = "done" <=> hpc'[d] = "done"
  BY <1>1, <1>3 DEF Return, Active, MapInv, TypeInv, TypeOK
<1> QED BY <1>2, <1>4, DirectoryUnchanged

LEMMA StutterStep == UNCHANGED vars => UNCHANGED Dir!dirVars
BY DirectoryUnchanged DEF vars, sessVars

(* The handlers, with their sessions compared by pointer, their clean-up   *)
(* in several steps and their background goroutines, implement the         *)
(* directory of live connections if each connection logs in under one      *)
(* IMEI: a login takes an IMEI over and closes the connection that had it, *)
(* in one step, and a handler gives up all that is its own and no more.    *)
THEOREM DirectoryImplemented ==
  ASSUME OneIMEI
  PROVE  Spec => ImplementsDirectory
<1>1. MapInv /\ [Next]_vars => Dir!Next \/ UNCHANGED Dir!dirVars
  BY HandlerStep, ConnectTaskStep, UplinkStep, StutterStep DEF Next, Callers
<1>2. MapInv /\ [Next]_vars => [Dir!Next]_(Dir!dirVars)
  BY <1>1
<1> QED BY <1>2, InitDirectory, MapInvariant, PTL DEF Spec, ImplementsDirectory, Dir!Spec

=============================================================================
