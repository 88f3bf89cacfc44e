------------------------- MODULE AnnouncementProofs -------------------------
(***************************************************************************)
(* Theorems about what module Sessions tells ThingsBoard, for any number   *)
(* of connections, IMEIs, lookups and logins.                              *)
(***************************************************************************)
EXTENDS SessionsProofs

(***************************************************************************)
(* The invariant follows a permission and an announcement through the      *)
(* goroutines. What a goroutine once learned stays true: claims granted,   *)
(* devices announced, the IMEI of a Session and its flag are never taken   *)
(* back, whatever the other goroutines do meanwhile.                       *)
(***************************************************************************)
Grows ==
  /\ \A i \in IMEIs : granted[i] => granted'[i]
  /\ \A i \in IMEIs : tb[i] # "none" => tb'[i] # "none"
  /\ \A s \in Sids : imeiOf[s] # None => imeiOf'[s] = imeiOf[s]
  /\ \A s \in Sids : tbConnected[s] => tbConnected'[s]

\* A call of ensureTBConnected: the Session it looked up is one of its IMEI; it
\* has the registry's permission, and before it publishes, the announcement.
CallSound(w) ==
  up[w] # Idle =>
    /\ up[w].sess # None => imeiOf[up[w].sess] = up[w].imei
    /\ up[w].pc = "test" => up[w].sess # None
    /\ up[w].pc \notin {"locate", "check"} => granted[up[w].imei]
    /\ up[w].pc \in {"mark", "publish"} => tb[up[w].imei] # "none"

\* The same for maybeConnectTB.
TaskSound(s) ==
  /\ task[s] \in {"connect", "mark"} => granted[imeiOf[s]]
  /\ task[s] = "mark" => tb[imeiOf[s]] # "none"

\* A handler announces the end of a Session whose flag it has seen.
EndSound(c) == hpc[c] = "announce" => tbConnected[Sess(c)]

Sound ==
  /\ \A w \in Callers : CallSound(w)
  /\ \A s \in Sids : TaskSound(s)
  /\ \A c \in Conns : EndSound(c)
  /\ FlagMeansAnnounced
  /\ OnlyClaimedAnnounced

AnnounceInv == MapInv /\ Sound


LEMMA InitSound == Init => Sound
BY ConstantsAssumption
   DEF Init, Sound, CallSound, TaskSound, EndSound, FlagMeansAnnounced, OnlyClaimedAnnounced, Sids, Callers

\* A goroutine that does not act keeps what it knows.
LEMMA CallKept ==
  ASSUME AnnounceInv, Grows, NEW w \in Callers, up'[w] = up[w]
  PROVE  CallSound(w)'
<1> SUFFICES ASSUME up[w] # Idle PROVE CallSound(w)'
  BY DEF CallSound
<1>1. up[w].imei \in IMEIs /\ up[w].sess \in Sids \cup {None} /\ CallSound(w) /\ up[w].imei # None
  BY ConstantsAssumption DEF AnnounceInv, Sound, MapInv, TypeInv, TypeOK
<1> QED BY <1>1 DEF CallSound, Grows

LEMMA TaskKept ==
  ASSUME AnnounceInv, Grows, NEW s \in Sids, task'[s] = task[s]
  PROVE  TaskSound(s)'
<1>1. TaskSound(s) /\ (task[s] # "none" => imeiOf[s] \in IMEIs /\ imeiOf[s] # None)
  BY DEF AnnounceInv, Sound, MapInv, TypeInv, TypeOK, LoggedIn
<1> QED BY <1>1 DEF TaskSound, Grows

LEMMA FlagKept ==
  ASSUME AnnounceInv, Grows, NEW s \in Sids, tbConnected'[s] = tbConnected[s]
  PROVE  tbConnected'[s] => imeiOf'[s] # None /\ tb'[imeiOf'[s]] # "none"
BY DEF AnnounceInv, Sound, FlagMeansAnnounced, Grows, MapInv, TypeInv, TypeOK

LEMMA EndKept ==
  ASSUME AnnounceInv, Grows, NEW c \in Conns, hpc'[c] # "announce" \/ (hpc[c] = "announce" /\ nlogin'[c] = nlogin[c])
  PROVE  EndSound(c)'
<1> SUFFICES ASSUME hpc[c] = "announce", nlogin'[c] = nlogin[c] PROVE tbConnected'[Sess(c)']
  BY DEF EndSound
<1>1. Sess(c)' = Sess(c) /\ Sess(c) \in Sids /\ tbConnected[Sess(c)]
  BY SessType DEF Sess, AnnounceInv, Sound, EndSound, MapInv, TypeInv, LoggedIn
<1> QED BY <1>1 DEF Grows

LEMMA ClaimsKept ==
  ASSUME AnnounceInv, Grows, UNCHANGED tb
  PROVE  OnlyClaimedAnnounced'
BY DEF AnnounceInv, Sound, OnlyClaimedAnnounced, Grows

-----------------------------------------------------------------------------
\* A device is taken offline only after its Session's flag was seen: it was
\* announced before.
LEMMA DisconnectAnnounced ==
  ASSUME AnnounceInv, NEW c \in Conns, Disconnect(c)
  PROVE  Imei(c) \in IMEIs /\ tb[Imei(c)] # "none" /\ granted[Imei(c)]
<1>1. hpc[c] = "announce" /\ nlogin[c] > 0
  BY DEF Disconnect, Goto, AnnounceInv, MapInv, TypeInv, LoggedIn
<1>2. Sess(c) \in Sids /\ Imei(c) = imeiOf[Sess(c)] /\ tbConnected[Sess(c)]
  BY <1>1, SessType DEF AnnounceInv, Sound, EndSound, MapInv, TypeInv
<1>3. Imei(c) # None /\ tb[Imei(c)] # "none"
  BY <1>2 DEF AnnounceInv, Sound, FlagMeansAnnounced
<1>4. Imei(c) \in IMEIs
  BY <1>2, <1>3 DEF AnnounceInv, MapInv, TypeInv, TypeOK
<1> QED BY <1>3, <1>4 DEF AnnounceInv, Sound, OnlyClaimedAnnounced

LEMMA HandlerGrows ==
  ASSUME AnnounceInv, NEW c \in Conns, Handler(c)
  PROVE  Grows
<1>1. CASE Disconnect(c)
  <2>1. Imei(c) \in IMEIs /\ UNCHANGED <<sessVars, granted>>
    BY <1>1, DisconnectAnnounced DEF Disconnect
  <2>2. \A i \in IMEIs : tb[i] # "none" => tb'[i] # "none"
    BY <1>1 DEF Disconnect, DisconnectDevice, AnnounceInv, MapInv, TypeInv, TypeOK
  <2> QED BY <2>1, <2>2 DEF Grows, sessVars
<1>2. ASSUME NEW i \in IMEIs, LoginFrame(c, i) PROVE Grows
  <2> DEFINE s == <<c, nlogin[c] + 1>>
  <2>1. nlogin[c] + 1 \in 1 .. MaxLogins /\ nlogin[c] \in Nat /\ s \in Sids
    BY <1>2, ConstantsAssumption DEF LoginFrame, AnnounceInv, MapInv, TypeInv, TypeOK, Sids
  <2>2. imeiOf[s] = None
    BY <2>1 DEF AnnounceInv, MapInv, TypeInv, LoggedIn
  <2>3. imeiOf' = [imeiOf EXCEPT ![s] = i] /\ UNCHANGED <<tbConnected, tb, granted>>
    BY <1>2 DEF LoginFrame, tbVars
  <2> HIDE DEF s
  <2> QED BY <2>1, <2>2, <2>3 DEF Grows, AnnounceInv, MapInv, TypeInv, TypeOK
<1>3. CASE \/ Start(c) \/ ReadData(c) \/ ReadFails(c) \/ DrainDone(c) \/ AnswerFrame(c) \/ Reply(c)
           \/ RemoveSession(c) \/ TestConnected(c) \/ Finish(c) \/ LoginReply(c) \/ PublishFrame(c)
           \/ \E l \in Lookups : WifiFrame(c, l)
  <2>1. UNCHANGED <<imeiOf, tbConnected, tb, granted>>
    BY <1>3 DEF Start, ReadData, ReadFails, DrainDone, AnswerFrame, Reply, RemoveSession, TestConnected,
       Finish, LoginReply, PublishFrame, WifiFrame, sessVars, tbVars
  <2> QED BY <2>1 DEF Grows
<1> QED BY <1>1, <1>2, <1>3 DEF Handler

LEMMA HandlerSound ==
  ASSUME AnnounceInv, NEW c \in Conns, Handler(c)
  PROVE  Sound'
<1>1. Grows
  BY HandlerGrows
<1>2. ASSUME NEW w \in Callers PROVE CallSound(w)'
  <2>1. CASE up'[w] = up[w]
    BY <1>1, <2>1, CallKept
  <2>2. CASE up'[w] # up[w]
    <3>1. up'[w].pc \in {"locate", "check"} /\ up'[w].sess = None
      BY <2>2 DEF Handler, Start, ReadData, ReadFails, DrainDone, AnswerFrame, Reply, RemoveSession,
         TestConnected, Disconnect, Finish, LoginFrame, LoginReply, PublishFrame, WifiFrame,
         Callers, AnnounceInv, MapInv, TypeInv, TypeOK
    <3> QED BY <3>1 DEF CallSound
  <2> QED BY <2>1, <2>2
<1>3. ASSUME NEW s \in Sids PROVE TaskSound(s)'
  <2>1. task'[s] = task[s] \/ task'[s] = "check"
    BY DEF Handler, Start, ReadData, ReadFails, DrainDone, AnswerFrame, Reply, RemoveSession,
       TestConnected, Disconnect, Finish, LoginFrame, LoginReply, PublishFrame, WifiFrame,
       AnnounceInv, MapInv, TypeInv, TypeOK
  <2> QED BY <1>1, <2>1, TaskKept DEF TaskSound
<1>4. FlagMeansAnnounced'
  <2>1. tbConnected' = tbConnected
    BY DEF Handler, Start, ReadData, ReadFails, DrainDone, AnswerFrame, Reply, RemoveSession,
       TestConnected, Disconnect, Finish, LoginFrame, LoginReply, PublishFrame, WifiFrame, sessVars
  <2> QED BY <1>1, <2>1, FlagKept DEF FlagMeansAnnounced
<1>5. ASSUME NEW d \in Conns PROVE EndSound(d)'
  <2>1. CASE TestConnected(c) /\ d = c
    <3>1. hpc'[c] = "announce" => tbConnected[Sess(c)]
      BY <2>1 DEF TestConnected, Goto, AnnounceInv, MapInv, TypeInv, TypeOK
    <3>2. UNCHANGED sessVars
      BY <2>1 DEF TestConnected
    <3> QED BY <2>1, <3>1, <3>2 DEF EndSound, Sess, sessVars
  <2>2. CASE ~ (TestConnected(c) /\ d = c)
    <3>1. d # c => hpc'[d] = hpc[d] /\ nlogin'[d] = nlogin[d]
      BY DEF Handler, Start, ReadData, ReadFails, DrainDone, AnswerFrame, Reply, RemoveSession,
         TestConnected, Disconnect, Finish, LoginFrame, LoginReply, PublishFrame, WifiFrame, Goto, sessVars,
         AnnounceInv, MapInv, TypeInv, TypeOK
    <3>2. d = c => hpc'[d] # "announce"
      BY <2>2 DEF Handler, Start, ReadData, ReadFails, DrainDone, AnswerFrame, Reply, RemoveSession,
         Disconnect, Finish, LoginFrame, LoginReply, PublishFrame, WifiFrame, Goto,
         AnnounceInv, MapInv, TypeInv, TypeOK
    <3> QED BY <1>1, <3>1, <3>2, EndKept
  <2> QED BY <2>1, <2>2
<1>6. OnlyClaimedAnnounced'
  <2>1. CASE Disconnect(c)
    <3>1. granted[Imei(c)] /\ granted' = granted /\ \A i \in IMEIs \ {Imei(c)} : tb'[i] = tb[i]
      BY <2>1, DisconnectAnnounced DEF Disconnect, DisconnectDevice, AnnounceInv, MapInv, TypeInv, TypeOK
    <3> QED BY <3>1 DEF OnlyClaimedAnnounced, AnnounceInv, Sound
  <2>2. CASE ~ Disconnect(c)
    <3>1. tb' = tb
      BY <2>2 DEF Handler, Start, ReadData, ReadFails, DrainDone, AnswerFrame, Reply, RemoveSession,
         TestConnected, Finish, LoginFrame, LoginReply, PublishFrame, WifiFrame, tbVars
    <3> QED BY <1>1, <3>1, ClaimsKept
  <2> QED BY <2>1, <2>2
<1> QED BY <1>2, <1>3, <1>4, <1>5, <1>6 DEF Sound

-----------------------------------------------------------------------------
LEMMA ConnectTaskSound ==
  ASSUME AnnounceInv, NEW s \in Sids, ConnectTask(s)
  PROVE  Sound' /\ Grows
<1> DEFINE i == imeiOf[s]
<1>1. i \in IMEIs /\ i # None
  BY DEF AnnounceInv, MapInv, TypeInv, TypeOK, LoggedIn, ConnectTask, TaskCheck, TaskConnect, TaskMark, TaskStep
<1>2. /\ UNCHANGED <<sessions, nlogin, imeiOf, closed, hpc, up>>
      /\ \A t \in Sids \ {s} : task'[t] = task[t]
  BY DEF ConnectTask, TaskCheck, TaskConnect, TaskMark, TaskStep, AnnounceInv, MapInv, TypeInv, TypeOK
<1>3. CASE TaskCheck(s)
  <2>1. /\ UNCHANGED <<tbConnected, tb>> /\ \A j \in IMEIs : granted[j] => granted'[j]
        /\ task'[s] # "mark" /\ (task'[s] = "connect" => granted'[i])
    BY <1>1, <1>3 DEF TaskCheck, TaskStep, AnnounceInv, MapInv, TypeInv, TypeOK
  <2>2. Grows
    BY <1>2, <2>1 DEF Grows
  <2>3. TaskSound(s)'
    BY <1>2, <2>1 DEF TaskSound
  <2> QED BY <1>2, <2>1, <2>2, <2>3, CallKept, TaskKept, FlagKept, EndKept, ClaimsKept
          DEF Sound, FlagMeansAnnounced, EndSound
<1>4. CASE TaskConnect(s)
  <2>1. /\ UNCHANGED <<tbConnected, granted>> /\ granted[i]
        /\ \A j \in IMEIs \ {i} : tb'[j] = tb[j]
        /\ tb'[i] \in {tb[i], "up"} /\ task'[s] # "connect" /\ (task'[s] = "mark" => tb'[i] = "up")
    BY <1>1, <1>4 DEF TaskConnect, ConnectDevice, TaskStep, AnnounceInv, Sound, TaskSound, MapInv, TypeInv, TypeOK
  <2>2. Grows
    BY <1>2, <2>1 DEF Grows
  <2>3. TaskSound(s)'
    BY <1>2, <2>1 DEF TaskSound
  <2>4. OnlyClaimedAnnounced'
    BY <2>1 DEF OnlyClaimedAnnounced, AnnounceInv, Sound
  <2> QED BY <1>2, <2>1, <2>2, <2>3, <2>4, CallKept, TaskKept, FlagKept, EndKept
          DEF Sound, FlagMeansAnnounced, EndSound
<1>5. CASE TaskMark(s)
  <2>1. /\ UNCHANGED <<tb, granted>> /\ tb[i] # "none" /\ task'[s] = "done" /\ tbConnected'[s]
        /\ \A t \in Sids \ {s} : tbConnected'[t] = tbConnected[t]
    BY <1>5 DEF TaskMark, TaskStep, AnnounceInv, Sound, TaskSound, MapInv, TypeInv, TypeOK
  <2>2. Grows
    BY <1>2, <2>1 DEF Grows
  <2>3. TaskSound(s)'
    BY <2>1 DEF TaskSound
  <2>4. FlagMeansAnnounced'
    BY <1>1, <1>2, <2>1, <2>2, FlagKept DEF FlagMeansAnnounced
  <2> QED BY <1>2, <2>1, <2>2, <2>3, <2>4, CallKept, TaskKept, EndKept, ClaimsKept DEF Sound, EndSound
<1> QED BY <1>3, <1>4, <1>5 DEF ConnectTask

-----------------------------------------------------------------------------
\* What a step of a call leaves alone.
LEMMA UplinkFrame ==
  ASSUME AnnounceInv, NEW w \in Callers, Uplink(w) \/ Locate(w)
  PROVE  /\ UNCHANGED <<sessions, nlogin, imeiOf, closed, task>>
         /\ \A v \in Callers \ {w} : up'[v] = up[v]
         /\ \A c \in Conns : hpc'[c] # "announce" \/ hpc'[c] = hpc[c]
         /\ up[w] \in [pc : UplinkPCs, imei : IMEIs, sess : Sids \cup {None}] /\ CallSound(w)
         /\ up[w] # Idle
<1>1. up[w] # Idle
  BY BusyCaller
<1>2. up[w] \in [pc : UplinkPCs, imei : IMEIs, sess : Sids \cup {None}] /\ CallSound(w)
  BY <1>1 DEF AnnounceInv, Sound, MapInv, TypeInv, TypeOK
<1>3. UNCHANGED <<sessions, nlogin, imeiOf, closed, task>>
  BY DEF Uplink, Locate, Check, Lookup, Test, Connect, Mark, Publish, sessVars
<1>4. \/ \E t : up' = [up EXCEPT ![w] = t] /\ hpc' = hpc
      \/ Return(w)
  BY DEF Uplink, Locate, Check, Lookup, Test, Connect, Mark, Publish, Advance
<1>5. /\ \A v \in Callers \ {w} : up'[v] = up[v]
      /\ \A c \in Conns : hpc'[c] # "announce" \/ hpc'[c] = hpc[c]
  BY <1>4 DEF Return, AnnounceInv, MapInv, TypeInv, TypeOK
<1> QED BY <1>1, <1>2, <1>3, <1>5

\* A call ends or goes on.
LEMMA CallMoves ==
  ASSUME AnnounceInv, NEW w \in Callers
  PROVE  /\ Return(w) => up'[w] = Idle
         /\ \A pc \in UplinkPCs : Advance(w, pc) /\ up[w] # Idle =>
              up'[w].pc = pc /\ up'[w].imei = up[w].imei /\ up'[w].sess = up[w].sess
<1>1. Return(w) => up'[w] = Idle
  BY DEF Return, AnnounceInv, MapInv, TypeInv, TypeOK
<1>2. ASSUME NEW pc \in UplinkPCs, Advance(w, pc), up[w] # Idle
      PROVE  up'[w].pc = pc /\ up'[w].imei = up[w].imei /\ up'[w].sess = up[w].sess
  BY <1>2 DEF Advance, AnnounceInv, MapInv, TypeInv, TypeOK
<1> QED BY <1>1, <1>2

\* A call that asks neither the registry nor ThingsBoard and sets no flag.
LEMMA CallOnly ==
  ASSUME AnnounceInv, NEW w \in Callers, Uplink(w) \/ Locate(w), CallSound(w)',
         UNCHANGED <<tbConnected, tb, granted>>
  PROVE  Sound' /\ Grows
<1>1. Grows
  BY UplinkFrame DEF Grows
<1>2. /\ \A v \in Callers : CallSound(v)' /\ \A s \in Sids : TaskSound(s)'
      /\ \A c \in Conns : EndSound(c)'
  BY <1>1, UplinkFrame, CallKept, TaskKept, EndKept
<1>3. FlagMeansAnnounced' /\ OnlyClaimedAnnounced'
  BY <1>1, FlagKept, ClaimsKept DEF FlagMeansAnnounced
<1> QED BY <1>1, <1>2, <1>3 DEF Sound

LEMMA UplinkSound ==
  ASSUME AnnounceInv, NEW w \in Callers, Uplink(w) \/ Locate(w)
  PROVE  Sound' /\ Grows
<1> DEFINE i == up[w].imei
<1>1. /\ UNCHANGED <<sessions, nlogin, imeiOf, closed, task>>
      /\ \A v \in Callers \ {w} : up'[v] = up[v]
      /\ \A c \in Conns : hpc'[c] # "announce" \/ hpc'[c] = hpc[c]
      /\ i \in IMEIs /\ up[w].sess \in Sids \cup {None} /\ CallSound(w) /\ up[w] # Idle
  BY UplinkFrame
<1>2. CASE Locate(w) \/ Publish(w)
  <2>1. Advance(w, "check") \/ Return(w)
    BY <1>2 DEF Locate, Publish
  <2>2. CallSound(w)'
    BY <1>1, <2>1, CallMoves DEF CallSound, UplinkPCs
  <2> QED BY <1>2, <2>2, CallOnly DEF Locate, Publish, sessVars, tbVars
<1>3. CASE Check(w)
  <2>1. UNCHANGED <<tbConnected, tb>> /\ \A j \in IMEIs : granted[j] => granted'[j]
    BY <1>3 DEF Check, sessVars, AnnounceInv, MapInv, TypeInv, TypeOK
  <2>2. Return(w) \/ (Advance(w, "lookup") /\ granted'[i])
    BY <1>1, <1>3 DEF Check, AnnounceInv, MapInv, TypeInv, TypeOK
  <2>3. CallSound(w)'
    BY <1>1, <2>1, <2>2, CallMoves DEF CallSound, UplinkPCs
  <2>4. Grows
    BY <1>1, <2>1 DEF Grows
  <2> QED BY <1>1, <2>1, <2>3, <2>4, CallKept, TaskKept, FlagKept, EndKept, ClaimsKept
          DEF Sound, FlagMeansAnnounced
<1>4. CASE Lookup(w)
  <2>1. /\ up[w].pc = "lookup"
        /\ up'[w] = [pc |-> IF sessions[i] = None THEN "connect" ELSE "test", imei |-> i, sess |-> sessions[i]]
    BY <1>4 DEF Lookup, At, AnnounceInv, MapInv, TypeInv, TypeOK
  <2>2. sessions[i] # None => imeiOf[sessions[i]] = i
    BY <1>1 DEF AnnounceInv, MapInv, Directory, Keyed
  <2>3. granted[i] /\ UNCHANGED <<tbConnected, tb, granted>>
    BY <1>1, <1>4, <2>1 DEF CallSound, Lookup, sessVars, tbVars
  <2>4. CallSound(w)'
    BY <1>1, <2>1, <2>2, <2>3 DEF CallSound
  <2> QED BY <2>3, <2>4, CallOnly
<1>5. CASE Test(w)
  <2>1. /\ up[w].pc = "test" /\ UNCHANGED <<tbConnected, tb, granted>>
        /\ Advance(w, IF tbConnected[up[w].sess] THEN "publish" ELSE "connect")
    BY <1>5 DEF Test, At, sessVars, tbVars
  <2>2. up[w].sess \in Sids /\ imeiOf[up[w].sess] = i /\ granted[i]
    BY <1>1, <2>1 DEF CallSound
  <2>3. tbConnected[up[w].sess] => tb[i] # "none"
    BY <2>2 DEF AnnounceInv, Sound, FlagMeansAnnounced
  <2>4. CallSound(w)'
    BY <1>1, <2>1, <2>2, <2>3, CallMoves DEF CallSound, UplinkPCs
  <2> QED BY <2>1, <2>4, CallOnly
<1>6. CASE Connect(w)
  <2>1. granted[i] /\ UNCHANGED <<tbConnected, granted>>
    BY <1>1, <1>6 DEF CallSound, Connect, At, sessVars
  <2>2. /\ \A j \in IMEIs \ {i} : tb'[j] = tb[j]
        /\ tb'[i] \in {tb[i], "up"} /\ (Return(w) \/ (Advance(w, "mark") /\ tb'[i] = "up"))
    BY <1>1, <1>6 DEF Connect, ConnectDevice, AnnounceInv, MapInv, TypeInv, TypeOK
  <2>3. Grows
    BY <1>1, <2>1, <2>2 DEF Grows
  <2>4. CallSound(w)'
    BY <1>1, <2>1, <2>2, CallMoves DEF CallSound, UplinkPCs
  <2>5. OnlyClaimedAnnounced'
    BY <2>1, <2>2 DEF OnlyClaimedAnnounced, AnnounceInv, Sound
  <2> QED BY <1>1, <2>1, <2>3, <2>4, <2>5, CallKept, TaskKept, FlagKept, EndKept
          DEF Sound, FlagMeansAnnounced
<1>7. CASE Mark(w)
  <2>1. Advance(w, "publish") /\ UNCHANGED <<tb, granted>> /\ granted[i] /\ tb[i] # "none"
    BY <1>1, <1>7 DEF Mark, At, tbVars, CallSound
  <2>2. /\ \A s \in Sids \ {up[w].sess} : tbConnected'[s] = tbConnected[s]
        /\ up[w].sess # None => tbConnected'[up[w].sess] /\ imeiOf[up[w].sess] = i
    BY <1>1, <1>7, ConstantsAssumption DEF Mark, CallSound, AnnounceInv, MapInv, TypeInv, TypeOK, Sids
  <2>3. Grows
    BY <1>1, <2>1, <2>2, ConstantsAssumption DEF Grows, Sids
  <2>4. CallSound(w)'
    BY <1>1, <2>1, CallMoves DEF CallSound, UplinkPCs
  <2>5. FlagMeansAnnounced'
    <3> SUFFICES ASSUME NEW s \in Sids, tbConnected'[s]
                 PROVE  imeiOf'[s] # None /\ tb'[imeiOf'[s]] # "none"
      BY DEF FlagMeansAnnounced
    <3>1. CASE s = up[w].sess
      BY <1>1, <2>1, <2>2, <3>1, ConstantsAssumption DEF Sids
    <3>2. CASE s # up[w].sess
      BY <2>2, <2>3, <3>2, FlagKept
    <3> QED BY <3>1, <3>2
  <2> QED BY <1>1, <2>1, <2>3, <2>4, <2>5, CallKept, TaskKept, EndKept, ClaimsKept DEF Sound
<1> QED BY <1>2, <1>3, <1>4, <1>5, <1>6, <1>7 DEF Uplink

-----------------------------------------------------------------------------
LEMMA StutterSound == AnnounceInv /\ UNCHANGED vars => Sound'
BY DEF AnnounceInv, Sound, CallSound, TaskSound, EndSound, Sess, FlagMeansAnnounced, OnlyClaimedAnnounced,
   vars, sessVars, tbVars

(* The inductive invariant of the announcements: a goroutine that is about *)
(* to announce a device has been granted it, and one that is about to set  *)
(* a flag, to publish or to announce the end has announced it, whichever   *)
(* handler's Session it found and whatever has happened to it since.       *)
THEOREM AnnounceInvariant == Spec => []AnnounceInv
<1>1. Init => AnnounceInv
  BY InitMapInv, InitSound DEF AnnounceInv
<1>2. AnnounceInv /\ [Next]_vars => Sound'
  BY HandlerSound, ConnectTaskSound, UplinkSound, StutterSound DEF Next, Callers
<1>3. Init /\ [][Next]_vars => []Sound
  <2>1. Init => Sound
    BY InitSound
  <2>2. MapInv /\ Sound /\ [Next]_vars => Sound'
    BY <1>2 DEF AnnounceInv
  <2> QED BY <2>1, <2>2, MapInvariant, PTL DEF Spec
<1> QED BY <1>3, MapInvariant, PTL DEF Spec, AnnounceInv

(* uplinkAllowed guards every path to ThingsBoard: no device is announced, *)
(* in either direction, that the registry never answered for.              *)
THEOREM OnlyClaimed == Spec => []OnlyClaimedAnnounced
<1>1. AnnounceInv => OnlyClaimedAnnounced
  BY DEF AnnounceInv, Sound
<1> QED BY <1>1, AnnounceInvariant, PTL

(* tbConnected is set only on Sessions whose device was announced, although *)
(* it is set after a blocking call on a Session looked up before it.       *)
THEOREM FlagsTrue == Spec => []FlagMeansAnnounced
<1>1. AnnounceInv => FlagMeansAnnounced
  BY DEF AnnounceInv, Sound
<1> QED BY <1>1, AnnounceInvariant, PTL

(* Telemetry is sent only for announced devices, also by a lookup that     *)
(* outlives the session and the connection it was started for.             *)
THEOREM TelemetryAnnounced == Spec => []TelemetryAfterConnect
<1>1. AnnounceInv => TelemetryAfterConnect
  <2> SUFFICES ASSUME AnnounceInv, NEW w \in Callers, up[w].pc = "publish"
               PROVE  tb[up[w].imei] # "none"
    BY DEF TelemetryAfterConnect, At
  <2>1. Idle.pc # "publish"
    BY DEF Idle
  <2> QED BY <2>1 DEF AnnounceInv, Sound, CallSound
<1> QED BY <1>1, AnnounceInvariant, PTL

(* The deferred clean-up races maybeConnectTB: even so ThingsBoard is      *)
(* never told that a device it was never told of went offline.             *)
THEOREM DownOnlyAfterUp == Spec => NeverDownBeforeUp
<1>1. AnnounceInv /\ [Next]_vars => [\A i \in IMEIs : tb[i] = "none" => tb'[i] # "down"]_vars
  <2> SUFFICES ASSUME AnnounceInv, Next, NEW i \in IMEIs, tb[i] = "none"
               PROVE  tb'[i] # "down"
    OBVIOUS
  <2>1. ASSUME NEW c \in Conns, Disconnect(c) PROVE tb'[i] # "down"
    BY <2>1, DisconnectAnnounced DEF Disconnect, DisconnectDevice, AnnounceInv, MapInv, TypeInv, TypeOK
  <2>2. ASSUME NEW c \in Conns, Handler(c), ~ Disconnect(c) PROVE tb' = tb
    BY <2>2 DEF Handler, Start, ReadData, ReadFails, DrainDone, AnswerFrame, Reply, RemoveSession,
       TestConnected, Finish, LoginFrame, LoginReply, PublishFrame, WifiFrame, tbVars
  <2>3. ASSUME NEW s \in Sids, ConnectTask(s) PROVE tb'[i] # "down"
    BY <2>3 DEF ConnectTask, TaskCheck, TaskConnect, ConnectDevice, TaskMark, AnnounceInv, MapInv, TypeInv, TypeOK
  <2>4. ASSUME NEW w \in Callers, Uplink(w) \/ Locate(w) PROVE tb'[i] # "down"
    BY <2>4 DEF Uplink, Locate, Check, Lookup, Test, Connect, ConnectDevice, Mark, Publish, tbVars,
       AnnounceInv, MapInv, TypeInv, TypeOK
  <2> QED BY <2>1, <2>2, <2>3, <2>4 DEF Next, Callers
<1> QED BY <1>1, AnnounceInvariant, PTL DEF Spec, NeverDownBeforeUp

=============================================================================
