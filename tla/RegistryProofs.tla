--------------------------- MODULE RegistryProofs ---------------------------
(***************************************************************************)
(* Theorems about module Registry, for any number of callers and IMEIs and *)
(* any times to live, deadline and length of a behaviour.                  *)
(***************************************************************************)
EXTENDS Registry, TLAPS

\* A call in progress.
Busy ==
  [pc : {"token", "login", "request", "reply"}, imei : IMEIs, retry : BOOLEAN,
   answer : {"", "yes", "no", "unauthorized"}, since : Nat]

LEMMA Constants ==
  /\ PositiveTTL \in Nat /\ NegativeTTL \in Nat /\ Deadline \in Nat /\ MaxTime \in Nat
  /\ Never \in Int /\ Never < 0
  /\ \A b \in BOOLEAN : TTL(b) \in Nat
BY RegistryAssumption DEF Never, TTL

LEMMA BusyCall ==
  ASSUME TypeOK, NEW w \in Callers, call[w].pc # "idle"
  PROVE  call[w] \in Busy
<1>1. call[w] \in {Idle} \cup Busy
  BY DEF TypeOK, Busy
<1>2. Idle.pc = "idle"
  BY DEF Idle
<1> QED BY <1>1, <1>2

\* What TypeOK says of everything but the calls.
LEMMA TypeFacts ==
  ASSUME TypeOK
  PROVE  /\ now \in Nat /\ now \in Int /\ now <= MaxTime
         /\ claim \in [IMEIs -> BOOLEAN] /\ changedAt \in [IMEIs -> Int]
         /\ cache \in [IMEIs -> [registered : BOOLEAN, expires : Int]]
<1>1. now \in 0 .. MaxTime
  BY Zenon DEF TypeOK
<1>2. /\ claim \in [IMEIs -> BOOLEAN] /\ changedAt \in [IMEIs -> Int]
      /\ cache \in [IMEIs -> [registered : BOOLEAN, expires : Int]]
  BY Zenon DEF TypeOK
<1> QED BY <1>1, <1>2, Constants

LEMMA InitTypes == Init => TypeOK
<1> SUFFICES ASSUME Init PROVE TypeOK
  OBVIOUS
<1>1. [registered |-> FALSE, expires |-> Never] \in [registered : BOOLEAN, expires : Int]
  BY Constants
<1>2. cache \in [IMEIs -> [registered : BOOLEAN, expires : Int]]
  BY <1>1 DEF Init
<1>3. call \in [Callers -> {Idle} \cup Busy]
  BY DEF Init
<1>4. changedAt \in [IMEIs -> Int] /\ now \in 0 .. MaxTime
  BY Constants DEF Init
<1> QED BY <1>2, <1>3, <1>4 DEF Init, TypeOK, Busy

\* Steps that replace the call of one goroutine and nothing else with a type.
LEMMA CallTypes ==
  ASSUME TypeOK, NEW w \in Callers, NEW t \in {Idle} \cup Busy, call' = [call EXCEPT ![w] = t],
         cache' \in [IMEIs -> [registered : BOOLEAN, expires : Int]], token' \in BOOLEAN,
         UNCHANGED <<claim, changedAt, now>>
  PROVE  TypeOK'
BY DEF TypeOK, Busy

\* The call a step leaves its goroutine in.
LEMMA CallStepForm ==
  ASSUME TypeOK, NEW w \in Callers, CallStep(w)
  PROVE  /\ call[w] \in Busy
         /\ \/ call' = [call EXCEPT ![w] = Idle]
            \/ \E t \in Busy : /\ call' = [call EXCEPT ![w] = t]
                               /\ t.imei = call[w].imei /\ t.since = call[w].since
<1>1. call[w] \in Busy
  BY BusyCall DEF CallStep, EnsureToken, Login, Serve, Unauthorized, CacheSet, Fails, At
<1>2. CASE EnsureToken(w) \/ Login(w)
  <2>1. PICK p \in {"login", "request"} : call' = [call EXCEPT ![w].pc = p]
    BY <1>2 DEF EnsureToken, Login, Goto
  <2>2. [call[w] EXCEPT !.pc = p] \in Busy
    BY <1>1 DEF Busy
  <2> DEFINE t == [call[w] EXCEPT !.pc = p]
  <2>3. call' = [call EXCEPT ![w] = t] /\ t.imei = call[w].imei /\ t.since = call[w].since
    BY <1>1, <2>1 DEF TypeOK, Busy
  <2> QED BY <1>1, <2>2, <2>3
<1>3. CASE Serve(w)
  <2>1. PICK a \in {"yes", "no", "unauthorized"} : call' = [call EXCEPT ![w].pc = "reply", ![w].answer = a]
    BY <1>3 DEF Serve
  <2> DEFINE t == [call[w] EXCEPT !.pc = "reply", !.answer = a]
  <2>2. t \in Busy /\ t.imei = call[w].imei /\ t.since = call[w].since
    BY <1>1 DEF Busy
  <2>3. call' = [call EXCEPT ![w] = t]
    BY <1>1, <2>1 DEF TypeOK, Busy
  <2> QED BY <1>1, <2>2, <2>3
<1>4. CASE Unauthorized(w) /\ call[w].retry
  <2>1. call' = [call EXCEPT ![w].pc = "token", ![w].retry = FALSE]
    BY <1>4 DEF Unauthorized
  <2> DEFINE t == [call[w] EXCEPT !.pc = "token", !.retry = FALSE]
  <2>2. t \in Busy /\ t.imei = call[w].imei /\ t.since = call[w].since
    BY <1>1 DEF Busy
  <2>3. call' = [call EXCEPT ![w] = t]
    BY <1>1, <2>1 DEF TypeOK, Busy
  <2> QED BY <1>1, <2>2, <2>3
<1>5. CASE (Unauthorized(w) /\ ~ call[w].retry) \/ CacheSet(w) \/ Fails(w)
  BY <1>1, <1>5 DEF Unauthorized, CacheSet, Fails, Return
<1> QED BY <1>2, <1>3, <1>4, <1>5 DEF CallStep

LEMMA NextTypes ==
  ASSUME TypeOK, [Next]_vars
  PROVE  TypeOK'
<1>1. ASSUME NEW w \in Callers, CallStep(w) PROVE TypeOK'
  <2>1. \E t \in {Idle} \cup Busy : call' = [call EXCEPT ![w] = t]
    BY <1>1, CallStepForm
  <2>2. UNCHANGED <<claim, changedAt, now>> /\ token' \in BOOLEAN
    BY <1>1 DEF CallStep, EnsureToken, Login, Serve, Unauthorized, CacheSet, Fails, TypeOK
  <2>3. cache' \in [IMEIs -> [registered : BOOLEAN, expires : Int]]
    <3>1. CASE CacheSet(w)
      <4> DEFINE reg == call[w].answer = "yes"
      <4>1. now + TTL(reg) \in Int /\ reg \in BOOLEAN
        <5>1. reg \in BOOLEAN
          OBVIOUS
        <5>2. TTL(reg) \in Nat
          BY <5>1, Constants
        <5>3. now \in Nat
          BY TypeFacts
        <5> HIDE DEF reg
        <5> QED BY <5>1, <5>2, <5>3
      <4>2. cache' = [cache EXCEPT ![call[w].imei] = [registered |-> reg, expires |-> now + TTL(reg)]]
        BY <3>1 DEF CacheSet
      <4> HIDE DEF reg
      <4> QED BY <4>1, <4>2, TypeFacts
    <3>2. CASE ~ CacheSet(w)
      BY <1>1, <3>2 DEF CallStep, EnsureToken, Login, Serve, Unauthorized, Fails, TypeOK
    <3> QED BY <3>1, <3>2
  <2> QED BY <2>1, <2>2, <2>3, CallTypes
<1>2. ASSUME NEW w \in Callers, NEW i \in IMEIs, CacheMiss(w, i) PROVE TypeOK'
  <2> DEFINE t == [pc |-> "token", imei |-> i, retry |-> TRUE, answer |-> "", since |-> now]
  <2>1. t \in Busy
    BY TypeFacts DEF Busy
  <2>2. call' = [call EXCEPT ![w] = t] /\ UNCHANGED <<cache, token, claim, changedAt, now>>
    BY <1>2 DEF CacheMiss
  <2>3. /\ cache' \in [IMEIs -> [registered : BOOLEAN, expires : Int]] /\ token' \in BOOLEAN
    BY <2>2 DEF TypeOK
  <2> HIDE DEF t
  <2> QED BY <2>1, <2>2, <2>3, CallTypes
<1>3. ASSUME NEW i \in IMEIs, ClaimChanges(i) PROVE TypeOK'
  <2>1. claim' \in [IMEIs -> BOOLEAN]
    BY <1>3 DEF ClaimChanges, TypeOK
  <2>2. changedAt' \in [IMEIs -> Int]
    BY <1>3, TypeFacts DEF ClaimChanges
  <2> QED BY <1>3, <2>1, <2>2 DEF ClaimChanges, TypeOK
<1>4. CASE Tick
  <2>1. now' \in 0 .. MaxTime
    BY <1>4, TypeFacts, Constants DEF Tick
  <2> QED BY <1>4, <2>1 DEF Tick, TypeOK
<1>5. CASE UNCHANGED vars
  BY <1>5 DEF vars, TypeOK
<1> QED BY <1>1, <1>2, <1>3, <1>4, <1>5 DEF Next

(* Cache entries, calls and answers keep their types; the retry flag and   *)
(* the IMEI of a call survive every error path of fetch.                   *)
THEOREM RegistryTypes == Spec => []TypeOK
BY InitTypes, NextTypes, PTL DEF Spec

-----------------------------------------------------------------------------
(* AnswersRecent is about cache entries only. It is made inductive by what *)
(* holds of the answers on their way to the cache.                         *)

(* A call in progress has not passed its deadline.                         *)
InTime(w) ==
  call[w].pc # "idle" => call[w].since <= now /\ now <= call[w].since + Deadline

(* An answer that waits to be stored was true at some time since its call  *)
(* began.                                                                  *)
ReplyTrue(w) ==
  call[w].pc = "reply" /\ call[w].answer \in {"yes", "no"}
    => LastTrue(call[w].imei, call[w].answer = "yes") >= call[w].since

(* A cached answer was true at most one call's duration before the entry   *)
(* was written, and no entry outlives its time to live.                    *)
CacheTrue(i) ==
  /\ LastTrue(i, cache[i].registered) >= cache[i].expires - TTL(cache[i].registered) - Deadline
  /\ cache[i].expires <= now + TTL(cache[i].registered)

RecentInv ==
  /\ TypeOK
  /\ \A w \in Callers : InTime(w) /\ ReplyTrue(w)
  /\ \A i \in IMEIs : CacheTrue(i)

LEMMA LastTrueType ==
  ASSUME TypeOK, NEW i \in IMEIs, NEW b \in BOOLEAN
  PROVE  LastTrue(i, b) \in Int
BY TypeFacts DEF LastTrue

\* When the service changes its mind, the answer it gave until now was true now.
LEMMA LastTrueChanged ==
  ASSUME TypeOK, NEW i \in IMEIs, ClaimChanges(i), NEW j \in IMEIs, NEW b \in BOOLEAN
  PROVE  LastTrue(j, b)' = IF j = i THEN now ELSE LastTrue(j, b)
<1>1. claim' = [claim EXCEPT ![i] = ~ @] /\ changedAt' = [changedAt EXCEPT ![i] = now] /\ now' = now
  BY DEF ClaimChanges
<1> QED BY <1>1, TypeFacts DEF LastTrue

\* A cache entry's fields.
LEMMA EntryTypes ==
  ASSUME TypeOK, NEW i \in IMEIs
  PROVE  /\ cache[i].registered \in BOOLEAN /\ cache[i].expires \in Int
         /\ TTL(cache[i].registered) \in Nat
BY TypeFacts, Constants

LEMMA BusyFacts ==
  ASSUME NEW c \in Busy
  PROVE  /\ c.imei \in IMEIs /\ c.since \in Nat /\ (c.answer = "yes") \in BOOLEAN /\ c.pc # "idle"
BY DEF Busy

LEMMA InitRecent == Init => RecentInv
<1> SUFFICES ASSUME Init PROVE RecentInv
  OBVIOUS
<1>1. TypeOK
  BY InitTypes
<1>2. \A w \in Callers : call[w].pc = "idle"
  BY DEF Init, Idle
<1>3. ASSUME NEW i \in IMEIs PROVE CacheTrue(i)
  <2>1. cache[i].registered = FALSE /\ cache[i].expires = Never /\ now = 0 /\ changedAt[i] = Never
    BY DEF Init
  <2>2. LastTrue(i, FALSE) >= Never
    BY <2>1, Constants DEF LastTrue
  <2>3. LastTrue(i, FALSE) \in Int
    BY <1>1, LastTrueType
  <2>4. Never <= now
    BY <2>1, Constants
  <2>5. TTL(FALSE) \in Nat /\ Deadline \in Nat /\ Never \in Int /\ now = 0
    BY <2>1, Constants
  <2>6. /\ LastTrue(i, FALSE) >= Never - TTL(FALSE) - Deadline
        /\ Never <= now + TTL(FALSE)
    <3> DEFINE last == LastTrue(i, FALSE)
               ttl == TTL(FALSE)
    <3>1. last >= Never /\ last \in Int /\ Never <= 0 /\ ttl \in Nat
      BY <2>1, <2>2, <2>3, <2>4, <2>5
    <3> HIDE DEF last, ttl
    <3>2. last >= Never - ttl - Deadline /\ Never <= 0 + ttl
      BY <2>5, <3>1
    <3> QED BY <2>1, <3>2 DEF last, ttl
  <2> QED BY <2>1, <2>6 DEF CacheTrue
<1> QED BY <1>1, <1>2, <1>3 DEF RecentInv, InTime, ReplyTrue

\* A step of one call, or the start of one, leaves the others as they were.
LEMMA OtherCalls ==
  ASSUME RecentInv, TypeOK', NEW w \in Callers, NEW v \in Callers, v # w,
         call'[v] = call[v], UNCHANGED <<claim, changedAt, now>>
  PROVE  InTime(v)' /\ ReplyTrue(v)'
<1>1. InTime(v) /\ ReplyTrue(v)
  BY DEF RecentInv
<1>2. \A i, b : LastTrue(i, b)' = LastTrue(i, b)
  BY DEF LastTrue
<1> QED BY <1>1, <1>2 DEF InTime, ReplyTrue

LEMMA CallRecent ==
  ASSUME RecentInv, TypeOK', NEW w \in Callers, CallStep(w)
  PROVE  RecentInv'
<1> DEFINE c == call[w]
<1>1. /\ TypeOK /\ c \in Busy
      /\ \A v \in Callers : InTime(v) /\ ReplyTrue(v)
      /\ \A i \in IMEIs : CacheTrue(i)
  BY CallStepForm DEF RecentInv
<1>2. UNCHANGED <<claim, changedAt, now>>
  BY DEF CallStep, EnsureToken, Login, Serve, Unauthorized, CacheSet, Fails
<1>3. \A i, b : LastTrue(i, b)' = LastTrue(i, b)
  BY <1>2 DEF LastTrue
<1>4. ASSUME NEW v \in Callers, v # w PROVE InTime(v)' /\ ReplyTrue(v)'
  <2>1. call'[v] = call[v]
    BY <1>1, <1>4, CallStepForm DEF TypeOK
  <2> QED BY <1>2, <1>4, <2>1, OtherCalls
<1>5. InTime(w)'
  <2>1. CASE call' = [call EXCEPT ![w] = Idle]
    BY <2>1, <1>1 DEF InTime, Idle, TypeOK
  <2>2. ASSUME NEW t \in Busy, call' = [call EXCEPT ![w] = t], t.since = c.since PROVE InTime(w)'
    <3>1. call'[w] = t
      BY <2>2, <1>1 DEF TypeOK
    <3>2. c.since <= now /\ now <= c.since + Deadline
      BY <1>1, BusyFacts DEF InTime
    <3> QED BY <1>2, <2>2, <3>1, <3>2 DEF InTime
  <2> QED BY <1>1, <2>1, <2>2, CallStepForm
<1>6. ReplyTrue(w)'
  <2>1. CASE Serve(w)
    <3>1. PICK a \in {IF claim[c.imei] THEN "yes" ELSE "no", "unauthorized"} :
            call' = [call EXCEPT ![w].pc = "reply", ![w].answer = a]
      BY <2>1 DEF Serve
    <3>2. call'[w].answer = a /\ call'[w].imei = c.imei /\ call'[w].since = c.since
      BY <3>1, <1>1 DEF TypeOK, Busy
    <3>3. c.imei \in IMEIs /\ c.since \in Nat /\ c.since <= now
      BY <1>1, BusyFacts DEF InTime
    <3>4. claim[c.imei] \in BOOLEAN /\ now \in Int
      BY <1>1, <3>3, TypeFacts
    <3>5. ASSUME a \in {"yes", "no"} PROVE LastTrue(c.imei, a = "yes") = now
      <4>1. claim[c.imei] = (a = "yes")
        BY <3>4, <3>5
      <4> QED BY <4>1 DEF LastTrue
    <3>6. ASSUME a \in {"yes", "no"} PROVE LastTrue(c.imei, a = "yes") >= c.since
      BY <3>3, <3>4, <3>5, <3>6
    <3> QED BY <3>2, <3>6, <1>2 DEF ReplyTrue, LastTrue
  <2>2. CASE ~ Serve(w)
    <3>1. call[w] = c /\ call \in [Callers -> {Idle} \cup Busy]
      BY <1>1 DEF TypeOK, Busy
    <3>2. CASE EnsureToken(w) \/ Login(w)
      <4>1. PICK p \in {"login", "request"} : call' = [call EXCEPT ![w].pc = p]
        BY <3>2 DEF EnsureToken, Login, Goto
      <4> QED BY <4>1, <3>1, <1>1 DEF ReplyTrue, Busy
    <3>3. CASE Unauthorized(w) /\ c.retry
      <4>1. call' = [call EXCEPT ![w].pc = "token", ![w].retry = FALSE]
        BY <3>3 DEF Unauthorized
      <4> QED BY <4>1, <3>1, <1>1 DEF ReplyTrue, Busy
    <3>4. CASE call' = [call EXCEPT ![w] = Idle]
      BY <3>1, <3>4 DEF ReplyTrue, Idle
    <3> QED BY <2>2, <3>2, <3>3, <3>4 DEF CallStep, Unauthorized, CacheSet, Fails, Return
  <2> QED BY <2>1, <2>2
<1>7. ASSUME NEW i \in IMEIs PROVE CacheTrue(i)'
  <2>1. CASE cache'[i] = cache[i]
    BY <1>1, <1>2, <1>3, <2>1 DEF CacheTrue, TTL
  <2>2. CASE cache'[i] # cache[i]
    <3> DEFINE reg == c.answer = "yes"
    <3>1. CacheSet(w) /\ i = c.imei
      BY <1>1, <2>2, TypeFacts DEF CallStep, EnsureToken, Login, Serve, Unauthorized, CacheSet, Fails
    <3>2. cache'[i].registered = reg /\ cache'[i].expires = now + TTL(reg)
      <4>1. cache' = [cache EXCEPT ![i] = [registered |-> reg, expires |-> now + TTL(reg)]]
        BY <3>1 DEF CacheSet
      <4> HIDE DEF reg
      <4> QED BY <1>1, <4>1, TypeFacts
    <3>3. LastTrue(i, reg) >= c.since
      BY <1>1, <3>1 DEF CacheSet, ReplyTrue, At
    <3>4. now <= c.since + Deadline /\ c.since \in Nat
      BY <1>1, BusyFacts DEF InTime
    <3>5. TTL(reg) \in Nat /\ Deadline \in Nat /\ now \in Int /\ LastTrue(i, reg) \in Int
      BY <1>1, Constants, TypeFacts, LastTrueType
    <3> HIDE DEF reg, c
    <3>6. LastTrue(i, reg) >= (now + TTL(reg)) - TTL(reg) - Deadline
      BY <3>3, <3>4, <3>5
    <3>7. now + TTL(reg) <= now + TTL(reg)
      BY <3>5
    <3> QED BY <1>2, <1>3, <3>2, <3>6, <3>7 DEF CacheTrue, TTL
  <2> QED BY <2>1, <2>2
<1> QED BY <1>4, <1>5, <1>6, <1>7 DEF RecentInv

LEMMA MissRecent ==
  ASSUME RecentInv, TypeOK', NEW w \in Callers, NEW i \in IMEIs, CacheMiss(w, i)
  PROVE  RecentInv'
<1>1. TypeOK /\ UNCHANGED <<cache, claim, changedAt, now>>
  BY DEF RecentInv, CacheMiss
<1>2. call'[w].pc = "token" /\ call'[w].since = now /\ \A v \in Callers \ {w} : call'[v] = call[v]
  BY <1>1 DEF CacheMiss, TypeOK
<1>3. now \in Nat /\ Deadline \in Nat
  BY <1>1, TypeFacts, Constants
<1>4. InTime(w)' /\ ReplyTrue(w)'
  BY <1>1, <1>2, <1>3 DEF InTime, ReplyTrue
<1>5. \A v \in Callers \ {w} : InTime(v)' /\ ReplyTrue(v)'
  BY <1>1, <1>2, OtherCalls
<1>6. \A j \in IMEIs : CacheTrue(j)'
  BY <1>1 DEF RecentInv, CacheTrue, LastTrue, TTL
<1> QED BY <1>4, <1>5, <1>6 DEF RecentInv

LEMMA ChangeRecent ==
  ASSUME RecentInv, TypeOK', NEW i \in IMEIs, ClaimChanges(i)
  PROVE  RecentInv'
<1>1. TypeOK /\ UNCHANGED <<cache, call, now>>
  BY DEF RecentInv, ClaimChanges
<1>2. ASSUME NEW w \in Callers PROVE InTime(w)'
  BY <1>1 DEF RecentInv, InTime
<1>3. ASSUME NEW w \in Callers, call[w].pc = "reply", call[w].answer \in {"yes", "no"}
      PROVE  LastTrue(call[w].imei, call[w].answer = "yes")' >= call[w].since
  <2>1. call[w] \in Busy
    BY <1>1, <1>3, BusyCall
  <2>2. /\ call[w].imei \in IMEIs /\ (call[w].answer = "yes") \in BOOLEAN
        /\ call[w].since \in Nat /\ call[w].since <= now
        /\ LastTrue(call[w].imei, call[w].answer = "yes") >= call[w].since
    BY <1>3, <2>1, BusyFacts DEF RecentInv, InTime, ReplyTrue
  <2>3. now \in Int
    BY <1>1, TypeFacts
  <2>4. LastTrue(call[w].imei, call[w].answer = "yes")'
          = IF call[w].imei = i THEN now ELSE LastTrue(call[w].imei, call[w].answer = "yes")
    <3>1. \A j \in IMEIs, b \in BOOLEAN :
            (IF claim'[j] = b THEN now' ELSE changedAt'[j]) = IF j = i THEN now ELSE LastTrue(j, b)
      BY <1>1, LastTrueChanged DEF LastTrue
    <3> QED BY <1>1, <2>2, <3>1 DEF LastTrue
  <2> QED BY <2>2, <2>3, <2>4
<1>4. ASSUME NEW j \in IMEIs PROVE CacheTrue(j)'
  <2> DEFINE reg == cache[j].registered
             bound == cache[j].expires - TTL(reg) - Deadline
  <2>1. reg \in BOOLEAN /\ cache[j].expires \in Int /\ TTL(reg) \in Nat /\ Deadline \in Nat /\ now \in Int
    BY <1>1, EntryTypes, TypeFacts, Constants
  <2>2. LastTrue(j, reg) >= bound /\ cache[j].expires <= now + TTL(reg)
    BY DEF RecentInv, CacheTrue
  <2>3. now >= bound
    BY <2>1, <2>2
  <2>4. (IF claim'[j] = reg THEN now' ELSE changedAt'[j]) = IF j = i THEN now ELSE LastTrue(j, reg)
    BY <1>1, <2>1, LastTrueChanged DEF LastTrue
  <2>5. (IF claim'[j] = reg THEN now' ELSE changedAt'[j]) >= bound
    BY <2>2, <2>3, <2>4
  <2> QED BY <1>1, <2>2, <2>5 DEF CacheTrue, LastTrue, TTL
<1> QED BY <1>1, <1>2, <1>3, <1>4 DEF RecentInv, ReplyTrue

LEMMA TickRecent ==
  ASSUME RecentInv, TypeOK', Tick
  PROVE  RecentInv'
<1>1. TypeOK /\ UNCHANGED <<cache, call, claim, changedAt>> /\ now' = now + 1 /\ now \in Nat
  BY TypeFacts DEF RecentInv, Tick
<1>2. now' \in Nat /\ now' >= now
  BY <1>1
<1>3. ASSUME NEW w \in Callers, call[w].pc # "idle" PROVE call[w].since <= now' /\ now' <= call[w].since + Deadline
  <2>1. call[w].since \in Nat
    BY <1>1, <1>3, BusyCall, BusyFacts
  <2>2. call[w].since <= now /\ now - call[w].since < Deadline /\ Deadline \in Nat
    BY <1>3, Constants DEF RecentInv, InTime, Tick, At
  <2> QED BY <1>1, <2>1, <2>2
<1>4. ASSUME NEW j \in IMEIs, NEW b \in BOOLEAN
      PROVE  /\ (IF claim[j] = b THEN now' ELSE changedAt[j]) >= LastTrue(j, b)
             /\ (IF claim[j] = b THEN now' ELSE changedAt[j]) \in Int /\ LastTrue(j, b) \in Int
  BY <1>1, <1>2, TypeFacts DEF LastTrue
<1>5. ASSUME NEW w \in Callers, call[w].pc = "reply", call[w].answer \in {"yes", "no"}
      PROVE  LastTrue(call[w].imei, call[w].answer = "yes")' >= call[w].since
  <2>1. call[w] \in Busy
    BY <1>1, <1>5, BusyCall
  <2>2. /\ call[w].imei \in IMEIs /\ (call[w].answer = "yes") \in BOOLEAN /\ call[w].since \in Nat
        /\ LastTrue(call[w].imei, call[w].answer = "yes") >= call[w].since
    BY <1>5, <2>1, BusyFacts DEF RecentInv, ReplyTrue
  <2>3. (IF claim[call[w].imei] = (call[w].answer = "yes") THEN now' ELSE changedAt[call[w].imei])
          >= call[w].since
    <3> DEFINE i == call[w].imei
               b == call[w].answer = "yes"
               s == call[w].since
    <3>1. i \in IMEIs /\ b \in BOOLEAN /\ s \in Nat /\ LastTrue(i, b) >= s
      BY <2>2
    <3> HIDE DEF i, b, s
    <3>2. (IF claim[i] = b THEN now' ELSE changedAt[i]) >= s
      BY <1>4, <3>1
    <3> QED BY <3>2 DEF i, b, s
  <2> QED BY <1>1, <2>3 DEF LastTrue
<1>6. ASSUME NEW j \in IMEIs PROVE CacheTrue(j)'
  <2> DEFINE reg == cache[j].registered
             bound == cache[j].expires - TTL(reg) - Deadline
  <2>1. reg \in BOOLEAN /\ cache[j].expires \in Int /\ TTL(reg) \in Nat /\ Deadline \in Nat
    BY <1>1, EntryTypes, Constants
  <2>2. LastTrue(j, reg) >= bound /\ cache[j].expires <= now + TTL(reg)
    BY DEF RecentInv, CacheTrue
  <2>3. (IF claim[j] = reg THEN now' ELSE changedAt[j]) >= bound
    BY <1>4, <2>1, <2>2
  <2>4. cache[j].expires <= now' + TTL(reg)
    BY <1>1, <2>1, <2>2
  <2> QED BY <1>1, <2>3, <2>4 DEF CacheTrue, LastTrue, TTL
<1> QED BY <1>1, <1>3, <1>5, <1>6 DEF RecentInv, InTime, ReplyTrue

LEMMA NextRecent ==
  ASSUME RecentInv, [Next]_vars
  PROVE  RecentInv'
<1>1. TypeOK'
  BY NextTypes DEF RecentInv
<1>2. CASE UNCHANGED vars
  BY <1>2 DEF vars, RecentInv, TypeOK, InTime, ReplyTrue, CacheTrue, LastTrue, TTL
<1> QED BY <1>1, <1>2, CallRecent, MissRecent, ChangeRecent, TickRecent DEF Next

LEMMA RecentImplies == RecentInv => AnswersRecent
<1> SUFFICES ASSUME RecentInv, NEW i \in IMEIs, CacheHit(i)
             PROVE  LastTrue(i, cache[i].registered) >= now - (TTL(cache[i].registered) + Deadline)
  BY DEF AnswersRecent
<1> DEFINE reg == cache[i].registered
<1>1. TypeOK /\ LastTrue(i, reg) >= cache[i].expires - TTL(reg) - Deadline /\ now <= cache[i].expires
  BY DEF RecentInv, CacheTrue, CacheHit
<1>2. /\ reg \in BOOLEAN /\ cache[i].expires \in Int /\ TTL(reg) \in Nat /\ Deadline \in Nat
      /\ now \in Int
  BY <1>1, EntryTypes, TypeFacts, Constants
<1>3. LastTrue(i, reg) \in Int
  BY <1>1, <1>2, LastTrueType
<1> QED BY <1>1, <1>2, <1>3

(* However many lookups overlap, fail or are stored late, and whatever the *)
(* times to live and the deadline: an answer taken from the cache was the  *)
(* service's own at most its time to live plus one call's duration ago.    *)
THEOREM CachedAnswersRecent == Spec => []AnswersRecent
<1>1. Init => RecentInv
  BY InitRecent
<1>2. RecentInv /\ [Next]_vars => RecentInv'
  BY NextRecent
<1> QED BY <1>1, <1>2, RecentImplies, PTL DEF Spec

=============================================================================
