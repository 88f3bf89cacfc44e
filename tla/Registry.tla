------------------------------ MODULE Registry ------------------------------
(***************************************************************************)
(* PaapeliClient (internal/registry/paapeli.go): the registration cache    *)
(* with its two times to live, the bearer token, and the lookups that      *)
(* concurrent goroutines of the gateway make against the remote service.   *)
(* A token is only absent or present: the service may refuse any token at  *)
(* any time. Time is a counter; every HTTP call ends by the deadline that  *)
(* uplinkAllowed sets.                                                     *)
(***************************************************************************)
EXTENDS Integers

CONSTANTS
  Callers,      \* goroutines that call IsRegistered
  IMEIs,
  PositiveTTL,  \* defaults applied (30 min and 60 s in the code)
  NegativeTTL,
  Deadline,     \* longest time an IsRegistered call takes (5 s in the code)
  MaxTime       \* bound: clock value at which a behaviour ends

ASSUME RegistryAssumption ==
  /\ PositiveTTL \in Nat \ {0} /\ NegativeTTL \in Nat \ {0}
  /\ Deadline \in Nat \ {0} /\ MaxTime \in Nat

VARIABLES
  cache,      \* PaapeliClient.cache; expires = Never where there is no entry
  token,      \* PaapeliClient.token is not empty
  call,       \* the IsRegistered call each caller is in
  claim,      \* external: the service's answer for an IMEI
  changedAt,  \* external: when claim last changed, Never if it has not
  now

vars == <<cache, token, call, claim, changedAt, now>>

Never == 0 - (PositiveTTL + NegativeTTL + Deadline + 1)
Idle  == [pc |-> "idle", imei |-> "", retry |-> FALSE, answer |-> "", since |-> 0]

Init ==
  /\ cache = [i \in IMEIs |-> [registered |-> FALSE, expires |-> Never]]
  /\ token = FALSE
  /\ call = [w \in Callers |-> Idle]
  /\ claim \in [IMEIs -> BOOLEAN]
  /\ changedAt = [i \in IMEIs |-> Never]
  /\ now = 0

\* cacheGet: an entry counts until its expiry time has passed.
CacheHitAny(i) == cache[i].expires # Never  \* mutant: entries never expire
CacheHit(i) == now <= cache[i].expires

TTL(registered) == IF registered THEN PositiveTTL ELSE NegativeTTL

At(w, pc) == call[w].pc = pc
Goto(w, pc) == call' = [call EXCEPT ![w].pc = pc]
Return(w) == call' = [call EXCEPT ![w] = Idle]

-----------------------------------------------------------------------------
(* IsRegistered. A cache hit answers without changing anything.            *)
CacheMissLate(w, i) ==  \* mutant: the deadline counts from the entry's expiry
  /\ At(w, "idle")
  /\ ~ CacheHit(i)
  /\ call' = [call EXCEPT ![w] = [pc |-> "token", imei |-> i, retry |-> TRUE,
                                  answer |-> "", since |-> cache[i].expires]]
  /\ UNCHANGED <<cache, token, claim, changedAt, now>>

CacheMiss(w, i) ==
  /\ At(w, "idle")
  /\ ~ CacheHit(i)
  /\ call' = [call EXCEPT ![w] = [pc |-> "token", imei |-> i, retry |-> TRUE,
                                  answer |-> "", since |-> now]]
  /\ UNCHANGED <<cache, token, claim, changedAt, now>>

EnsureToken(w) ==
  /\ At(w, "token")
  /\ Goto(w, IF token THEN "request" ELSE "login")
  /\ UNCHANGED <<cache, token, claim, changedAt, now>>

\* login succeeds and stores its token; see Fails for the rest.
Login(w) ==
  /\ At(w, "login")
  /\ token' = TRUE
  /\ Goto(w, "request")
  /\ UNCHANGED <<cache, claim, changedAt, now>>

\* External: the service answers; the answer travels for a while. A tracker it
\* does not know (404) and one that is not registered are both a "no".
Serve(w) ==
  /\ At(w, "request")
  /\ \E a \in {IF claim[call[w].imei] THEN "yes" ELSE "no", "unauthorized"} :
       call' = [call EXCEPT ![w].pc = "reply", ![w].answer = a]
  /\ UNCHANGED <<cache, token, claim, changedAt, now>>

\* The first 401 drops the token, whoever obtained it, and retries once.
UnauthorizedForever(w) ==  \* mutant: allowRetry stays set
  /\ At(w, "reply") /\ call[w].answer = "unauthorized"
  /\ token' = FALSE
  /\ Goto(w, "token")
  /\ UNCHANGED <<cache, claim, changedAt, now>>

Unauthorized(w) ==
  /\ At(w, "reply") /\ call[w].answer = "unauthorized"
  /\ \/ /\ call[w].retry
        /\ token' = FALSE
        /\ call' = [call EXCEPT ![w].pc = "token", ![w].retry = FALSE]
     \/ /\ ~ call[w].retry
        /\ token' = token
        /\ Return(w)
  /\ UNCHANGED <<cache, claim, changedAt, now>>

CacheSet(w) ==
  LET reg == call[w].answer = "yes" IN
  /\ At(w, "reply") /\ call[w].answer \in {"yes", "no"}
  /\ cache' = [cache EXCEPT ![call[w].imei] = [registered |-> reg, expires |-> now + TTL(reg)]]
  /\ Return(w)
  /\ UNCHANGED <<token, claim, changedAt, now>>

\* Any other failure of an HTTP call, its timeout included: not registered,
\* and nothing is cached.
Fails(w) ==
  /\ call[w].pc \in {"login", "request", "reply"}
  /\ Return(w)
  /\ UNCHANGED <<cache, token, claim, changedAt, now>>

-----------------------------------------------------------------------------
\* External: an owner claims or releases a tracker.
ClaimChanges(i) ==
  /\ claim' = [claim EXCEPT ![i] = ~ @]
  /\ changedAt' = [changedAt EXCEPT ![i] = now]
  /\ UNCHANGED <<cache, token, call, now>>

\* External: time passes, while every call in progress is within its deadline.
Tick ==
  /\ now < MaxTime
  /\ \A w \in Callers : At(w, "idle") \/ now - call[w].since < Deadline
  /\ now' = now + 1
  /\ UNCHANGED <<cache, token, call, claim, changedAt>>

CallStep(w) ==
  EnsureToken(w) \/ Login(w) \/ Serve(w) \/ Unauthorized(w) \/ CacheSet(w) \/ Fails(w)

Next ==
  \/ \E w \in Callers : CallStep(w) \/ (\E i \in IMEIs : CacheMiss(w, i))
  \/ \E i \in IMEIs : ClaimChanges(i)
  \/ Tick

Spec == Init /\ [][Next]_vars

\* Goroutines that can run do run; HTTP calls have a timeout.
FairSpec == Spec /\ \A w \in Callers : WF_vars(CallStep(w))

-----------------------------------------------------------------------------
TypeOK ==
  /\ cache \in [IMEIs -> [registered : BOOLEAN, expires : Int]]
  /\ token \in BOOLEAN
  /\ call \in [Callers -> {Idle} \cup
       [pc : {"token", "login", "request", "reply"}, imei : IMEIs, retry : BOOLEAN,
        answer : {"", "yes", "no", "unauthorized"}, since : Nat]]
  /\ claim \in [IMEIs -> BOOLEAN]
  /\ changedAt \in [IMEIs -> Int]
  /\ now \in 0 .. MaxTime

\* The last time the service would have given this answer.
LastTrue(i, registered) == IF claim[i] = registered THEN now ELSE changedAt[i]

(* Whatever lookups overlap, and however late their answers are stored, an *)
(* answer taken from the cache was the service's own at most its time to   *)
(* live plus one call's duration ago: an unclaimed tracker stops reaching  *)
(* ThingsBoard, and a late claim takes effect, within that time.           *)
AnswersRecent ==
  \A i \in IMEIs : CacheHit(i) =>
    LastTrue(i, cache[i].registered) >= now - (TTL(cache[i].registered) + Deadline)

(* A lookup returns, also if the service refuses every token: the 401      *)
(* retry is made once.                                                     *)
CallReturns == \A w \in Callers : call[w].pc # "idle" ~> call[w].pc = "idle"

=============================================================================
