-------------------------- MODULE SessionDirectory --------------------------
(***************************************************************************)
(* What the session map promises, without sessions, locks or goroutines: a *)
(* directory of live connections (server.go:72 "Session is one live        *)
(* tracker TCP connection"). Logging in and closing the connection that    *)
(* served the IMEI before are one step; so are leaving and giving up every *)
(* IMEI the connection still serves. Modules Sessions and Downlink         *)
(* implement it as long as a connection logs in under one IMEI only.       *)
(***************************************************************************)
CONSTANTS
  Conns,  \* connections
  IMEIs,  \* tracker identities
  None    \* no connection, no IMEI

VARIABLES
  phase,    \* "active", then "leaving", then "gone", per connection
  current,  \* the IMEI a connection last logged in with, or None
  serving,  \* the connection commands for an IMEI go to, or None
  open      \* connections the gateway has not closed

dirVars == <<phase, current, serving, open>>

Init ==
  /\ phase = [c \in Conns |-> "active"]
  /\ current = [c \in Conns |-> None]
  /\ serving = [i \in IMEIs |-> None]
  /\ open = Conns

Login(c, i) ==
  /\ phase[c] = "active"
  /\ current' = [current EXCEPT ![c] = i]
  /\ serving' = [serving EXCEPT ![i] = c]
  /\ open' = open \ ({serving[i]} \ {c})
  /\ phase' = phase

Leave(c) ==
  /\ phase[c] = "active"
  /\ phase' = [phase EXCEPT ![c] = "leaving"]
  /\ serving' = [i \in IMEIs |-> IF serving[i] = c THEN None ELSE serving[i]]
  /\ UNCHANGED <<current, open>>

Close(c) ==
  /\ phase[c] = "leaving"
  /\ phase' = [phase EXCEPT ![c] = "gone"]
  /\ open' = open \ {c}
  /\ UNCHANGED <<current, serving>>

Next ==
  \E c \in Conns : (\E i \in IMEIs : Login(c, i)) \/ Leave(c) \/ Close(c)

Spec == Init /\ [][Next]_dirVars

=============================================================================
