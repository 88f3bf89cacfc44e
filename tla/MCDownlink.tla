----------------------------- MODULE MCDownlink -----------------------------
(* Instances of Downlink for TLC.                                          *)
EXTENDS Downlink

CONSTANTS c1, c2, i1, t1, t2

\* Both connections are the same tracker's.
SameTracker == [c \in Conns |-> {i1}]

Ask(via, parts) == [via |-> via, imei |-> i1, parts |-> parts]

\* Goroutine t1 is the MQTT callback; t2 serves GET /devices, POST interval with
\* both values, with none and with one out of range, and shared
\* attributes of which the first is out of range.
Calls ==
  [r \in Threads |->
     IF r = t1 THEN {Ask("rpc", <<"good">>)}
     ELSE {Ask("list", <<>>), Ask("rest", <<"good", "good">>), Ask("rest", <<>>),
           Ask("rest", <<"bad">>), Ask("attrs", <<"bad", "good">>)}]

=============================================================================
