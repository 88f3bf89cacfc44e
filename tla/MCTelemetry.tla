---------------------------- MODULE MCTelemetry ----------------------------
(* Measurements and commands for TLC, at the edges of their encodings.     *)
EXTENDS Telemetry

A == <<8, 6, 1, 9, 7, 1, 0, 8, 0, 0, 6, 1, 5, 2, 6>>
\* Another tracker, with a 0 where fillers are looked for.
B == <<0, 1, 9, 7, 1, 0, 8, 0, 0, 6, 1, 5, 2, 6, 0>>

\* Ends of days, months, years and centuries, 29 February, and CR LF in a date.
Dates == {<<0, 1, 1, 0, 0, 0>>, <<23, 2, 28, 23, 59, 59>>, <<24, 2, 29, 23, 59, 59>>,
          <<24, 3, 1, 0, 0, 0>>, <<24, 12, 31, 23, 59, 59>>, <<25, 1, 1, 0, 0, 0>>,
          <<25, 10, 13, 10, 13, 10>>, <<99, 12, 31, 23, 59, 59>>}

\* 35.689 N 51.389 E, the same S W, the pole and the date line, the origin.
Places == {<<64240560, 92500200>>, <<-64240560, -92500200>>, <<162000000, 324000000>>, <<0, 0>>}

Motions == {<<5, 90>>, <<0, 0>>, <<255, 359>>}

Fix(proto, d, p, m) ==
  [kind |-> "gps", proto |-> proto, date |-> d, lat |-> p[1], lon |-> p[2],
   speed |-> m[1], course |-> m[2]]

AP1 == [mac |-> <<170, 187, 204, 221, 238, 255>>, rssi |-> 60]
AP2 == [mac |-> <<13, 10, 120, 120, 144, 10>>, rssi |-> 255]
\* The address starts with a manufacturer's prefix, 00:01:02.
AP3 == [mac |-> <<0, 1, 2, 163, 180, 197>>, rssi |-> 60]
Tower(ci) == [mcc |-> 432, mnc |-> 11, lac |-> 4660, ci |-> ci, signal |-> 64]

Radio(proto, d, wifi, cells) ==
  [kind |-> "wifi", proto |-> proto, date |-> d, wifi |-> wifi, cells |-> cells]

Measurements ==
  {[kind |-> k, imei |-> A] : k \in {"login", "filled"}}
    \cup {[kind |-> "login", imei |-> B], [kind |-> "time"], [kind |-> "settings"],
          [kind |-> "other"]}
    \cup {[kind |-> "status", battery |-> b] : b \in {0, 13, 100, 101, 255}}
    \cup {[kind |-> "iccid", iccid |-> <<56, 57, 57, 56, 49>>]}
    \cup {Fix(16, d, p, m) : d \in {<<24, 3, 1, 0, 0, 0>>}, p \in Places, m \in Motions}
    \cup {Fix(proto, d, <<64240560, 92500200>>, <<5, 90>>) : proto \in {16, 17}, d \in Dates}
    \cup {Radio(26, d, <<AP1, AP2>>, <<Tower(22136)>>) : d \in Dates}
    \cup {Radio(proto, <<24, 3, 1, 0, 0, 0>>, wifi, cells) :
            proto \in {23, 105}, wifi \in {<<>>, <<AP1>>, <<AP1, AP1>>},
            cells \in {<<>>, <<Tower(22136)>>, <<Tower(268435455), Tower(0)>>}}

Asked ==
  ({"reboot", "shutdown", "locate", "beep"} \X {0})
    \cup ({"setLocationInterval"} \X {-1, 9, 10, 255, 256, 7200, 7201, 65546})
    \cup ({"setStatusInterval"} \X {-1, 0, 1, 60, 61, 257})

Noon == <<2024, 2, 29, 12, 0, 0>>

\* Two access points, the first of which has the byte 01 in its address.
CountInAddress ==
  {[kind |-> "login", imei |-> A], Radio(26, <<24, 3, 1, 0, 0, 0>>, <<AP3, AP1>>, <<>>)}

=============================================================================
