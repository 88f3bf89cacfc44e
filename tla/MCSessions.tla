----------------------------- MODULE MCSessions -----------------------------
(* Instances of Sessions for TLC.                                          *)
EXTENDS Sessions, TLC

CONSTANTS c1, c2, i1, i2, l1

\* Any connection may log in under any IMEI, and again under another one.
AnyIMEI == [c \in Conns |-> IMEIs]

\* Connections are interchangeable, and so are IMEIs.
Symmetric == Permutations(Conns) \cup Permutations(IMEIs)

=============================================================================
