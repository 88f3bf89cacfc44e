--------------------------- MODULE LifecycleProofs ---------------------------
(* Theorems about module Lifecycle, for any finite set of connections.     *)
EXTENDS Lifecycle, FiniteSetTheorems, TLAPS

\* Handlers Shutdown may have to reckon with: the running ones and the one
\* whose connection the accept loop holds.
Pending == Running \cup ({held} \ {None})

\* The accept loop holds a connection exactly between Accept and Handoff, and
\* that connection has no handler yet.
Handing ==
  /\ loop = "handoff" <=> held # None
  /\ held # None => handler[held] = "none"

\* Before tb.Connect succeeds there is no accept loop and no listener.
Starting == main = "connect" => loop = "none" /\ ln = "unset"

Inv == TypeOK /\ Starting /\ Handing /\ HandlersCounted /\ AtMostOneLate

LEMMA FiniteHandlers == IsFiniteSet(Running) /\ IsFiniteSet(Pending)
<1>1. IsFiniteSet(Running)
  BY FS_Subset, ConnsAssumption DEF Running
<1>2. CASE held = None
  <2>1. Pending = Running
    BY <1>2 DEF Pending
  <2> QED BY <1>1, <2>1
<1>3. CASE held # None
  <2>1. Pending = Running \cup {held}
    BY <1>3 DEF Pending
  <2> QED BY <1>1, <2>1, FS_AddElement
<1> QED BY <1>1, <1>2, <1>3

LEMMA InitInv == Init => Inv
<1> SUFFICES ASSUME Init PROVE Inv
  OBVIOUS
<1>1. TypeOK /\ Starting /\ Handing /\ AtMostOneLate
  BY ConnsAssumption DEF Init, TypeOK, Starting, Handing, AtMostOneLate, MainPCs, LoopPCs
<1>2. Running = {}
  BY DEF Init, Running
<1> QED BY <1>1, <1>2, FS_EmptySet DEF Init, Inv, HandlersCounted

\* Steps that change neither the handlers nor the accept loop's hand.
LEMMA Quiet ==
  ASSUME Inv, UNCHANGED <<held, handler, wg>>, TypeOK', Starting', loop = "handoff" <=> loop' = "handoff",
         main' \in {"returned", "exited"} /\ ln' = "closed"
           => main \in {"returned", "exited"} /\ ln = "closed"
  PROVE  Inv'
BY DEF Inv, Handing, HandlersCounted, AtMostOneLate, Running

LEMMA MainInv ==
  ASSUME Inv, Signal \/ MainStep
  PROVE  Inv'
<1> USE DEF Inv, TypeOK, Starting, MainPCs, LoopPCs, Main
<1>1. CASE Signal
  BY <1>1, Quiet DEF Signal
<1>2. CASE ConnectTB
  <2>1. TypeOK' /\ Starting' /\ UNCHANGED <<held, handler, wg, ln>>
    BY <1>2 DEF ConnectTB
  <2>2. loop # "handoff" /\ loop' # "handoff" /\ ln = "unset"
    BY <1>2 DEF ConnectTB
  <2> QED BY <2>1, <2>2, Quiet
<1>3. CASE BeginShutdown
  BY <1>3, Quiet DEF BeginShutdown
<1>4. CASE SetClosing
  BY <1>4, Quiet DEF SetClosing
<1>5. CASE CloseListener
  BY <1>5, Quiet DEF CloseListener
<1>6. CASE WaitReturns
  <2>1. Running = {} /\ UNCHANGED <<held, handler, wg, loop>>
    BY <1>6, FiniteHandlers, FS_EmptySet DEF WaitReturns, HandlersCounted
  <2>2. Cardinality(Pending) <= 1
    <3>1. CASE held = None
      <4>1. Pending = {}
        BY <2>1, <3>1 DEF Pending
      <4> QED BY <4>1, FS_EmptySet
    <3>2. CASE held # None
      <4>1. Pending = {held}
        BY <2>1, <3>2 DEF Pending
      <4>2. Cardinality({held}) = 1
        BY FS_Singleton
      <4> QED BY <4>1, <4>2
    <3> QED BY <3>1, <3>2
  <2>3. Pending' = Pending /\ Running' = Running
    BY <2>1 DEF Pending, Running
  <2>4. AtMostOneLate'
    BY <2>2, <2>3 DEF AtMostOneLate, Pending
  <2>5. HandlersCounted'
    BY <2>1, <2>3 DEF HandlersCounted
  <2>6. TypeOK' /\ Starting' /\ Handing'
    BY <1>6 DEF WaitReturns, Handing
  <2> QED BY <2>4, <2>5, <2>6
<1>7. CASE Exit
  BY <1>7, Quiet DEF Exit
<1> QED BY <1>1, <1>2, <1>3, <1>4, <1>5, <1>6, <1>7 DEF MainStep, Shutdown

LEMMA LoopInv ==
  ASSUME Inv, LoopStep
  PROVE  Inv'
<1> USE DEF Inv, TypeOK, Starting, LoopPCs, Loop
<1>1. CASE Listen
  BY <1>1, Quiet DEF Listen
<1>2. CASE AssignListener
  BY <1>2, Quiet DEF AssignListener
<1>3. ASSUME NEW c \in Conns, Accept(c) PROVE Inv'
  <2>1. Running' = Running
    BY <1>3 DEF Accept, Running
  <2>2. TypeOK' /\ Starting' /\ Handing' /\ AtMostOneLate'
    BY <1>3, ConnsAssumption DEF Accept, Handing, AtMostOneLate
  <2> QED BY <1>3, <2>1, <2>2 DEF Accept, HandlersCounted
<1>4. CASE Handoff
  <2>1. held \in Conns /\ held \notin Running
    BY <1>4 DEF Handoff, Handing, Running
  <2>2. Running' = Running \cup {held}
    BY <1>4, <2>1 DEF Handoff, Running
  <2>3. Cardinality(Running') = Cardinality(Running) + 1
    BY <2>1, <2>2, FiniteHandlers, FS_AddElement
  <2>4. Pending' = Pending
    BY <1>4, <2>1, <2>2, ConnsAssumption DEF Handoff, Pending
  <2>5. TypeOK' /\ Starting' /\ Handing'
    BY <1>4, <2>1 DEF Handoff, Handing
  <2>6. HandlersCounted'
    BY <1>4, <2>3 DEF Handoff, HandlersCounted
  <2>7. AtMostOneLate'
    BY <1>4, <2>4 DEF Handoff, AtMostOneLate, Pending
  <2> QED BY <2>5, <2>6, <2>7
<1>5. CASE AcceptError
  BY <1>5, Quiet DEF AcceptError
<1>6. CASE AcceptFails
  BY <1>6, Quiet DEF AcceptFails
<1> QED BY <1>1, <1>2, <1>3, <1>4, <1>5, <1>6 DEF LoopStep

LEMMA HandlerInv ==
  ASSUME Inv, NEW c \in Conns, HandlerEnds(c)
  PROVE  Inv'
<1> USE DEF Inv, TypeOK, Starting, HandlerEnds
<1>1. c \in Running /\ Running' = Running \ {c}
  BY DEF Running
<1>2. Cardinality(Running') = Cardinality(Running) - 1 /\ Cardinality(Running) \in Nat
      /\ Cardinality(Running') \in Nat
  BY <1>1, FiniteHandlers, FS_RemoveElement, FS_CardinalityType, FS_Subset
<1>3. HandlersCounted' /\ wg' \in Nat
  BY <1>2 DEF HandlersCounted
<1>4. Pending' \subseteq Pending
  BY <1>1 DEF Pending
<1>5. Cardinality(Pending') <= Cardinality(Pending) /\ Cardinality(Pending') \in Nat
      /\ Cardinality(Pending) \in Nat
  BY <1>4, FiniteHandlers, FS_Subset, FS_CardinalityType
<1>6. AtMostOneLate'
  BY <1>5 DEF AtMostOneLate, Pending
<1>7. TypeOK' /\ Starting' /\ Handing'
  BY <1>3 DEF Handing
<1> QED BY <1>3, <1>6, <1>7

LEMMA Invariance == Spec => []Inv
<1>1. Inv /\ UNCHANGED vars => Inv'
  BY Quiet DEF vars, Inv, TypeOK, Starting
<1>2. Inv /\ [Next]_vars => Inv'
  BY <1>1, MainInv, LoopInv, HandlerInv DEF Next
<1> QED BY <1>2, InitInv, PTL DEF Spec

(* The accept loop, main, the listener and the handlers keep to their      *)
(* states, whatever the order in which they run.                           *)
THEOREM LifecycleTypes == Spec => []TypeOK
<1>1. Inv => TypeOK
  BY DEF Inv
<1> QED BY <1>1, Invariance, PTL

(* The WaitGroup counter is the number of running handlers, so it never    *)
(* goes negative and Shutdown waits for every handler that was started.    *)
THEOREM WaitGroupExact == Spec => [](TypeOK /\ HandlersCounted)
<1>1. Inv => TypeOK /\ HandlersCounted
  BY DEF Inv
<1> QED BY <1>1, Invariance, PTL

(* Once Shutdown has closed the listener and wg.Wait() has returned, at    *)
(* most one handler runs or is still to be started.                        *)
THEOREM OneLateHandler == Spec => []AtMostOneLate
<1>1. Inv => AtMostOneLate
  BY DEF Inv
<1> QED BY <1>1, Invariance, PTL

-----------------------------------------------------------------------------
\* Shutdown sets closing before it touches the listener, and nothing resets it.
ClosingFirst ==
  /\ main \in {"close", "wait", "returned"} => closing
  /\ ln = "closed" => closing

LEMMA ClosingInvariance == Spec => []ClosingFirst
<1>1. Init => ClosingFirst
  BY DEF Init, ClosingFirst
<1>2. ASSUME ClosingFirst, Signal \/ MainStep PROVE ClosingFirst'
  BY <1>2 DEF ClosingFirst, Signal, MainStep, ConnectTB, BeginShutdown, Shutdown, SetClosing,
     CloseListener, WaitReturns, Exit, Main
<1>3. ASSUME ClosingFirst, LoopStep PROVE ClosingFirst'
  BY <1>3 DEF ClosingFirst, LoopStep, Listen, AssignListener, Handoff, AcceptFails, AcceptError, Accept
<1>4. ClosingFirst /\ [Next]_vars => ClosingFirst'
  BY <1>2, <1>3 DEF ClosingFirst, Next, HandlerEnds, vars
<1> QED BY <1>1, <1>4, PTL DEF Spec

(* See ClosedNotRetried: only AcceptError goes back to Accept, and only if *)
(* it has read closing as false; then the listener is not yet closed.      *)
THEOREM NoRetryAfterClose == Spec => ClosedNotRetried
<1>1. ASSUME ClosingFirst, [Next]_vars, loop = "error", loop' = "accept" PROVE ln # "closed"
  <2>1. AcceptError
    BY <1>1 DEF Next, Signal, MainStep, ConnectTB, BeginShutdown, Shutdown, SetClosing, CloseListener,
       WaitReturns, Exit, LoopStep, Listen, AssignListener, Handoff, AcceptFails, Accept, Loop,
       HandlerEnds, vars
  <2> QED BY <1>1, <2>1 DEF AcceptError, Loop, ClosingFirst
<1>2. ClosingFirst /\ [Next]_vars => [loop = "error" /\ loop' = "accept" => ln # "closed"]_vars
  BY <1>1
<1> QED BY <1>2, ClosingInvariance, PTL DEF Spec, ClosedNotRetried

=============================================================================
