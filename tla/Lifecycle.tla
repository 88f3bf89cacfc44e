----------------------------- MODULE Lifecycle -----------------------------
(***************************************************************************)
(* Start-up and shutdown of the gateway: main (cmd/gateway/main.go), the   *)
(* accept loop ListenAndServe, Shutdown, and the WaitGroup that counts the *)
(* connection handlers (internal/server/server.go). What a handler does    *)
(* between its start and its wg.Done() is module Sessions.                 *)
(***************************************************************************)
EXTENDS Naturals, FiniteSets

CONSTANTS
  Conns,  \* connections trackers may open, each at most once
  None    \* no connection

ASSUME ConnsAssumption == IsFiniteSet(Conns) /\ None \notin Conns

VARIABLES
  main,      \* control point of main and of the Shutdown it calls
  ctxDone,   \* the signal context is cancelled
  loop,      \* control point of the ListenAndServe goroutine
  held,      \* the accepted connection the loop has not handed over yet
  ln,        \* Server.ln: "unset" (nil), "open" or "closed"
  closing,   \* Server.closing
  wg,        \* counter of Server.wg
  handler    \* each connection's handler: "none", "running" or "done"

vars == <<main, ctxDone, loop, held, ln, closing, wg, handler>>

MainPCs == {"connect", "run", "shutdown", "close", "wait", "returned", "exited"}
LoopPCs == {"none", "listen", "assign", "accept", "handoff", "error", "ended"}

Running == {c \in Conns : handler[c] = "running"}

Init ==
  /\ main = "connect"
  /\ ctxDone = FALSE
  /\ loop = "none"
  /\ held = None
  /\ ln = "unset"
  /\ closing = FALSE
  /\ wg = 0
  /\ handler = [c \in Conns |-> "none"]

\* The process is alive.
Alive == main # "exited"

-----------------------------------------------------------------------------
(* main and Shutdown.                                                      *)

Main(from, to) == main = from /\ main' = to

\* SIGINT or SIGTERM.
Signal ==
  /\ Alive
  /\ ctxDone' = TRUE
  /\ UNCHANGED <<main, loop, held, ln, closing, wg, handler>>

\* tb.Connect succeeds and the accept loop is started, or it fails (or the
\* context is cancelled first) and the process exits.
ConnectTB ==
  \/ /\ Main("connect", "run")
     /\ loop' = "listen"
     /\ UNCHANGED <<ctxDone, held, ln, closing, wg, handler>>
  \/ /\ Main("connect", "exited")
     /\ UNCHANGED <<ctxDone, loop, held, ln, closing, wg, handler>>

\* <-ctx.Done()
BeginShutdown ==
  /\ ctxDone
  /\ Main("run", "shutdown")
  /\ UNCHANGED <<ctxDone, loop, held, ln, closing, wg, handler>>

SetClosing ==
  /\ Main("shutdown", "close")
  /\ closing' = TRUE
  /\ UNCHANGED <<ctxDone, loop, held, ln, wg, handler>>

\* if s.ln != nil { s.ln.Close() }: s.ln is read without a lock, so a listener
\* that ListenAndServe is just assigning is missed. (A torn read of the
\* interface calls Close on a nil listener, which fails and closes nothing.)
CloseListener ==
  /\ Main("close", "wait")
  /\ ln' = IF ln = "open" THEN "closed" ELSE ln
  /\ UNCHANGED <<ctxDone, loop, held, closing, wg, handler>>

\* s.wg.Wait() returns.
WaitReturnsEarly ==  \* mutant: Shutdown does not wait for the handlers
  /\ Main("wait", "returned")
  /\ UNCHANGED <<ctxDone, loop, held, ln, closing, wg, handler>>

WaitReturns ==
  /\ wg = 0
  /\ Main("wait", "returned")
  /\ UNCHANGED <<ctxDone, loop, held, ln, closing, wg, handler>>

\* Mutant: the listener is closed first and closing set after it.
ShutdownSwapped ==
  \/ /\ Main("shutdown", "close")
     /\ ln' = IF ln = "open" THEN "closed" ELSE ln
     /\ UNCHANGED <<ctxDone, loop, held, closing, wg, handler>>
  \/ /\ Main("close", "wait")
     /\ closing' = TRUE
     /\ UNCHANGED <<ctxDone, loop, held, ln, wg, handler>>
  \/ WaitReturns

Shutdown == SetClosing \/ CloseListener \/ WaitReturns

\* The deferred tb.Close(), which gives in-flight work 250 ms, and the end of
\* the process, which ends every goroutine.
Exit ==
  /\ Main("returned", "exited")
  /\ UNCHANGED <<ctxDone, loop, held, ln, closing, wg, handler>>

-----------------------------------------------------------------------------
(* ListenAndServe.                                                         *)

Loop(from, to) == Alive /\ loop = from /\ loop' = to

\* net.Listen binds the address, or fails and main's goroutine calls stop().
Listen ==
  \/ /\ Loop("listen", "assign")
     /\ UNCHANGED <<main, ctxDone, held, ln, closing, wg, handler>>
  \/ /\ Loop("listen", "ended")
     /\ ctxDone' = TRUE
     /\ UNCHANGED <<main, held, ln, closing, wg, handler>>

\* s.ln = ln
AssignListener ==
  /\ Loop("assign", "accept")
  /\ ln' = "open"
  /\ UNCHANGED <<main, ctxDone, held, closing, wg, handler>>

Accept(c) ==
  /\ ln = "open"
  /\ handler[c] = "none"
  /\ Loop("accept", "handoff")
  /\ held' = c
  /\ UNCHANGED <<main, ctxDone, ln, closing, wg, handler>>

\* s.wg.Add(1); go s.handleConn(...)
HandoffUncounted ==  \* mutant: Add is left to the handler, which misses it
  /\ Loop("handoff", "accept")
  /\ handler' = [handler EXCEPT ![held] = "running"]
  /\ held' = None
  /\ UNCHANGED <<main, ctxDone, ln, closing, wg>>

Handoff ==
  /\ Loop("handoff", "accept")
  /\ wg' = wg + 1
  /\ handler' = [handler EXCEPT ![held] = "running"]
  /\ held' = None
  /\ UNCHANGED <<main, ctxDone, ln, closing>>

\* Accept fails: the listener was closed, or a transient error.
AcceptFails ==
  /\ Loop("accept", "error")
  /\ UNCHANGED <<main, ctxDone, held, ln, closing, wg, handler>>

\* s.closing is read under the lock, some time later: the loop ends if the
\* server is closing, and otherwise logs and accepts again.
AcceptErrorIgnored ==  \* mutant: every error is retried
  /\ Loop("error", "accept")
  /\ UNCHANGED <<main, ctxDone, held, ln, closing, wg, handler>>

AcceptError ==
  /\ Loop("error", IF closing THEN "ended" ELSE "accept")
  /\ UNCHANGED <<main, ctxDone, held, ln, closing, wg, handler>>

\* handleConn returns: its deferred s.wg.Done().
HandlerEndsUncounted(c) ==  \* mutant: wg.Done() is missed
  /\ Alive
  /\ handler[c] = "running"
  /\ handler' = [handler EXCEPT ![c] = "done"]
  /\ UNCHANGED <<main, ctxDone, loop, held, ln, closing, wg>>

HandlerEnds(c) ==
  /\ Alive
  /\ handler[c] = "running"
  /\ handler' = [handler EXCEPT ![c] = "done"]
  /\ wg' = wg - 1
  /\ UNCHANGED <<main, ctxDone, loop, held, ln, closing>>

-----------------------------------------------------------------------------
MainStep == ConnectTB \/ BeginShutdown \/ Shutdown \/ Exit
LoopStep == Listen \/ AssignListener \/ Handoff \/ AcceptFails \/ AcceptError \/ (\E c \in Conns : Accept(c))

Next == Signal \/ MainStep \/ LoopStep \/ (\E c \in Conns : HandlerEnds(c))

Spec == Init /\ [][Next]_vars

(* Fairness. Goroutines that can run do run; Accept on a closed listener   *)
(* fails. That every handler ends is an assumption on the trackers, which  *)
(* ShutdownEnds makes: Shutdown does not close their connections, and a    *)
(* tracker that reports within the read timeout keeps its handler alive.   *)
GatewayFairness ==
  /\ WF_vars(BeginShutdown \/ Shutdown \/ Exit)
  /\ WF_vars(Handoff \/ AcceptError)
  /\ WF_vars(ln = "closed" /\ AcceptFails)
TrackersLeave == \A c \in Conns : WF_vars(HandlerEnds(c))

FairSpec == Spec /\ GatewayFairness

-----------------------------------------------------------------------------
TypeOK ==
  /\ main \in MainPCs
  /\ ctxDone \in BOOLEAN
  /\ loop \in LoopPCs
  /\ held \in Conns \cup {None}
  /\ ln \in {"unset", "open", "closed"}
  /\ closing \in BOOLEAN
  /\ wg \in Nat
  /\ handler \in [Conns -> {"none", "running", "done"}]

(* The WaitGroup counts the running handlers: it never goes negative (a    *)
(* panic in Go), and wg.Wait() in Shutdown returns when none is running.   *)
HandlersCounted == wg = Cardinality(Running)

(* Accept, wg.Add and Shutdown race: a connection accepted just before the *)
(* listener is closed can start its handler after wg.Wait() has returned.  *)
(* If Shutdown saw the listener, that is the only handler it can miss.     *)
AtMostOneLate ==
  main \in {"returned", "exited"} /\ ln = "closed" =>
    Cardinality(Running \cup ({held} \ {None})) <= 1

(* Shutdown sets closing before it closes the listener, and the accept     *)
(* loop reads it after Accept has failed: the error of a listener that the *)
(* gateway has closed itself is never taken for a transient one and        *)
(* retried, wherever the loop was when Shutdown began.                     *)
ClosedNotRetried ==
  [][loop = "error" /\ loop' = "accept" => ln # "closed"]_vars

(* Closing the listener ends the accept loop, also while trackers that     *)
(* stay connected keep Shutdown waiting.                                   *)
AcceptLoopEnds == ln = "closed" ~> (loop = "ended" \/ ~ Alive)

(* A signal after start-up, or a failed Listen, ends the process once the  *)
(* trackers have left, whatever the accept loop was doing; except that a   *)
(* Shutdown which missed a listener just being assigned can wait for as    *)
(* long as new trackers keep arriving.                                     *)
ShutdownEnds ==
  TrackersLeave =>
    ((ctxDone /\ main = "run") ~> (~ Alive \/ (main = "wait" /\ ln = "open")))

=============================================================================
