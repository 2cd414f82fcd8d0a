-------------------------- MODULE ServerLifecycle --------------------------
(***************************************************************************)
(* The life of the process: run in cmd/go-firewall builds the components,  *)
(* starts the metrics and admin servers and internal/server's public       *)
(* listeners, and ends on a signal, with a drain, or on an error of the    *)
(* listeners, without one.  Every server, Start, run and every request is  *)
(* a goroutine of its own.                                                 *)
(*                                                                         *)
(* net/http's part of it: Shutdown marks the server, closes the listener   *)
(* if Serve has taken it over, and waits for the requests in flight; Serve *)
(* on a marked server closes its listener and returns ErrServerClosed.     *)
(***************************************************************************)
EXTENDS Integers, Sequences

CONSTANTS
    N,      \* the number of public listeners
    Aux,    \* which of the metrics and admin servers are enabled
    Conn    \* requests that clients may send

ASSUME ServerAssumption == N \in Nat \ {0} /\ Aux \subseteq {"metrics", "admin"}

\* The servers, in the order in which run shuts them down.
Public  == 1..N
metrics == N + 1
admin   == N + 2
Server  == 1..admin
enabled == Public \cup {i \in {metrics, admin} :
                         (IF i = metrics THEN "metrics" ELSE "admin") \in Aux}

VARIABLES
    run,        \* where run is: "boot", "select", "shutdown", "defers" or "exited"
    step,       \* how many of the construction steps are done
    open,       \* the components whose Close or Stop is deferred
    signal,     \* a SIGTERM or SIGINT has cancelled ctx
    start,      \* where Start is: "none", "bind", "wait", or what it returned
    bound,      \* len(s.listeners)
    ready,      \* s.ready is closed
    sock,       \* [Server -> "none", "bound" or "closed"]
    serve,      \* [Server -> the state of its serve goroutine, "closed" and
                \* "failed" being what it sent to errCh]
    received,   \* what Start has received from errCh
    turn,       \* the server that is being shut down
    marked,     \* servers whose Shutdown has begun
    drained,    \* servers whose Shutdown returned nil
    expired,    \* the drain timeout has passed
    conn        \* [Conn -> its server and how far it got]

runVars   == <<run, step, open, signal>>
startVars == <<start, bound, ready, received>>
downVars  == <<turn, marked, drained, expired>>
vars      == <<run, step, open, signal, start, bound, ready, received, turn, marked, drained,
               expired, sock, serve, conn>>

\* What run builds, in order.
Build == <<"proxy", "ipFilter", "rateLimiter", "accessLog", "trustedProxies", "waf", "server",
           "metrics", "admin">>

Init ==
    /\ run = "boot" /\ step = 0 /\ open = {} /\ signal = FALSE
    /\ start = "none" /\ bound = 0 /\ ready = FALSE /\ received = {}
    /\ turn = 0 /\ marked = {} /\ drained = {} /\ expired = FALSE
    /\ sock = [i \in Server |-> "none"]
    /\ serve = [i \in Server |-> "none"]
    /\ conn = [c \in Conn |-> [srv |-> 1, st |-> "none"]]

alive == run # "exited"

\* NotifyContext is the first thing run does.
Signal ==
    /\ alive /\ ~signal
    /\ signal' = TRUE
    /\ UNCHANGED <<run, step, open, startVars, downVars, sock, serve, conn>>

-----------------------------------------------------------------------------
(***************************************************************************)
(* run, up to its select.                                                  *)
(***************************************************************************)
deferred == {"ipFilter", "rateLimiter", "accessLog"}

\* The next component; the metrics and admin servers get their goroutines.
Construct ==
    /\ run = "boot" /\ step < Len(Build)
    /\ step' = step + 1
    /\ open' = open \cup (deferred \cap {Build[step']})
    /\ serve' = CASE Build[step'] = "metrics" /\ metrics \in enabled ->
                        [serve EXCEPT ![metrics] = "spawned"]
                  [] Build[step'] = "admin" /\ admin \in enabled ->
                        [serve EXCEPT ![admin] = "spawned"]
                  [] OTHER -> serve
    /\ UNCHANGED <<run, signal, startVars, downVars, sock, conn>>

\* Most constructors may fail: run returns, and so runs its defers.
ConstructFails ==
    /\ run = "boot" /\ step < Len(Build)
    /\ Build[step + 1] \notin {"rateLimiter", "metrics"}
    /\ run' = "defers"
    /\ UNCHANGED <<step, open, signal, startVars, downVars, sock, serve, conn>>

StartServers ==
    /\ run = "boot" /\ step = Len(Build)
    /\ run' = "select"
    /\ start' = "bind"
    /\ UNCHANGED <<step, open, signal, bound, ready, received, downVars, sock, serve, conn>>

-----------------------------------------------------------------------------
(***************************************************************************)
(* Start.                                                                  *)
(***************************************************************************)
\* Mutant: a listener is served as soon as it is bound.
BindAndServe ==
    /\ alive /\ start = "bind" /\ bound < N
    /\ bound' = bound + 1
    /\ sock' = [sock EXCEPT ![bound'] = "bound"]
    /\ serve' = [serve EXCEPT ![bound'] = "spawned"]
    /\ UNCHANGED <<runVars, start, ready, received, downVars, conn>>

Bind ==
    /\ alive /\ start = "bind" /\ bound < N
    /\ bound' = bound + 1
    /\ sock' = [sock EXCEPT ![bound'] = "bound"]
    /\ UNCHANGED <<runVars, start, ready, received, downVars, serve, conn>>

\* Start returns; the listeners bound so far are left to the end of the process.
BindFails ==
    /\ alive /\ start = "bind" /\ bound < N
    /\ start' = "failed"
    /\ UNCHANGED <<runVars, bound, ready, received, downVars, sock, serve, conn>>

CloseReady ==
    /\ alive /\ start = "bind" /\ bound = N
    /\ ready' = TRUE
    /\ start' = "wait"
    /\ serve' = [i \in Server |-> IF i \in Public THEN "spawned" ELSE serve[i]]
    /\ UNCHANGED <<runVars, bound, received, downVars, sock, conn>>

\* errCh has room for every server, so that its sends never wait.
Receive(i) ==
    /\ alive /\ start = "wait"
    /\ i \in Public \ received
    /\ serve[i] \in {"closed", "failed"}
    /\ received' = received \cup {i}
    /\ start' = IF serve[i] = "failed" THEN "failed"
                ELSE IF received' = Public THEN "ok" ELSE "wait"
    /\ UNCHANGED <<runVars, bound, ready, downVars, sock, serve, conn>>

-----------------------------------------------------------------------------
(***************************************************************************)
(* The servers.                                                            *)
(***************************************************************************)
serverMoves(i, s, k) ==
    /\ serve' = [serve EXCEPT ![i] = s]
    /\ sock' = [sock EXCEPT ![i] = k]
    /\ UNCHANGED <<runVars, startVars, downVars, conn>>

\* ListenAndServe of the metrics and admin servers; a failure is only logged.
AuxListen(i) ==
    /\ alive /\ i \notin Public
    /\ serve[i] = "spawned" /\ sock[i] = "none"
    /\ \/ i \in marked /\ serverMoves(i, "closed", "none")
       \/ i \notin marked /\ serverMoves(i, "spawned", "bound")
       \/ i \notin marked /\ serverMoves(i, "failed", "none")

Serve(i) ==
    /\ alive
    /\ serve[i] = "spawned" /\ sock[i] = "bound"
    /\ IF i \in marked THEN serverMoves(i, "closed", "closed")
                       ELSE serverMoves(i, "serving", "bound")

\* Serve returns: ErrServerClosed once Shutdown has closed the listener, or
\* the error of an Accept that failed for good.
ServeReturns(i) ==
    /\ alive
    /\ serve[i] = "serving"
    /\ serverMoves(i, IF i \in marked THEN "closed" ELSE "failed", "closed")

connBecomes(c, s) ==
    /\ conn' = [conn EXCEPT ![c] = s]
    /\ UNCHANGED <<runVars, startVars, downVars, sock, serve>>

Accept(c, i) ==
    /\ alive
    /\ conn[c].st = "none"
    /\ serve[i] = "serving" /\ sock[i] = "bound"
    /\ connBecomes(c, [srv |-> i, st |-> "active"])

\* A public request ends with its access log entry, lost once the log is closed.
Finish(c) ==
    /\ alive
    /\ conn[c].st = "active"
    /\ connBecomes(c, [conn[c] EXCEPT !.st =
          IF conn[c].srv \in Public /\ "accessLog" \notin open THEN "unlogged" ELSE "served"])

-----------------------------------------------------------------------------
(***************************************************************************)
(* run's select, the drain and the deferred calls.                         *)
(***************************************************************************)
\* Mutant: only the signal is waited for.
SelectSignalOnly ==
    /\ run = "select"
    /\ signal
    /\ run' = "shutdown" /\ turn' = 1
    /\ UNCHANGED <<step, open, signal, startVars, marked, drained, expired, sock, serve, conn>>

Select ==
    /\ run = "select"
    /\ \/ signal /\ run' = "shutdown" /\ turn' = 1
       \/ start \in {"failed", "ok"} /\ run' = "defers" /\ UNCHANGED turn
    /\ UNCHANGED <<step, open, signal, startVars, marked, drained, expired, sock, serve, conn>>

\* Mutant: the context has no deadline.
ExpireNever ==
    /\ run = "shutdown" /\ ~expired
    /\ UNCHANGED vars

\* The deadline of shutdownCtx, which all the servers share.
Expire ==
    /\ run = "shutdown" /\ ~expired
    /\ expired' = TRUE
    /\ UNCHANGED <<runVars, startVars, turn, marked, drained, sock, serve, conn>>

\* Mutant: a server that is not serving yet is passed over.
ShutdownPassesOver ==
    /\ run = "shutdown" /\ turn \in enabled \ marked
    /\ \/ /\ serve[turn] = "serving"
          /\ marked' = marked \cup {turn}
          /\ sock' = [sock EXCEPT ![turn] = "closed"]
          /\ UNCHANGED <<turn, drained>>
       \/ /\ serve[turn] # "serving"
          /\ turn' = turn + 1
          /\ drained' = drained \cup {turn}
          /\ UNCHANGED <<marked, sock>>
    /\ UNCHANGED <<runVars, startVars, expired, serve, conn>>

\* http.Server.Shutdown, before it waits.
ShutdownBegins ==
    /\ run = "shutdown" /\ turn \in enabled \ marked
    /\ marked' = marked \cup {turn}
    /\ sock' = IF serve[turn] = "serving" THEN [sock EXCEPT ![turn] = "closed"] ELSE sock
    /\ UNCHANGED <<runVars, startVars, turn, drained, expired, serve, conn>>

inFlight(i) == {c \in Conn : conn[c].srv = i /\ conn[c].st = "active"}

\* It returns nil once no request is in flight, ctx.Err() after the deadline;
\* either way the next server is shut down.
ShutdownReturns ==
    /\ run = "shutdown" /\ turn \in marked
    /\ \/ inFlight(turn) = {} /\ drained' = drained \cup {turn}
       \/ inFlight(turn) # {} /\ expired /\ UNCHANGED drained
    /\ turn' = turn + 1
    /\ UNCHANGED <<runVars, startVars, marked, expired, sock, serve, conn>>

\* A server that is not enabled is nil.
ShutdownSkipped ==
    /\ run = "shutdown" /\ turn \in Server \ enabled
    /\ turn' = turn + 1
    /\ UNCHANGED <<runVars, startVars, marked, drained, expired, sock, serve, conn>>

\* Mutant: only the public servers are drained.
lastDrainedPublic == N

lastDrained == admin

DrainEnds ==
    /\ run = "shutdown" /\ turn > lastDrained
    /\ run' = "defers"
    /\ UNCHANGED <<step, open, signal, startVars, downVars, sock, serve, conn>>

\* The deferred calls, last component first.
Defer ==
    /\ run = "defers"
    /\ \E x \in open :
          /\ \A k, n \in DOMAIN Build : Build[k] = x /\ Build[n] \in open => n <= k
          /\ open' = open \ {x}
    /\ UNCHANGED <<run, step, signal, startVars, downVars, sock, serve, conn>>

\* run and so main return; what is in flight is cut.
Exit ==
    /\ run = "defers" /\ open = {}
    /\ run' = "exited"
    /\ conn' = [c \in Conn |-> IF conn[c].st = "active" THEN [conn[c] EXCEPT !.st = "cut"]
                               ELSE conn[c]]
    /\ UNCHANGED <<step, open, signal, startVars, downVars, sock, serve>>

Run   == \/ Construct \/ ConstructFails \/ StartServers \/ Select
         \/ ShutdownBegins \/ ShutdownReturns \/ ShutdownSkipped \/ DrainEnds
         \/ Defer \/ Exit
Start == Bind \/ BindFails \/ CloseReady \/ \E i \in Server : Receive(i)

Next ==
    \/ Run \/ Start \/ Signal \/ Expire
    \/ \E i \in Server : AuxListen(i) \/ Serve(i) \/ ServeReturns(i)
    \/ \E c \in Conn : Finish(c) \/ \E i \in Server : Accept(c, i)

\* The scheduler runs run and Start, and the drain timer fires.  A request need
\* not end, a signal need not come.
Spec == Init /\ [][Next]_vars /\ WF_vars(Run) /\ WF_vars(Start) /\ WF_vars(Expire)

-----------------------------------------------------------------------------
(***************************************************************************)
(* Properties.                                                             *)
(***************************************************************************)
\* Type invariant.
TypeOK ==
    /\ run \in {"boot", "select", "shutdown", "defers", "exited"}
    /\ step \in 0..Len(Build)
    /\ open \subseteq deferred
    /\ signal \in BOOLEAN /\ ready \in BOOLEAN /\ expired \in BOOLEAN
    /\ start \in {"none", "bind", "wait", "failed", "ok"}
    /\ bound \in 0..N
    /\ received \subseteq Public
    /\ turn \in 0..(admin + 1)
    /\ marked \subseteq Server /\ drained \subseteq Server
    /\ sock \in [Server -> {"none", "bound", "closed"}]
    /\ serve \in [Server -> {"none", "spawned", "serving", "closed", "failed"}]
    /\ conn \in [Conn -> [srv : Server,
                          st : {"none", "active", "served", "unlogged", "cut"}]]

\* Start "binds every listener, then serves them" (server.go:67): no public
\* listener takes a request while another may still fail to bind.
NoServiceUntilAllBound ==
    \A c \in Conn : conn[c].st # "none" /\ conn[c].srv \in Public => ready /\ bound = N

\* Once Shutdown of a server returned nil, no request of it is in flight again,
\* even when the signal came before its Serve was called (server.go:92): the
\* deferred Close calls of run rely on it.
DrainedStaysIdle ==
    \A i \in drained : inFlight(i) = {}

\* The graceful shutdown of README.md:13.  If the drain ends before its timeout,
\* every request that any of the servers ever took is answered, and every
\* public one logged, before the deferred calls close what requests use.
CleanDrain ==
    run \in {"defers", "exited"} /\ turn > 0 /\ ~expired =>
        \A c \in Conn : conn[c].st \in {"none", "served"}

\* A signal ends the process, wherever run and Start are when it comes and
\* however long requests last: the drain timeout bounds the wait.
SignalEnds == signal ~> run = "exited"

\* So does a listener that cannot be bound or that fails while serving.
StartErrorEnds == start = "failed" ~> run = "exited"
=============================================================================
