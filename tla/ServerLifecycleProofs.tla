----------------------- MODULE ServerLifecycleProofs -----------------------
(***************************************************************************)
(* Proofs of the safety properties of ServerLifecycle, for any number of   *)
(* public listeners and requests and with or without the other servers.    *)
(***************************************************************************)
EXTENDS ServerLifecycle, TLAPS

\* What Start, the servers and the requests have in common: a public server is
\* served, and so takes requests, only once all are bound; a server that is not
\* enabled is never started.
StartInv ==
    /\ start \in {"none", "bind"} => ~ready
    /\ ready => bound = N
    /\ run = "boot" => start = "none"
    /\ \A i \in Server : serve[i] # "none" => i \in enabled /\ (i \in Public => ready)
    /\ \A c \in Conn : conn[c].st # "none" => serve[conn[c].srv] # "none"

\* What a Shutdown that has begun, and one that returned nil, guarantee.
ShutdownInv ==
    /\ \A i \in marked : ~(serve[i] = "serving" /\ sock[i] = "bound")
    /\ drained \subseteq marked
    /\ DrainedStaysIdle

\* How far run is says which servers are drained and that the access log is
\* open for as long as requests may still need it.
RunInv ==
    /\ run = "boot" /\ step >= 4 => "accessLog" \in open
    /\ run \in {"select", "shutdown"} => "accessLog" \in open
    /\ run \in {"boot", "select"} => turn = 0
    /\ run = "shutdown" => turn > 0
    /\ run \in {"defers", "exited"} /\ turn > 0 => turn = admin + 1
    /\ ~expired => \A i \in enabled : i < turn => i \in drained
    /\ run \in {"boot", "select", "shutdown"} =>
          \A c \in Conn : conn[c].st \in {"none", "active", "served"}

IndInv == TypeOK /\ StartInv /\ ShutdownInv /\ RunInv /\ CleanDrain

LEMMA Numbers ==
    /\ N \in Nat /\ N > 0
    /\ metrics \in Server /\ admin \in Server /\ metrics \notin Public /\ admin \notin Public
    /\ Public \subseteq enabled /\ enabled \subseteq Server /\ Public \subseteq Server
    /\ \A i \in Server : i \in Int /\ 1 <= i /\ i <= admin
    /\ admin = N + 2 /\ 1 \in Server
BY ServerAssumption DEF metrics, admin, Server, Public, enabled

LEMMA BeforeEnd == \A i \in enabled : i < admin + 1
BY Numbers

LEMMA BuildFacts ==
    /\ Len(Build) = 9
    /\ Build[4] = "accessLog"
BY DEF Build

LEMMA InitInv == Init => IndInv
<1> SUFFICES ASSUME Init PROVE IndInv
  OBVIOUS
<1> USE Numbers, BuildFacts
<1>1. TypeOK
  <2>1. conn \in [Conn -> [srv : Server, st : {"none", "active", "served", "unlogged", "cut"}]]
    BY DEF Init
  <2>2. step \in 0..Len(Build) /\ bound \in 0..N /\ turn \in 0..(admin + 1) BY DEF Init
  <2>3. /\ sock \in [Server -> {"none", "bound", "closed"}]
        /\ serve \in [Server -> {"none", "spawned", "serving", "closed", "failed"}]
    BY DEF Init
  <2> QED BY <2>1, <2>2, <2>3 DEF Init, TypeOK
<1>2. StartInv BY DEF Init, StartInv
<1>3. ShutdownInv BY DEF Init, ShutdownInv, DrainedStaysIdle
<1>4. RunInv BY DEF Init, RunInv
<1>5. CleanDrain BY DEF Init, CleanDrain
<1> QED BY <1>1, <1>2, <1>3, <1>4, <1>5 DEF IndInv

\* Every step keeps the types.
LEMMA TypeStep == ASSUME TypeOK, [Next]_vars PROVE TypeOK'
<1> USE Numbers, BuildFacts DEF TypeOK
<1>1. CASE Construct BY <1>1 DEF Construct, startVars, downVars, deferred
<1>2. CASE ConstructFails BY <1>2 DEF ConstructFails, startVars, downVars
<1>3. CASE StartServers BY <1>3 DEF StartServers, startVars, downVars
<1>4. CASE Select BY <1>4 DEF Select, startVars, downVars
<1>5. CASE ShutdownBegins BY <1>5 DEF ShutdownBegins, runVars, startVars, downVars
<1>6. CASE ShutdownReturns
  <2>1. turn \in Server /\ turn' = turn + 1 BY <1>6 DEF ShutdownReturns
  <2>2. turn' \in 0..(admin + 1) BY <2>1
  <2>3. drained' \subseteq Server BY <1>6, <2>1 DEF ShutdownReturns
  <2> QED BY <1>6, <2>2, <2>3 DEF ShutdownReturns, runVars, startVars
<1>7. CASE ShutdownSkipped BY <1>7 DEF ShutdownSkipped, runVars, startVars, downVars
<1>8. CASE DrainEnds BY <1>8 DEF DrainEnds, startVars, downVars
<1>9. CASE Defer BY <1>9 DEF Defer, startVars, downVars
<1>10. CASE Exit BY <1>10 DEF Exit, startVars, downVars
<1>11. CASE Bind
  <2>1. bound' = bound + 1 /\ bound < N /\ bound \in 0..N BY <1>11 DEF Bind
  <2>2. bound' \in 0..N BY <2>1
  <2>3. sock' \in [Server -> {"none", "bound", "closed"}] BY <1>11 DEF Bind
  <2> QED BY <1>11, <2>2, <2>3 DEF Bind, runVars, downVars
<1>12. CASE BindFails BY <1>12 DEF BindFails, runVars, downVars
<1>13. CASE CloseReady BY <1>13 DEF CloseReady, runVars, downVars
<1>14. ASSUME NEW i \in Server, Receive(i) PROVE TypeOK'
  BY <1>14 DEF Receive, runVars, downVars
<1>15. CASE Signal BY <1>15 DEF Signal, startVars, downVars
<1>16. CASE Expire BY <1>16 DEF Expire, runVars, startVars
<1>17. ASSUME NEW i \in Server, AuxListen(i) \/ Serve(i) \/ ServeReturns(i) PROVE TypeOK'
  <2>1. ASSUME NEW s \in {"none", "spawned", "serving", "closed", "failed"},
               NEW k \in {"none", "bound", "closed"}, serverMoves(i, s, k)
        PROVE  TypeOK'
    BY <2>1 DEF serverMoves, runVars, startVars, downVars
  <2> QED BY <1>17, <2>1 DEF AuxListen, Serve, ServeReturns
<1>18. ASSUME NEW c \in Conn, Finish(c) PROVE TypeOK'
  BY <1>18 DEF Finish, connBecomes, runVars, startVars, downVars
<1>19. ASSUME NEW c \in Conn, NEW i \in Server, Accept(c, i) PROVE TypeOK'
  BY <1>19 DEF Accept, connBecomes, runVars, startVars, downVars
<1>20. CASE UNCHANGED vars BY <1>20 DEF vars
<1> QED
  BY <1>1, <1>2, <1>3, <1>4, <1>5, <1>6, <1>7, <1>8, <1>9, <1>10, <1>11, <1>12, <1>13,
     <1>14, <1>15, <1>16, <1>17, <1>18, <1>19, <1>20 DEF Next, Run, Start

\* Every step keeps StartInv.
LEMMA StartStep == ASSUME IndInv, [Next]_vars PROVE StartInv'
<1> USE Numbers, BuildFacts DEF IndInv, TypeOK, StartInv
<1>1. CASE Construct BY <1>1 DEF Construct, startVars, downVars
<1>2. CASE ConstructFails BY <1>2 DEF ConstructFails, startVars, downVars
<1>3. CASE StartServers BY <1>3 DEF StartServers, startVars, downVars
<1>4. CASE Select BY <1>4 DEF Select, startVars, downVars
<1>5. CASE ShutdownBegins BY <1>5 DEF ShutdownBegins, runVars, startVars, downVars
<1>6. CASE ShutdownReturns BY <1>6 DEF ShutdownReturns, runVars, startVars, downVars
<1>7. CASE ShutdownSkipped BY <1>7 DEF ShutdownSkipped, runVars, startVars, downVars
<1>8. CASE DrainEnds BY <1>8 DEF DrainEnds, startVars, downVars
<1>9. CASE Defer BY <1>9 DEF Defer, startVars, downVars
<1>10. CASE Exit BY <1>10 DEF Exit, startVars, downVars
<1>11. CASE Bind BY <1>11 DEF Bind, runVars, startVars, downVars
<1>12. CASE BindFails BY <1>12 DEF BindFails, runVars, startVars, downVars
<1>13. CASE CloseReady BY <1>13 DEF CloseReady, runVars, startVars, downVars
<1>14. ASSUME NEW i \in Server, Receive(i) PROVE StartInv'
  BY <1>14 DEF Receive, runVars, downVars
<1>15. CASE Signal BY <1>15 DEF Signal, startVars, downVars
<1>16. CASE Expire BY <1>16 DEF Expire, runVars, startVars
<1>17. ASSUME NEW i \in Server, AuxListen(i) \/ Serve(i) \/ ServeReturns(i) PROVE StartInv'
  <2>1. ASSUME NEW s \in {"spawned", "serving", "closed", "failed"}, NEW k,
               serverMoves(i, s, k), serve[i] # "none"
        PROVE  StartInv'
    BY <2>1 DEF serverMoves, runVars, startVars, downVars
  <2> QED BY <1>17, <2>1 DEF AuxListen, Serve, ServeReturns
<1>18. ASSUME NEW c \in Conn, Finish(c) PROVE StartInv'
  BY <1>18 DEF Finish, connBecomes, runVars, startVars, downVars
<1>19. ASSUME NEW c \in Conn, NEW i \in Server, Accept(c, i) PROVE StartInv'
  BY <1>19 DEF Accept, connBecomes, runVars, startVars, downVars
<1>20. CASE UNCHANGED vars BY <1>20 DEF vars
<1> QED
  BY <1>1, <1>2, <1>3, <1>4, <1>5, <1>6, <1>7, <1>8, <1>9, <1>10, <1>11, <1>12, <1>13,
     <1>14, <1>15, <1>16, <1>17, <1>18, <1>19, <1>20 DEF Next, Run, Start

\* Every step keeps ShutdownInv.
LEMMA ShutdownStep == ASSUME IndInv, [Next]_vars PROVE ShutdownInv'
<1> USE Numbers, BuildFacts DEF IndInv, TypeOK, ShutdownInv, DrainedStaysIdle, inFlight
<1>1. CASE Construct BY <1>1 DEF Construct, startVars, downVars
<1>2. CASE ConstructFails BY <1>2 DEF ConstructFails, startVars, downVars
<1>3. CASE StartServers BY <1>3 DEF StartServers, startVars, downVars
<1>4. CASE Select BY <1>4 DEF Select, startVars, downVars
<1>5. CASE ShutdownBegins BY <1>5 DEF ShutdownBegins, runVars, startVars, downVars
<1>6. CASE ShutdownReturns
  <2>1. conn' = conn /\ serve' = serve /\ sock' = sock /\ marked' = marked /\ turn \in marked
    BY <1>6 DEF ShutdownReturns
  <2> HIDE DEF inFlight
  <2>2. \A i \in drained : i \in marked /\ inFlight(i) = {} OBVIOUS
  <2>3. drained' = drained \/ (drained' = drained \cup {turn} /\ inFlight(turn) = {})
    BY <1>6 DEF ShutdownReturns
  <2>4. \A i \in drained' : i \in marked /\ inFlight(i) = {} BY <2>1, <2>2, <2>3
  <2> QED BY <2>1, <2>4 DEF inFlight
<1>7. CASE ShutdownSkipped BY <1>7 DEF ShutdownSkipped, runVars, startVars, downVars
<1>8. CASE DrainEnds BY <1>8 DEF DrainEnds, startVars, downVars
<1>9. CASE Defer BY <1>9 DEF Defer, startVars, downVars
<1>10. CASE Exit BY <1>10 DEF Exit, startVars, downVars
<1>11. CASE Bind
  <2>1. bound' \in Public BY <1>11 DEF Bind, Public
  <2>2. serve[bound'] = "none" BY <1>11, <2>1 DEF Bind, StartInv
  <2> QED BY <1>11, <2>2 DEF Bind, runVars, startVars, downVars
<1>12. CASE BindFails BY <1>12 DEF BindFails, runVars, startVars, downVars
<1>13. CASE CloseReady BY <1>13 DEF CloseReady, runVars, startVars, downVars
<1>14. ASSUME NEW i \in Server, Receive(i) PROVE ShutdownInv'
  BY <1>14 DEF Receive, runVars, downVars
<1>15. CASE Signal BY <1>15 DEF Signal, startVars, downVars
<1>16. CASE Expire BY <1>16 DEF Expire, runVars, startVars
<1>17. ASSUME NEW i \in Server, AuxListen(i) \/ Serve(i) \/ ServeReturns(i) PROVE ShutdownInv'
  <2>1. ASSUME NEW s, NEW k, serverMoves(i, s, k), i \in marked => ~(s = "serving" /\ k = "bound")
        PROVE  ShutdownInv'
    BY <2>1 DEF serverMoves, runVars, startVars, downVars
  <2> QED BY <1>17, <2>1 DEF AuxListen, Serve, ServeReturns
<1>18. ASSUME NEW c \in Conn, Finish(c) PROVE ShutdownInv'
  BY <1>18 DEF Finish, connBecomes, runVars, startVars, downVars
<1>19. ASSUME NEW c \in Conn, NEW i \in Server, Accept(c, i) PROVE ShutdownInv'
  BY <1>19 DEF Accept, connBecomes, runVars, startVars, downVars
<1>20. CASE UNCHANGED vars BY <1>20 DEF vars
<1> QED
  BY <1>1, <1>2, <1>3, <1>4, <1>5, <1>6, <1>7, <1>8, <1>9, <1>10, <1>11, <1>12, <1>13,
     <1>14, <1>15, <1>16, <1>17, <1>18, <1>19, <1>20 DEF Next, Run, Start

\* Every step keeps RunInv and CleanDrain.
LEMMA RunStep == ASSUME IndInv, [Next]_vars PROVE RunInv' /\ CleanDrain'
<1> USE Numbers, BuildFacts DEF IndInv, TypeOK, StartInv, ShutdownInv, DrainedStaysIdle, inFlight, RunInv, CleanDrain
<1>1. CASE Construct
  <2>1. step' >= 4 => "accessLog" \in open'
    <3>1. step' = step + 1 /\ step \in Nat BY <1>1 DEF Construct
    <3>2. CASE step >= 4 BY <1>1, <3>2 DEF Construct
    <3>3. CASE step' = 4 BY <1>1, <3>3 DEF Construct, deferred
    <3> QED BY <3>1, <3>2, <3>3
  <2> QED BY <1>1, <2>1 DEF Construct, startVars, downVars
<1>2. CASE ConstructFails BY <1>2 DEF ConstructFails, startVars, downVars
<1>3. CASE StartServers BY <1>3 DEF StartServers, startVars, downVars
<1>4. CASE Select BY <1>4 DEF Select, startVars, downVars
<1>5. CASE ShutdownBegins BY <1>5 DEF ShutdownBegins, runVars, startVars, downVars
<1>6. CASE ShutdownReturns BY <1>6 DEF ShutdownReturns, runVars, startVars, downVars
<1>7. CASE ShutdownSkipped BY <1>7 DEF ShutdownSkipped, runVars, startVars, downVars
<1>8. CASE DrainEnds
  <2>1. turn = admin + 1 BY <1>8 DEF DrainEnds, lastDrained
  <2>2. ASSUME ~expired, NEW c \in Conn PROVE conn[c].st \in {"none", "served"}
    <3>1. CASE conn[c].st = "active"
      <4>1. conn[c].srv \in enabled BY <3>1
      <4>2. conn[c].srv < turn BY <4>1, <2>1, BeforeEnd
      <4>3. ~expired => \A i \in enabled : i < turn => i \in drained BY DEF RunInv
      <4>4. conn[c].srv \in drained BY <4>1, <4>2, <4>3, <2>2
      <4> QED BY <3>1, <4>4
    <3> QED BY <1>8, <3>1 DEF DrainEnds
  <2> QED BY <1>8, <2>1, <2>2 DEF DrainEnds, startVars, downVars
<1>9. CASE Defer BY <1>9 DEF Defer, startVars, downVars
<1>10. CASE Exit BY <1>10 DEF Exit, startVars, downVars
<1>11. CASE Bind BY <1>11 DEF Bind, runVars, startVars, downVars
<1>12. CASE BindFails BY <1>12 DEF BindFails, runVars, startVars, downVars
<1>13. CASE CloseReady BY <1>13 DEF CloseReady, runVars, startVars, downVars
<1>14. ASSUME NEW i \in Server, Receive(i) PROVE RunInv' /\ CleanDrain'
  BY <1>14 DEF Receive, runVars, downVars
<1>15. CASE Signal BY <1>15 DEF Signal, startVars, downVars
<1>16. CASE Expire BY <1>16 DEF Expire, runVars, startVars
<1>17. ASSUME NEW i \in Server, AuxListen(i) \/ Serve(i) \/ ServeReturns(i) PROVE RunInv' /\ CleanDrain'
  BY <1>17 DEF AuxListen, Serve, ServeReturns, serverMoves, runVars, startVars, downVars
<1>18. ASSUME NEW c \in Conn, Finish(c) PROVE RunInv' /\ CleanDrain'
  BY <1>18 DEF Finish, connBecomes, runVars, startVars, downVars
<1>19. ASSUME NEW c \in Conn, NEW i \in Server, Accept(c, i) PROVE RunInv' /\ CleanDrain'
  BY <1>19 DEF Accept, connBecomes, runVars, startVars, downVars
<1>20. CASE UNCHANGED vars BY <1>20 DEF vars
<1> QED
  BY <1>1, <1>2, <1>3, <1>4, <1>5, <1>6, <1>7, <1>8, <1>9, <1>10, <1>11, <1>12, <1>13,
     <1>14, <1>15, <1>16, <1>17, <1>18, <1>19, <1>20 DEF Next, Run, Start

LEMMA Inductive == Spec => []IndInv
<1>1. IndInv /\ [Next]_vars => IndInv'
  BY TypeStep, StartStep, ShutdownStep, RunStep DEF IndInv
<1> QED BY <1>1, InitInv, PTL DEF Spec

-----------------------------------------------------------------------------
\* Type correctness.
THEOREM LifecycleTypeCorrect == Spec => []TypeOK
<1>1. IndInv => TypeOK BY DEF IndInv
<1> QED BY <1>1, Inductive, PTL

\* No public listener takes a request before Start has bound all of them.
THEOREM ServedOnlyWhenAllBound == Spec => []NoServiceUntilAllBound
<1>1. IndInv => NoServiceUntilAllBound
  BY Numbers DEF IndInv, TypeOK, StartInv, NoServiceUntilAllBound
<1> QED BY <1>1, Inductive, PTL

\* A server whose Shutdown returned nil has no request in flight ever after,
\* whatever the order of Shutdown and Serve.
THEOREM DrainedForGood == Spec => []DrainedStaysIdle
<1>1. IndInv => DrainedStaysIdle BY DEF IndInv, ShutdownInv
<1> QED BY <1>1, Inductive, PTL

\* A drain that ends before its timeout leaves every request answered and
\* logged before run's deferred calls close the components.
THEOREM DrainIsClean == Spec => []CleanDrain
<1>1. IndInv => CleanDrain BY DEF IndInv
<1> QED BY <1>1, Inductive, PTL
=============================================================================
