-------------------------- MODULE LifecycleProofs --------------------------
(***************************************************************************)
(* Theorems about Lifecycle, for any sets of connections.                  *)
(*                                                                         *)
(* None of the safety properties is inductive alone.  Why nobody is cut    *)
(* off early at the exit is seen at the last of three steps: the metrics server  *)
(* has drained by its own guard, the proxy's server had drained when the   *)
(* shutdown of the metrics server began, and it cannot have got a          *)
(* connection since, because a server that shuts down does not listen.     *)
(* Each of these is a part of Inv.                                         *)
(***************************************************************************)
EXTENDS Lifecycle, TLAPS

\* How far main is tells which servers are shutting down.
Phases ==
  /\ main = "serving" => shutting = {}
  /\ main = "proxy" => shutting = {"proxy"}
  /\ main = "metrics" => shutting = Server
  /\ main = "exited" => shutting = Server
  /\ "metrics" \in shutting => "proxy" \in shutting

\* A server that is shutting down does not listen, although its goroutine
\* may come to the port later.
ShutIsDeaf == \A s \in shutting : server[s] # "listening"

\* Nobody is cut off while the process runs.
NoneCutYet == Running => \A c \in Conn : conn[c] # "cut"

\* The inductive invariant.
Inv ==
  /\ TypeOK
  /\ Phases
  /\ ShutIsDeaf
  /\ NoneCutYet
  /\ CutOnlyAfterGrace
  /\ MetricsOutliveRequests

\* Nothing has been started yet.
LEMMA InitInv == Init => Inv
BY DEF Init, Inv, TypeOK, Phases, ShutIsDeaf, NoneCutYet, CutOnlyAfterGrace,
       MetricsOutliveRequests, Server, Running

\* The goroutine of a server, up to the port it gets: main and the connections
\* are left alone, and a port that is had after the signal is given back.
LEMMA StartKeeps ==
  ASSUME Inv, NEW s \in Server, Start(s) \/ Bind(s) \/ ServeReturns(s)
  PROVE  Inv'
<1> USE DEF Inv
<1>1. /\ UNCHANGED <<main, signalled, grace, shutting, conn, failed>>
      /\ \/ server' = [server EXCEPT ![s] = IF s \in shutting THEN "closed" ELSE "binding"]
         \/ server' = [server EXCEPT ![s] = IF s \in shutting THEN "closed" ELSE "listening"]
         \/ server' = [server EXCEPT ![s] = "returned"]
  BY DEF Start, Bind, ServeReturns
<1>2. TypeOK' /\ ShutIsDeaf'
  BY <1>1 DEF TypeOK, ShutIsDeaf
<1>3. Phases' /\ NoneCutYet' /\ CutOnlyAfterGrace'
  BY <1>1 DEF Phases, NoneCutYet, Running, CutOnlyAfterGrace
<1>4. MetricsOutliveRequests'
  BY <1>1, <1>2 DEF Phases, ShutIsDeaf, MetricsOutliveRequests, Drained
<1> QED BY <1>2, <1>3, <1>4

\* The end of the process opens no connection: who had none, or was done,
\* is not cut off.
LEMMA CutFacts ==
  ASSUME TypeOK, Cut
  PROVE  /\ conn' \in [Conn -> {"none", "busy", "idle", "closed", "cut"}]
         /\ \A s \in Server : Drained(s)'
         /\ \A c \in Conn : conn'[c] = "cut" => conn[c] = "busy"
BY DEF TypeOK, Cut, Drained, Of, Conn, Server

\* A port that cannot be had, or an Accept that fails: log.Fatalf.
LEMMA FatalKeeps ==
  ASSUME Inv, NEW s \in Server, BindFails(s) \/ AcceptFails(s)
  PROVE  Inv'
<1> USE DEF Inv
<1>1. /\ Fatal(s) /\ Cut /\ TypeOK
      /\ main' = "fatal" /\ failed' # {}
  BY DEF BindFails, AcceptFails, Fatal
<1>2. TypeOK' /\ ShutIsDeaf'
  BY <1>1, CutFacts DEF Fatal, TypeOK, ShutIsDeaf, Server
<1>3. Phases' /\ NoneCutYet' /\ CutOnlyAfterGrace'
  BY <1>1 DEF Fatal, Phases, NoneCutYet, Running, CutOnlyAfterGrace
<1>4. MetricsOutliveRequests'
  BY <1>1, <1>2, CutFacts DEF Fatal, Phases, ShutIsDeaf, MetricsOutliveRequests, Server
<1> QED BY <1>2, <1>3, <1>4

\* What a client or a handler does to a connection.  A connection of a server
\* that has drained is not used again, and a new one needs a listener.
LEMMA ConnKeeps ==
  ASSUME Inv, NEW c \in Conn, Connect(c) \/ Reuse(c) \/ Respond(c) \/ Leave(c)
  PROVE  Inv'
<1> USE DEF Inv
<1>1. /\ Running
      /\ UNCHANGED <<main, signalled, grace, shutting, server, failed>>
      /\ \E v \in {"busy", "idle", "closed"} : conn' = [conn EXCEPT ![c] = v]
      /\ server[ServerOf(c)] = "listening" \/ conn[c] \in {"busy", "idle"}
  BY DEF Connect, Reuse, Respond, Leave
<1>2. TypeOK' /\ ShutIsDeaf'
  BY <1>1 DEF TypeOK, ShutIsDeaf
<1>3. Phases'
  BY <1>1 DEF Phases
<1>4. NoneCutYet' /\ CutOnlyAfterGrace'
  BY <1>1 DEF NoneCutYet, CutOnlyAfterGrace, TypeOK, Running
<1>5. MetricsOutliveRequests'
  <2> SUFFICES ASSUME "metrics" \in shutting, grace # "expired"
               PROVE  Drained("proxy")' /\ server["proxy"] # "listening"
    BY <1>1 DEF MetricsOutliveRequests
  <2>1. Drained("proxy") /\ server["proxy"] # "listening"
    BY DEF MetricsOutliveRequests
  <2>2. c \notin Of("proxy")
    <3> SUFFICES ASSUME c \in Of("proxy") PROVE FALSE
      OBVIOUS
    <3>1. ServerOf(c) = "proxy"
      BY LifecycleAssumption DEF Of, ServerOf
    <3> QED BY <1>1, <2>1, <3>1 DEF Drained
  <2> QED BY <1>1, <2>1, <2>2 DEF Drained, TypeOK, Of, Conn
<1> QED BY <1>2, <1>3, <1>4, <1>5

\* The signal and the end of the grace are facts that only weaken promises.
LEMMA TimeKeeps ==
  ASSUME Inv, Signal \/ Expire
  PROVE  Inv'
<1> USE DEF Inv
<1>1. /\ UNCHANGED <<main, shutting, server, conn, failed>>
      /\ signalled' \in BOOLEAN
      /\ UNCHANGED grace \/ (Running /\ grace' = "expired")
  BY DEF Signal, Expire, TypeOK
<1>2. TypeOK' /\ ShutIsDeaf' /\ Phases' /\ NoneCutYet'
  BY <1>1 DEF TypeOK, ShutIsDeaf, Phases, NoneCutYet, Running
<1>3. CutOnlyAfterGrace' /\ MetricsOutliveRequests'
  BY <1>1 DEF CutOnlyAfterGrace, MetricsOutliveRequests, Drained, Running
<1> QED BY <1>2, <1>3

\* A Shutdown that begins: its server listens no longer, and no other begins to.
LEMMA ShutFacts ==
  ASSUME TypeOK, ShutIsDeaf, NEW s \in Server, Shut(s)
  PROVE  /\ main' = s /\ shutting' = shutting \cup {s}
         /\ server' \in [Server -> {"starting", "binding", "listening", "closed", "returned"}]
         /\ ShutIsDeaf'
         /\ \A t \in Server : server[t] # "listening" => server'[t] # "listening"
BY DEF TypeOK, ShutIsDeaf, Shut

\* main gets the signal and shuts the proxy's server down.
LEMMA OnSignalKeeps ==
  ASSUME Inv, OnSignal
  PROVE  Inv'
<1> USE DEF Inv
<1>1. /\ main = "serving" /\ grace' = "running" /\ Shut("proxy")
      /\ UNCHANGED <<signalled, conn, failed>>
      /\ "proxy" \in Server
  BY DEF OnSignal, Order, TimeLimit, Server
<1>2. TypeOK' /\ ShutIsDeaf'
  BY <1>1, ShutFacts DEF TypeOK
<1>3. shutting = {} /\ main' = "proxy" /\ shutting' = {"proxy"}
  BY <1>1, ShutFacts DEF Phases
<1>4. Phases' /\ MetricsOutliveRequests'
  BY <1>3 DEF Phases, MetricsOutliveRequests
<1>5. NoneCutYet' /\ CutOnlyAfterGrace'
  BY <1>1 DEF NoneCutYet, Running, CutOnlyAfterGrace
<1> QED BY <1>2, <1>4, <1>5

\* Shutdown's ticker.
LEMMA CloseIdleKeeps ==
  ASSUME Inv, NEW s \in Server, CloseIdle(s)
  PROVE  Inv'
<1> USE DEF Inv
<1>1. /\ UNCHANGED <<main, signalled, grace, shutting, server, failed>>
      /\ main = s
      /\ \A c \in Conn : conn'[c] \in {conn[c], "closed"}
      /\ conn' \in [Conn -> {"none", "busy", "idle", "closed", "cut"}]
  BY DEF CloseIdle, TypeOK
<1>2. TypeOK' /\ ShutIsDeaf' /\ Phases'
  BY <1>1 DEF TypeOK, ShutIsDeaf, Phases
<1>3. NoneCutYet' /\ CutOnlyAfterGrace'
  BY <1>1 DEF NoneCutYet, CutOnlyAfterGrace, Running
<1>4. Drained("proxy") => Drained("proxy")'
  BY <1>1 DEF Drained, Of, Conn
<1> QED BY <1>1, <1>2, <1>3, <1>4 DEF MetricsOutliveRequests

\* A Shutdown returns.  The proxy's hands over to that of the metrics server
\* with the proxy drained or the time over; with that of the metrics server
\* the process exits, and then both have drained or the time is over.
LEMMA ShutdownReturnsKeeps ==
  ASSUME Inv, NEW s \in Server, ShutdownReturns(s)
  PROVE  Inv'
<1> USE DEF Inv
<1>0. /\ main = s /\ UNCHANGED <<signalled, grace, failed>>
      /\ Drained(s) \/ grace = "expired"
  BY DEF ShutdownReturns
<1>1. CASE s = "proxy"
  <2>1. /\ Shut("metrics") /\ UNCHANGED conn /\ "metrics" \in Server /\ "proxy" \in Server
    BY <1>1 DEF ShutdownReturns, Order, Server
  <2>2. TypeOK' /\ ShutIsDeaf' /\ main' = "metrics" /\ shutting' = shutting \cup {"metrics"}
    BY <1>0, <2>1, ShutFacts DEF TypeOK
  <2>3. Phases'
    BY <1>0, <1>1, <2>2 DEF Phases, Server
  <2>4. NoneCutYet' /\ CutOnlyAfterGrace'
    BY <1>0, <1>1, <2>1 DEF NoneCutYet, Running, CutOnlyAfterGrace
  <2>5. MetricsOutliveRequests'
    <3>1. "proxy" \in shutting'
      BY <1>0, <1>1, <2>2 DEF Phases
    <3>2. Drained("proxy")' \/ grace' = "expired"
      BY <1>0, <1>1, <2>1 DEF Drained
    <3> QED BY <2>2, <3>1, <3>2 DEF ShutIsDeaf, MetricsOutliveRequests
  <2> QED BY <2>2, <2>3, <2>4, <2>5
<1>2. CASE s = "metrics"
  <2>1. main' = "exited" /\ Cut /\ UNCHANGED <<shutting, server>>
    BY <1>2 DEF ShutdownReturns, Order
  <2>2. TypeOK' /\ ShutIsDeaf' /\ Phases' /\ NoneCutYet'
    BY <1>0, <1>2, <2>1, CutFacts
    DEF TypeOK, ShutIsDeaf, Phases, NoneCutYet, Running
  <2>3. MetricsOutliveRequests'
    BY <1>0, <2>1, CutFacts DEF MetricsOutliveRequests, Server
  <2>4. CutOnlyAfterGrace'
    <3> SUFFICES ASSUME grace # "expired", NEW c \in Conn
                 PROVE  conn[c] # "busy"
      BY <1>0, <2>1, CutFacts DEF CutOnlyAfterGrace
    <3>1. Drained("metrics") /\ Drained("proxy")
      BY <1>0, <1>2 DEF Phases, MetricsOutliveRequests, Server
    <3> QED BY <3>1 DEF Drained, Of, Conn
  <2> QED BY <2>2, <2>3, <2>4
<1> QED BY <1>1, <1>2 DEF Server

\* Every step keeps the inductive invariant.
LEMMA NextInv == Inv /\ [Next]_vars => Inv'
<1> SUFFICES ASSUME Inv, [Next]_vars PROVE Inv'
  OBVIOUS
<1>1. CASE UNCHANGED vars
  BY <1>1 DEF vars, Inv, TypeOK, Phases, ShutIsDeaf, NoneCutYet, Running, CutOnlyAfterGrace,
              MetricsOutliveRequests, Drained
<1>2. CASE \E s \in Server : Start(s) \/ Bind(s) \/ BindFails(s) \/ AcceptFails(s) \/ ServeReturns(s)
  BY <1>2, StartKeeps, FatalKeeps
<1>3. CASE \E c \in Conn : Connect(c) \/ Reuse(c) \/ Respond(c) \/ Leave(c)
  BY <1>3, ConnKeeps
<1>4. CASE Signal \/ OnSignal \/ Expire
  BY <1>4, TimeKeeps, OnSignalKeeps
<1>5. CASE \E s \in Server : CloseIdle(s) \/ ShutdownReturns(s)
  BY <1>5, CloseIdleKeeps, ShutdownReturnsKeeps
<1> QED BY <1>1, <1>2, <1>3, <1>4, <1>5 DEF Next

(***************************************************************************)
(* The inductive invariant holds in every reachable state of the process,  *)
(* with any number of connections (main.go:41-63).                         *)
(***************************************************************************)
THEOREM Invariance == Spec => []Inv
BY InitInv, NextInv, PTL DEF Spec

(***************************************************************************)
(* The types, and main only waits for a server that knows it is being shut *)
(* down.                                                                   *)
(***************************************************************************)
THEOREM Types == Spec => []TypeOK
<1>1. Inv => TypeOK
  BY DEF Inv
<1> QED BY <1>1, Invariance, PTL

(***************************************************************************)
(* Nobody is cut off by an exit before the ten seconds of the shutdown's   *)
(* context are over, nor by any other end without a server that has failed *)
(* (main.go:44-63).                                                        *)
(***************************************************************************)
THEOREM Grace == Spec => []CutOnlyAfterGrace
<1>1. Inv => CutOnlyAfterGrace
  BY DEF Inv
<1> QED BY <1>1, Invariance, PTL

(***************************************************************************)
(* The metrics server is shut down after the last request (main.go:61-62). *)
(***************************************************************************)
THEOREM MetricsLast == Spec => []MetricsOutliveRequests
<1>1. Inv => MetricsOutliveRequests
  BY DEF Inv
<1> QED BY <1>1, Invariance, PTL
=============================================================================
