----------------------------- MODULE Lifecycle -----------------------------
(***************************************************************************)
(* The proxy's process (proxy/main.go): two HTTP servers, each served by a *)
(* goroutine, and the goroutine of main, which waits for a signal and then *)
(* shuts them down, the proxy's first, with one context of ten seconds for *)
(* both.  What net/http does is modelled as main.go relies on it: Shutdown *)
(* closes the listeners, then closes connections whenever they are idle,   *)
(* and returns when none is left or its context is done; it does not       *)
(* interrupt a handler.  /events is a handler that ends only when its      *)
(* client leaves, and a request may wait for its upstream for ever.        *)
(***************************************************************************)
CONSTANTS
  RequestConn,  \* connections that carry requests to be proxied
  StreamConn,   \* connections of dashboards to /events
  ScrapeConn    \* connections to /metrics

ASSUME LifecycleAssumption ==
  /\ RequestConn \cap StreamConn = {}
  /\ (RequestConn \cup StreamConn) \cap ScrapeConn = {}

VARIABLES
  main,       \* "serving", the server being shut down, "exited" or "fatal"
  signalled,  \* SIGINT or SIGTERM has come
  grace,      \* the context of the shutdown: "unset", "running", "expired"
  shutting,   \* the servers whose inShutdown is set
  server,     \* per server, how far its goroutine is
  conn,       \* per connection, its state
  failed      \* history; the servers whose ListenAndServe failed

vars == <<main, signalled, grace, shutting, server, conn, failed>>

Server == {"proxy", "metrics"}
Conn == RequestConn \cup StreamConn \cup ScrapeConn
Of(s) == IF s = "metrics" THEN ScrapeConn ELSE RequestConn \cup StreamConn
ServerOf(c) == IF c \in ScrapeConn THEN "metrics" ELSE "proxy"

Running == main \notin {"exited", "fatal"}

\* Connections in the middle of an exchange.
Busy(s) == {c \in Of(s) : conn[c] = "busy"}

\* The process ends: what was going on is cut off.
Cut == conn' = [c \in Conn |-> IF conn[c] = "busy" THEN "cut" ELSE "closed"]

Init ==
  /\ main = "serving"
  /\ signalled = FALSE
  /\ grace = "unset"
  /\ shutting = {}
  /\ server = [s \in Server |-> "starting"]
  /\ conn = [c \in Conn |-> "none"]
  /\ failed = {}

-----------------------------------------------------------------------------
(* The goroutine of a server: ListenAndServe.                              *)

\* It looks at inShutdown before it asks for the port, and again after.
Start(s) ==
  /\ Running /\ server[s] = "starting"
  /\ server' = [server EXCEPT ![s] = IF s \in shutting THEN "closed" ELSE "binding"]
  /\ UNCHANGED <<main, signalled, grace, shutting, conn, failed>>

Bind(s) ==
  /\ Running /\ server[s] = "binding"
  /\ server' = [server EXCEPT ![s] = IF s \in shutting THEN "closed" ELSE "listening"]
  /\ UNCHANGED <<main, signalled, grace, shutting, conn, failed>>

\* log.Fatalf in the goroutine of s, whatever the process is doing.
Fatal(s) ==
  /\ server' = [server EXCEPT ![s] = "returned"]
  /\ failed' = failed \cup {s}
  /\ main' = "fatal"
  /\ Cut
  /\ UNCHANGED <<signalled, grace, shutting>>

\* The port is taken.
BindFails(s) == Running /\ server[s] = "binding" /\ Fatal(s)

\* Accept fails for good; what is temporary is tried again by Serve.
AcceptFails(s) == Running /\ server[s] = "listening" /\ Fatal(s)

\* ListenAndServe returns ErrServerClosed, which is not an error here.
ServeReturns(s) ==
  /\ Running /\ server[s] = "closed"
  /\ server' = [server EXCEPT ![s] = "returned"]
  /\ UNCHANGED <<main, signalled, grace, shutting, conn, failed>>

-----------------------------------------------------------------------------
(* Connections.                                                            *)

\* A client connects and sends its request.
Connect(c) ==
  /\ Running
  /\ server[ServerOf(c)] = "listening" /\ conn[c] = "none"
  /\ conn' = [conn EXCEPT ![c] = "busy"]
  /\ UNCHANGED <<main, signalled, grace, shutting, server, failed>>

\* Another request on a connection that was kept, perhaps just before
\* Shutdown closes it.
Reuse(c) ==
  /\ Running
  /\ conn[c] = "idle"
  /\ conn' = [conn EXCEPT ![c] = "busy"]
  /\ UNCHANGED <<main, signalled, grace, shutting, server, failed>>

\* A handler returns; a server that shuts down does not keep the connection.
Respond(c) ==
  /\ Running
  /\ conn[c] = "busy" /\ c \notin StreamConn
  /\ conn' = [conn EXCEPT ![c] = IF ServerOf(c) \in shutting THEN "closed" ELSE "idle"]
  /\ UNCHANGED <<main, signalled, grace, shutting, server, failed>>

Leave(c) ==
  /\ Running
  /\ conn[c] \in {"busy", "idle"}
  /\ conn' = [conn EXCEPT ![c] = "closed"]
  /\ UNCHANGED <<main, signalled, grace, shutting, server, failed>>

-----------------------------------------------------------------------------
(* main.                                                                   *)

\* Signals after the first change nothing: stop() is called when main returns.
Signal ==
  /\ Running /\ ~signalled
  /\ signalled' = TRUE
  /\ UNCHANGED <<main, grace, shutting, server, conn, failed>>

\* Fault: only the listener is closed.
FaultShut(s) ==
  /\ main' = s
  /\ server' = [server EXCEPT ![s] = IF @ = "listening" THEN "closed" ELSE @]
  /\ UNCHANGED shutting

\* Shutdown of s begins.
Shut(s) ==
  /\ main' = s
  /\ shutting' = shutting \cup {s}
  /\ server' = [server EXCEPT ![s] = IF @ = "listening" THEN "closed" ELSE @]

\* Fault: the servers are shut down the other way round.
FaultOrder(s) == IF s = "serving" THEN "metrics" ELSE IF s = "metrics" THEN "proxy" ELSE "exit"

\* What main does after s.
Order(s) == IF s = "serving" THEN "proxy" ELSE IF s = "proxy" THEN "metrics" ELSE "exit"

\* Fault: the context has no deadline.
FaultTimeLimit == "unset"

\* context.WithTimeout
TimeLimit == "running"

OnSignal ==
  /\ main = "serving" /\ signalled
  /\ grace' = TimeLimit
  /\ Shut(Order("serving"))
  /\ UNCHANGED <<signalled, conn, failed>>

Expire ==
  /\ Running /\ grace = "running"
  /\ grace' = "expired"
  /\ UNCHANGED <<main, signalled, shutting, server, conn, failed>>

\* Shutdown's ticker: idle connections are closed.
CloseIdle(s) ==
  /\ main = s /\ \E c \in Of(s) : conn[c] = "idle"
  /\ conn' = [c \in Conn |-> IF c \in Of(s) /\ conn[c] = "idle" THEN "closed" ELSE conn[c]]
  /\ UNCHANGED <<main, signalled, grace, shutting, server, failed>>

\* Fault: a client that is being served counts as one that is not.
FaultDrained(s) == \A c \in Of(s) : conn[c] # "idle"

\* No connection of s is left.
Drained(s) == \A c \in Of(s) : conn[c] \notin {"busy", "idle"}

\* Shutdown of s returns, with an error that main does not look at or
\* without, and main goes on.
ShutdownReturns(s) ==
  /\ main = s
  /\ Drained(s) \/ grace = "expired"
  /\ IF Order(s) = "exit"
     THEN main' = "exited" /\ Cut /\ UNCHANGED <<shutting, server>>
     ELSE Shut(Order(s)) /\ UNCHANGED conn
  /\ UNCHANGED <<signalled, grace, failed>>

Next ==
  \/ \E s \in Server :
       Start(s) \/ Bind(s) \/ BindFails(s) \/ AcceptFails(s) \/ ServeReturns(s)
  \/ \E c \in Conn : Connect(c) \/ Reuse(c) \/ Respond(c) \/ Leave(c)
  \/ Signal \/ OnSignal \/ Expire
  \/ \E s \in Server : CloseIdle(s) \/ ShutdownReturns(s)

\* main and its timer get their turns; no client and no handler need do
\* anything, and neither need the goroutines of the servers.
Spec ==
  /\ Init /\ [][Next]_vars
  /\ WF_vars(OnSignal) /\ WF_vars(Expire)
  /\ \A s \in Server : WF_vars(ShutdownReturns(s))

-----------------------------------------------------------------------------
(***************************************************************************)
(* The types; and the server main waits for is one that knows it is being  *)
(* shut down.                                                              *)
(***************************************************************************)
TypeOK ==
  /\ main \in {"serving", "exited", "fatal"} \cup Server
  /\ signalled \in BOOLEAN
  /\ grace \in {"unset", "running", "expired"}
  /\ shutting \subseteq Server
  /\ server \in [Server -> {"starting", "binding", "listening", "closed", "returned"}]
  /\ conn \in [Conn -> {"none", "busy", "idle", "closed", "cut"}]
  /\ failed \subseteq Server
  /\ main \in Server => main \in shutting

(***************************************************************************)
(* Nobody is cut off without a cause, neither a request nor a dashboard    *)
(* nor a scrape: an exit after a signal cuts off only those who are not    *)
(* done when the ten seconds are over, also when the signal overtakes the  *)
(* start of the servers; any other end needs a server that has failed,     *)
(* which ErrServerClosed does not count as (main.go:41-63).                *)
(***************************************************************************)
CutOnlyAfterGrace ==
  \A c \in Conn : conn[c] = "cut" =>
    IF main = "exited" THEN grace = "expired" ELSE failed # {}

(***************************************************************************)
(* The metrics can be scraped until the last request has been counted or   *)
(* the time is over: the metrics server is shut down only then, and by     *)
(* then the proxy takes no more connections (main.go:61-62).               *)
(***************************************************************************)
MetricsOutliveRequests ==
  "metrics" \in shutting =>
    /\ Drained("proxy") \/ grace = "expired"
    /\ server["proxy"] # "listening"

(***************************************************************************)
(* After a signal the process ends, although a dashboard that stays open   *)
(* and a worker that never answers keep their connections busy             *)
(* (main.go:57-63).                                                        *)
(***************************************************************************)
Terminates == signalled ~> ~Running
=============================================================================
