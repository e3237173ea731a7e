------------------------------ MODULE EventHub ------------------------------
(***************************************************************************)
(* The traffic-event hub of the proxy (proxy/handler/proxy.go).  Request   *)
(* handlers offer events to the bounded channel h.events without ever      *)
(* blocking; one goroutine, broadcast, takes them off and copies each to   *)
(* the bounded channel of every registered SSE connection, again without   *)
(* blocking; each connection's SSEHandler writes what it finds in its      *)
(* channel to its client, and on the way out deletes its channel from the  *)
(* registry and closes it.                                                 *)
(*                                                                         *)
(* Everything here is shared by goroutines, so a step is one operation on  *)
(* shared state: a channel operation, one sync.Map call, or one entry of a *)
(* Range.  A client stands for one connection: a browser that reconnects   *)
(* is another client.                                                      *)
(***************************************************************************)
EXTENDS Naturals, Sequences

CONSTANTS
  Event,      \* the traffic events; each is offered at most once
  Client,     \* the SSE connections
  EventsCap,  \* capacity of h.events (256)
  ChanCap,    \* capacity of a connection's channel (32)
  None        \* "no event", "no client"

ASSUME HubAssumption ==
  /\ EventsCap \in Nat \ {0}
  /\ ChanCap \in Nat \ {0}
  /\ None \notin Event \cup Client

VARIABLES
  events,      \* h.events: events waiting for broadcast, oldest first
  bpc,         \* where broadcast is: "recv", "range", "send" or "panicked"
  ev,          \* the event broadcast is copying
  todo,        \* registry entries the running Range has still to load
  cur,         \* the client whose channel the callback is about to send to
  sseClients,  \* the keys of h.sseClients
  closed,      \* the clients whose channel has been closed
  conn,        \* where each client's SSEHandler is
  chan,        \* chan[c]: buffered content of c's channel, oldest first
  stream       \* stream[c]: the events written to client c

\* History variables: what the properties need to remember and no code reads.
VARIABLES
  offered,     \* events that have reached the select on h.events
  stamp,       \* stamp[e]: place of e in the order h.events accepted, or 0
  accepted,    \* how many events h.events has accepted
  joined,      \* joined[c]: how many events broadcast had taken when c joined
  lost         \* <<c, e>> such that e found the channel of c full

code == <<events, bpc, ev, todo, cur, sseClients, closed, conn, chan, stream>>
vars == <<code, offered, stamp, accepted, joined, lost>>

BroadcastPc == {"recv", "range", "send", "panicked"}
ConnPc == {"absent", "stored", "streaming", "deleted", "closed"}

\* A panic of broadcast is recovered by nobody: the proxy process is gone.
Alive == bpc # "panicked"

\* How many events broadcast has received so far.
taken == accepted - Len(events)

Elems(s) == {s[i] : i \in DOMAIN s}

Init ==
  /\ events = << >>
  /\ bpc = "recv"
  /\ ev = None
  /\ todo = {}
  /\ cur = None
  /\ sseClients = {}
  /\ closed = {}
  /\ conn = [c \in Client |-> "absent"]
  /\ chan = [c \in Client |-> << >>]
  /\ stream = [c \in Client |-> << >>]
  /\ offered = {}
  /\ stamp = [e \in Event |-> 0]
  /\ accepted = 0
  /\ joined = [c \in Client |-> 0]
  /\ lost = {}

-----------------------------------------------------------------------------
(* The request handlers' side: the select at the end of ServeHTTP.         *)

\* Fault: room is tested with an off-by-one.
FaultEnqueuePastCap(e) ==
  /\ Len(events) <= EventsCap
  /\ events' = Append(events, e)
  /\ accepted' = accepted + 1
  /\ stamp' = [stamp EXCEPT ![e] = accepted + 1]

\* Fault: the newest event overtakes those that wait.
FaultEnqueueFirst(e) ==
  /\ Len(events) < EventsCap
  /\ events' = <<e>> \o events
  /\ accepted' = accepted + 1
  /\ stamp' = [stamp EXCEPT ![e] = accepted + 1]

Enqueue(e) ==
  /\ Len(events) < EventsCap
  /\ events' = Append(events, e)
  /\ accepted' = accepted + 1
  /\ stamp' = [stamp EXCEPT ![e] = accepted + 1]

DropAtHub(e) ==
  /\ Len(events) = EventsCap
  /\ UNCHANGED <<events, accepted, stamp>>

Offer(e) ==
  /\ Alive
  /\ e \notin offered
  /\ offered' = offered \cup {e}
  /\ Enqueue(e) \/ DropAtHub(e)
  /\ UNCHANGED <<bpc, ev, todo, cur, sseClients, closed, conn, chan, stream,
                 joined, lost>>

-----------------------------------------------------------------------------
(* The broadcast goroutine.                                                *)

Take ==
  /\ bpc = "recv"
  /\ events # << >>
  /\ ev' = Head(events)
  /\ events' = Tail(events)
  /\ todo' = sseClients
  /\ bpc' = "range"
  /\ UNCHANGED <<cur, sseClients, closed, conn, chan, stream, offered, stamp,
                 accepted, joined, lost>>

\* Range loads an entry that is still in the registry and calls the callback.
Visit(c) ==
  /\ bpc = "range"
  /\ c \in todo \cap sseClients
  /\ todo' = todo \ {c}
  /\ cur' = c
  /\ bpc' = "send"
  /\ UNCHANGED <<events, ev, sseClients, closed, conn, chan, stream, offered,
                 stamp, accepted, joined, lost>>

\* A send on a closed channel panics, inside a select with a default too.
SendPanics ==
  /\ cur \in closed
  /\ bpc' = "panicked"
  /\ UNCHANGED <<chan, lost>>

SendBuffers ==
  /\ cur \notin closed
  /\ Len(chan[cur]) < ChanCap
  /\ chan' = [chan EXCEPT ![cur] = Append(@, ev)]
  /\ bpc' = "range"
  /\ UNCHANGED lost

\* Fault: the send waits for room instead of dropping.
FaultSendBlocks == SendBuffers

\* Fault: the callback returns false on a drop, which ends the Range.
FaultDropEndsRange ==
  /\ cur \notin closed
  /\ Len(chan[cur]) = ChanCap
  /\ lost' = lost \cup {<<cur, ev>>}
  /\ bpc' = "recv"
  /\ UNCHANGED chan

SendDrops ==
  /\ cur \notin closed
  /\ Len(chan[cur]) = ChanCap
  /\ lost' = lost \cup {<<cur, ev>>}
  /\ bpc' = "range"
  /\ UNCHANGED chan

\* Fault: an event that found a channel full is put back for a retry.
FaultSendRetries ==
  /\ bpc = "send"
  /\ cur' = None
  /\ \/ (SendPanics \/ SendBuffers) /\ UNCHANGED events
     \/ SendDrops /\ events' = Append(events, ev)
  /\ UNCHANGED <<ev, todo, sseClients, closed, conn, stream, offered, stamp,
                 accepted, joined>>

Send ==
  /\ bpc = "send"
  /\ cur' = None
  /\ SendPanics \/ SendBuffers \/ SendDrops
  /\ UNCHANGED <<events, ev, todo, sseClients, closed, conn, stream, offered,
                 stamp, accepted, joined>>

\* Range ends when no entry it has to load is left in the registry.
RangeEnd ==
  /\ bpc = "range"
  /\ todo \cap sseClients = {}
  /\ todo' = {}
  /\ ev' = None
  /\ bpc' = "recv"
  /\ UNCHANGED <<events, cur, sseClients, closed, conn, chan, stream, offered,
                 stamp, accepted, joined, lost>>

-----------------------------------------------------------------------------
(* SSEHandler, one goroutine per client.                                   *)

\* Fault: a new client is first given what waits in h.events.
FaultConnectReplays(c) ==
  /\ Alive
  /\ conn[c] = "absent"
  /\ conn' = [conn EXCEPT ![c] = "stored"]
  /\ sseClients' = sseClients \cup {c}
  /\ chan' = [chan EXCEPT ![c] = SubSeq(events, 1, IF Len(events) < ChanCap THEN Len(events) ELSE ChanCap)]
  /\ joined' = [joined EXCEPT ![c] = taken]
  /\ UNCHANGED <<events, bpc, ev, todo, cur, closed, stream, offered, stamp,
                 accepted, lost>>

\* A Range that is running may or may not come across the new entry.
Connect(c) ==
  /\ Alive
  /\ conn[c] = "absent"
  /\ conn' = [conn EXCEPT ![c] = "stored"]
  /\ sseClients' = sseClients \cup {c}
  /\ \/ todo' = todo
     \/ bpc # "recv" /\ todo' = todo \cup {c}
  /\ joined' = [joined EXCEPT ![c] = taken]
  /\ UNCHANGED <<events, bpc, ev, cur, closed, chan, stream, offered, stamp,
                 accepted, lost>>

\* The greeting {"connected":true} goes out before any event.
Greet(c) ==
  /\ Alive
  /\ conn[c] = "stored"
  /\ conn' = [conn EXCEPT ![c] = "streaming"]
  /\ UNCHANGED <<events, bpc, ev, todo, cur, sseClients, closed, chan, stream,
                 offered, stamp, accepted, joined, lost>>

Write(c) ==
  /\ Alive
  /\ conn[c] = "streaming"
  /\ chan[c] # << >>
  /\ stream' = [stream EXCEPT ![c] = Append(@, Head(chan[c]))]
  /\ chan' = [chan EXCEPT ![c] = Tail(@)]
  /\ UNCHANGED <<events, bpc, ev, todo, cur, sseClients, closed, conn, offered,
                 stamp, accepted, joined, lost>>

\* Fault: the deferred call closes the channel before it deletes the entry.
FaultDeleteLast(c) ==
  /\ Alive
  /\ conn[c] \in {"stored", "streaming"}
  /\ conn' = [conn EXCEPT ![c] = "deleted"]
  /\ closed' = closed \cup {c}
  /\ UNCHANGED <<events, bpc, ev, todo, cur, sseClients, chan, stream, offered,
                 stamp, accepted, joined, lost>>

\* The handler returns, because the writer cannot flush ("stored") or because
\* the request's context is done ("streaming"): the deferred call's first half.
Delete(c) ==
  /\ Alive
  /\ conn[c] \in {"stored", "streaming"}
  /\ conn' = [conn EXCEPT ![c] = "deleted"]
  /\ sseClients' = sseClients \ {c}
  /\ UNCHANGED <<events, bpc, ev, todo, cur, closed, chan, stream, offered,
                 stamp, accepted, joined, lost>>

\* The deferred call's second half.
Close(c) ==
  /\ Alive
  /\ conn[c] = "deleted"
  /\ conn' = [conn EXCEPT ![c] = "closed"]
  /\ closed' = closed \cup {c}
  /\ UNCHANGED <<events, bpc, ev, todo, cur, sseClients, chan, stream, offered,
                 stamp, accepted, joined, lost>>

-----------------------------------------------------------------------------
Broadcast == Take \/ (\E c \in Client : Visit(c)) \/ Send \/ RangeEnd

Handler(c) == Connect(c) \/ Greet(c) \/ Write(c) \/ Delete(c) \/ Close(c)

Next ==
  \/ \E e \in Event : Offer(e)
  \/ Broadcast
  \/ \E c \in Client : Handler(c)

\* The scheduler runs a goroutine that can run.  Nothing is assumed of the
\* clients, whose sockets may stall, nor of the arrival of requests.
Spec == Init /\ [][Next]_vars /\ WF_vars(Broadcast)

-----------------------------------------------------------------------------
(* What the hub guarantees.                                                *)

(***************************************************************************)
(* The types of the hub's state, and what ties its control to its data:    *)
(* broadcast holds an event exactly while it copies it and a client        *)
(* exactly while it sends.                                                 *)
(***************************************************************************)
TypeOK ==
  /\ events \in Seq(Event) /\ Len(events) <= EventsCap
  /\ bpc \in BroadcastPc
  /\ ev \in Event \cup {None} /\ (bpc = "recv" <=> ev = None)
  /\ cur \in Client \cup {None} /\ (bpc = "send" <=> cur # None)
  /\ todo \subseteq Client
  /\ sseClients \subseteq Client
  /\ closed \subseteq Client
  /\ conn \in [Client -> ConnPc]
  /\ chan \in [Client -> Seq(Event)]
  /\ \A c \in Client : Len(chan[c]) <= ChanCap
  /\ stream \in [Client -> Seq(Event)]
  /\ offered \subseteq Event
  /\ stamp \in [Event -> Nat]
  /\ accepted \in Nat /\ Len(events) <= accepted
  /\ joined \in [Client -> Nat]
  /\ lost \subseteq Client \X Event

\* What client c has been sent so far, written out or still buffered.
Received(c) == stream[c] \o chan[c]

(***************************************************************************)
(* Whatever is dropped and whenever clients come and go, a client sees     *)
(* events in the order h.events accepted them and none of them twice       *)
(* (broadcast and SSEHandler, proxy.go:55-103).  So any two dashboards     *)
(* agree on the order of the events both have.                             *)
(***************************************************************************)
StreamOrder ==
  \A c \in Client : \A i, j \in DOMAIN Received(c) :
    i < j => stamp[Received(c)[i]] < stamp[Received(c)[j]]

(***************************************************************************)
(* Between two broadcasts, a registered client lacks an event taken since  *)
(* it joined only if that event found its channel full: a drop on one      *)
(* client's channel costs neither another client nor a later event         *)
(* (broadcast's callback, proxy.go:57-64).                                 *)
(***************************************************************************)
NoUndueLoss ==
  bpc = "recv" =>
    \A c \in sseClients, e \in Event :
      joined[c] < stamp[e] /\ stamp[e] <= taken
        => e \in Elems(Received(c)) \/ <<c, e>> \in lost

(***************************************************************************)
(* The hub is a lossy ordered multicast: see LossyMulticast.  What a client*)
(* got there is what was written to it or waits in its channel here.       *)
(***************************************************************************)
Multicast ==
  INSTANCE LossyMulticast WITH got <- [c \in Client |-> Received(c)]

ImplementsMulticast == Multicast!Spec

(***************************************************************************)
(* An entry that a Range can still load has an open channel: SSEHandler    *)
(* deletes before it closes (proxy.go:76-79), so the only closed channel   *)
(* broadcast can meet is the one it has already loaded.                    *)
(***************************************************************************)
RegisteredIsOpen == sseClients \cap closed = {}

(***************************************************************************)
(* An accepted event is taken off h.events sooner or later however slow    *)
(* the clients are, none of which is assumed to read at all (the select    *)
(* with a default in broadcast, proxy.go:59-62), unless broadcast panics.  *)
(***************************************************************************)
HubDrains ==
  \A e \in Event : (e \in Elems(events)) ~> (e \notin Elems(events) \/ ~Alive)

(***************************************************************************)
(* What k8s/proxy/deployment.yaml:30-33 asserts with its liveness probe    *)
(* and README.md:42 tells the user: the proxy stays up.  The hub breaks it *)
(* when a client leaves while broadcast is about to send to it.            *)
(***************************************************************************)
BroadcastNeverPanics == Alive
=============================================================================
