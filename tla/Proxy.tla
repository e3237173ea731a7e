------------------------------- MODULE Proxy -------------------------------
(***************************************************************************)
(* The life of requests in the proxy: ProxyHandler.ServeHTTP               *)
(* (proxy/handler/proxy.go) with the classifier's client, the pools of     *)
(* Balancer and the hub of EventHub, whose events are the requests.        *)
(*                                                                         *)
(* Requests are goroutines of net/http; what they share is the pools, the  *)
(* metrics, the id counter and the hub, and a step of a request is one     *)
(* operation on one of these or one exchange with another process.  The    *)
(* classifier and the upstreams answer when and if they like.              *)
(***************************************************************************)
EXTENDS Integers, Sequences, FiniteSets, Functions

CONSTANTS
  Req,        \* the requests
  Answer,     \* the labels the classifier can answer with
  Pool, General, Upstreams, CounterMod, MaxWraps,  \* see Balancer
  BadURL,     \* the upstreams that url.Parse refuses
  Client, EventsCap, ChanCap, None,                \* see EventHub
  NoLabel     \* the label of a zero Response, ""

ASSUME ProxyAssumption ==
  /\ IsFiniteSet(Answer) /\ IsFiniteSet(Pool)
  /\ General \in Pool /\ NoLabel \notin Pool
  /\ DOMAIN Upstreams = Pool
  /\ \A p \in Pool : Upstreams[p] \in Seq(Range(Upstreams[p]) \ {None})
  /\ CounterMod \in Nat \ {0} /\ MaxWraps \in Nat
  /\ EventsCap \in Nat \ {0} /\ ChanCap \in Nat \ {0}
  /\ None \notin Req \cup Client

VARIABLES
  pc,             \* where each request is
  body,           \* what each request carries, for the classifier
  label,          \* label[r]: cr.Label
  upstream,       \* upstream[r]: the pool's choice, or None
  status,         \* status[r]: statusCapture.code, in two classes
  requestsTotal,  \* slb_requests_total, by label and status
  idCounter,      \* h.idCounter
  id,             \* id[r]: the id of r's event, or 0
  before          \* history; before[r]: the requests over when r arrived

\* The pools.
VARIABLES counter, served, wraps

\* The hub.
VARIABLES events, bpc, ev, todo, cur, sseClients, closed, conn, chan, stream,
          offered, stamp, accepted, joined, lost

Label == Answer \cup Pool \cup {NoLabel}

RoundRobin == INSTANCE Balancer

Hub == INSTANCE EventHub WITH Event <- Req

reqVars == <<pc, body, label, upstream, status, id, before>>
counters == <<requestsTotal, idCounter>>
poolVars == <<counter, served, wraps>>
hubVars == <<events, bpc, ev, todo, cur, sseClients, closed, conn, chan, stream,
             offered, stamp, accepted, joined, lost>>
vars == <<reqVars, counters, poolVars, hubVars>>

\* "refused" is JSON that is neither an object nor a string: the classifier
\* answers it with 422.  "garbled" is no JSON.
Body == {"plain", "refused", "garbled"}

Status == {"answered", "502"}

\* Stages of a request that is being served, in order.
Routed == {"forward", "count", "number", "publish", "done"}
Counted == {"number", "publish", "done"}

\* The ends of a request: ServeHTTP returned, or its goroutine panicked.
Over == {"rejected", "invalid", "aborted", "done"}

Pc == {"idle", "classify", "route"} \cup Routed \cup Over

Init ==
  /\ pc = [r \in Req |-> "idle"]
  /\ body = [r \in Req |-> "plain"]
  /\ label = [r \in Req |-> NoLabel]
  /\ upstream = [r \in Req |-> None]
  /\ status = [r \in Req |-> "answered"]
  /\ requestsTotal = [k \in Label \X Status |-> 0]
  /\ idCounter = 0
  /\ id = [r \in Req |-> 0]
  /\ before = [r \in Req |-> {}]
  /\ RoundRobin!Init
  /\ Hub!Init

-----------------------------------------------------------------------------
(* ServeHTTP, step by step.                                                *)

Goto(r, from, to) == pc[r] = from /\ pc' = [pc EXCEPT ![r] = to]

\* The body is read; json.Marshal refuses a garbled one before any exchange.
Read(r) ==
  /\ \E b \in Body :
       /\ body' = [body EXCEPT ![r] = b]
       /\ IF b = "garbled"
          THEN Goto(r, "idle", "route") /\ label' = [label EXCEPT ![r] = General]
          ELSE Goto(r, "idle", "classify") /\ UNCHANGED label
  /\ before' = [before EXCEPT ![r] = {q \in Req : pc[q] \in Over}]
  /\ UNCHANGED <<upstream, status, id, counters, poolVars, hubVars>>

\* Reading the body fails: 400.
ReadFails(r) ==
  /\ Goto(r, "idle", "rejected")
  /\ UNCHANGED <<body, label, upstream, status, id, before, counters,
                 poolVars, hubVars>>

\* The classifier answers and its answer decodes, whatever its status: the
\* body of a 422 decodes to a zero Response.
Classified(r) ==
  /\ Goto(r, "classify", "route")
  /\ \E l \in IF body[r] = "plain" THEN Answer ELSE {NoLabel} :
       label' = [label EXCEPT ![r] = l]
  /\ UNCHANGED <<body, upstream, status, id, before, counters,
                 poolVars, hubVars>>

\* Fault: the client has no timeout; only a bad answer ends in the fallback.
FaultFallbackOnReply(r) ==
  /\ Goto(r, "classify", "route")
  /\ body[r] = "refused"
  /\ label' = [label EXCEPT ![r] = General]
  /\ UNCHANGED <<body, upstream, status, id, before, counters,
                 poolVars, hubVars>>

\* The classifier cannot be reached, sends what does not decode, is given up
\* after ClassifyTimeout, or the request's own client leaves: fallback.
Fallback(r) ==
  /\ Goto(r, "classify", "route")
  /\ label' = [label EXCEPT ![r] = General]
  /\ UNCHANGED <<body, upstream, status, id, before, counters,
                 poolVars, hubVars>>

\* Fault: the error of url.Parse is ignored.
FaultRouteUnchecked(r) ==
  LET p == RoundRobin!Route(label[r])
      u == IF Upstreams[p] = << >> THEN None
           ELSE Upstreams[p][RoundRobin!Slot(p) + 1]
  IN /\ RoundRobin!NextUpstream(p)
     /\ upstream' = [upstream EXCEPT ![r] = u]
     /\ Goto(r, "route", IF u = None THEN "aborted" ELSE "forward")
     /\ UNCHANGED <<body, label, status, id, before, counters, hubVars>>

\* Router.Route, Pool.Next and url.Parse.
Route(r) ==
  LET p == RoundRobin!Route(label[r])
      u == IF Upstreams[p] = << >> THEN None
           ELSE Upstreams[p][RoundRobin!Slot(p) + 1]
  IN /\ RoundRobin!NextUpstream(p)
     /\ upstream' = [upstream EXCEPT ![r] = u]
     /\ Goto(r, "route", CASE u = None -> "aborted"
                           [] u \in BadURL -> "invalid"
                           [] OTHER -> "forward")
     /\ UNCHANGED <<body, label, status, id, before, counters, hubVars>>

\* ReverseProxy returns: it has copied the upstream's answer, whatever its
\* status, or its ErrorHandler has written 502.
Forwarded(r) ==
  /\ Goto(r, "forward", "count")
  /\ \E s \in Status : status' = [status EXCEPT ![r] = s]
  /\ UNCHANGED <<body, label, upstream, id, before, counters,
                 poolVars, hubVars>>

\* The copy of the answer's body breaks off, on either side: ReverseProxy
\* panics with ErrAbortHandler, through ServeHTTP.
CopyAborts(r) ==
  /\ Goto(r, "forward", "aborted")
  /\ UNCHANGED <<body, label, upstream, status, id, before, counters,
                 poolVars, hubVars>>

\* Fault: only answered requests are counted.
FaultCountAnswered(r) ==
  /\ Goto(r, "count", "number")
  /\ requestsTotal' = IF status[r] = "answered"
                      THEN [requestsTotal EXCEPT ![<<label[r], status[r]>>] = @ + 1]
                      ELSE requestsTotal
  /\ UNCHANGED <<body, label, upstream, status, id, before, idCounter,
                 poolVars, hubVars>>

\* Fault: requests are counted under the label of their pool.
FaultCountPool(r) ==
  /\ Goto(r, "count", "number")
  /\ requestsTotal' =
       [requestsTotal EXCEPT ![<<RoundRobin!Route(label[r]), status[r]>>] = @ + 1]
  /\ UNCHANGED <<body, label, upstream, status, id, before, idCounter,
                 poolVars, hubVars>>

\* The three metrics are written under cr.Label; the counter stands for them.
Count(r) ==
  /\ Goto(r, "count", "number")
  /\ requestsTotal' = [requestsTotal EXCEPT ![<<label[r], status[r]>>] = @ + 1]
  /\ UNCHANGED <<body, label, upstream, status, id, before, idCounter,
                 poolVars, hubVars>>

\* Fault: the id is read before the counter moves, outside of the lock.
FaultNumberUnlocked(r) ==
  /\ Goto(r, "number", "publish")
  /\ \E n \in {idCounter, idCounter + 1} \ {0} :
       id' = [id EXCEPT ![r] = n] /\ idCounter' = n
  /\ UNCHANGED <<body, label, upstream, status, before, requestsTotal,
                 poolVars, hubVars>>

\* Under h.mu.
Number(r) ==
  /\ Goto(r, "number", "publish")
  /\ idCounter' = idCounter + 1
  /\ id' = [id EXCEPT ![r] = idCounter + 1]
  /\ UNCHANGED <<body, label, upstream, status, before, requestsTotal,
                 poolVars, hubVars>>

\* Fault: the send to h.events has no default.
FaultPublishBlocks(r) ==
  /\ Goto(r, "publish", "done")
  /\ Hub!Offer(r) /\ Len(events) < EventsCap
  /\ UNCHANGED <<body, label, upstream, status, id, before, counters,
                 poolVars>>

Publish(r) ==
  /\ Goto(r, "publish", "done")
  /\ Hub!Offer(r)
  /\ UNCHANGED <<body, label, upstream, status, id, before, counters,
                 poolVars>>

-----------------------------------------------------------------------------
\* What depends on the request's own goroutine alone.
Local(r) == Route(r) \/ Count(r) \/ Number(r) \/ Publish(r)

Serve(r) ==
  \/ Read(r) \/ ReadFails(r) \/ Classified(r) \/ Fallback(r)
  \/ Forwarded(r) \/ CopyAborts(r) \/ Local(r)

\* A panic of broadcast takes the whole process down.
Next ==
  \/ Hub!Alive /\ \E r \in Req : Serve(r)
  \/ (Hub!Broadcast \/ \E c \in Client : Hub!Handler(c))
       /\ UNCHANGED <<reqVars, counters, poolVars>>

\* A goroutine that can run runs, and the classifier client's timer expires.
\* Nothing is assumed of the classifier, the upstreams, the hub's goroutine
\* or the dashboards.
Fairness ==
  \A r \in Req : WF_vars(Hub!Alive /\ Local(r)) /\ WF_vars(Hub!Alive /\ Fallback(r))

Spec == Init /\ [][Next]_vars /\ Fairness

-----------------------------------------------------------------------------
Stage(S) == {r \in Req : pc[r] \in S}

(***************************************************************************)
(* The types of the requests' state, and what a request has at each stage. *)
(***************************************************************************)
TypeOK ==
  /\ pc \in [Req -> Pc]
  /\ body \in [Req -> Body]
  /\ label \in [Req -> Label]
  /\ DOMAIN upstream = Req
  /\ status \in [Req -> Status]
  /\ requestsTotal \in [Label \X Status -> Nat]
  /\ idCounter \in Nat
  /\ id \in [Req -> Nat]
  /\ before \in [Req -> SUBSET Req]
  /\ \A r \in Req : pc[r] \in Routed => upstream[r] \notin BadURL \cup {None}
  /\ offered = Stage({"done"})

(***************************************************************************)
(* No request is served twice or lost on the way: every call of Pool.Next  *)
(* (the counter's value, with its wraps) is counted in slb_requests_total, *)
(* or its request is still before the metrics, or it is one of those that  *)
(* end before them: with a pool that is empty, an upstream that does not   *)
(* parse or an answer that breaks off (ServeHTTP, proxy.go:129-163, and    *)
(* pool.go:14-17).                                                         *)
(***************************************************************************)
Conservation ==
  SumFunction([p \in Pool |-> wraps[p] * CounterMod + counter[p]])
    = SumFunction(requestsTotal)
      + Cardinality(Stage({"forward", "count", "invalid", "aborted"}))

(***************************************************************************)
(* Event ids are 1, 2, 3, ... without a gap or a repetition, whatever the  *)
(* interleaving of the handlers (proxy.go:170-173): the dashboard uses     *)
(* them as keys.                                                           *)
(***************************************************************************)
DenseIds ==
  /\ {id[r] : r \in Stage({"publish", "done"})} = 1 .. idCounter
  /\ Cardinality(Stage({"publish", "done"})) = idCounter

(***************************************************************************)
(* A dashboard never sees more requests of a label and a status than the   *)
(* metrics have: the handler counts before it publishes, and the hub       *)
(* shows no event twice (proxy.go:161, 187-190).                           *)
(***************************************************************************)
ShownIsCounted ==
  \A c \in Client, l \in Label, s \in Status :
    Cardinality({i \in DOMAIN Hub!Received(c) :
                   LET r == Hub!Received(c)[i] IN label[r] = l /\ status[r] = s})
      <= requestsTotal[<<l, s>>]

(***************************************************************************)
(* What is over before a request arrives comes before it, in its id and on *)
(* every dashboard, although ids are given outside of the hub's order      *)
(* (proxy.go:170-190 and broadcast).  Of two requests that overlap nothing *)
(* of the kind holds: an event can overtake one with a smaller id.         *)
(***************************************************************************)
RealTimeOrder ==
  \A r \in Req : \A q \in before[r] :
    /\ id[r] # 0 => id[q] < id[r]
    /\ \A c \in Client : \A i, j \in DOMAIN Hub!Received(c) :
         Hub!Received(c)[i] = q /\ Hub!Received(c)[j] = r => i < j

(***************************************************************************)
(* README.md:27: the proxy never blocks on a classifier failure.  With a   *)
(* classifier that never answers, a request is routed all the same         *)
(* (client.go:31, 57-60).                                                  *)
(***************************************************************************)
NeverBlocksOnClassifier ==
  \A r \in Req : pc[r] = "classify" ~> (pc[r] \in Routed \cup Over \/ ~Hub!Alive)

(***************************************************************************)
(* Once its answer is out, a handler returns without waiting for anybody:  *)
(* not for broadcast, not for a dashboard (proxy.go:158-194).              *)
(***************************************************************************)
NeverBlocksOnDashboards ==
  \A r \in Req : pc[r] = "count" ~> (pc[r] = "done" \/ ~Hub!Alive)

(***************************************************************************)
(* README.md:27: classification falls back to general on timeout or error. *)
(* A classifier that answers a body with 422 has classified nothing.       *)
(***************************************************************************)
ErrorFallsBackToGeneral ==
  \A r \in Req : body[r] = "refused" /\ pc[r] \notin {"idle", "classify"}
    => label[r] = General
=============================================================================
