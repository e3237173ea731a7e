----------------------------- MODULE ProxyProofs -----------------------------
(***************************************************************************)
(* Proofs about Proxy, for any number of requests and connections, any     *)
(* pools and any capacities.  A step of the proxy is a step of its hub or  *)
(* none, so the hub's invariant of EventHubProofs holds here, and so do    *)
(* its lemmas, with the requests for the events.                           *)
(*                                                                         *)
(* What the invariant Inv adds for the requests: ids go to exactly those   *)
(* that passed Number (Numbers), what was over when a request arrived has  *)
(* the smaller id and stamp (Arrived), the metrics count the requests that *)
(* passed Count (Metrics), and a request that has called Pool.Next         *)
(* waits for its metrics or ended before them (Conserved).                 *)
(***************************************************************************)
EXTENDS Proxy, Sums

HubP == INSTANCE EventHubProofs WITH Event <- Req

PoolsP == INSTANCE BalancerProofs

\* Each request that was given an id, and no other, has passed Number.
Numbers ==
  /\ \A r \in Req :
       /\ id[r] # 0 <=> pc[r] \in {"publish", "done"}
       /\ id[r] <= idCounter
  /\ IsFiniteSet(Stage({"publish", "done"}))
  /\ DenseIds

\* What was over when a request arrived stays ahead of it.
Arrived ==
  \A r \in Req : \A q \in before[r] :
    /\ pc[q] \in Over
    /\ id[r] # 0 => id[q] < id[r]
    /\ stamp[r] # 0 => stamp[q] < stamp[r]

\* The requests counted under a label and a status.
CountedAs(l, s) == {r \in Stage(Counted) : label[r] = l /\ status[r] = s}

\* slb_requests_total is the number of the requests that passed Count.
Exact(l, s) ==
  /\ IsFiniteSet(CountedAs(l, s))
  /\ requestsTotal[<<l, s>>] = Cardinality(CountedAs(l, s))

Metrics == \A l \in Label, s \in Status : Exact(l, s)

\* The requests that have called Pool.Next and no metric counts.
Uncounted == Stage({"forward", "count", "invalid", "aborted"})

\* The types of the pools' state, and Conservation with what it counts finite.
Conserved ==
  /\ RoundRobin!TypeOK
  /\ IsFiniteSet(Uncounted)
  /\ Conservation

\* The inductive invariant.
Inv ==
  HubP!HubInv /\ TypeOK /\ Numbers /\ Arrived /\ Metrics /\ Conserved

-----------------------------------------------------------------------------
(* Steps.                                                                  *)

\* The steps of the hub that the proxy takes are those of EventHubProofs.
LEMMA HubSteps ==
  /\ Hub!Init => HubP!Init
  /\ \A r \in Req : Hub!Offer(r) => HubP!Offer(r)
  /\ Hub!Broadcast => HubP!Broadcast
  /\ \A c \in Client : Hub!Handler(c) => HubP!Handler(c)
<1>1. Hub!Init => HubP!Init
  BY DEF Hub!Init, HubP!Init
<1>2. \A r \in Req : Hub!Offer(r) => HubP!Offer(r)
  BY DEF Hub!Offer, HubP!Offer, Hub!Enqueue, HubP!Enqueue, Hub!DropAtHub,
         HubP!DropAtHub, Hub!Alive, HubP!Alive
<1>3. Hub!Broadcast => HubP!Broadcast
  BY DEF Hub!Broadcast, HubP!Broadcast, Hub!Take, HubP!Take, Hub!Visit, HubP!Visit,
         Hub!Send, HubP!Send, Hub!SendPanics, HubP!SendPanics, Hub!SendBuffers,
         HubP!SendBuffers, Hub!SendDrops, HubP!SendDrops, Hub!RangeEnd, HubP!RangeEnd
<1>4. \A c \in Client : Hub!Handler(c) => HubP!Handler(c)
  BY DEF Hub!Handler, HubP!Handler, Hub!Connect, HubP!Connect, Hub!Greet, HubP!Greet,
         Hub!Write, HubP!Write, Hub!Delete, HubP!Delete, Hub!Close, HubP!Close,
         Hub!Alive, HubP!Alive, Hub!taken, HubP!taken
<1> QED BY <1>1, <1>2, <1>3, <1>4

\* A step of broadcast or of an SSE handler offers nothing.
LEMMA HubOffersNothing ==
  HubP!Broadcast \/ (\E c \in Client : HubP!Handler(c)) => UNCHANGED <<offered, stamp>>
BY DEF HubP!Broadcast, HubP!Take, HubP!Visit, HubP!Send, HubP!RangeEnd, HubP!Handler,
       HubP!Connect, HubP!Greet, HubP!Write, HubP!Delete, HubP!Close

\* The actions of ServeHTTP that leave the hub alone.
Quiet(r) ==
  \/ Read(r) \/ ReadFails(r) \/ Classified(r) \/ Fallback(r) \/ Route(r)
  \/ Forwarded(r) \/ CopyAborts(r) \/ Count(r) \/ Number(r)

\* What a step is: a request's step that leaves the hub alone, a publication,
\* or a step of the hub that leaves the requests alone.
LEMMA Steps ==
  ASSUME [Next]_vars
  PROVE  \/ \E r \in Req : Quiet(r) /\ UNCHANGED hubVars
         \/ \E r \in Req : Publish(r) /\ HubP!Offer(r)
         \/ /\ UNCHANGED <<reqVars, counters, poolVars, offered, stamp>>
            /\ [HubP!Next]_(HubP!vars)
<1>1. ASSUME NEW r \in Req, Serve(r)
      PROVE  (Quiet(r) /\ UNCHANGED hubVars) \/ (Publish(r) /\ HubP!Offer(r))
  <2>1. CASE Publish(r)
    BY <2>1, HubSteps DEF Publish
  <2>2. CASE ~Publish(r)
    <3>1. Quiet(r)
      BY <1>1, <2>2 DEF Serve, Local, Quiet
    <3>2. UNCHANGED hubVars
      BY <3>1 DEF Quiet, Read, ReadFails, Classified, Fallback, Route, Forwarded,
                  CopyAborts, Count, Number
    <3> QED BY <3>1, <3>2
  <2> QED BY <2>1, <2>2
<1>2. ASSUME Hub!Broadcast \/ \E c \in Client : Hub!Handler(c),
             UNCHANGED <<reqVars, counters, poolVars>>
      PROVE  /\ UNCHANGED <<reqVars, counters, poolVars, offered, stamp>>
             /\ HubP!Next
  <2>1. HubP!Broadcast \/ \E c \in Client : HubP!Handler(c)
    BY <1>2, HubSteps
  <2> QED BY <1>2, <2>1, HubOffersNothing DEF HubP!Next
<1>3. ASSUME UNCHANGED vars
      PROVE  /\ UNCHANGED <<reqVars, counters, poolVars, offered, stamp>>
             /\ UNCHANGED HubP!vars
  BY <1>3 DEF vars, hubVars, HubP!vars, HubP!code
<1> QED BY <1>1, <1>2, <1>3 DEF Next

\* Every step of the proxy is a step of its hub, or none.
LEMMA HubStep == [Next]_vars => [HubP!Next]_(HubP!vars)
<1> SUFFICES ASSUME [Next]_vars PROVE [HubP!Next]_(HubP!vars)
  OBVIOUS
<1>1. UNCHANGED hubVars => UNCHANGED HubP!vars
  BY DEF hubVars, HubP!vars, HubP!code
<1>2. \A r \in Req : HubP!Offer(r) => HubP!Next
  BY DEF HubP!Next
<1> QED BY <1>1, <1>2, Steps

-----------------------------------------------------------------------------
(* Types.                                                                  *)

\* Pools have a size.
LEMMA PoolSize == \A p \in Pool : RoundRobin!Size(p) \in Nat
<1> SUFFICES ASSUME NEW p \in Pool PROVE Len(Upstreams[p]) \in Nat
  BY DEF RoundRobin!Size
<1> DEFINE S == Range(Upstreams[p]) \ {None}
<1>1. Upstreams[p] \in Seq(S)
  BY ProxyAssumption
<1> HIDE DEF S
<1> QED BY <1>1

\* At first every request is idle.
LEMMA TypesInit == Init => TypeOK
<1> SUFFICES ASSUME Init PROVE TypeOK
  OBVIOUS
<1>1. offered = {} /\ Stage({"done"}) = {}
  BY DEF Init, Hub!Init, Stage
<1>2. requestsTotal \in [Label \X Status -> Nat]
  BY DEF Init
<1>3. General \in Pool /\ NoLabel \in Label
  BY ProxyAssumption DEF Label
<1> QED BY <1>1, <1>2, <1>3 DEF Init, TypeOK, Pc, Routed, Over, Body, Status

\* Every step keeps the types.
LEMMA TypesNext == TypeOK /\ [Next]_vars => TypeOK'
<1> SUFFICES ASSUME TypeOK, [Next]_vars PROVE TypeOK'
  OBVIOUS
<1> USE DEF Goto
<1>0. /\ pc \in [Req -> Pc] /\ offered = Stage({"done"})
      /\ General \in Label /\ NoLabel \in Label /\ Answer \subseteq Label
  BY ProxyAssumption DEF TypeOK, Label
<1>1. ASSUME NEW r \in Req, Quiet(r), UNCHANGED hubVars PROVE TypeOK'
  <2>0. offered' = offered
    BY <1>1 DEF hubVars
  <2> USE <1>0, <2>0 DEF TypeOK, Pc, Routed, Over, Stage, counters
  <2>1. CASE Read(r)
    <3>1. body' \in [Req -> Body] /\ label' \in [Req -> Label] /\ before' \in [Req -> SUBSET Req]
      BY <2>1 DEF Read
    <3>2. pc'[r] \in {"route", "classify"} /\ pc[r] = "idle"
          /\ pc' = [pc EXCEPT ![r] = pc'[r]]
      BY <2>1 DEF Read
    <3>3. UNCHANGED <<upstream, status, id, counters>>
      BY <2>1 DEF Read
    <3> QED BY <3>1, <3>2, <3>3
  <2>2. CASE ReadFails(r)
    BY <2>2 DEF ReadFails
  <2>3. CASE Classified(r)
    <3>1. label' \in [Req -> Label]
      BY <2>3 DEF Classified
    <3> QED BY <2>3, <3>1 DEF Classified
  <2>4. CASE Fallback(r)
    <3>1. label' \in [Req -> Label]
      BY <2>4 DEF Fallback
    <3> QED BY <2>4, <3>1 DEF Fallback
  <2>5. CASE Route(r)
    <3>1. /\ pc[r] = "route" /\ pc' = [pc EXCEPT ![r] = pc'[r]]
          /\ pc'[r] \in {"aborted", "invalid", "forward"}
          /\ DOMAIN upstream' = Req /\ \A q \in Req \ {r} : upstream'[q] = upstream[q]
          /\ pc'[r] = "forward" => upstream'[r] \notin BadURL \cup {None}
      BY <2>5 DEF Route
    <3>2. UNCHANGED <<body, label, status, id, before, counters>>
      BY <2>5 DEF Route
    <3> QED BY <3>1, <3>2
  <2>6. CASE Forwarded(r)
    <3>1. status' \in [Req -> Status]
      BY <2>6 DEF Forwarded
    <3> QED BY <2>6, <3>1 DEF Forwarded
  <2>7. CASE CopyAborts(r)
    BY <2>7 DEF CopyAborts
  <2>8. CASE Count(r)
    <3>1. requestsTotal' \in [Label \X Status -> Nat]
      BY <2>8 DEF Count
    <3> QED BY <2>8, <3>1 DEF Count
  <2>9. CASE Number(r)
    BY <2>9 DEF Number
  <2> QED BY <1>1, <2>1, <2>2, <2>3, <2>4, <2>5, <2>6, <2>7, <2>8, <2>9 DEF Quiet
<1>2. ASSUME NEW r \in Req, Publish(r), HubP!Offer(r) PROVE TypeOK'
  <2>1. offered' = offered \cup {r}
    BY <1>2 DEF HubP!Offer
  <2>2. pc[r] = "publish" /\ pc' = [pc EXCEPT ![r] = "done"]
    BY <1>2 DEF Publish
  <2>3. Stage({"done"})' = Stage({"done"}) \cup {r}
    BY <1>0, <2>2 DEF Stage
  <2>4. pc' \in [Req -> Pc] /\ \A q \in Req : pc'[q] \in Routed => upstream'[q] = upstream[q] /\ pc[q] \in Routed
    BY <1>0, <1>2, <2>2 DEF Pc, Routed, Publish
  <2> QED BY <1>0, <1>2, <2>1, <2>3, <2>4 DEF Publish, TypeOK, counters
<1>3. ASSUME UNCHANGED <<reqVars, counters, poolVars, offered, stamp>> PROVE TypeOK'
  BY <1>3 DEF TypeOK, reqVars, counters, Stage
<1> QED BY <1>1, <1>2, <1>3, Steps

-----------------------------------------------------------------------------
(* Ids.                                                                    *)

\* At first no id is given.
LEMMA NumbersInit == Init => Numbers
<1> SUFFICES ASSUME Init PROVE Numbers
  OBVIOUS
<1>1. Stage({"publish", "done"}) = {} /\ idCounter = 0 /\ 1 .. idCounter = {}
  BY DEF Init, Stage
<1>2. \A r \in Req : id[r] = 0 /\ pc[r] = "idle"
  BY DEF Init
<1> QED BY <1>1, <1>2, FS_EmptySet DEF Numbers, DenseIds

\* Number gives the next id and moves its request on under one lock, so that
\* ids and requests past Number grow together (proxy.go:170-173).
LEMMA NumbersNext == TypeOK /\ Numbers /\ [Next]_vars => Numbers'
<1> SUFFICES ASSUME TypeOK, Numbers, [Next]_vars PROVE Numbers'
  OBVIOUS
<1> DEFINE P == Stage({"publish", "done"})
<1>0. pc \in [Req -> Pc] /\ id \in [Req -> Nat] /\ idCounter \in Nat
  BY DEF TypeOK
<1>1. ASSUME NEW r \in Req, Number(r) PROVE Numbers'
  <2>1. /\ pc[r] = "number" /\ pc' = [pc EXCEPT ![r] = "publish"]
        /\ idCounter' = idCounter + 1 /\ id' = [id EXCEPT ![r] = idCounter + 1]
    BY <1>1 DEF Number, Goto
  <2>2. P' = P \cup {r} /\ r \notin P
    BY <1>0, <2>1 DEF Stage
  <2>3. {id'[q] : q \in P'} = {id[q] : q \in P} \cup {idCounter + 1}
    <3>1. P \subseteq Req
      BY DEF Stage
    <3> HIDE DEF P
    <3> QED BY <1>0, <2>1, <2>2, <3>1
  <2>4. 1 .. idCounter' = 1 .. idCounter \cup {idCounter + 1}
    BY <1>0, <2>1
  <2>5. IsFiniteSet(P') /\ Cardinality(P') = idCounter'
    BY <2>1, <2>2, FS_AddElement DEF Numbers, DenseIds
  <2>6. \A q \in Req : (id'[q] # 0 <=> pc'[q] \in {"publish", "done"}) /\ id'[q] <= idCounter'
    BY <1>0, <2>1 DEF Numbers
  <2> QED BY <2>3, <2>4, <2>5, <2>6 DEF Numbers, DenseIds
<1>2. ASSUME P' = P, UNCHANGED <<id, idCounter>>,
             \A r \in Req : pc'[r] \in {"publish", "done"} <=> pc[r] \in {"publish", "done"}
      PROVE  Numbers'
  <2>1. {id'[q] : q \in P'} = {id[q] : q \in P}
    BY <1>2
  <2> QED BY <1>2, <2>1 DEF Numbers, DenseIds
<1>3. ASSUME NEW r \in Req, Quiet(r), ~Number(r) PROVE Numbers'
  <2>1. /\ UNCHANGED <<id, idCounter>>
        /\ pc[r] \notin {"publish", "done"} /\ pc'[r] \notin {"publish", "done"}
        /\ \A q \in Req \ {r} : pc'[q] = pc[q]
    BY <1>0, <1>3 DEF Quiet, Read, ReadFails, Classified, Fallback, Route, Forwarded,
                      CopyAborts, Count, Goto, counters
  <2> QED BY <1>2, <2>1 DEF Stage
<1>4. ASSUME NEW r \in Req, Publish(r) PROVE Numbers'
  <2>1. /\ UNCHANGED <<id, idCounter>>
        /\ pc[r] = "publish" /\ pc' = [pc EXCEPT ![r] = "done"]
    BY <1>4 DEF Publish, Goto, counters
  <2> QED BY <1>0, <1>2, <2>1 DEF Stage
<1>5. ASSUME UNCHANGED <<reqVars, counters, poolVars, offered, stamp>> PROVE Numbers'
  <2>1. UNCHANGED <<pc, id, idCounter>>
    BY <1>5 DEF reqVars, counters
  <2> QED BY <1>2, <2>1 DEF Stage
<1> QED BY <1>1, <1>3, <1>4, <1>5, Steps

-----------------------------------------------------------------------------
(* What was over before.                                                   *)

\* At first nothing is over.
LEMMA ArrivedInit == Init => Arrived
BY DEF Init, Arrived

\* What a request that arrives finds over has its id and its stamp, and the
\* request gets larger ones (proxy.go:170-190).
LEMMA ArrivedNext ==
  HubP!TypeOK /\ HubP!Queue /\ TypeOK /\ Numbers /\ Arrived /\ [Next]_vars => Arrived'
<1> SUFFICES ASSUME HubP!TypeOK, HubP!Queue, TypeOK, Numbers, Arrived, [Next]_vars
             PROVE  Arrived'
  OBVIOUS
<1>0. /\ pc \in [Req -> Pc] /\ id \in [Req -> Nat] /\ idCounter \in Nat
      /\ before \in [Req -> SUBSET Req] /\ stamp \in [Req -> Nat] /\ accepted \in Nat
  BY DEF TypeOK, HubP!TypeOK
<1>1. \A r \in Req : /\ pc[r] # "done" => stamp[r] = 0
                     /\ pc[r] \notin {"publish", "done"} => id[r] = 0
                     /\ stamp[r] <= accepted /\ id[r] <= idCounter
  BY DEF TypeOK, Stage, HubP!Queue, Numbers
<1>2. ASSUME NEW r \in Req, Number(r) PROVE Arrived'
  <2>1. /\ pc[r] = "number" /\ pc' = [pc EXCEPT ![r] = "publish"]
        /\ id' = [id EXCEPT ![r] = idCounter + 1] /\ UNCHANGED <<before, stamp>>
    BY <1>2 DEF Number, Goto, hubVars
  <2>2. r \notin UNION {before[q] : q \in Req}
    BY <2>1 DEF Arrived, Over
  <2>3. ASSUME NEW q \in Req, NEW t \in before[q]
        PROVE  pc'[t] = pc[t] /\ id'[t] = id[t] /\ t \in Req /\ t # r
    BY <1>0, <2>1, <2>2, <2>3
  <2>4. ASSUME NEW q \in Req, NEW t \in before[q]
        PROVE  id'[q] # 0 => id'[t] < id'[q]
    BY <1>0, <1>1, <2>1, <2>3, <2>4 DEF Arrived
  <2> QED BY <2>1, <2>3, <2>4 DEF Arrived
<1>3. ASSUME NEW r \in Req, Read(r) PROVE Arrived'
  <2>1. /\ before' = [before EXCEPT ![r] = {q \in Req : pc[q] \in Over}]
        /\ pc[r] = "idle" /\ \A q \in Req \ {r} : pc'[q] = pc[q]
        /\ UNCHANGED <<id, stamp>>
    BY <1>0, <1>3 DEF Read, Goto, hubVars
  <2>2. \A q \in Req : pc[q] \in Over => pc'[q] = pc[q]
    BY <2>1 DEF Over
  <2>3. id'[r] = 0 /\ stamp'[r] = 0
    BY <1>1, <2>1
  <2>4. \A q \in Req \ {r} : before'[q] = before[q]
    BY <1>0, <2>1
  <2>5. \A q \in before'[r] : q \in Req /\ pc'[q] \in Over
    BY <1>0, <2>1, <2>2
  <2>6. \A q \in Req \ {r} : \A t \in before[q] : t \in Req /\ pc'[t] \in Over
    BY <1>0, <2>2 DEF Arrived
  <2> QED BY <2>1, <2>3, <2>4, <2>5, <2>6 DEF Arrived
<1>4. ASSUME NEW r \in Req, Quiet(r), UNCHANGED hubVars, ~Number(r), ~Read(r) PROVE Arrived'
  <2>1. /\ UNCHANGED <<id, stamp, before>>
        /\ pc[r] \notin Over /\ \A q \in Req \ {r} : pc'[q] = pc[q]
    BY <1>0, <1>4 DEF Quiet, ReadFails, Classified, Fallback, Route, Forwarded,
                      CopyAborts, Count, Goto, counters, hubVars, Over
  <2>2. \A q \in Req : pc[q] \in Over => pc'[q] = pc[q]
    BY <2>1
  <2> QED BY <1>0, <2>1, <2>2 DEF Arrived
<1>5. ASSUME NEW r \in Req, Publish(r), HubP!Offer(r) PROVE Arrived'
  <2>1. /\ pc[r] = "publish" /\ pc' = [pc EXCEPT ![r] = "done"]
        /\ UNCHANGED <<id, before>>
    BY <1>5 DEF Publish, Goto
  <2>2. \/ stamp' = stamp
        \/ stamp' = [stamp EXCEPT ![r] = accepted + 1]
    BY <1>5 DEF HubP!Offer, HubP!Enqueue, HubP!DropAtHub
  <2>3. \A q \in Req : \A t \in before[q] : t \in Req /\ t # r /\ pc'[t] = pc[t] /\ stamp'[t] = stamp[t]
    <3>1. \A q \in Req : \A t \in before[q] : t \in Req /\ t # r
      BY <1>0, <2>1 DEF Arrived, Over
    <3> QED BY <1>0, <2>1, <2>2, <3>1
  <2>4. ASSUME NEW q \in Req, NEW t \in before[q], stamp'[q] # 0
        PROVE  stamp'[t] < stamp'[q]
    <3>1. CASE stamp'[q] = stamp[q]
      BY <2>3, <2>4, <3>1 DEF Arrived
    <3>2. CASE stamp'[q] # stamp[q]
      <4>1. q = r /\ stamp'[q] = accepted + 1
        BY <1>0, <2>2, <3>2
      <4> QED BY <1>0, <1>1, <2>3, <4>1
    <3> QED BY <3>1, <3>2
  <2> QED BY <2>1, <2>3, <2>4 DEF Arrived
<1>6. ASSUME UNCHANGED <<reqVars, counters, poolVars, offered, stamp>> PROVE Arrived'
  BY <1>6 DEF reqVars, Arrived
<1> QED BY <1>2, <1>3, <1>4, <1>5, <1>6, Steps

-----------------------------------------------------------------------------
(* The metrics.                                                            *)

\* At first nothing is counted.
LEMMA MetricsInit == Init => Metrics
<1> SUFFICES ASSUME Init, NEW l \in Label, NEW s \in Status
             PROVE  Exact(l, s)
  BY DEF Metrics
<1>1. CountedAs(l, s) = {} /\ requestsTotal[<<l, s>>] = 0
  BY DEF Init, CountedAs, Stage, Counted
<1> QED BY <1>1, FS_EmptySet DEF Exact

\* Count adds its request to what is counted and 1 to its metric; no later step
\* of the request changes the label or the status it was counted under.
LEMMA MetricsNext == TypeOK /\ Metrics /\ [Next]_vars => Metrics'
<1> SUFFICES ASSUME TypeOK, Metrics, [Next]_vars, NEW l \in Label, NEW s \in Status
             PROVE  Exact(l, s)'
  BY DEF Metrics
<1>0. /\ pc \in [Req -> Pc] /\ label \in [Req -> Label] /\ status \in [Req -> Status]
      /\ requestsTotal \in [Label \X Status -> Nat]
      /\ Exact(l, s)
  BY DEF TypeOK, Metrics
<1>1. ASSUME NEW r \in Req, Count(r) PROVE Exact(l, s)'
  <2>1. /\ pc[r] = "count" /\ pc' = [pc EXCEPT ![r] = "number"] /\ UNCHANGED <<label, status>>
        /\ requestsTotal' = [requestsTotal EXCEPT ![<<label[r], status[r]>>] = @ + 1]
    BY <1>1 DEF Count, Goto
  <2>2. CASE label[r] = l /\ status[r] = s
    <3>1. CountedAs(l, s)' = CountedAs(l, s) \cup {r} /\ r \notin CountedAs(l, s)
      BY <1>0, <2>1, <2>2 DEF CountedAs, Stage, Counted
    <3>2. requestsTotal'[<<l, s>>] = requestsTotal[<<l, s>>] + 1
      BY <1>0, <2>1, <2>2
    <3> QED BY <1>0, <3>1, <3>2, FS_AddElement DEF Exact
  <2>3. CASE ~(label[r] = l /\ status[r] = s)
    <3>1. CountedAs(l, s)' = CountedAs(l, s)
      BY <1>0, <2>1, <2>3 DEF CountedAs, Stage, Counted
    <3>2. requestsTotal'[<<l, s>>] = requestsTotal[<<l, s>>]
      BY <1>0, <2>1, <2>3
    <3> QED BY <1>0, <3>1, <3>2 DEF Exact
  <2> QED BY <2>2, <2>3
<1>2. ASSUME requestsTotal' = requestsTotal,
             \A q \in Req : /\ pc'[q] \in Counted <=> pc[q] \in Counted
                            /\ pc[q] \in Counted => label'[q] = label[q] /\ status'[q] = status[q]
      PROVE  Exact(l, s)'
  <2>1. CountedAs(l, s)' = CountedAs(l, s)
    BY <1>2 DEF CountedAs, Stage
  <2> QED BY <1>0, <1>2, <2>1 DEF Exact
<1>3. ASSUME NEW r \in Req, Quiet(r), ~Count(r), ~Number(r) PROVE Exact(l, s)'
  <2>1. /\ requestsTotal' = requestsTotal
        /\ pc[r] \notin Counted /\ pc'[r] \notin Counted
        /\ \A q \in Req \ {r} : pc'[q] = pc[q] /\ label'[q] = label[q] /\ status'[q] = status[q]
    BY <1>0, <1>3 DEF Quiet, Read, ReadFails, Classified, Fallback, Route, Forwarded,
                      CopyAborts, Goto, counters, Counted
  <2> QED BY <1>2, <2>1
<1>4. ASSUME NEW r \in Req, Number(r) \/ Publish(r) PROVE Exact(l, s)'
  <2>1. /\ UNCHANGED <<requestsTotal, label, status>>
        /\ pc[r] \in Counted /\ pc'[r] \in Counted
        /\ \A q \in Req \ {r} : pc'[q] = pc[q]
    BY <1>0, <1>4 DEF Number, Publish, Goto, counters, Counted
  <2> QED BY <1>2, <2>1
<1>5. ASSUME UNCHANGED <<reqVars, counters, poolVars, offered, stamp>> PROVE Exact(l, s)'
  BY <1>2, <1>5 DEF reqVars, counters
<1> QED BY <1>1, <1>3, <1>4, <1>5, Steps

-----------------------------------------------------------------------------
(* The pools' choices.                                                     *)

\* The terms of Conservation's left-hand side: the calls of each pool's Next.
Choices == [p \in Pool |-> wraps[p] * CounterMod + counter[p]]

\* The labels, with the statuses, and the pools are finitely many.
LEMMA Finite ==
  /\ IsFiniteSet(Label \X Status)
  /\ IsFiniteSet(Pool)
<1>1. IsFiniteSet(Label)
  BY ProxyAssumption, FS_Union, FS_AddElement DEF Label
<1>2. IsFiniteSet(Status)
  <2>1. IsFiniteSet({"answered"}) /\ Status = {"answered"} \cup {"502"}
    BY FS_Singleton DEF Status
  <2> QED BY <2>1, FS_AddElement
<1> QED BY <1>1, <1>2, ProxyAssumption, FS_Product

\* Pools are called a whole number of times.
LEMMA ChoicesType ==
  RoundRobin!TypeOK => Choices \in [Pool -> Int]
<1> SUFFICES ASSUME RoundRobin!TypeOK, NEW p \in Pool
             PROVE  wraps[p] * CounterMod + counter[p] \in Int
  BY DEF Choices
<1>1. wraps[p] \in Nat /\ counter[p] \in Int /\ CounterMod \in Nat
  BY ProxyAssumption DEF RoundRobin!TypeOK
<1> QED BY <1>1

\* At first no pool has been called.
LEMMA ConservedInit == Init => Conserved
<1> SUFFICES ASSUME Init PROVE Conserved
  OBVIOUS
<1>1. RoundRobin!TypeOK
  BY ProxyAssumption DEF Init, RoundRobin!Init, RoundRobin!TypeOK
<1>2. SumFunction(Choices) = 0
  <2>1. \A p \in Pool : Choices[p] = 0
    BY ProxyAssumption DEF Choices, Init, RoundRobin!Init
  <2> QED BY <1>1, <2>1, ChoicesType, Finite, SumZero
<1>3. SumFunction(requestsTotal) = 0
  <2>1. requestsTotal \in [Label \X Status -> Int] /\ \A k \in Label \X Status : requestsTotal[k] = 0
    BY DEF Init
  <2> QED BY <2>1, Finite, SumZero
<1>4. Uncounted = {}
  BY DEF Init, Uncounted, Stage
<1> QED BY <1>1, <1>2, <1>3, <1>4, FS_EmptySet DEF Conserved, Conservation, Choices, Uncounted

\* The counter's step is an addition but for the wrap.
LEMMA BumpAdds ==
  ASSUME NEW M \in Nat \ {0}, NEW c \in 0 .. M - 1
  PROVE  (c + 1) % M = IF c = M - 1 THEN 0 ELSE c + 1
<1>1. CASE c = M - 1
  <2>1. M = M * 1 + 0 /\ 0 \in 0 .. M - 1
    OBVIOUS
  <2>2. M % M = 0
    BY <2>1, PoolsP!ModUnique
  <2> QED BY <1>1, <2>2
<1>2. CASE c # M - 1
  <2>1. c + 1 = M * 0 + (c + 1) /\ c + 1 \in 0 .. M - 1
    BY <1>2
  <2> QED BY <1>2, <2>1, PoolsP!ModUnique
<1> QED BY <1>1, <1>2

\* A call of a pool's Next adds 1 to the calls, with or without upstreams.
LEMMA ChoiceAdds ==
  ASSUME RoundRobin!TypeOK, NEW p \in Pool, RoundRobin!NextUpstream(p)
  PROVE  /\ RoundRobin!TypeOK'
         /\ SumFunction(Choices)' = SumFunction(Choices) + 1
<1>1. /\ counter \in [Pool -> 0 .. CounterMod - 1] /\ wraps \in [Pool -> Nat]
      /\ DOMAIN served = Pool /\ \A q \in Pool : served[q] \in [RoundRobin!Index(q) -> Nat]
      /\ CounterMod \in Nat \ {0} /\ RoundRobin!Size(p) \in Nat
  BY ProxyAssumption, PoolSize DEF RoundRobin!TypeOK
<1>2. /\ counter' = [counter EXCEPT ![p] = (counter[p] + 1) % CounterMod]
      /\ wraps' = [wraps EXCEPT ![p] = IF counter[p] = CounterMod - 1
                                       THEN wraps[p] + 1 ELSE wraps[p]]
  BY DEF RoundRobin!NextUpstream, RoundRobin!Bump
<1>3. /\ counter' \in [Pool -> 0 .. CounterMod - 1] /\ wraps' \in [Pool -> Nat]
      /\ wraps'[p] * CounterMod + counter'[p] = wraps[p] * CounterMod + counter[p] + 1
  <2>1. counter[p] \in 0 .. CounterMod - 1 /\ wraps[p] \in Nat
    BY <1>1
  <2>2. /\ counter'[p] = (counter[p] + 1) % CounterMod
        /\ wraps'[p] = IF counter[p] = CounterMod - 1 THEN wraps[p] + 1 ELSE wraps[p]
    BY <1>1, <1>2
  <2>3. /\ counter'[p] \in 0 .. CounterMod - 1
        /\ wraps'[p] * CounterMod + counter'[p] = wraps[p] * CounterMod + counter[p] + 1
    <3> DEFINE d == counter'[p]
               v == wraps'[p]
               c == counter[p]
               w == wraps[p]
    <3>1. c \in 0 .. CounterMod - 1 /\ w \in Nat /\ v = IF c = CounterMod - 1 THEN w + 1 ELSE w
      BY <2>1, <2>2
    <3>2. d = IF c = CounterMod - 1 THEN 0 ELSE c + 1
      BY <1>1, <2>1, <2>2, BumpAdds
    <3> HIDE DEF c, d, v, w
    <3>3. w * CounterMod \in Nat /\ (w + 1) * CounterMod = w * CounterMod + CounterMod
      BY <1>1, <3>1
    <3>4. d \in 0 .. CounterMod - 1
      BY <1>1, <3>1, <3>2
    <3>5. v * CounterMod + d = w * CounterMod + c + 1
      <4>1. CASE c = CounterMod - 1
        BY <1>1, <3>1, <3>2, <3>3, <4>1
      <4>2. CASE c # CounterMod - 1
        BY <1>1, <3>1, <3>2, <3>3, <4>2
      <4> QED BY <4>1, <4>2
    <3> QED BY <3>4, <3>5 DEF c, d, v, w
  <2>4. counter' \in [Pool -> 0 .. CounterMod - 1] /\ wraps' \in [Pool -> Nat]
    BY <1>1, <1>2, <2>2, <2>3
  <2> QED BY <2>3, <2>4
<1>4. DOMAIN served' = Pool /\ \A q \in Pool : served'[q] \in [RoundRobin!Index(q) -> Nat]
  <2>1. CASE RoundRobin!Size(p) = 0
    BY <1>1, <2>1 DEF RoundRobin!NextUpstream
  <2>2. CASE RoundRobin!Size(p) # 0
    <3> DEFINE i == RoundRobin!Slot(p)
    <3>1. i \in RoundRobin!Index(p)
      <4>1. counter[p] \in Nat /\ RoundRobin!Size(p) \in Nat \ {0}
        BY <1>1, <2>2
      <4>2. counter[p] % RoundRobin!Size(p) \in 0 .. RoundRobin!Size(p) - 1
        BY <4>1
      <4> QED BY <4>2 DEF RoundRobin!Slot, RoundRobin!Index
    <3>2. served' = [served EXCEPT ![p][i] = @ + 1]
      BY <2>2 DEF RoundRobin!NextUpstream
    <3> HIDE DEF i
    <3> QED BY <1>1, <3>1, <3>2
  <2> QED BY <2>1, <2>2
<1>5. RoundRobin!TypeOK'
  BY <1>3, <1>4 DEF RoundRobin!TypeOK
<1>6. Choices \in [Pool -> Int]
  BY ChoicesType
<1>7. Choices' = [q \in Pool |-> wraps'[q] * CounterMod + counter'[q]]
  BY DEF Choices
<1>8. /\ Choices'[p] - Choices[p] = 1
      /\ \A q \in Pool \ {p} : Choices'[q] = Choices[q]
  <2>1. Choices[p] \in Int /\ Choices'[p] = Choices[p] + 1
    BY <1>3, <1>6, <1>7 DEF Choices
  <2>2. \A q \in Pool \ {p} : wraps'[q] = wraps[q] /\ counter'[q] = counter[q]
    BY <1>1, <1>2
  <2>3. \A q \in Pool \ {p} : Choices'[q] = Choices[q]
    BY <1>7, <2>2 DEF Choices
  <2> QED BY <2>1, <2>3
<1>9. Choices' \in [Pool -> Int]
  <2>1. \A q \in Pool \ {p} : Choices'[q] \in Int
    BY <1>6, <1>8
  <2>2. Choices'[p] \in Int
    BY <1>3, <1>6, <1>7 DEF Choices
  <2> QED BY <1>7, <2>1, <2>2
<1>10. SumFunction(Choices') = SumFunction(Choices) + 1
  BY <1>6, <1>8, <1>9, Finite, SumChange
<1> QED BY <1>5, <1>10

\* Every call of a pool's Next adds a request to those that wait for their metrics
\* or end before them, and Count takes its request from there to the metrics
\* (proxy.go:129-163).
LEMMA ConservedNext == TypeOK /\ Conserved /\ [Next]_vars => Conserved'
<1> SUFFICES ASSUME TypeOK, Conserved, [Next]_vars PROVE Conserved'
  OBVIOUS
<1>0. /\ pc \in [Req -> Pc] /\ label \in [Req -> Label]
      /\ status \in [Req -> Status] /\ requestsTotal \in [Label \X Status -> Nat]
      /\ RoundRobin!TypeOK /\ IsFiniteSet(Uncounted)
      /\ SumFunction(Choices) = SumFunction(requestsTotal) + Cardinality(Uncounted)
  BY DEF TypeOK, Conserved, Conservation, Choices, Uncounted
<1>1. SumFunction(requestsTotal) \in Int /\ Cardinality(Uncounted) \in Nat
      /\ SumFunction(Choices) \in Int
  <2>1. requestsTotal \in [Label \X Status -> Int]
    BY <1>0
  <2> QED BY <1>0, <2>1, Finite, SumType, ChoicesType, FS_CardinalityType
<1>2. ASSUME RoundRobin!TypeOK', IsFiniteSet(Uncounted'),
             SumFunction(Choices)' = SumFunction(requestsTotal') + Cardinality(Uncounted')
      PROVE  Conserved'
  BY <1>2 DEF Conserved, Conservation, Choices, Uncounted
<1>3. ASSUME NEW r \in Req, Route(r) PROVE Conserved'
  <2> DEFINE p == RoundRobin!Route(label[r])
  <2>1. p \in Pool
    BY ProxyAssumption DEF RoundRobin!Route
  <2>2. /\ RoundRobin!NextUpstream(p) /\ pc[r] = "route" /\ requestsTotal' = requestsTotal
        /\ pc' = [pc EXCEPT ![r] = pc'[r]] /\ pc'[r] \in {"aborted", "invalid", "forward"}
    BY <1>0, <1>3 DEF Route, Goto, counters
  <2> HIDE DEF p
  <2>3. RoundRobin!TypeOK' /\ SumFunction(Choices)' = SumFunction(Choices) + 1
    BY <1>0, <2>1, <2>2, ChoiceAdds
  <2>4. Uncounted' = Uncounted \cup {r} /\ r \notin Uncounted
    BY <1>0, <2>2 DEF Uncounted, Stage
  <2>5. IsFiniteSet(Uncounted') /\ Cardinality(Uncounted') = Cardinality(Uncounted) + 1
    BY <1>0, <2>4, FS_AddElement
  <2> QED BY <1>0, <1>1, <1>2, <2>2, <2>3, <2>5
<1>4. ASSUME NEW r \in Req, Count(r) PROVE Conserved'
  <2>1. /\ pc[r] = "count" /\ pc' = [pc EXCEPT ![r] = "number"]
        /\ UNCHANGED <<counter, served, wraps>>
        /\ requestsTotal' = [requestsTotal EXCEPT ![<<label[r], status[r]>>] = @ + 1]
    BY <1>4 DEF Count, Goto, poolVars
  <2> DEFINE k == <<label[r], status[r]>>
  <2>2. k \in Label \X Status
    BY <1>0
  <2>3. /\ requestsTotal \in [Label \X Status -> Int]
        /\ requestsTotal' \in [Label \X Status -> Int]
        /\ requestsTotal'[k] - requestsTotal[k] = 1
        /\ \A m \in (Label \X Status) \ {k} : requestsTotal'[m] = requestsTotal[m]
    BY <1>0, <2>1, <2>2
  <2> HIDE DEF k
  <2>4. SumFunction(requestsTotal') = SumFunction(requestsTotal) + 1
    BY <2>2, <2>3, Finite, SumChange
  <2>5. Uncounted' = Uncounted \ {r} /\ r \in Uncounted
    BY <1>0, <2>1 DEF Uncounted, Stage
  <2>6. IsFiniteSet(Uncounted') /\ Cardinality(Uncounted') = Cardinality(Uncounted) - 1
    BY <1>0, <2>5, FS_RemoveElement
  <2>7. SumFunction(Choices)' = SumFunction(Choices) /\ RoundRobin!TypeOK'
    BY <1>0, <2>1 DEF Choices, RoundRobin!TypeOK
  <2> QED BY <1>0, <1>1, <1>2, <2>4, <2>6, <2>7
<1>5. ASSUME Uncounted' = Uncounted, UNCHANGED <<requestsTotal, counter, served, wraps>>
      PROVE  Conserved'
  <2>1. SumFunction(Choices)' = SumFunction(Choices) /\ RoundRobin!TypeOK'
    BY <1>0, <1>5 DEF Choices, RoundRobin!TypeOK
  <2> QED BY <1>0, <1>2, <1>5, <2>1
<1>6. ASSUME NEW r \in Req, Quiet(r), ~Route(r), ~Count(r) PROVE Conserved'
  <2>1. /\ UNCHANGED <<requestsTotal, counter, served, wraps>>
        /\ \A q \in Req \ {r} : pc'[q] = pc[q]
    BY <1>0, <1>6 DEF Quiet, Read, ReadFails, Classified, Fallback, Forwarded,
                      CopyAborts, Number, Goto, counters, poolVars
  <2> DEFINE W == {"forward", "count", "invalid", "aborted"}
  <2>2. pc'[r] \in W <=> pc[r] \in W
    BY <1>0, <1>6 DEF Quiet, Read, ReadFails, Classified, Fallback, Forwarded,
                      CopyAborts, Number, Goto
  <2>3. Stage(W)' = Stage(W)
    BY <2>1, <2>2 DEF Stage
  <2> QED BY <1>5, <2>1, <2>3 DEF Uncounted
<1>7. ASSUME NEW r \in Req, Publish(r) PROVE Conserved'
  <2>1. /\ UNCHANGED <<requestsTotal, counter, served, wraps>>
        /\ pc[r] = "publish" /\ pc' = [pc EXCEPT ![r] = "done"]
    BY <1>7 DEF Publish, Goto, counters, poolVars
  <2> QED BY <1>0, <1>5, <2>1 DEF Uncounted, Stage
<1>8. ASSUME UNCHANGED <<reqVars, counters, poolVars, offered, stamp>> PROVE Conserved'
  <2>1. UNCHANGED <<pc, requestsTotal, counter, served, wraps>>
    BY <1>8 DEF reqVars, counters, poolVars
  <2> QED BY <1>5, <2>1 DEF Uncounted, Stage
<1> QED BY <1>3, <1>4, <1>6, <1>7, <1>8, Steps

-----------------------------------------------------------------------------
(* The theorems.                                                           *)

\* The inductive invariant holds at first.
LEMMA InitInv == Init => Inv
<1>1. Init => HubP!HubInv
  BY HubSteps, HubP!HubInvInit, ProxyAssumption DEF Init
<1> QED BY <1>1, TypesInit, NumbersInit, ArrivedInit, MetricsInit, ConservedInit DEF Inv

\* The invariant is inductive.
LEMMA NextInv == Inv /\ [Next]_vars => Inv'
<1> SUFFICES ASSUME Inv, [Next]_vars PROVE Inv'
  OBVIOUS
<1>1. HubP!HubInv'
  BY HubStep, HubP!HubInvNext, ProxyAssumption DEF Inv
<1>2. HubP!TypeOK /\ HubP!Queue
  BY DEF Inv, HubP!HubInv
<1> QED BY <1>1, <1>2, TypesNext, NumbersNext, ArrivedNext, MetricsNext, ConservedNext DEF Inv

\* The inductive invariant holds throughout.
THEOREM Invariance == Spec => []Inv
BY InitInv, NextInv, PTL DEF Spec

\* The requests' state keeps its types, and a request that is being served has
\* an upstream that url.Parse accepts (ServeHTTP, proxy.go:105-195).
THEOREM Types == Spec => []TypeOK
<1>1. Inv => TypeOK
  BY DEF Inv
<1> QED BY <1>1, Invariance, PTL

\* Event ids are dense, for any number of concurrent requests
\* (proxy.go:170-173).
THEOREM Dense == Spec => []DenseIds
<1>1. Inv => DenseIds
  BY DEF Inv, Numbers
<1> QED BY <1>1, Invariance, PTL

\* Every call of a pool's Next is accounted for, for any pools, an empty one
\* among them (proxy.go:129-163, pool.go:14-17).
THEOREM Conserves == Spec => []Conservation
<1>1. Inv => Conservation
  BY DEF Inv, Conserved
<1> QED BY <1>1, Invariance, PTL

\* The hub's Received is that of EventHubProofs.
LEMMA SameReceived == \A c \in Client : Hub!Received(c) = HubP!Received(c)
BY DEF Hub!Received, HubP!Received

\* What a client has received are requests that are done, in the order of their
\* stamps.
LEMMA ReceivedFacts ==
  ASSUME Inv, NEW c \in Client
  PROVE  LET R == Hub!Received(c)
         IN  /\ R \in Seq(Req)
             /\ \A i \in DOMAIN R : /\ R[i] \in Stage({"done"})
                                    /\ stamp[R[i]] \in Nat \ {0}
             /\ \A i, j \in DOMAIN R : i < j => stamp[R[i]] < stamp[R[j]]
<1> DEFINE R == Hub!Received(c)
<1>1. R = HubP!Received(c)
  BY SameReceived
<1>2. HubP!TypeOK /\ HubP!Queue /\ HubP!Past /\ HubP!StreamOrder /\ TypeOK
  BY DEF Inv, HubP!HubInv
<1>3. R \in Seq(Req)
  BY <1>1, <1>2, HubP!ReceivedType, ProxyAssumption
<1>4. \A i, j \in DOMAIN R : i < j => stamp[R[i]] < stamp[R[j]]
  BY <1>1, <1>2 DEF HubP!StreamOrder
<1>5. \A i \in DOMAIN R : stamp[R[i]] \in 1 .. HubP!taken
  BY <1>1, <1>2 DEF HubP!Past
<1>6. HubP!taken \in Nat
  BY <1>2 DEF HubP!TypeOK, HubP!taken
<1>7. ASSUME NEW i \in DOMAIN R PROVE R[i] \in Stage({"done"}) /\ stamp[R[i]] \in Nat \ {0}
  <2>1. R[i] \in Req
    BY <1>3
  <2>2. stamp[R[i]] \in Nat \ {0}
    BY <1>5, <1>6
  <2> QED BY <1>2, <2>1, <2>2 DEF HubP!Queue, TypeOK
<1> QED BY <1>3, <1>4, <1>7

\* No dashboard sees more requests of a label and a status than the metrics
\* have, whatever is dropped on the way (proxy.go:161, 187-190): it sees none
\* twice and only those that passed Count.
THEOREM ShownCounted == Spec => []ShownIsCounted
<1>1. ASSUME Inv, NEW c \in Client, NEW l \in Label, NEW s \in Status
      PROVE  Cardinality({i \in DOMAIN Hub!Received(c) :
                            LET r == Hub!Received(c)[i] IN label[r] = l /\ status[r] = s})
               <= requestsTotal[<<l, s>>]
  <2> DEFINE R == Hub!Received(c)
             I == {i \in DOMAIN R : label[R[i]] = l /\ status[R[i]] = s}
             f == [i \in I |-> R[i]]
  <2>1. /\ R \in Seq(Req)
        /\ \A i \in DOMAIN R : R[i] \in Stage({"done"}) /\ stamp[R[i]] \in Nat \ {0}
        /\ \A i, j \in DOMAIN R : i < j => stamp[R[i]] < stamp[R[j]]
    BY <1>1, ReceivedFacts
  <2> HIDE DEF R
  <2>2. IsFiniteSet(CountedAs(l, s)) /\ requestsTotal[<<l, s>>] = Cardinality(CountedAs(l, s))
    BY <1>1 DEF Inv, Metrics, Exact
  <2>3. ASSUME NEW i \in I PROVE R[i] \in CountedAs(l, s)
    BY <2>1 DEF CountedAs, Stage, Counted
  <2>4. ASSUME NEW i \in I, NEW j \in I, R[i] = R[j] PROVE i = j
    <3>1. i \in Nat /\ j \in Nat
      BY <2>1
    <3> QED BY <2>1, <2>4, <3>1
  <2>5. f \in Injection(I, CountedAs(l, s))
    BY <2>3, <2>4 DEF Injection, IsInjective
  <2>6. Cardinality(I) <= Cardinality(CountedAs(l, s))
    <3> HIDE DEF I, f
    <3> QED BY <2>2, <2>5, FS_Injection
  <2> QED BY <2>2, <2>6 DEF R
<1>2. Inv => ShownIsCounted
  BY <1>1, Zenon DEF ShownIsCounted
<1> QED BY <1>2, Invariance, PTL

\* What was over before a request arrived has the smaller id and comes first on
\* every dashboard that has both (proxy.go:170-190 and broadcast).
THEOREM RealTime == Spec => []RealTimeOrder
<1>1. ASSUME Inv, NEW r \in Req, NEW q \in before[r]
      PROVE  /\ id[r] # 0 => id[q] < id[r]
             /\ \A c \in Client : \A i, j \in DOMAIN Hub!Received(c) :
                  Hub!Received(c)[i] = q /\ Hub!Received(c)[j] = r => i < j
  <2>1. id[r] # 0 => id[q] < id[r]
    BY <1>1 DEF Inv, Arrived
  <2>2. stamp[r] # 0 => stamp[q] < stamp[r]
    BY <1>1 DEF Inv, Arrived
  <2>3. ASSUME NEW c \in Client, NEW i \in DOMAIN Hub!Received(c),
               NEW j \in DOMAIN Hub!Received(c),
               Hub!Received(c)[i] = q, Hub!Received(c)[j] = r
        PROVE  i < j
    <3> DEFINE R == Hub!Received(c)
    <3>1. /\ R \in Seq(Req)
          /\ \A k \in DOMAIN R : stamp[R[k]] \in Nat \ {0}
          /\ \A k, m \in DOMAIN R : k < m => stamp[R[k]] < stamp[R[m]]
      BY <1>1, ReceivedFacts
    <3>2. R[i] = q /\ R[j] = r /\ i \in DOMAIN R /\ j \in DOMAIN R
      BY <2>3
    <3> HIDE DEF R
    <3>3. i \in Nat /\ j \in Nat
      BY <3>1, <3>2
    <3> QED BY <2>2, <3>1, <3>2, <3>3
  <2> QED BY <2>1, <2>3
<1>2. Inv => RealTimeOrder
  BY <1>1 DEF RealTimeOrder
<1> QED BY <1>2, Invariance, PTL

-----------------------------------------------------------------------------
(* The components within the proxy.                                        *)

\* The hub that the requests publish to and the dashboards read from still is
\* the lossy ordered multicast (proxy.go:55-103, 187-190).
THEOREM HubWithin == Spec => HubP!ImplementsMulticast
<1>1. Init => HubP!Multicast!Init
  BY HubSteps, HubP!MulticastInit, ProxyAssumption DEF Init
<1>2. Inv /\ [Next]_vars => [HubP!Multicast!Next]_(HubP!Multicast!mvars)
  BY HubStep, HubP!MulticastStep, ProxyAssumption DEF Inv
<1> QED BY <1>1, <1>2, Invariance, PTL DEF Spec, HubP!ImplementsMulticast, HubP!Multicast!Spec

\* The facts about Balancer's constants.
LEMMA PoolsHypothesis == PoolsP!BalancerAssumption
<1>1. \A p \in Pool : Len(Upstreams[p]) \in Nat
  BY PoolSize DEF RoundRobin!Size
<1> QED BY <1>1, ProxyAssumption DEF Label

\* A step of the proxy is a choice of a pool or leaves the pools alone.
LEMMA PoolsStep == TypeOK /\ [Next]_vars => [PoolsP!Next]_(PoolsP!bvars)
<1> SUFFICES ASSUME TypeOK, [Next]_vars PROVE [PoolsP!Next]_(PoolsP!bvars)
  OBVIOUS
<1>1. \A p \in Pool : RoundRobin!NextUpstream(p) => PoolsP!NextUpstream(p)
  BY DEF RoundRobin!NextUpstream, PoolsP!NextUpstream, RoundRobin!Bump, PoolsP!Bump,
         RoundRobin!Size, PoolsP!Size, RoundRobin!Slot, PoolsP!Slot
<1>2. ASSUME NEW r \in Req, Route(r) PROVE PoolsP!Next
  <2>1. label[r] \in Label
    BY DEF TypeOK
  <2>2. RoundRobin!Route(label[r]) = PoolsP!Route(label[r])
    BY DEF RoundRobin!Route, PoolsP!Route
  <2>3. RoundRobin!Route(label[r]) \in Pool
    BY ProxyAssumption DEF RoundRobin!Route
  <2>4. RoundRobin!NextUpstream(RoundRobin!Route(label[r]))
    BY <1>2 DEF Route
  <2> QED BY <1>1, <2>1, <2>2, <2>3, <2>4 DEF PoolsP!Next
<1>3. ASSUME NEW r \in Req, (Quiet(r) /\ ~Route(r)) \/ Publish(r) PROVE UNCHANGED poolVars
  BY <1>3 DEF Quiet, Read, ReadFails, Classified, Fallback, Forwarded, CopyAborts, Count,
              Number, Publish
<1>4. UNCHANGED poolVars => UNCHANGED PoolsP!bvars
  BY DEF poolVars, PoolsP!bvars
<1> QED BY <1>2, <1>3, <1>4, Steps

\* Concurrent requests, whatever becomes of them, leave every pool's choices
\* evenly spread (pool.go:14-17, proxy.go:129-141).
THEOREM PoolsWithin == Spec => []RoundRobin!Balanced
<1>1. Init => PoolsP!Inv
  BY PoolsP!InitInv, PoolsHypothesis
  DEF Init, RoundRobin!Init, PoolsP!Init, RoundRobin!Index, PoolsP!Index,
      RoundRobin!Size, PoolsP!Size
<1>2. Inv /\ PoolsP!Inv /\ [Next]_vars => PoolsP!Inv'
  BY PoolsStep, PoolsP!NextInv, PoolsHypothesis DEF Inv
<1>3. PoolsP!Inv => RoundRobin!Balanced
  BY PoolsP!ExactIsBalanced, PoolsHypothesis
  DEF RoundRobin!Balanced, PoolsP!Balanced, RoundRobin!Skew, PoolsP!Skew,
      RoundRobin!Index, PoolsP!Index, RoundRobin!Size, PoolsP!Size
<1> QED BY <1>1, <1>2, <1>3, Invariance, PTL DEF Spec
=============================================================================
