--------------------------- MODULE EventHubProofs ---------------------------
(***************************************************************************)
(* Proofs about EventHub, for any number of events and clients and any     *)
(* capacities.  The inductive invariant HubInv adds to the type invariant  *)
(* how broadcast's control ties in with the registry (Phases), where each  *)
(* event is in the order of acceptance (Queue), and what each client has   *)
(* got of the events taken so far (Past, StreamOrder, Delivered).          *)
(***************************************************************************)
EXTENDS EventHub, SequenceTheorems, TLAPS

\* The running Range has still to give its event to c.
Pending(c) == c \in todo \/ c = cur

\* Broadcast's control and the registry.
Phases ==
  /\ bpc = "recv" => todo = {}
  /\ cur \notin todo
  /\ \A c \in Client :
       /\ c \in sseClients <=> conn[c] \in {"stored", "streaming"}
       /\ c \in closed <=> conn[c] = "closed"
       /\ conn[c] = "absent" => ~Pending(c) /\ stream[c] = << >> /\ chan[c] = << >>

\* The order of acceptance: the queue holds the events after the taken ones.
Queue ==
  /\ \A i \in DOMAIN events : stamp[events[i]] = taken + i
  /\ ev # None => stamp[ev] = taken /\ stamp[ev] # 0
  /\ \A e \in Event : stamp[e] <= accepted /\ (e \notin offered => stamp[e] = 0)
  /\ \A e, f \in Event : stamp[e] = stamp[f] /\ stamp[e] # 0 => e = f

\* A client has got nothing that broadcast has not given out.
Past ==
  \A c \in Client : \A i \in DOMAIN Received(c) :
    /\ stamp[Received(c)[i]] \in 1 .. taken
    /\ Pending(c) => stamp[Received(c)[i]] < taken

\* A registered client has got every event taken since it joined, or is
\* about to, or its channel was full.
Delivered ==
  \A c \in sseClients, e \in Event :
    joined[c] < stamp[e] /\ stamp[e] <= taken
      => \/ e \in Elems(Received(c))
         \/ <<c, e>> \in lost
         \/ e = ev /\ Pending(c)

\* The inductive invariant.
HubInv ==
  TypeOK /\ Phases /\ Queue /\ Past /\ StreamOrder /\ Delivered

-----------------------------------------------------------------------------
(* Sequences.                                                              *)

\* What Append yields.
LEMMA AppendFacts ==
  ASSUME NEW S, NEW s \in Seq(S), NEW e \in S
  PROVE  /\ Append(s, e) \in Seq(S)
         /\ Len(Append(s, e)) = Len(s) + 1
         /\ DOMAIN Append(s, e) = 1 .. Len(s) + 1
         /\ \A i \in 1 .. Len(s) : Append(s, e)[i] = s[i]
         /\ Append(s, e)[Len(s) + 1] = e
OBVIOUS

\* To append to the second part is to append to the whole.
LEMMA ConcatAppend ==
  ASSUME NEW S, NEW s \in Seq(S), NEW q \in Seq(S), NEW e \in S
  PROVE  s \o Append(q, e) = Append(s \o q, e)
<1>1. s \o Append(q, e) \in Seq(S) /\ Append(s \o q, e) \in Seq(S)
  BY ConcatProperties, AppendFacts
<1>2. Len(s \o Append(q, e)) = Len(Append(s \o q, e))
  BY ConcatProperties, AppendFacts
<1>3. ASSUME NEW i \in 1 .. Len(s \o Append(q, e))
      PROVE  (s \o Append(q, e))[i] = Append(s \o q, e)[i]
  <2>1. /\ Len(s) \in Nat /\ Len(q) \in Nat /\ Append(q, e) \in Seq(S)
        /\ Len(Append(q, e)) = Len(q) + 1 /\ Len(s \o q) = Len(s) + Len(q)
        /\ i \in 1 .. Len(s) + Len(q) + 1
    BY ConcatProperties, AppendFacts
  <2>2. (s \o Append(q, e))[i] = IF i <= Len(s) THEN s[i] ELSE Append(q, e)[i - Len(s)]
    <3>1. Append(q, e) \in Seq(S) /\ i \in 1 .. Len(s) + Len(Append(q, e))
      BY <2>1
    <3> HIDE <2>1
    <3> QED BY <3>1, ConcatProperties
  <2>3. CASE i \in 1 .. Len(s) + Len(q)
    <3>1. Append(s \o q, e)[i] = (s \o q)[i]
      BY <2>1, <2>3, AppendFacts, ConcatProperties
    <3>2. (s \o q)[i] = IF i <= Len(s) THEN s[i] ELSE q[i - Len(s)]
      BY <2>3, ConcatProperties
    <3>3. i > Len(s) => Append(q, e)[i - Len(s)] = q[i - Len(s)]
      BY <2>1, <2>3, AppendFacts
    <3> QED BY <2>1, <2>2, <3>1, <3>2, <3>3
  <2>4. CASE i = Len(s) + Len(q) + 1
    <3>1. Append(s \o q, e)[i] = e
      BY <2>1, <2>4, AppendFacts, ConcatProperties
    <3>2. i - Len(s) = Len(q) + 1 /\ i > Len(s)
      BY <2>1, <2>4
    <3> QED BY <2>1, <2>2, <3>1, <3>2, AppendFacts
  <2> QED BY <2>1, <2>3, <2>4
<1> QED BY <1>1, <1>2, <1>3, SeqEqual

\* The head of the second part can move to the end of the first.
LEMMA ConcatMove ==
  ASSUME NEW S, NEW s \in Seq(S), NEW q \in Seq(S), q # << >>
  PROVE  Append(s, Head(q)) \o Tail(q) = s \o q
<1>1. Head(q) \in S /\ Tail(q) \in Seq(S) /\ Append(s, Head(q)) \in Seq(S)
  BY HeadTailProperties
<1>2. Len(Append(s, Head(q)) \o Tail(q)) = Len(s \o q)
  BY <1>1, ConcatProperties, AppendFacts, HeadTailProperties
<1>3. ASSUME NEW i \in 1 .. Len(s \o q)
      PROVE  (Append(s, Head(q)) \o Tail(q))[i] = (s \o q)[i]
  BY <1>1, ConcatProperties, AppendFacts, HeadTailProperties
<1>4. s \o q \in Seq(S) /\ Append(s, Head(q)) \o Tail(q) \in Seq(S)
  BY <1>1, ConcatProperties
<1> QED BY <1>2, <1>3, <1>4, SeqEqual

\* The elements after an Append.
LEMMA ElemsAppend ==
  ASSUME NEW S, NEW s \in Seq(S), NEW e \in S
  PROVE  Elems(Append(s, e)) = Elems(s) \cup {e}
<1>1. DOMAIN s = 1 .. Len(s) /\ Len(s) \in Nat
  OBVIOUS
<1> QED BY <1>1, AppendFacts DEF Elems

-----------------------------------------------------------------------------
(* The type invariant.                                                     *)

\* The initial state has its types.
LEMMA TypesInit == Init => TypeOK
BY HubAssumption DEF Init, TypeOK, BroadcastPc, ConnPc

\* Every step keeps the types.
LEMMA TypesNext == TypeOK /\ [Next]_vars => TypeOK'
<1> SUFFICES ASSUME TypeOK, [Next]_vars PROVE TypeOK'
  OBVIOUS
<1> USE HubAssumption DEF TypeOK, BroadcastPc, ConnPc
<1>1. ASSUME NEW e \in Event, Offer(e) PROVE TypeOK'
  <2>1. CASE Enqueue(e)
    BY <1>1, <2>1 DEF Offer, Enqueue
  <2>2. CASE DropAtHub(e)
    BY <1>1, <2>2 DEF Offer, DropAtHub
  <2> QED BY <1>1, <2>1, <2>2 DEF Offer
<1>2. CASE Take
  <2>1. /\ Head(events) \in Event /\ Tail(events) \in Seq(Event)
        /\ Len(Tail(events)) = Len(events) - 1
    BY <1>2, HeadTailProperties DEF Take
  <2> QED BY <1>2, <2>1 DEF Take
<1>3. ASSUME NEW c \in Client, Visit(c) PROVE TypeOK'
  BY <1>3 DEF Visit
<1>4. CASE Send
  <2>1. CASE SendPanics
    BY <1>4, <2>1 DEF Send, SendPanics
  <2>2. CASE SendBuffers
    <3>1. cur \in Client /\ ev \in Event
      BY <1>4 DEF Send
    <3>2. Append(chan[cur], ev) \in Seq(Event) /\ Len(Append(chan[cur], ev)) <= ChanCap
      BY <2>2, <3>1, AppendFacts DEF SendBuffers
    <3>3. chan' \in [Client -> Seq(Event)] /\ \A c \in Client : Len(chan'[c]) <= ChanCap
      BY <2>2, <3>1, <3>2 DEF SendBuffers
    <3> QED BY <1>4, <2>2, <3>3 DEF Send, SendBuffers
  <2>3. CASE SendDrops
    BY <1>4, <2>3 DEF Send, SendDrops
  <2> QED BY <1>4, <2>1, <2>2, <2>3 DEF Send
<1>5. CASE RangeEnd
  BY <1>5 DEF RangeEnd
<1>6. ASSUME NEW c \in Client, Connect(c) PROVE TypeOK'
  BY <1>6 DEF Connect, taken
<1>7. ASSUME NEW c \in Client, Greet(c) PROVE TypeOK'
  BY <1>7 DEF Greet
<1>8. ASSUME NEW c \in Client, Write(c) PROVE TypeOK'
  <2>1. /\ Head(chan[c]) \in Event /\ Tail(chan[c]) \in Seq(Event)
        /\ Len(Tail(chan[c])) = Len(chan[c]) - 1
    BY <1>8, HeadTailProperties DEF Write
  <2>2. Append(stream[c], Head(chan[c])) \in Seq(Event)
    BY <2>1
  <2>3. /\ chan' \in [Client -> Seq(Event)] /\ \A d \in Client : Len(chan'[d]) <= ChanCap
        /\ stream' \in [Client -> Seq(Event)]
    BY <1>8, <2>1, <2>2 DEF Write
  <2> QED BY <1>8, <2>3 DEF Write
<1>9. ASSUME NEW c \in Client, Delete(c) PROVE TypeOK'
  BY <1>9 DEF Delete
<1>10. ASSUME NEW c \in Client, Close(c) PROVE TypeOK'
  BY <1>10 DEF Close
<1>11. CASE UNCHANGED vars
  BY <1>11 DEF vars, code
<1> QED
  BY <1>1, <1>2, <1>3, <1>4, <1>5, <1>6, <1>7, <1>8, <1>9, <1>10, <1>11
  DEF Next, Broadcast, Handler

\* The hub's state keeps its types; neither h.events nor a client's channel
\* ever holds more than its capacity (proxy.go:49, 74).
THEOREM Types == Spec => []TypeOK
BY TypesInit, TypesNext, PTL DEF Spec

-----------------------------------------------------------------------------
(* Control and registry.                                                   *)

\* At first no client is connected.
LEMMA PhasesInit == Init => Phases
BY HubAssumption DEF Init, Phases, Pending

\* Every step keeps control and registry in step (proxy.go:55-66, 74-79).
LEMMA PhasesNext == TypeOK /\ Phases /\ [Next]_vars => Phases'
<1> SUFFICES ASSUME TypeOK, Phases, [Next]_vars PROVE Phases'
  OBVIOUS
<1> USE HubAssumption DEF Phases, Pending
<1>0. conn \in [Client -> ConnPc] /\ None \notin Client
  BY DEF TypeOK
<1>1. ASSUME NEW e \in Event, Offer(e) PROVE Phases'
  BY <1>1 DEF Offer
<1>2. CASE Take
  BY <1>0, <1>2 DEF Take, TypeOK
<1>3. ASSUME NEW c \in Client, Visit(c) PROVE Phases'
  BY <1>0, <1>3 DEF Visit
<1>4. CASE Send
  <2>1. cur \in Client /\ conn[cur] # "absent" /\ cur' = None /\ bpc' \in {"range", "panicked"}
    BY <1>4 DEF Send, SendPanics, SendBuffers, SendDrops, TypeOK
  <2>2. UNCHANGED <<todo, sseClients, closed, conn, stream>>
    BY <1>4 DEF Send
  <2>3. \A c \in Client \ {cur} : chan'[c] = chan[c]
    BY <1>4 DEF Send, SendPanics, SendBuffers, SendDrops, TypeOK
  <2>4. None \notin todo
    BY DEF TypeOK
  <2> QED BY <1>0, <2>1, <2>2, <2>3, <2>4
<1>5. CASE RangeEnd
  BY <1>0, <1>5 DEF RangeEnd
<1>6. ASSUME NEW c \in Client, Connect(c) PROVE Phases'
  <2>1. todo' \subseteq todo \cup {c} /\ cur' = cur /\ cur # c
    BY <1>6 DEF Connect
  <2> QED BY <1>0, <1>6, <2>1 DEF Connect
<1>7. ASSUME NEW c \in Client, Greet(c) PROVE Phases'
  BY <1>0, <1>7 DEF Greet
<1>8. ASSUME NEW c \in Client, Write(c) PROVE Phases'
  <2>1. \A d \in Client : d # c => stream'[d] = stream[d] /\ chan'[d] = chan[d]
    BY <1>8 DEF Write, TypeOK
  <2> QED BY <1>0, <1>8, <2>1 DEF Write
<1>9. ASSUME NEW c \in Client, Delete(c) PROVE Phases'
  BY <1>0, <1>9 DEF Delete
<1>10. ASSUME NEW c \in Client, Close(c) PROVE Phases'
  BY <1>0, <1>10 DEF Close
<1>11. CASE UNCHANGED vars
  BY <1>11 DEF vars, code
<1> QED
  BY <1>1, <1>2, <1>3, <1>4, <1>5, <1>6, <1>7, <1>8, <1>9, <1>10, <1>11
  DEF Next, Broadcast, Handler

-----------------------------------------------------------------------------
(* The order of acceptance.                                                *)

\* At first nothing has been accepted.
LEMMA QueueInit == Init => Queue
BY DEF Init, Queue, taken

\* Every step keeps h.events in the order of acceptance (proxy.go:56, 187-190).
LEMMA QueueNext == TypeOK /\ Queue /\ [Next]_vars => Queue'
<1> SUFFICES ASSUME TypeOK, Queue, [Next]_vars PROVE Queue'
  OBVIOUS
<1> USE HubAssumption
<1>0. /\ events \in Seq(Event) /\ accepted \in Nat /\ Len(events) \in 0 .. accepted
      /\ DOMAIN events = 1 .. Len(events)
  BY DEF TypeOK
<1>1. ASSUME NEW e \in Event, Offer(e) PROVE Queue'
  <2>1. CASE Enqueue(e)
    <3>1. stamp[e] = 0 /\ offered' = offered \cup {e} /\ ev' = ev
      BY <1>1 DEF Offer, Queue
    <3>2. /\ stamp' = [stamp EXCEPT ![e] = accepted + 1] /\ accepted' = accepted + 1
          /\ events' = Append(events, e)
      BY <2>1 DEF Enqueue
    <3>3. /\ stamp'[e] = accepted + 1
          /\ \A f \in Event \ {e} : stamp'[f] = stamp[f]
          /\ \A f \in Event : stamp[f] \in 0 .. accepted
      BY <3>2 DEF TypeOK, Queue
    <3>4. taken' = taken
      BY <1>0, <3>2, AppendFacts DEF taken
    <3>5. \A i \in DOMAIN events' : stamp'[events'[i]] = taken' + i
      <4> SUFFICES ASSUME NEW i \in DOMAIN events' PROVE stamp'[events'[i]] = taken + i
        BY <3>4
      <4>1. i \in 1 .. Len(events) + 1
        BY <1>0, <3>2, AppendFacts
      <4>2. CASE i \in 1 .. Len(events)
        <5>1. events'[i] = events[i] /\ events[i] \in Event
          BY <1>0, <3>2, <4>2, AppendFacts
        <5>2. stamp[events[i]] = taken + i
          BY <1>0, <4>2 DEF Queue
        <5>3. events[i] # e
          BY <1>0, <3>1, <4>2, <5>2 DEF taken
        <5> QED BY <3>3, <5>1, <5>2, <5>3
      <4>3. CASE i = Len(events) + 1
        <5>1. events'[i] = e
          BY <1>0, <3>2, <4>3, AppendFacts
        <5> QED BY <1>0, <3>3, <4>3, <5>1 DEF taken
      <4> QED BY <1>0, <4>1, <4>2, <4>3
    <3>6. ev' # None => stamp'[ev'] = taken' /\ stamp'[ev'] # 0
      BY <3>1, <3>3, <3>4 DEF Queue, TypeOK
    <3>7. \A f \in Event : stamp'[f] <= accepted' /\ (f \notin offered' => stamp'[f] = 0)
      BY <1>0, <3>1, <3>2, <3>3 DEF Queue
    <3>8. \A f, g \in Event : stamp'[f] = stamp'[g] /\ stamp'[f] # 0 => f = g
      BY <1>0, <3>3 DEF Queue
    <3> QED BY <3>5, <3>6, <3>7, <3>8 DEF Queue
  <2>2. CASE DropAtHub(e)
    BY <1>1, <2>2 DEF Offer, DropAtHub, Queue, taken
  <2> QED BY <1>1, <2>1, <2>2 DEF Offer
<1>2. CASE Take
  <2>1. /\ events # << >> /\ events' = Tail(events) /\ ev' = Head(events)
        /\ UNCHANGED <<stamp, accepted, offered>>
    BY <1>2 DEF Take
  <2>2. /\ Len(events') = Len(events) - 1 /\ DOMAIN events' = 1 .. Len(events) - 1
        /\ \A i \in 1 .. Len(events) - 1 : events'[i] = events[i + 1]
        /\ ev' = events[1] /\ Len(events) > 0
    BY <1>0, <2>1, HeadTailProperties
  <2>3. taken' = taken + 1 /\ taken \in Nat
    BY <1>0, <2>1, <2>2 DEF taken
  <2>4. \A i \in DOMAIN events' : stamp'[events'[i]] = taken' + i
    BY <1>0, <2>1, <2>2, <2>3 DEF Queue
  <2>5. stamp'[ev'] = taken' /\ stamp'[ev'] # 0
    BY <1>0, <2>1, <2>2, <2>3 DEF Queue
  <2> QED BY <2>1, <2>4, <2>5 DEF Queue
<1>3. ASSUME NEW c \in Client, Visit(c) PROVE Queue'
  BY <1>3 DEF Visit, Queue, taken
<1>4. CASE Send
  BY <1>4 DEF Send, Queue, taken
<1>5. CASE RangeEnd
  BY <1>5 DEF RangeEnd, Queue, taken
<1>6. ASSUME NEW c \in Client, Connect(c) PROVE Queue'
  BY <1>6 DEF Connect, Queue, taken
<1>7. ASSUME NEW c \in Client, Greet(c) PROVE Queue'
  BY <1>7 DEF Greet, Queue, taken
<1>8. ASSUME NEW c \in Client, Write(c) PROVE Queue'
  BY <1>8 DEF Write, Queue, taken
<1>9. ASSUME NEW c \in Client, Delete(c) PROVE Queue'
  BY <1>9 DEF Delete, Queue, taken
<1>10. ASSUME NEW c \in Client, Close(c) PROVE Queue'
  BY <1>10 DEF Close, Queue, taken
<1>11. CASE UNCHANGED vars
  BY <1>11 DEF vars, code, Queue, taken
<1> QED
  BY <1>1, <1>2, <1>3, <1>4, <1>5, <1>6, <1>7, <1>8, <1>9, <1>10, <1>11
  DEF Next, Broadcast, Handler

-----------------------------------------------------------------------------
(* What a client has received.                                             *)

\* The step that hands ev to the client cur.
Hands == Send /\ SendBuffers

\* What a client has received is a sequence of events.
LEMMA ReceivedType == TypeOK => \A c \in Client : Received(c) \in Seq(Event)
BY ConcatProperties DEF TypeOK, Received

\* A successful send adds its event to what one client has received.
LEMMA ReceivedHands ==
  ASSUME TypeOK, Hands
  PROVE  /\ cur \in Client /\ ev \in Event
         /\ \A c \in Client :
              Received(c)' = IF c = cur THEN Append(Received(c), ev) ELSE Received(c)
<1>1. cur \in Client /\ ev \in Event
  BY HubAssumption DEF TypeOK, Hands, Send
<1>2. /\ stream' = stream /\ chan'[cur] = Append(chan[cur], ev)
      /\ \A c \in Client \ {cur} : chan'[c] = chan[c]
  BY <1>1 DEF TypeOK, Hands, Send, SendBuffers
<1>3. stream[cur] \o Append(chan[cur], ev) = Append(stream[cur] \o chan[cur], ev)
  BY <1>1, ConcatAppend DEF TypeOK
<1> QED BY <1>1, <1>2, <1>3 DEF Received

\* No other step changes what a client has received: SSEHandler only moves
\* events from the channel to the stream (proxy.go:94-100).
LEMMA ReceivedKept ==
  ASSUME TypeOK, [Next]_vars, ~Hands, NEW c \in Client
  PROVE  Received(c)' = Received(c)
<1>1. ASSUME NEW d \in Client, Write(d) PROVE Received(c)' = Received(c)
  <2>1. CASE c = d
    <3>1. /\ stream'[c] = Append(stream[c], Head(chan[c])) /\ chan'[c] = Tail(chan[c])
          /\ chan[c] # << >>
      BY <1>1, <2>1 DEF Write, TypeOK
    <3>2. Append(stream[c], Head(chan[c])) \o Tail(chan[c]) = stream[c] \o chan[c]
      <4>1. stream[c] \in Seq(Event) /\ chan[c] \in Seq(Event)
        BY DEF TypeOK
      <4> QED BY <3>1, <4>1, ConcatMove
    <3> QED BY <3>1, <3>2 DEF Received
  <2>2. CASE c # d
    BY <1>1, <2>2 DEF Write, TypeOK, Received
  <2> QED BY <2>1, <2>2
<1>2. CASE UNCHANGED <<stream, chan>>
  BY <1>2 DEF Received
<1>3. ASSUME NEW d \in Client, Handler(d), ~Write(d) PROVE UNCHANGED <<stream, chan>>
  BY <1>3 DEF Handler, Connect, Greet, Delete, Close
<1>4. Broadcast => UNCHANGED <<stream, chan>>
  BY DEF Broadcast, Take, Visit, Send, SendPanics, SendDrops, RangeEnd, Hands
<1>5. ASSUME NEW e \in Event, Offer(e) PROVE UNCHANGED <<stream, chan>>
  BY <1>5 DEF Offer
<1>6. UNCHANGED vars => UNCHANGED <<stream, chan>>
  BY DEF vars, code
<1> QED BY <1>1, <1>2, <1>3, <1>4, <1>5, <1>6 DEF Next

\* An accepted event keeps its place.
LEMMA StampsKept ==
  ASSUME TypeOK, Queue, [Next]_vars, NEW e \in Event, stamp[e] # 0
  PROVE  stamp'[e] = stamp[e]
<1>1. ASSUME NEW f \in Event, Offer(f) PROVE stamp'[e] = stamp[e]
  <2>1. e # f
    BY <1>1 DEF Offer, Queue
  <2> QED BY <1>1, <2>1 DEF Offer, Enqueue, DropAtHub, TypeOK
<1>2. Broadcast => stamp' = stamp
  BY DEF Broadcast, Take, Visit, Send, RangeEnd
<1>3. ASSUME NEW d \in Client, Handler(d) PROVE stamp' = stamp
  BY <1>3 DEF Handler, Connect, Greet, Write, Delete, Close
<1>4. UNCHANGED vars => stamp' = stamp
  BY DEF vars
<1> QED BY <1>1, <1>2, <1>3, <1>4 DEF Next

\* Only a Take moves the number of events taken, and by one.
LEMMA TakenGrows ==
  ASSUME TypeOK, [Next]_vars
  PROVE  /\ taken \in Nat
         /\ taken' = IF Take THEN taken + 1 ELSE taken
<1>0. events \in Seq(Event) /\ accepted \in Nat /\ Len(events) \in 0 .. accepted
  BY DEF TypeOK
<1>1. ASSUME NEW f \in Event, Offer(f) PROVE taken' = taken /\ ~Take
  <2>1. CASE Enqueue(f)
    <3>1. /\ accepted' = accepted + 1 /\ events' = Append(events, f)
          /\ Len(Append(events, f)) = Len(events) + 1
      BY <1>0, <2>1, AppendFacts DEF Enqueue
    <3> QED BY <1>0, <1>1, <3>1 DEF taken, Offer, Take
  <2>2. CASE DropAtHub(f)
    BY <1>1, <2>2 DEF Offer, DropAtHub, Take, taken
  <2> QED BY <1>1, <2>1, <2>2 DEF Offer
<1>2. CASE Take
  <2>1. Len(Tail(events)) = Len(events) - 1 /\ Len(events) > 0
    BY <1>0, <1>2, HeadTailProperties DEF Take
  <2> QED BY <1>0, <1>2, <2>1 DEF Take, taken
<1>3. ASSUME Broadcast, ~Take PROVE taken' = taken
  BY <1>3 DEF Broadcast, Visit, Send, RangeEnd, taken
<1>4. ASSUME NEW d \in Client, Handler(d) PROVE taken' = taken /\ ~Take
  BY <1>4 DEF Handler, Connect, Greet, Write, Delete, Close, taken, Take, TypeOK
<1>5. UNCHANGED vars => taken' = taken
  BY DEF vars, code, taken
<1>6. UNCHANGED vars => ~Take
  BY <1>0, HeadTailProperties DEF vars, code, Take
<1> QED BY <1>0, <1>1, <1>2, <1>3, <1>4, <1>5, <1>6 DEF Next, taken

\* How a client comes to be pending.
LEMMA PendingStep ==
  ASSUME TypeOK, Phases, [Next]_vars, NEW c \in Client, Pending(c)'
  PROVE  \/ Take
         \/ Received(c) = << >> /\ ~Hands
         \/ Pending(c) /\ ~(Send /\ c = cur)
<1> USE HubAssumption DEF Pending
<1>0. None \notin Client /\ (bpc = "send" <=> cur # None) /\ (Send => bpc = "send")
  BY DEF TypeOK, Send
<1>1. ASSUME NEW e \in Event, Offer(e) PROVE Pending(c) /\ ~(Send /\ c = cur)
  <2>1. bpc' = bpc /\ UNCHANGED <<todo, cur>>
    BY <1>1 DEF Offer
  <2> QED BY <1>0, <2>1 DEF Send
<1>2. ASSUME NEW d \in Client, Visit(d) PROVE Pending(c) /\ ~(Send /\ c = cur)
  BY <1>0, <1>2 DEF Visit
<1>3. CASE Send
  <2>1. cur' = None /\ todo' = todo /\ cur \notin todo
    BY <1>3 DEF Send, Phases
  <2> QED BY <1>0, <2>1
<1>4. CASE RangeEnd
  BY <1>0, <1>4 DEF RangeEnd
<1>5. ASSUME NEW d \in Client, Connect(d)
      PROVE  (Received(c) = << >> /\ ~Hands) \/ (Pending(c) /\ ~(Send /\ c = cur))
  <2>1. cur' = cur /\ todo' \subseteq todo \cup {d} /\ conn[d] = "absent" /\ ~Send
    BY <1>5 DEF Connect, Send, TypeOK
  <2>2. CASE c = d
    <3>1. stream[c] = << >> /\ chan[c] = << >>
      BY <2>1, <2>2 DEF Phases
    <3> QED BY <2>1, <3>1, ConcatEmptySeq DEF Received, Hands
  <2> QED BY <2>1, <2>2
<1>6. ASSUME NEW d \in Client, Greet(d) \/ Write(d) \/ Delete(d) \/ Close(d)
      PROVE  Pending(c) /\ ~(Send /\ c = cur)
  <2>1. bpc' = bpc /\ UNCHANGED <<todo, cur>>
    BY <1>6 DEF Greet, Write, Delete, Close
  <2> QED BY <1>0, <2>1 DEF Send
<1>7. UNCHANGED vars => Pending(c) /\ ~(Send /\ c = cur)
  BY <1>0 DEF vars, code, Send
<1> QED BY <1>1, <1>2, <1>3, <1>4, <1>5, <1>6, <1>7 DEF Next, Broadcast, Handler

\* At first nobody has received anything.
LEMMA PastInit == Init => Past /\ StreamOrder
<1> SUFFICES ASSUME Init PROVE Past /\ StreamOrder
  OBVIOUS
<1>1. \A c \in Client : Received(c) = << >>
  BY ConcatEmptySeq DEF Init, Received
<1> QED BY <1>1 DEF Past, StreamOrder

\* Every step keeps what clients have received in order and in the past: a
\* send adds the event taken last to a client that had none so late.
LEMMA PastNext ==
  TypeOK /\ Phases /\ Queue /\ Past /\ StreamOrder /\ [Next]_vars
    => Past' /\ StreamOrder'
<1> SUFFICES ASSUME TypeOK, Phases, Queue, Past, StreamOrder, [Next]_vars,
                    NEW c \in Client
             PROVE  /\ \A i \in DOMAIN Received(c)' :
                         /\ stamp'[Received(c)'[i]] \in 1 .. taken'
                         /\ Pending(c)' => stamp'[Received(c)'[i]] < taken'
                    /\ \A i, j \in DOMAIN Received(c)' : i < j =>
                         stamp'[Received(c)'[i]] < stamp'[Received(c)'[j]]
  BY DEF Past, StreamOrder
<1> DEFINE R == Received(c)
<1>1. R \in Seq(Event) /\ DOMAIN R = 1 .. Len(R) /\ Len(R) \in Nat
  BY ReceivedType
<1>2. \A i \in DOMAIN R :
        /\ stamp[R[i]] \in 1 .. taken /\ R[i] \in Event
        /\ Pending(c) => stamp[R[i]] < taken
        /\ stamp'[R[i]] = stamp[R[i]]
  <2>1. \A i \in DOMAIN R : stamp[R[i]] \in 1 .. taken /\ R[i] \in Event
    BY <1>1 DEF Past
  <2>2. \A e \in Event : stamp[e] # 0 => stamp'[e] = stamp[e]
    BY StampsKept
  <2> QED BY <2>1, <2>2 DEF Past
<1>3. \A i, j \in DOMAIN R : i < j => stamp[R[i]] < stamp[R[j]]
  BY DEF StreamOrder
<1>4. taken \in Nat /\ taken' = IF Take THEN taken + 1 ELSE taken
  BY TakenGrows
<1>5. Pending(c)' => Take \/ (R = << >> /\ ~Hands) \/ (Pending(c) /\ ~(Send /\ c = cur))
  BY PendingStep
<1>6. CASE ~(Hands /\ c = cur)
  <2>1. Received(c)' = R
    BY <1>6, ReceivedHands, ReceivedKept
  <2> HIDE DEF R
  <2> QED BY <1>1, <1>2, <1>3, <1>4, <1>5, <2>1
<1>7. CASE Hands /\ c = cur
  <2>1. ev \in Event /\ Received(c)' = Append(R, ev)
    BY <1>7, ReceivedHands
  <2>2. ev # None /\ Send /\ bpc = "send" /\ Pending(c)
    BY <1>7, <2>1, HubAssumption DEF Hands, Send, Pending
  <2>3. stamp[ev] = taken /\ stamp[ev] # 0 /\ stamp'[ev] = stamp[ev]
    BY <2>1, <2>2, StampsKept DEF Queue
  <2>4. ~Take
    BY <2>2 DEF Take
  <2>5. ~Pending(c)'
    BY <1>5, <1>7, <2>2, <2>4
  <2> HIDE DEF R
  <2>6. /\ DOMAIN Append(R, ev) = 1 .. Len(R) + 1
        /\ \A i \in 1 .. Len(R) : Append(R, ev)[i] = R[i]
        /\ Append(R, ev)[Len(R) + 1] = ev
    BY <1>1, <2>1, AppendFacts
  <2>7. \A i \in 1 .. Len(R) : stamp'[Append(R, ev)[i]] \in 1 .. taken - 1
    BY <1>1, <1>2, <1>4, <2>2, <2>6
  <2>8. stamp'[Append(R, ev)[Len(R) + 1]] = taken /\ taken' = taken /\ taken # 0
    BY <1>4, <2>3, <2>4, <2>6
  <2>9. \A i \in 1 .. Len(R) + 1 : stamp'[Append(R, ev)[i]] \in 1 .. taken'
    BY <1>1, <1>4, <2>7, <2>8
  <2>10. ASSUME NEW i \in 1 .. Len(R) + 1, NEW j \in 1 .. Len(R) + 1, i < j
         PROVE  stamp'[Append(R, ev)[i]] < stamp'[Append(R, ev)[j]]
    <3>1. CASE j = Len(R) + 1
      BY <1>1, <1>4, <2>7, <2>8, <2>10, <3>1
    <3>2. CASE j # Len(R) + 1
      <4>1. i \in 1 .. Len(R) /\ j \in 1 .. Len(R)
        BY <1>1, <2>10, <3>2
      <4> QED BY <1>1, <1>2, <1>3, <2>6, <2>10, <4>1
    <3> QED BY <3>1, <3>2
  <2> QED BY <2>1, <2>5, <2>6, <2>9, <2>10
<1> QED BY <1>6, <1>7

-----------------------------------------------------------------------------
(* What a registered client is owed.                                       *)

\* At first no client is registered.
LEMMA DeliveredInit == Init => Delivered
BY DEF Init, Delivered

\* What has been received stays received.
LEMMA ElemsKept ==
  ASSUME TypeOK, [Next]_vars, NEW c \in Client, NEW e \in Elems(Received(c))
  PROVE  e \in Elems(Received(c))'
<1>1. CASE Hands /\ c = cur
  <2>1. ev \in Event /\ Received(c)' = Append(Received(c), ev)
    BY <1>1, ReceivedHands
  <2>2. Elems(Append(Received(c), ev)) = Elems(Received(c)) \cup {ev}
    BY <2>1, ReceivedType, ElemsAppend
  <2> QED BY <2>1, <2>2 DEF Elems
<1>2. CASE ~(Hands /\ c = cur)
  <2>1. Received(c)' = Received(c)
    BY <1>2, ReceivedHands, ReceivedKept
  <2> QED BY <2>1 DEF Elems
<1> QED BY <1>1, <1>2

\* An event that is pending for a registered client stays so until it is
\* handed over or dropped.
LEMMA PendingEnds ==
  ASSUME TypeOK, Phases, [Next]_vars, NEW c \in sseClients, Pending(c), ev # None
  PROVE  \/ ev' = ev /\ Pending(c)'
         \/ ev \in Elems(Received(c))'
         \/ <<c, ev>> \in lost'
<1> USE HubAssumption
<1>0. c \in Client /\ c # None /\ c \notin closed
  BY DEF TypeOK, Phases
<1>1. ASSUME NEW e \in Event, Offer(e) PROVE ev' = ev /\ Pending(c)'
  BY <1>1 DEF Offer, Pending
<1>2. ~Take
  BY DEF Take, TypeOK
<1>3. ASSUME NEW d \in Client, Visit(d) PROVE ev' = ev /\ Pending(c)'
  BY <1>0, <1>3 DEF Visit, Pending, TypeOK
<1>4. CASE Send
  <2>1. CASE c # cur
    BY <1>4, <2>1 DEF Send, Pending
  <2>2. CASE c = cur /\ SendBuffers
    <3>1. ev \in Event /\ Received(c)' = Append(Received(c), ev)
      BY <1>4, <2>2, ReceivedHands DEF Hands
    <3>2. Elems(Append(Received(c), ev)) = Elems(Received(c)) \cup {ev}
      BY <1>0, <3>1, ReceivedType, ElemsAppend
    <3> QED BY <3>1, <3>2 DEF Elems
  <2>3. CASE c = cur /\ SendDrops
    BY <2>3 DEF SendDrops
  <2>4. CASE c = cur /\ SendPanics
    BY <1>0, <2>4 DEF SendPanics
  <2> QED BY <1>4, <2>1, <2>2, <2>3, <2>4 DEF Send
<1>5. ~RangeEnd
  BY <1>0 DEF RangeEnd, Pending, TypeOK
<1>6. ASSUME NEW d \in Client, Handler(d) PROVE ev' = ev /\ Pending(c)'
  BY <1>6 DEF Handler, Connect, Greet, Write, Delete, Close, Pending
<1>7. UNCHANGED vars => ev' = ev /\ Pending(c)'
  BY DEF vars, code, Pending
<1> QED BY <1>1, <1>2, <1>3, <1>4, <1>5, <1>6, <1>7 DEF Next, Broadcast

\* A client in the registry after a step was there before, or owes nothing.
LEMMA Membership ==
  ASSUME TypeOK, [Next]_vars, NEW c \in sseClients'
  PROVE  \/ c \in sseClients /\ joined'[c] = joined[c]
         \/ c \in Client /\ joined'[c] = taken /\ ~Take
<1>1. ASSUME NEW d \in Client, Connect(d)
      PROVE  (c \in sseClients /\ joined'[c] = joined[c])
               \/ (c \in Client /\ joined'[c] = taken /\ ~Take)
  <2>1. ~Take
    BY <1>1 DEF Connect, Take, TypeOK
  <2>2. CASE c = d
    BY <1>1, <2>1, <2>2 DEF Connect, TypeOK
  <2>3. CASE c # d
    BY <1>1, <2>3 DEF Connect, TypeOK
  <2> QED BY <2>2, <2>3
<1>2. ASSUME NEW d \in Client, Greet(d) \/ Write(d) \/ Delete(d) \/ Close(d)
      PROVE  c \in sseClients /\ joined'[c] = joined[c]
  BY <1>2 DEF Greet, Write, Delete, Close
<1>3. Broadcast => c \in sseClients /\ joined'[c] = joined[c]
  BY DEF Broadcast, Take, Visit, Send, RangeEnd
<1>4. ASSUME NEW e \in Event, Offer(e) PROVE c \in sseClients /\ joined'[c] = joined[c]
  BY <1>4 DEF Offer
<1>5. UNCHANGED vars => c \in sseClients /\ joined'[c] = joined[c]
  BY DEF vars, code
<1> QED BY <1>1, <1>2, <1>3, <1>4, <1>5 DEF Next, Handler

\* A loss stays recorded.
LEMMA LostKept == TypeOK /\ [Next]_vars => lost \subseteq lost'
BY DEF Next, Offer, Broadcast, Take, Visit, Send, SendPanics, SendBuffers,
       SendDrops, RangeEnd, Handler, Connect, Greet, Write, Delete, Close, vars

\* A newly accepted event has not been taken.
LEMMA StampNew ==
  ASSUME TypeOK, Queue, [Next]_vars, NEW e \in Event, stamp[e] = 0, stamp'[e] # 0
  PROVE  stamp'[e] > taken'
<1>1. ASSUME NEW f \in Event, Offer(f) PROVE stamp'[e] > taken'
  <2>1. Enqueue(f) /\ f = e
    BY <1>1 DEF Offer, Enqueue, DropAtHub, TypeOK
  <2>2. stamp'[e] = accepted + 1
    BY <2>1 DEF Enqueue, TypeOK
  <2>3. taken' = taken /\ taken <= accepted /\ accepted \in Nat /\ taken \in Nat
    <3>1. ~Take
      BY <1>1, <2>1 DEF Offer, Take
    <3> QED BY <3>1, TakenGrows DEF taken, TypeOK
  <2> QED BY <2>2, <2>3
<1>2. Broadcast => stamp' = stamp
  BY DEF Broadcast, Take, Visit, Send, RangeEnd
<1>3. ASSUME NEW d \in Client, Handler(d) PROVE stamp' = stamp
  BY <1>3 DEF Handler, Connect, Greet, Write, Delete, Close
<1>4. UNCHANGED vars => stamp' = stamp
  BY DEF vars
<1> QED BY <1>1, <1>2, <1>3, <1>4 DEF Next

\* Every step keeps the account of what registered clients are owed.
LEMMA DeliveredNext ==
  TypeOK /\ Phases /\ Queue /\ Delivered /\ [Next]_vars => Delivered'
<1> SUFFICES ASSUME TypeOK, Phases, Queue, Delivered, [Next]_vars,
                    NEW c \in sseClients', NEW e \in Event,
                    joined'[c] < stamp'[e], stamp'[e] <= taken'
             PROVE  \/ e \in Elems(Received(c))'
                    \/ <<c, e>> \in lost'
                    \/ e = ev' /\ Pending(c)'
  BY DEF Delivered
<1>1. taken \in Nat /\ taken' = IF Take THEN taken + 1 ELSE taken
  BY TakenGrows
<1>2. stamp[e] \in Nat /\ TypeOK'
  BY TypesNext DEF TypeOK
<1>3. c \in Client /\ joined'[c] \in Nat /\ stamp'[e] \in Nat
  BY <1>2 DEF TypeOK
<1>4. stamp'[e] = stamp[e] /\ stamp[e] # 0
  <2>1. stamp'[e] # 0
    BY <1>3
  <2>2. stamp[e] # 0
    BY <1>1, <1>3, <2>1, StampNew
  <2> QED BY <2>2, StampsKept
<1>5. c \in sseClients /\ joined'[c] = joined[c]
  BY <1>1, <1>3, Membership
<1>6. CASE stamp[e] <= taken
  <2>1. \/ e \in Elems(Received(c))
        \/ <<c, e>> \in lost
        \/ e = ev /\ Pending(c)
    BY <1>4, <1>5, <1>6 DEF Delivered
  <2>2. CASE e \in Elems(Received(c))
    BY <1>3, <2>2, ElemsKept
  <2>3. CASE <<c, e>> \in lost
    BY <2>3, LostKept
  <2>4. CASE e = ev /\ Pending(c)
    <3>1. ev # None
      BY <2>4, HubAssumption
    <3> QED BY <1>5, <2>4, <3>1, PendingEnds
  <2> QED BY <2>1, <2>2, <2>3, <2>4
<1>7. CASE ~(stamp[e] <= taken)
  <2>1. Take /\ stamp[e] = taken + 1
    BY <1>1, <1>2, <1>4, <1>7
  <2>2. /\ events # << >> /\ ev' = Head(events) /\ todo' = sseClients
    BY <2>1 DEF Take
  <2>3. /\ 1 \in DOMAIN events /\ events[1] = Head(events) /\ events[1] \in Event
    BY <2>2 DEF TypeOK
  <2>4. stamp[events[1]] = taken + 1
    BY <2>3 DEF Queue
  <2>5. e = events[1]
    BY <1>4, <2>1, <2>3, <2>4 DEF Queue
  <2> QED BY <1>5, <2>2, <2>3, <2>5 DEF Pending
<1> QED BY <1>6, <1>7

-----------------------------------------------------------------------------
(* The theorems.                                                           *)

\* The inductive invariant holds at first.
LEMMA HubInvInit == Init => HubInv
BY TypesInit, PhasesInit, QueueInit, PastInit, DeliveredInit DEF HubInv

\* The invariant is inductive.
LEMMA HubInvNext == HubInv /\ [Next]_vars => HubInv'
BY TypesNext, PhasesNext, QueueNext, PastNext, DeliveredNext DEF HubInv

\* The inductive invariant holds throughout.
THEOREM Invariance == Spec => []HubInv
BY HubInvInit, HubInvNext, PTL DEF Spec

\* Every client sees events in the order of acceptance and none twice, for any
\* number of clients, events and places (proxy.go:55-103).
THEOREM Order == Spec => []StreamOrder
<1>1. HubInv => StreamOrder
  BY DEF HubInv
<1> QED BY <1>1, Invariance, PTL

\* Between two broadcasts a registered client lacks only what found its own
\* channel full: dropping for one client harms no other (proxy.go:57-64).
THEOREM Loss == Spec => []NoUndueLoss
<1>1. HubInv => NoUndueLoss
  <2> SUFFICES ASSUME HubInv, bpc = "recv", NEW c \in sseClients, NEW e \in Event,
                      joined[c] < stamp[e], stamp[e] <= taken
               PROVE  e \in Elems(Received(c)) \/ <<c, e>> \in lost
    BY DEF NoUndueLoss
  <2>1. ev = None /\ e # None
    BY HubAssumption DEF HubInv, TypeOK
  <2> QED BY <2>1 DEF HubInv, Delivered
<1> QED BY <1>1, Invariance, PTL

\* The registry holds open channels only (proxy.go:76-79).
THEOREM Open == Spec => []RegisteredIsOpen
<1>1. HubInv => RegisteredIsOpen
  BY DEF HubInv, Phases, TypeOK, RegisteredIsOpen
<1> QED BY <1>1, Invariance, PTL

\* The hub starts where the abstract multicast starts.
LEMMA MulticastInit == Init => Multicast!Init
<1> SUFFICES ASSUME Init PROVE Multicast!Init
  OBVIOUS
<1>1. \A c \in Client : Received(c) = << >>
  BY ConcatEmptySeq DEF Init, Received
<1> QED BY <1>1 DEF Init, Multicast!Init

\* A step of the hub is an acceptance, a delivery or nothing of the multicast.
LEMMA MulticastStep ==
  HubInv /\ [Next]_vars => [Multicast!Next]_(Multicast!mvars)
<1> SUFFICES ASSUME HubInv, [Next]_vars
             PROVE  Multicast!Next \/ UNCHANGED Multicast!mvars
  OBVIOUS
<1> DEFINE got == [c \in Client |-> Received(c)]
<1>0. TypeOK /\ Queue /\ Past
  BY DEF HubInv
<1>1. CASE Hands
  <2>1. PICK c \in Client : c = cur
    BY <1>0, <1>1, ReceivedHands
  <2>2. ev \in Event /\ got' = [got EXCEPT ![c] = Append(got[c], ev)]
    BY <1>0, <1>1, <2>1, ReceivedHands
  <2>3. stamp[ev] = taken /\ stamp[ev] # 0
    BY <1>0, <2>2, HubAssumption DEF Queue
  <2>4. \A i \in DOMAIN got[c] : stamp[got[c][i]] < stamp[ev]
    BY <1>0, <2>1, <2>3 DEF Past, Pending
  <2>5. accepted' = accepted /\ stamp' = stamp
    BY <1>1 DEF Hands, Send
  <2>6. Multicast!Deliver(c, ev)
    BY <2>2, <2>3, <2>4, <2>5 DEF Multicast!Deliver
  <2> QED BY <2>2, <2>6 DEF Multicast!Next
<1>2. ASSUME NEW e \in Event, Offer(e), Enqueue(e), ~Hands PROVE Multicast!Next
  <2>1. stamp[e] = 0
    BY <1>0, <1>2 DEF Offer, Queue
  <2>2. got' = got
    BY <1>0, <1>2, ReceivedKept
  <2>3. Multicast!Accept(e)
    BY <1>2, <2>1, <2>2 DEF Enqueue, Multicast!Accept
  <2> QED BY <2>3 DEF Multicast!Next
<1>3. ASSUME ~Hands, ~(\E e \in Event : Offer(e) /\ Enqueue(e))
      PROVE  UNCHANGED Multicast!mvars
  <2>1. got' = got
    BY <1>0, <1>3, ReceivedKept
  <2>2. ASSUME NEW e \in Event, Offer(e) PROVE UNCHANGED <<accepted, stamp>>
    BY <1>3, <2>2 DEF Offer, DropAtHub
  <2>3. Broadcast => UNCHANGED <<accepted, stamp>>
    BY DEF Broadcast, Take, Visit, Send, RangeEnd
  <2>4. ASSUME NEW d \in Client, Handler(d) PROVE UNCHANGED <<accepted, stamp>>
    BY <2>4 DEF Handler, Connect, Greet, Write, Delete, Close
  <2>5. UNCHANGED vars => UNCHANGED <<accepted, stamp>>
    BY DEF vars
  <2> QED BY <2>1, <2>2, <2>3, <2>4, <2>5 DEF Next, Multicast!mvars
<1> QED BY <1>1, <1>2, <1>3

\* The hub implements the lossy ordered multicast.
THEOREM Refinement == Spec => ImplementsMulticast
BY MulticastInit, MulticastStep, Invariance, PTL DEF Spec, ImplementsMulticast, Multicast!Spec
=============================================================================
