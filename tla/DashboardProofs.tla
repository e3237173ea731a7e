-------------------------- MODULE DashboardProofs --------------------------
(***************************************************************************)
(* Proofs about Dashboard, for any routes and for any sizes of what the    *)
(* page keeps, and however long it is watched.                             *)
(*                                                                         *)
(* The inductive invariant Inv says of each thing shown from which events  *)
(* it stems: the kept events are the last to have arrived (Placed); the    *)
(* metrics are those of the kept events at some time past (Computed); the  *)
(* chart's end is what the metrics were when the effects last ran (Drawn); *)
(* the badge's text is that of the latest event or of another label        *)
(* (Spelt); and, of one proxy, no event that waits to be rendered, or to   *)
(* be animated, has the id that was animated last (OneProxy).              *)
(***************************************************************************)
EXTENDS Dashboard, Sums, SequenceTheorems

\* The events keep the order of their arrival, and only those are gone that the
\* list has no room for.
Placed ==
  /\ \A i \in 1 .. Len(queued) : queued[i].serial = arrivals - Len(queued) + i
  /\ \A i \in 1 .. Len(events) : events[i].serial = arrivals - Len(queued) + 1 - i
  /\ Len(events) = MAX_EVENTS \/ Len(queued) + Len(events) = arrivals

Arrived == Range(queued) \cup Range(events)

\* What holds of the ids as long as the proxy has not restarted.
OneProxy ==
  restarts = 0 =>
    /\ \A e \in Arrived : e.id \in issued
    /\ \A d, e \in Arrived : d.id = e.id => d = e
    /\ prevId \in issued \cup {None}
    /\ \A e \in Range(queued) : e.id # prevId
    /\ effects => Head(events).id # prevId

Computed == \E t \in 0 .. now : metrics = Snapshots(events, t)

Drawn ==
  /\ effects => events # << >>
  /\ up /\ ~effects => /\ Last(history) = Point
                       /\ events # << >> => Len(history) > 1

Spelt ==
  /\ events = << >> => block = None
  /\ events # << >> => /\ block \in Traffic
                       /\ block.label = Head(events).label => block = Head(events)

\* The inductive invariant.
Inv ==
  /\ TypeOK
  /\ Placed /\ OneProxy /\ Computed /\ Drawn /\ Spelt
  /\ PacketShowsLatestOfOneProxy

-----------------------------------------------------------------------------
(* The operators on lists.                                                 *)

\* The bounds are numbers.
LEMMA Sizes ==
  /\ MAX_EVENTS \in Nat \ {0} /\ RPS_WINDOW \in Nat \ {0} /\ MAX_ROWS \in Nat \ {0}
  /\ MAX_POINTS \in Nat \ {0, 1}
  /\ MaxArrivals \in Nat /\ MaxRestarts \in Nat /\ MaxTime \in Nat
BY DashboardAssumption

\* slice(0, n).
LEMMA TakeFacts ==
  ASSUME NEW S, NEW s \in Seq(S), NEW n \in Nat
  PROVE  /\ Take(s, n) \in Seq(S)
         /\ Len(Take(s, n)) = IF Len(s) < n THEN Len(s) ELSE n
         /\ \A i \in 1 .. Len(Take(s, n)) : Take(s, n)[i] = s[i]
<1> DEFINE m == IF Len(s) < n THEN Len(s) ELSE n
<1>1. m \in 0 .. Len(s) /\ Len(s) \in Nat
  OBVIOUS
<1>2. Take(s, n) = SubSeq(s, 1, m)
  BY DEF Take
<1> HIDE DEF m
<1>3. /\ SubSeq(s, 1, m) \in Seq(S) /\ Len(SubSeq(s, 1, m)) = m
      /\ \A i \in 1 .. m : SubSeq(s, 1, m)[i] = s[i]
  BY <1>1, SubSeqProperties
<1> QED BY <1>2, <1>3 DEF m

\* A reversed list.
LEMMA ReverseFacts ==
  ASSUME NEW S, NEW s \in Seq(S)
  PROVE  /\ Reverse(s) \in Seq(S)
         /\ Len(Reverse(s)) = Len(s)
         /\ \A i \in 1 .. Len(s) : Reverse(s)[i] = s[Len(s) - i + 1]
<1>1. Len(s) \in Nat /\ \A i \in 1 .. Len(s) : Len(s) - i + 1 \in 1 .. Len(s) /\ s[i] \in S
  OBVIOUS
<1>2. Reverse(s) = [i \in 1 .. Len(s) |-> s[(Len(s) - i) + 1]]
  BY DEF Reverse
<1> QED BY <1>1, <1>2

\* The updates of a batch put its events in front, the last of them first
\* (useTrafficStream.ts:17-24).
LEMMA PrependFacts ==
  ASSUME NEW S, NEW prev \in Seq(S), NEW evs \in Seq(S)
  PROVE  /\ Prepend(prev, evs) \in Seq(S)
         /\ Len(Prepend(prev, evs)) = IF Len(evs) + Len(prev) < MAX_EVENTS
                                      THEN Len(evs) + Len(prev) ELSE MAX_EVENTS
         /\ \A i \in 1 .. Len(Prepend(prev, evs)) :
              Prepend(prev, evs)[i] = IF i <= Len(evs) THEN evs[Len(evs) - i + 1]
                                      ELSE prev[i - Len(evs)]
<1> DEFINE r == Reverse(evs)
           a == r \o prev
           t == Take(a, MAX_EVENTS)
<1>1. r \in Seq(S) /\ Len(r) = Len(evs) /\ \A i \in 1 .. Len(evs) : r[i] = evs[Len(evs) - i + 1]
  BY ReverseFacts
<1> HIDE DEF r
<1>2. /\ a \in Seq(S) /\ Len(a) = Len(r) + Len(prev)
      /\ \A i \in 1 .. Len(r) + Len(prev) : a[i] = IF i <= Len(r) THEN r[i] ELSE prev[i - Len(r)]
  <2>1. /\ r \o prev \in Seq(S) /\ Len(r \o prev) = Len(r) + Len(prev)
        /\ \A i \in 1 .. Len(r) + Len(prev) :
             (r \o prev)[i] = IF i <= Len(r) THEN r[i] ELSE prev[i - Len(r)]
    <3>1. r \in Seq(S)
      BY <1>1
    <3> QED BY <3>1, ConcatProperties
  <2> QED BY <2>1
<1> HIDE DEF a
<1>3. /\ t \in Seq(S) /\ Len(t) = IF Len(a) < MAX_EVENTS THEN Len(a) ELSE MAX_EVENTS
      /\ \A i \in 1 .. Len(t) : t[i] = a[i]
  BY <1>2, Sizes, TakeFacts
<1>4. Prepend(prev, evs) = t
  BY DEF Prepend, t, a, r
<1> HIDE DEF t
<1>5. Len(evs) \in Nat /\ Len(prev) \in Nat /\ Len(t) \in Nat /\ Len(a) \in Nat
  BY <1>2, <1>3
<1>6. Len(t) = IF Len(evs) + Len(prev) < MAX_EVENTS THEN Len(evs) + Len(prev) ELSE MAX_EVENTS
  BY <1>1, <1>2, <1>3
<1>7. ASSUME NEW i \in 1 .. Len(t)
      PROVE  t[i] = IF i <= Len(evs) THEN evs[Len(evs) - i + 1] ELSE prev[i - Len(evs)]
  <2>1. i \in Nat /\ i >= 1 /\ i <= Len(t) /\ Len(t) <= Len(evs) + Len(prev)
    BY <1>5, <1>6, Sizes
  <2>2. i \in 1 .. Len(r) + Len(prev) /\ t[i] = a[i]
    BY <1>1, <1>3, <1>5, <2>1
  <2>3. CASE i <= Len(evs)
    <3>1. i \in 1 .. Len(evs) /\ i <= Len(r)
      BY <1>1, <2>1, <2>3
    <3> QED BY <1>1, <1>2, <2>2, <2>3, <3>1
  <2>4. CASE ~(i <= Len(evs))
    BY <1>1, <1>2, <2>2, <2>4
  <2> QED BY <2>3, <2>4
<1> QED BY <1>3, <1>4, <1>6, <1>7

\* A new point is the chart's last, and pushes out the first of a full chart
\* (MetricsBar.tsx:23-34).
LEMMA ChartFacts ==
  ASSUME NEW S, NEW h \in Seq(S), NEW x \in S
  PROVE  LET c == Reverse(Take(Reverse(Append(h, x)), MAX_POINTS))
         IN  /\ c \in Seq(S)
             /\ Len(c) = IF Len(h) + 1 < MAX_POINTS THEN Len(h) + 1 ELSE MAX_POINTS
             /\ Last(c) = x
<1> DEFINE b == Append(h, x)
           r == Reverse(b)
           t == Take(r, MAX_POINTS)
           c == Reverse(t)
<1>1. b \in Seq(S) /\ Len(b) = Len(h) + 1 /\ b[Len(h) + 1] = x /\ Len(h) \in Nat
  OBVIOUS
<1> HIDE DEF b
<1>2. r \in Seq(S) /\ Len(r) = Len(b) /\ \A i \in 1 .. Len(b) : r[i] = b[Len(b) - i + 1]
  BY <1>1, ReverseFacts
<1> HIDE DEF r
<1>3. /\ t \in Seq(S) /\ Len(t) = IF Len(r) < MAX_POINTS THEN Len(r) ELSE MAX_POINTS
      /\ \A i \in 1 .. Len(t) : t[i] = r[i]
  BY <1>2, Sizes, TakeFacts
<1> HIDE DEF t
<1>4. c \in Seq(S) /\ Len(c) = Len(t) /\ \A i \in 1 .. Len(t) : c[i] = t[Len(t) - i + 1]
  BY <1>3, ReverseFacts
<1> HIDE DEF c
<1>5. 1 \in 1 .. Len(b) /\ Len(b) - 1 + 1 = Len(h) + 1
  BY <1>1
<1>6. 1 \in 1 .. Len(t) /\ Len(t) \in 1 .. Len(t) /\ Len(t) - Len(t) + 1 = 1
  BY <1>1, <1>2, <1>3, Sizes
<1>7. c[Len(c)] = x
  <2>1. c[Len(c)] = t[Len(t) - Len(t) + 1]
    BY <1>4, <1>6
  <2>2. t[1] = r[1] /\ r[1] = b[Len(b) - 1 + 1]
    BY <1>2, <1>3, <1>5, <1>6
  <2> QED BY <1>1, <1>5, <1>6, <2>1, <2>2
<1>8. Len(c) = IF Len(h) + 1 < MAX_POINTS THEN Len(h) + 1 ELSE MAX_POINTS
  BY <1>1, <1>2, <1>3, <1>4
<1> QED BY <1>4, <1>7, <1>8 DEF Last, b, r, t, c
-----------------------------------------------------------------------------
(* The metrics.                                                            *)

\* The places of a list of n events are n.
LEMMA Places ==
  ASSUME NEW n \in Nat
  PROVE  IsFiniteSet(1 .. n) /\ Cardinality(1 .. n) = n
<1>1. IsFiniteSet(1 .. n) /\ Cardinality(1 .. n) = IF 1 > n THEN 0 ELSE n - 1 + 1
  BY FS_Interval
<1> QED BY <1>1

\* Each kept event is a TrafficEvent.
LEMMA Entries ==
  ASSUME NEW evs \in Seq(Traffic)
  PROVE  /\ Len(evs) \in Nat /\ DOMAIN evs = 1 .. Len(evs)
         /\ \A i \in 1 .. Len(evs) : /\ evs[i] \in Traffic
                                    /\ evs[i].label \in RouteLabel \cup {Unknown}
                                    /\ evs[i].timestamp \in Int
<1>1. /\ Len(evs) \in Nat /\ DOMAIN evs = 1 .. Len(evs)
      /\ \A i \in 1 .. Len(evs) : evs[i] \in Traffic
  OBVIOUS
<1>2. \A e \in Traffic : e.label \in RouteLabel \cup {Unknown} /\ e.timestamp \in Int
  BY DEF Traffic
<1> QED BY <1>1, <1>2

\* What filter counts is no more than there is.
LEMMA CountFacts ==
  ASSUME NEW evs \in Seq(Traffic), NEW l
  PROVE  /\ Cardinality(Labelled(evs, l)) \in 0 .. Len(evs)
         /\ \A t \in Nat : Cardinality(Recent(evs, l, t)) \in 0 .. Len(evs)
<1>1. /\ Len(evs) \in Nat /\ DOMAIN evs = 1 .. Len(evs)
      /\ \A i \in 1 .. Len(evs) : evs[i].timestamp \in Int
  BY Entries
<1>2. IsFiniteSet(1 .. Len(evs)) /\ Cardinality(1 .. Len(evs)) = Len(evs)
  BY <1>1, Places
<1>3. ASSUME NEW P \in SUBSET (1 .. Len(evs))
      PROVE  IsFiniteSet(P) /\ Cardinality(P) \in 0 .. Len(evs)
  <2>1. IsFiniteSet(P) /\ Cardinality(P) <= Cardinality(1 .. Len(evs))
    BY <1>2, FS_Subset
  <2>2. Cardinality(P) \in Nat
    BY <2>1, FS_CardinalityType
  <2> QED BY <1>1, <1>2, <2>1, <2>2
<1>4. Labelled(evs, l) \in SUBSET (1 .. Len(evs))
  BY <1>1 DEF Labelled
<1>5. ASSUME NEW t \in Nat PROVE Recent(evs, l, t) \in SUBSET (1 .. Len(evs))
  BY <1>4 DEF Recent
<1> QED BY <1>3, <1>4, <1>5

\* What useMemo computes has the type of the metrics.
LEMMA SnapshotsType ==
  ASSUME NEW evs \in Seq(Traffic), Len(evs) <= MAX_EVENTS, NEW t \in Nat
  PROVE  Snapshots(evs, t) \in [RouteLabel -> [count : 0 .. MAX_EVENTS, recent : 0 .. MAX_EVENTS]]
<1>1. Len(evs) \in Nat /\ \A n \in 0 .. Len(evs) : n \in 0 .. MAX_EVENTS
  BY Sizes
<1>2. ASSUME NEW l \in RouteLabel
      PROVE  /\ Cardinality(Labelled(evs, l)) \in 0 .. MAX_EVENTS
             /\ Cardinality(Recent(evs, l, t)) \in 0 .. MAX_EVENTS
  BY <1>1, CountFacts
<1> QED BY <1>2 DEF Snapshots

\* Every event is counted for exactly one route, or has no label.
LEMMA CountsAdd ==
  ASSUME NEW evs \in Seq(Traffic)
  PROVE  SumFunction([l \in RouteLabel |-> Cardinality(Labelled(evs, l))])
           + Cardinality(Labelled(evs, Unknown)) = Len(evs)
<1> DEFINE D == 1 .. Len(evs)
           lab == [i \in D |-> evs[i].label]
           Routed == {i \in D : lab[i] \in RouteLabel}
           Rest == {i \in D : lab[i] = Unknown}
<1>1. /\ Len(evs) \in Nat /\ DOMAIN evs = D
      /\ \A i \in D : lab[i] = evs[i].label /\ lab[i] \in RouteLabel \cup {Unknown}
  BY Entries
<1>2. IsFiniteSet(D) /\ Cardinality(D) = Len(evs)
  BY <1>1, Places
<1>3. /\ \A l : Labelled(evs, l) = {i \in D : lab[i] = l}
      /\ Routed \cup Rest = D /\ Routed \cap Rest = {}
  BY <1>1, DashboardAssumption DEF Labelled
<1> HIDE DEF D, lab
<1>4. SumFunction([l \in RouteLabel |-> Cardinality({i \in D : lab[i] = l})]) = Cardinality(Routed)
  BY <1>2, DashboardAssumption, SumParts
<1>5. [l \in RouteLabel |-> Cardinality(Labelled(evs, l))]
        = [l \in RouteLabel |-> Cardinality({i \in D : lab[i] = l})]
  BY <1>3
<1>6. IsFiniteSet(Routed) /\ IsFiniteSet(Rest)
  <2>1. Routed \in SUBSET D /\ Rest \in SUBSET D
    OBVIOUS
  <2> QED BY <1>2, <2>1, FS_Subset
<1>7. Cardinality(Routed) \in Nat /\ Cardinality(Rest) \in Nat
  BY <1>6, FS_CardinalityType
<1>8. Labelled(evs, Unknown) = Rest
  BY <1>3
<1> HIDE DEF Routed, Rest
<1>9. Cardinality(Routed \cup Rest)
        = Cardinality(Routed) + Cardinality(Rest) - Cardinality(Routed \cap Rest)
  BY <1>6, FS_Union
<1>10. Cardinality({}) = 0
  BY FS_EmptySet
<1>11. Routed \cup Rest = D /\ Routed \cap Rest = {}
  BY <1>3 DEF Routed, Rest
<1>12. Cardinality(Routed \cup Rest) = Len(evs) /\ Cardinality(Routed \cap Rest) = 0
  BY <1>2, <1>10, <1>11, Zenon
<1>13. Cardinality(Routed) + Cardinality(Rest) = Len(evs)
  BY <1>7, <1>9, <1>12
<1> QED BY <1>4, <1>5, <1>8, <1>13
-----------------------------------------------------------------------------
(* What a message and a render do to the lists.                            *)

\* The event that a message brings.
Brought(id, label, t) == [id |-> id, label |-> label, timestamp |-> t, serial |-> arrivals + 1]

\* A message is queued behind those that wait.
LEMMA MessageFacts ==
  ASSUME TypeOK, NEW id \in 1 .. MaxArrivals, NEW l \in RouteLabel \cup {Unknown},
         NEW t \in 0 .. now, OnMessage(id, l, t)
  PROVE  /\ Brought(id, l, t) \in Traffic
         /\ queued' \in Seq(Traffic) /\ Len(queued') = Len(queued) + 1
         /\ \A i \in 1 .. Len(queued) : queued'[i] = queued[i]
         /\ queued'[Len(queued) + 1] = Brought(id, l, t)
         /\ Range(queued') = Range(queued) \cup {Brought(id, l, t)}
         /\ arrivals' = arrivals + 1 /\ arrivals' \in 0 .. MaxArrivals
<1> DEFINE e == Brought(id, l, t)
<1>1. /\ arrivals \in 0 .. MaxArrivals /\ arrivals < MaxArrivals /\ arrivals' = arrivals + 1
      /\ now \in 0 .. MaxTime /\ queued \in Seq(Traffic)
      /\ queued' = Append(queued, e)
  BY DEF TypeOK, OnMessage, NewEvent, Brought
<1>2. e \in Traffic
  <2>1. arrivals + 1 \in 1 .. MaxArrivals /\ t \in 0 .. MaxTime
    BY <1>1, Sizes
  <2> QED BY <2>1 DEF Traffic, Brought
<1>3. arrivals' \in 0 .. MaxArrivals
  BY <1>1, Sizes
<1> HIDE DEF e
<1>4. /\ queued' \in Seq(Traffic) /\ Len(queued') = Len(queued) + 1 /\ Len(queued) \in Nat
      /\ DOMAIN queued = 1 .. Len(queued) /\ DOMAIN queued' = 1 .. Len(queued) + 1
      /\ \A i \in 1 .. Len(queued) : queued'[i] = queued[i]
      /\ queued'[Len(queued) + 1] = e
  BY <1>1, <1>2
<1>5. Range(queued') = Range(queued) \cup {e}
  <2>1. ASSUME NEW x \in Range(queued') PROVE x \in Range(queued) \cup {e}
    BY <1>4 DEF Range
  <2>2. \A x \in Range(queued) : x \in Range(queued')
    <3> SUFFICES ASSUME NEW i \in 1 .. Len(queued) PROVE queued[i] \in Range(queued')
      BY <1>4 DEF Range
    <3> QED BY <1>4 DEF Range
  <2>3. e \in Range(queued')
    <3>1. Len(queued) + 1 \in DOMAIN queued'
      BY <1>4
    <3> QED BY <1>4, <3>1 DEF Range
  <2> QED BY <2>1, <2>2, <2>3
<1> QED BY <1>1, <1>2, <1>3, <1>4, <1>5 DEF e

\* After a render, all that waited is kept, the last to arrive in front.
LEMMA RenderFacts ==
  ASSUME TypeOK, Render
  PROVE  /\ events' \in Seq(Traffic) /\ events' # << >> /\ Len(events') \in 1 .. MAX_EVENTS
         /\ Len(events') = IF Len(queued) + Len(events) < MAX_EVENTS
                           THEN Len(queued) + Len(events) ELSE MAX_EVENTS
         /\ \A i \in 1 .. Len(events') :
              events'[i] = IF i <= Len(queued) THEN queued[Len(queued) - i + 1]
                           ELSE events[i - Len(queued)]
         /\ Head(events') = events'[1] /\ Head(events') = queued[Len(queued)]
         /\ Head(events') \in Traffic /\ Head(events') \in Range(queued)
         /\ queued' = << >> /\ Range(queued') = {}
         /\ Range(events') \subseteq Arrived
<1>1. /\ queued \in Seq(Traffic) /\ events \in Seq(Traffic)
      /\ events' = Prepend(events, queued) /\ queued' = << >> /\ queued # << >>
  BY DEF TypeOK, Render
<1>2. /\ Len(queued) \in Nat \ {0} /\ Len(events) \in Nat
      /\ DOMAIN queued = 1 .. Len(queued) /\ DOMAIN events = 1 .. Len(events)
      /\ \A i \in 1 .. Len(queued) : queued[i] \in Traffic
  BY <1>1
<1>3. /\ events' \in Seq(Traffic)
      /\ Len(events') = IF Len(queued) + Len(events) < MAX_EVENTS
                        THEN Len(queued) + Len(events) ELSE MAX_EVENTS
      /\ \A i \in 1 .. Len(events') :
           events'[i] = IF i <= Len(queued) THEN queued[Len(queued) - i + 1]
                        ELSE events[i - Len(queued)]
  BY <1>1, PrependFacts
<1>4. Len(events') \in 1 .. MAX_EVENTS
  BY <1>2, <1>3, Sizes
<1>5. events' # << >> /\ Head(events') = events'[1]
  BY <1>3, <1>4
<1>6. Head(events') = queued[Len(queued)] /\ Len(queued) \in 1 .. Len(queued)
  <2>1. 1 \in 1 .. Len(events') /\ 1 <= Len(queued) /\ Len(queued) - 1 + 1 = Len(queued)
    BY <1>2, <1>4
  <2> QED BY <1>2, <1>3, <1>5, <2>1
<1>7. Head(events') \in Traffic /\ Head(events') \in Range(queued)
  BY <1>2, <1>6 DEF Range
<1>8. Range(queued') = {}
  BY <1>1 DEF Range
<1>9. ASSUME NEW x \in Range(events') PROVE x \in Arrived
  <2>1. PICK i \in 1 .. Len(events') : x = events'[i]
    BY <1>3, <1>9 DEF Range
  <2>2. i \in Nat /\ 1 <= i /\ i <= Len(queued) + Len(events)
    BY <1>2, <1>3, <1>4, Sizes
  <2>3. CASE i <= Len(queued)
    <3>1. x = queued[Len(queued) - i + 1] /\ Len(queued) - i + 1 \in 1 .. Len(queued)
      BY <1>2, <1>3, <2>1, <2>2, <2>3
    <3> QED BY <1>2, <3>1 DEF Range, Arrived
  <2>4. CASE ~(i <= Len(queued))
    <3>1. x = events[i - Len(queued)] /\ i - Len(queued) \in 1 .. Len(events)
      BY <1>2, <1>3, <2>1, <2>2, <2>4
    <3> QED BY <1>2, <3>1 DEF Range, Arrived
  <2> QED BY <2>3, <2>4
<1> QED BY <1>1, <1>3, <1>4, <1>5, <1>6, <1>7, <1>8, <1>9

\* The effects run when there is an event.
LEMMA LatestFacts ==
  ASSUME TypeOK, events # << >>
  PROVE  /\ Head(events) = events[1] /\ Head(events) \in Traffic
         /\ Head(events) \in Range(events) /\ 1 \in 1 .. Len(events)
         /\ Head(events).id \in 1 .. MaxArrivals /\ Head(events).id # None
         /\ Head(events) # None
<1>1. events \in Seq(Traffic) /\ Len(events) \in Nat \ {0} /\ DOMAIN events = 1 .. Len(events)
  BY DEF TypeOK
<1>2. 1 \in 1 .. Len(events) /\ Head(events) = events[1] /\ events[1] \in Traffic
  BY <1>1
<1>3. \A e \in Traffic : e.id \in 1 .. MaxArrivals
  BY DEF Traffic
<1> QED BY <1>1, <1>2, <1>3, NoneAssumption DEF Range
-----------------------------------------------------------------------------
(* Each part of Inv is kept by every step.                                 *)

\* What the page's effects do to the chart and the packet.
LEMMA EffectsFacts ==
  ASSUME TypeOK, Drawn, Effects
  PROVE  /\ events # << >> /\ up /\ effects /\ effects' = FALSE
         /\ Point \in [RouteLabel -> 0 .. MAX_EVENTS]
         /\ history' \in Seq([RouteLabel -> 0 .. MAX_EVENTS])
         /\ Len(history') \in 2 .. MAX_POINTS
         /\ Last(history') = Point
         /\ prevId' = Head(events).id
         /\ packet' \in {packet, Head(events)}
         /\ up' => source' = source
         /\ source' \in {source, "closed"} /\ up' \in BOOLEAN
<1>1. events # << >> /\ up /\ effects /\ effects' = FALSE /\ Animate /\ Chart
  BY DEF Effects, Drawn
<1>2. Point \in [RouteLabel -> 0 .. MAX_EVENTS]
  BY DEF Point, TypeOK
<1>3. history \in Seq([RouteLabel -> 0 .. MAX_EVENTS]) /\ Len(history) \in 1 .. MAX_POINTS
  BY DEF TypeOK
<1>4. history' = Reverse(Take(Reverse(Append(history, Point)), MAX_POINTS))
  BY <1>1 DEF Chart
<1>5. /\ history' \in Seq([RouteLabel -> 0 .. MAX_EVENTS])
      /\ Len(history') = IF Len(history) + 1 < MAX_POINTS THEN Len(history) + 1 ELSE MAX_POINTS
      /\ Last(history') = Point
  <2> DEFINE c == Reverse(Take(Reverse(Append(history, Point)), MAX_POINTS))
  <2>1. /\ c \in Seq([RouteLabel -> 0 .. MAX_EVENTS])
        /\ Len(c) = IF Len(history) + 1 < MAX_POINTS THEN Len(history) + 1 ELSE MAX_POINTS
        /\ Last(c) = Point
    BY <1>2, <1>3, ChartFacts
  <2> QED BY <1>4, <2>1
<1>6. Len(history') \in 2 .. MAX_POINTS
  BY <1>3, <1>5, Sizes
<1>7. /\ prevId' = Head(events).id /\ packet' \in {packet, Head(events)}
      /\ (up' => source' = source) /\ source' \in {source, "closed"} /\ up' \in BOOLEAN
  BY <1>1 DEF Animate, TypeOK
<1> QED BY <1>1, <1>2, <1>5, <1>6, <1>7

\* The types.
LEMMA TypesNext ==
  ASSUME Inv, [Next]_vars
  PROVE  TypeOK'
<1>1. TypeOK /\ Drawn /\ Spelt
  BY DEF Inv
<1>2. /\ source \in {"connecting", "open", "closed"}
      /\ connected \in BOOLEAN /\ effects \in BOOLEAN /\ up \in BOOLEAN
      /\ queued \in Seq(Traffic)
      /\ events \in Seq(Traffic) /\ Len(events) <= MAX_EVENTS
      /\ metrics \in [RouteLabel -> [count : 0 .. MAX_EVENTS, recent : 0 .. MAX_EVENTS]]
      /\ history \in Seq([RouteLabel -> 0 .. MAX_EVENTS]) /\ Len(history) \in 1 .. MAX_POINTS
      /\ prevId \in 1 .. MaxArrivals \cup {None}
      /\ packet \in Traffic \cup {None}
      /\ filter \in RouteLabel \cup {"all"}
      /\ block \in Traffic \cup {None}
      /\ now \in 0 .. MaxTime
      /\ issued \subseteq 1 .. MaxArrivals
      /\ restarts \in 0 .. MaxRestarts
      /\ arrivals \in 0 .. MaxArrivals
  BY <1>1 DEF TypeOK
<1> USE DEF page
<1>3. ASSUME NEW id \in 1 .. MaxArrivals, NEW l \in RouteLabel \cup {Unknown}, NEW t \in 0 .. now,
             OnMessage(id, l, t)
      PROVE  TypeOK'
  <2>1. queued' \in Seq(Traffic) /\ arrivals' \in 0 .. MaxArrivals
    BY <1>1, <1>3, MessageFacts
  <2>2. issued' = issued \cup {id} /\ UNCHANGED <<source, connected, page, up, now, restarts>>
    BY <1>3 DEF OnMessage, NewEvent
  <2> QED BY <1>2, <2>1, <2>2 DEF TypeOK
<1>4. CASE OnOpen \/ OnError
  BY <1>2, <1>4 DEF OnOpen, OnError, TypeOK
<1>5. CASE Render
  <2>1. events' \in Seq(Traffic) /\ Len(events') <= MAX_EVENTS /\ Head(events') \in Traffic
    <3>1. Len(events') \in 1 .. MAX_EVENTS
      BY <1>1, <1>5, RenderFacts
    <3>2. Len(events') <= MAX_EVENTS
      BY <3>1
    <3> QED BY <1>1, <1>5, <3>2, RenderFacts
  <2>2. metrics' \in [RouteLabel -> [count : 0 .. MAX_EVENTS, recent : 0 .. MAX_EVENTS]]
    <3>1. metrics' = Snapshots(events', now) /\ now \in Nat
      BY <1>2, <1>5 DEF Render
    <3> QED BY <2>1, <3>1, SnapshotsType
  <2>3. queued' = << >> /\ effects' = TRUE /\ block' \in Traffic \cup {None}
    BY <1>2, <1>5, <2>1 DEF Render, Block
  <2>4. UNCHANGED <<source, connected, history, prevId, packet, filter, up, now,
                    issued, restarts, arrivals>>
    BY <1>5 DEF Render
  <2>5. << >> \in Seq(Traffic)
    OBVIOUS
  <2> QED BY <1>2, <2>1, <2>2, <2>3, <2>4, <2>5 DEF TypeOK
<1>6. CASE Effects
  <2>1. /\ history' \in Seq([RouteLabel -> 0 .. MAX_EVENTS]) /\ Len(history') \in 2 .. MAX_POINTS
        /\ prevId' \in 1 .. MaxArrivals /\ packet' \in {packet, Head(events)}
        /\ Head(events) \in Traffic /\ effects' = FALSE
        /\ source' \in {source, "closed"} /\ up' \in BOOLEAN
    BY <1>1, <1>6, EffectsFacts, LatestFacts
  <2>2. UNCHANGED <<connected, queued, events, metrics, filter, block, now,
                    issued, restarts, arrivals>>
    BY <1>6 DEF Effects
  <2>3. Len(history') \in 1 .. MAX_POINTS
    BY <2>1
  <2> QED BY <1>2, <2>1, <2>2, <2>3 DEF TypeOK
<1>7. CASE ExitComplete
  <2>1. events # << >>
    BY <1>1, <1>7 DEF ExitComplete, Spelt
  <2>2. Head(events) \in Traffic
    BY <1>1, <2>1, LatestFacts
  <2> QED BY <1>2, <1>7, <2>2 DEF ExitComplete, TypeOK
<1>8. ASSUME NEW f \in RouteLabel \cup {"all"}, SetFilter(f) PROVE TypeOK'
  BY <1>2, <1>8 DEF SetFilter, TypeOK
<1>9. CASE ProxyRestarts
  <2>1. restarts' \in 0 .. MaxRestarts
    BY <1>2, <1>9, Sizes DEF ProxyRestarts
  <2> QED BY <1>2, <1>9, <2>1 DEF ProxyRestarts, TypeOK
<1>10. CASE Tick
  <2>1. now' \in 0 .. MaxTime
    BY <1>2, <1>10, Sizes DEF Tick
  <2> QED BY <1>2, <1>10, <2>1 DEF Tick, TypeOK
<1>11. CASE UNCHANGED vars
  BY <1>2, <1>11 DEF vars, TypeOK
<1> QED BY <1>3, <1>4, <1>5, <1>6, <1>7, <1>8, <1>9, <1>10, <1>11 DEF Next

\* Only messages and renders change the lists.
LEMMA PlacedNext ==
  ASSUME Inv, [Next]_vars
  PROVE  Placed'
<1>1. TypeOK /\ Placed
  BY DEF Inv
<1>2. Len(queued) \in Nat /\ Len(events) \in Nat /\ arrivals \in Nat
  BY <1>1, Sizes DEF TypeOK
<1>3. ASSUME NEW id \in 1 .. MaxArrivals, NEW l \in RouteLabel \cup {Unknown}, NEW t \in 0 .. now,
             OnMessage(id, l, t)
      PROVE  Placed'
  <2>1. /\ Len(queued') = Len(queued) + 1 /\ arrivals' = arrivals + 1
        /\ \A i \in 1 .. Len(queued) : queued'[i] = queued[i]
        /\ queued'[Len(queued) + 1] = Brought(id, l, t)
    BY <1>1, <1>3, MessageFacts
  <2>2. Brought(id, l, t).serial = arrivals + 1
    BY DEF Brought
  <2>3. events' = events
    BY <1>3 DEF OnMessage, page
  <2>4. Len(queued') = Len(queued) + 1 /\ arrivals' = arrivals + 1
    BY <2>1
  <2>5. arrivals' - Len(queued') = arrivals - Len(queued)
    BY <1>2, <2>4
  <2>6. (Len(queued') + Len(events) = arrivals') <=> (Len(queued) + Len(events) = arrivals)
    BY <1>2, <2>4
  <2>7. \A i \in 1 .. Len(events) : events[i].serial = arrivals' - Len(queued') + 1 - i
    BY <1>1, <2>5 DEF Placed
  <2>8. ASSUME NEW i \in 1 .. Len(queued')
        PROVE  queued'[i].serial = arrivals' - Len(queued') + i
    <3>1. CASE i \in 1 .. Len(queued)
      <4>1. queued'[i] = queued[i] /\ queued[i].serial = arrivals - Len(queued) + i
        BY <1>1, <2>1, <3>1 DEF Placed
      <4> QED BY <2>5, <4>1
    <3>2. CASE i = Len(queued) + 1
      <4>1. queued'[i].serial = arrivals + 1
        BY <2>1, <2>2, <3>2
      <4> QED BY <1>2, <2>4, <3>2, <4>1
    <3>3. i \in 1 .. Len(queued) \/ i = Len(queued) + 1
      BY <1>2, <2>4
    <3> QED BY <3>1, <3>2, <3>3
  <2> QED BY <1>1, <2>3, <2>6, <2>7, <2>8 DEF Placed
<1>4. CASE Render
  <2>1. /\ Len(events') = IF Len(queued) + Len(events) < MAX_EVENTS
                          THEN Len(queued) + Len(events) ELSE MAX_EVENTS
        /\ \A i \in 1 .. Len(events') :
              events'[i] = IF i <= Len(queued) THEN queued[Len(queued) - i + 1]
                           ELSE events[i - Len(queued)]
        /\ queued' = << >>
    BY <1>1, <1>4, RenderFacts
  <2>2. arrivals' = arrivals /\ Len(queued') = 0
    BY <1>4, <2>1 DEF Render
  <2>3. ASSUME NEW i \in 1 .. Len(events') PROVE events'[i].serial = arrivals + 1 - i
    <3>1. i \in Nat /\ 1 <= i /\ i <= Len(queued) + Len(events)
      BY <1>2, <2>1, Sizes
    <3>2. CASE i <= Len(queued)
      <4>1. Len(queued) - i + 1 \in 1 .. Len(queued)
        BY <1>2, <3>1, <3>2
      <4>2. events'[i] = queued[Len(queued) - i + 1]
        BY <2>1, <3>2
      <4>3. events'[i].serial = arrivals - Len(queued) + (Len(queued) - i + 1)
        BY <1>1, <4>1, <4>2 DEF Placed
      <4> QED BY <1>2, <3>1, <4>3
    <3>3. CASE ~(i <= Len(queued))
      <4>1. i - Len(queued) \in 1 .. Len(events) /\ events'[i] = events[i - Len(queued)]
        BY <1>2, <2>1, <3>1, <3>3
      <4>2. events'[i].serial = arrivals - Len(queued) + 1 - (i - Len(queued))
        BY <1>1, <4>1 DEF Placed
      <4> QED BY <1>2, <3>1, <4>2
    <3> QED BY <3>2, <3>3
  <2>4. Len(events') = MAX_EVENTS \/ Len(events') = arrivals
    <3>1. Len(events) = MAX_EVENTS \/ Len(queued) + Len(events) = arrivals
      BY <1>1 DEF Placed
    <3> QED BY <1>2, <2>1, <3>1, Sizes
  <2>5. \A i \in 1 .. Len(events') : arrivals' - Len(queued') + 1 - i = arrivals + 1 - i
    BY <1>2, <2>2
  <2>6. Len(queued') + Len(events') = arrivals' <=> Len(events') = arrivals
    <3>1. Len(events') \in Nat
      BY <1>2, <2>1, Sizes
    <3> QED BY <2>2, <3>1
  <2> QED BY <2>2, <2>3, <2>4, <2>5, <2>6 DEF Placed
<1>5. ASSUME UNCHANGED <<queued, events, arrivals>> PROVE Placed'
  BY <1>1, <1>5 DEF Placed
<1>6. CASE \/ OnOpen \/ OnError \/ Effects \/ ExitComplete \/ ProxyRestarts \/ Tick
           \/ (\E f \in RouteLabel \cup {"all"} : SetFilter(f)) \/ UNCHANGED vars
  BY <1>5, <1>6 DEF OnOpen, OnError, Effects, ExitComplete, ProxyRestarts, Tick, SetFilter, vars, page
<1> QED BY <1>3, <1>4, <1>6 DEF Next
\* A proxy gives no id twice, and what waits has arrived after what is kept.
LEMMA OneProxyNext ==
  ASSUME Inv, [Next]_vars
  PROVE  OneProxy'
<1>1. TypeOK /\ Placed /\ OneProxy /\ Drawn
  BY DEF Inv
<1> SUFFICES ASSUME restarts' = 0
             PROVE  /\ \A e \in Arrived' : e.id \in issued'
                    /\ \A d, e \in Arrived' : d.id = e.id => d = e
                    /\ prevId' \in issued' \cup {None}
                    /\ \A e \in Range(queued') : e.id # prevId'
                    /\ effects' => Head(events').id # prevId'
  BY DEF OneProxy
<1> DEFINE Goal == /\ \A e \in Arrived' : e.id \in issued'
                   /\ \A d, e \in Arrived' : d.id = e.id => d = e
                   /\ prevId' \in issued' \cup {None}
                   /\ \A e \in Range(queued') : e.id # prevId'
                   /\ effects' => Head(events').id # prevId'
<1>2. ~ProxyRestarts /\ (restarts' = restarts => restarts = 0)
  BY <1>1, Sizes DEF ProxyRestarts, TypeOK
<1>3. restarts = 0 =>
        /\ \A e \in Arrived : e.id \in issued
        /\ \A d, e \in Arrived : d.id = e.id => d = e
        /\ prevId \in issued \cup {None}
        /\ \A e \in Range(queued) : e.id # prevId
        /\ effects => Head(events).id # prevId
  BY <1>1 DEF OneProxy
<1>4. ASSUME NEW id \in 1 .. MaxArrivals, NEW l \in RouteLabel \cup {Unknown}, NEW t \in 0 .. now,
             OnMessage(id, l, t)
      PROVE  Goal
  <2>1. /\ restarts = 0 /\ id \notin issued /\ issued' = issued \cup {id} /\ id # None
        /\ UNCHANGED <<events, prevId, effects>>
    BY <1>2, <1>4, NoneAssumption DEF OnMessage, NewEvent, page
  <2>2. Range(queued') = Range(queued) \cup {Brought(id, l, t)}
    BY <1>1, <1>4, MessageFacts
  <2>3. Brought(id, l, t).id = id
    BY DEF Brought
  <2>4. Arrived' = Arrived \cup {Brought(id, l, t)}
    BY <2>1, <2>2 DEF Arrived
  <2>5. id # prevId
    BY <1>3, <2>1
  <2>6. \A d, e \in Arrived' : d.id = e.id => d = e
    BY <1>3, <2>1, <2>3, <2>4
  <2> QED BY <1>3, <2>1, <2>2, <2>3, <2>4, <2>5, <2>6
<1>5. CASE Render
  <2>1. /\ Range(queued') = {} /\ Range(events') \subseteq Arrived
        /\ Head(events') \in Range(queued)
    BY <1>1, <1>5, RenderFacts
  <2>2. restarts = 0 /\ UNCHANGED <<issued, prevId>>
    BY <1>2, <1>5 DEF Render
  <2>3. Arrived' \subseteq Arrived
    BY <2>1 DEF Arrived
  <2> QED BY <1>3, <2>1, <2>2, <2>3
<1>6. CASE Effects
  <2>1. /\ events # << >> /\ prevId' = Head(events).id /\ effects' = FALSE
    BY <1>1, <1>6, EffectsFacts
  <2>2. restarts = 0 /\ UNCHANGED <<issued, queued, events>>
    BY <1>2, <1>6 DEF Effects
  <2>3. Head(events) = events[1] /\ Head(events) \in Range(events) /\ 1 \in 1 .. Len(events)
    BY <1>1, <2>1, LatestFacts
  <2>4. Len(queued) \in Nat /\ arrivals \in Nat /\ DOMAIN queued = 1 .. Len(queued)
    BY <1>1, Sizes DEF TypeOK
  <2>5. ASSUME NEW e \in Range(queued), e.id = Head(events).id PROVE FALSE
    <3>1. e = Head(events)
      BY <1>3, <2>2, <2>3, <2>5 DEF Arrived
    <3>2. PICK i \in 1 .. Len(queued) : e = queued[i]
      BY <2>4, <2>5 DEF Range
    <3>3. e.serial = arrivals - Len(queued) + i /\ events[1].serial = arrivals - Len(queued) + 1 - 1
      BY <1>1, <2>3, <3>2 DEF Placed
    <3>4. arrivals - Len(queued) + i # arrivals - Len(queued) + 1 - 1
      BY <2>4, <3>2
    <3> QED BY <2>3, <3>1, <3>3, <3>4
  <2>6. Arrived' = Arrived /\ Range(events) \subseteq Arrived
    BY <2>2 DEF Arrived
  <2> QED BY <1>3, <2>1, <2>2, <2>3, <2>5, <2>6
<1>7. ASSUME UNCHANGED <<queued, events, issued, prevId, effects, restarts>> PROVE Goal
  <2>1. restarts = 0 /\ Arrived' = Arrived
    BY <1>2, <1>7 DEF Arrived
  <2> QED BY <1>3, <1>7, <2>1
<1>8. CASE \/ OnOpen \/ OnError \/ ExitComplete \/ Tick
           \/ (\E f \in RouteLabel \cup {"all"} : SetFilter(f)) \/ UNCHANGED vars
  BY <1>7, <1>8 DEF OnOpen, OnError, ExitComplete, Tick, SetFilter, vars, page
<1> QED BY <1>2, <1>4, <1>5, <1>6, <1>8 DEF Next

\* The metrics are those of the kept events, at a time that only moves back.
LEMMA ComputedNext ==
  ASSUME Inv, [Next]_vars
  PROVE  Computed'
<1>1. now \in Nat /\ Computed
  BY Sizes DEF Inv, TypeOK
<1>2. CASE Render
  <2>1. metrics' = Snapshots(events', now) /\ now' = now /\ now \in 0 .. now
    BY <1>1, <1>2 DEF Render
  <2> QED BY <2>1 DEF Computed
<1>3. ASSUME UNCHANGED <<metrics, events>>, now' \in {now, now + 1} PROVE Computed'
  <2>1. PICK t \in 0 .. now : metrics = Snapshots(events, t)
    BY <1>1 DEF Computed
  <2>2. t \in 0 .. now'
    BY <1>1, <1>3
  <2> QED BY <1>3, <2>1, <2>2 DEF Computed
<1>4. CASE \/ OnOpen \/ OnError \/ Effects \/ ExitComplete \/ ProxyRestarts \/ Tick
           \/ (\E f \in RouteLabel \cup {"all"} : SetFilter(f)) \/ UNCHANGED vars
           \/ (\E id \in 1 .. MaxArrivals, l \in RouteLabel \cup {Unknown}, t \in 0 .. now :
                 OnMessage(id, l, t))
  BY <1>3, <1>4 DEF OnOpen, OnError, OnMessage, Effects, ExitComplete, ProxyRestarts, Tick,
                    SetFilter, vars, page
<1> QED BY <1>2, <1>4 DEF Next

\* Between a render and its effects the chart is behind; the effects draw it.
LEMMA DrawnNext ==
  ASSUME Inv, [Next]_vars
  PROVE  Drawn'
<1>1. TypeOK /\ Drawn
  BY DEF Inv
<1>2. CASE Render
  <2>1. effects' = TRUE /\ events' # << >>
    BY <1>1, <1>2, RenderFacts DEF Render
  <2> QED BY <2>1 DEF Drawn
<1>3. CASE Effects
  <2>1. effects' = FALSE /\ Last(history') = Point /\ Len(history') \in 2 .. MAX_POINTS
    BY <1>1, <1>3, EffectsFacts
  <2>2. Point' = Point
    BY <1>3 DEF Effects, Point
  <2>3. Len(history') > 1
    BY <2>1
  <2> QED BY <2>1, <2>2, <2>3 DEF Drawn
<1>4. ASSUME UNCHANGED <<events, metrics, history, effects, up>> PROVE Drawn'
  BY <1>1, <1>4 DEF Drawn, Point
<1>5. CASE \/ OnOpen \/ OnError \/ ExitComplete \/ ProxyRestarts \/ Tick
           \/ (\E f \in RouteLabel \cup {"all"} : SetFilter(f)) \/ UNCHANGED vars
           \/ (\E id \in 1 .. MaxArrivals, l \in RouteLabel \cup {Unknown}, t \in 0 .. now :
                 OnMessage(id, l, t))
  BY <1>4, <1>5 DEF OnOpen, OnError, OnMessage, ExitComplete, ProxyRestarts, Tick,
                    SetFilter, vars, page
<1> QED BY <1>2, <1>3, <1>5 DEF Next

\* The badge's text changes with a render and when the old one has faded out.
LEMMA SpeltNext ==
  ASSUME Inv, [Next]_vars
  PROVE  Spelt'
<1>1. TypeOK /\ Spelt /\ block \in Traffic \cup {None}
  BY DEF Inv, TypeOK
<1>2. CASE Render
  <2>1. events' # << >> /\ Head(events') \in Traffic /\ block' = Block(Head(events'))
    BY <1>1, <1>2, RenderFacts DEF Render
  <2> QED BY <1>1, <2>1 DEF Spelt, Block
<1>3. CASE ExitComplete
  <2>1. events # << >> /\ block' = Head(events) /\ events' = events
    BY <1>1, <1>3 DEF ExitComplete, Spelt
  <2>2. Head(events) \in Traffic
    BY <1>1, <2>1, LatestFacts
  <2> QED BY <2>1, <2>2 DEF Spelt
<1>4. ASSUME UNCHANGED <<events, block>> PROVE Spelt'
  BY <1>1, <1>4 DEF Spelt
<1>5. CASE \/ OnOpen \/ OnError \/ Effects \/ ProxyRestarts \/ Tick
           \/ (\E f \in RouteLabel \cup {"all"} : SetFilter(f)) \/ UNCHANGED vars
           \/ (\E id \in 1 .. MaxArrivals, l \in RouteLabel \cup {Unknown}, t \in 0 .. now :
                 OnMessage(id, l, t))
  BY <1>4, <1>5 DEF OnOpen, OnError, OnMessage, Effects, ProxyRestarts, Tick, SetFilter, vars, page
<1> QED BY <1>2, <1>3, <1>5 DEF Next

\* The effects send out a packet, as a new event's id is not the animated one.
LEMMA PacketNext ==
  ASSUME Inv, [Next]_vars
  PROVE  PacketShowsLatestOfOneProxy'
<1>1. TypeOK /\ OneProxy /\ Drawn /\ PacketShowsLatestOfOneProxy
  BY DEF Inv
<1> USE DEF PacketShowsLatestOfOneProxy, PacketShowsLatest
<1>2. CASE Render
  BY <1>2 DEF Render
<1>3. CASE Effects
  <2>1. restarts' = restarts /\ events' = events /\ effects /\ Animate
    BY <1>3 DEF Effects
  <2>2. restarts = 0 => Head(events).id # prevId
    BY <1>1, <2>1 DEF OneProxy
  <2> QED BY <2>1, <2>2 DEF Animate
<1>4. CASE ProxyRestarts
  BY <1>1, <1>4, Sizes DEF ProxyRestarts, TypeOK
<1>5. ASSUME UNCHANGED <<restarts, up, effects, events, packet>> PROVE PacketShowsLatestOfOneProxy'
  BY <1>1, <1>5
<1>6. CASE \/ OnOpen \/ OnError \/ ExitComplete \/ Tick
           \/ (\E f \in RouteLabel \cup {"all"} : SetFilter(f)) \/ UNCHANGED vars
           \/ (\E id \in 1 .. MaxArrivals, l \in RouteLabel \cup {Unknown}, t \in 0 .. now :
                 OnMessage(id, l, t))
  BY <1>5, <1>6 DEF OnOpen, OnError, OnMessage, ExitComplete, Tick, SetFilter, vars, page
<1> QED BY <1>2, <1>3, <1>4, <1>6 DEF Next
\* An empty page that has never heard of an event.
LEMMA InitInv == Init => Inv
<1> SUFFICES ASSUME Init PROVE Inv
  OBVIOUS
<1>1. /\ source = "connecting" /\ connected = FALSE /\ queued = << >> /\ events = << >>
      /\ metrics = Snapshots(<< >>, 0) /\ history = <<[l \in RouteLabel |-> 0]>>
      /\ effects = FALSE /\ prevId = None /\ packet = None /\ filter = "all" /\ block = None
      /\ up = TRUE /\ now = 0 /\ issued = {} /\ restarts = 0 /\ arrivals = 0
  BY DEF Init
<1>2. << >> \in Seq(Traffic) /\ Len(<< >>) = 0 /\ Range(<< >>) = {}
  BY DEF Range
<1>3. metrics \in [RouteLabel -> [count : 0 .. MAX_EVENTS, recent : 0 .. MAX_EVENTS]]
  <2>1. Len(<< >>) <= MAX_EVENTS /\ 0 \in Nat /\ << >> \in Seq(Traffic)
    BY <1>2, Sizes
  <2>2. Snapshots(<< >>, 0) \in [RouteLabel -> [count : 0 .. MAX_EVENTS, recent : 0 .. MAX_EVENTS]]
    BY <2>1, SnapshotsType
  <2> QED BY <1>1, <2>2
<1>4. /\ history \in Seq([RouteLabel -> 0 .. MAX_EVENTS]) /\ Len(history) = 1
      /\ history[1] = [l \in RouteLabel |-> 0]
  <2>1. [l \in RouteLabel |-> 0] \in [RouteLabel -> 0 .. MAX_EVENTS]
    BY Sizes
  <2> QED BY <1>1, <2>1
<1>5. TypeOK
  <2>1. Len(history) \in 1 .. MAX_POINTS /\ 0 \in 0 .. MaxTime /\ 0 \in 0 .. MaxRestarts
        /\ 0 \in 0 .. MaxArrivals /\ 0 <= MAX_EVENTS
    BY <1>4, Sizes
  <2> QED BY <1>1, <1>2, <1>3, <1>4, <2>1 DEF TypeOK
<1>6. Placed
  BY <1>1, <1>2 DEF Placed
<1>7. OneProxy
  BY <1>1, <1>2 DEF OneProxy, Arrived
<1>8. Computed
  BY <1>1 DEF Computed
<1>9. Drawn
  <2>1. ASSUME NEW l \in RouteLabel PROVE metrics[l].recent = 0
    <3>1. Cardinality(Recent(<< >>, l, 0)) \in 0 .. 0
      BY <1>2, CountFacts
    <3> QED BY <1>1, <3>1 DEF Snapshots
  <2>2. Point = [l \in RouteLabel |-> 0]
    BY <2>1 DEF Point
  <2> QED BY <1>1, <1>4, <2>2 DEF Drawn, Last
<1>10. Spelt /\ PacketShowsLatestOfOneProxy
  BY <1>1 DEF Spelt, PacketShowsLatestOfOneProxy, PacketShowsLatest
<1> QED BY <1>5, <1>6, <1>7, <1>8, <1>9, <1>10 DEF Inv

\* Every step keeps the inductive invariant.
LEMMA NextInv == Inv /\ [Next]_vars => Inv'
BY TypesNext, PlacedNext, OneProxyNext, ComputedNext, DrawnNext, SpeltNext, PacketNext DEF Inv

(***************************************************************************)
(* The inductive invariant holds in every reachable state.                 *)
(***************************************************************************)
THEOREM Invariance == Spec => []Inv
BY InitInv, NextInv, PTL DEF Spec

-----------------------------------------------------------------------------
(* What follows from it.                                                   *)

\* A set of numbers has a least one, which is its Min.
LEMMA MinFacts ==
  ASSUME NEW S \in SUBSET Nat, S # {}
  PROVE  Min(S) \in S /\ \A y \in S : Min(S) <= y
<1>1. \E x \in S : \A y \in S : x <= y
  <2> SUFFICES ASSUME \A x \in S : \E y \in S : ~(x <= y) PROVE FALSE
    OBVIOUS
  <2> DEFINE G == {n \in Nat : \A m \in 0 .. n : m \notin S}
  <2>1. 0 \in G
    OBVIOUS
  <2>2. ASSUME NEW n \in Nat, n \in G PROVE n + 1 \in G
    <3>1. \A m \in 0 .. n + 1 : m \in 0 .. n \/ m = n + 1
      OBVIOUS
    <3>2. n + 1 \notin S
      <4> SUFFICES ASSUME n + 1 \in S PROVE FALSE
        OBVIOUS
      <4>1. PICK y \in S : ~(n + 1 <= y)
        OBVIOUS
      <4>2. y \in 0 .. n
        BY <4>1
      <4> QED BY <2>2, <4>2
    <3> QED BY <2>2, <3>1, <3>2
  <2>3. ASSUME NEW n \in Nat PROVE n \in G
    <3> HIDE DEF G
    <3> QED BY <2>1, <2>2, NumberInduction
  <2>4. PICK x : x \in S
    OBVIOUS
  <2>5. x \in Nat /\ x \in 0 .. x
    BY <2>4
  <2> QED BY <2>3, <2>4, <2>5
<1> QED BY <1>1 DEF Min

(***************************************************************************)
(* The types, and the bounds of what the page keeps: 200 events, 60 points *)
(* (useTrafficStream.ts:22, MetricsBar.tsx:33).                            *)
(***************************************************************************)
THEOREM Types == Spec => []TypeOK
<1>1. Inv => TypeOK
  BY DEF Inv
<1> QED BY <1>1, Invariance, PTL

(***************************************************************************)
(* Of one proxy's events the last one rendered is the one the packet was   *)
(* last sent out for (RequestFlow.tsx:47-61).                              *)
(***************************************************************************)
THEOREM PacketIsLatest == Spec => []PacketShowsLatestOfOneProxy
<1>1. Inv => PacketShowsLatestOfOneProxy
  BY DEF Inv
<1> QED BY <1>1, Invariance, PTL

(***************************************************************************)
(* However messages and renders interleave, the page keeps the latest      *)
(* events, newest first, with no gap, and no two of one proxy's have the   *)
(* same id (useTrafficStream.ts:17-24, PayloadInspector.tsx:115).          *)
(***************************************************************************)
THEOREM Latests == Spec => []KeepsLatest
<1>1. ASSUME Inv PROVE KeepsLatest
  <2> DEFINE r == Reverse(queued)
             all == r \o events
  <2>1. TypeOK /\ Placed /\ OneProxy
    BY <1>1 DEF Inv
  <2>2. /\ queued \in Seq(Traffic) /\ events \in Seq(Traffic)
        /\ Len(queued) \in Nat /\ Len(events) \in Nat /\ arrivals \in Nat
        /\ DOMAIN events = 1 .. Len(events)
    BY <2>1, Sizes DEF TypeOK
  <2>3. r \in Seq(Traffic) /\ Len(r) = Len(queued)
        /\ \A i \in 1 .. Len(queued) : r[i] = queued[Len(queued) - i + 1]
    BY <2>2, ReverseFacts
  <2> HIDE DEF r
  <2>4. /\ all \in Seq(Traffic) /\ Len(all) = Len(r) + Len(events)
        /\ \A i \in 1 .. Len(r) + Len(events) :
             all[i] = IF i <= Len(r) THEN r[i] ELSE events[i - Len(r)]
    <3>1. r \in Seq(Traffic) /\ events \in Seq(Traffic)
      BY <2>2, <2>3
    <3>2. /\ r \o events \in Seq(Traffic) /\ Len(r \o events) = Len(r) + Len(events)
          /\ \A i \in 1 .. Len(r) + Len(events) :
               (r \o events)[i] = IF i <= Len(r) THEN r[i] ELSE events[i - Len(r)]
      BY <3>1, ConcatProperties
    <3> QED BY <3>2
  <2> HIDE DEF all
  <2>5. Len(all) = Len(queued) + Len(events) /\ DOMAIN all = 1 .. Len(queued) + Len(events)
    BY <2>2, <2>3, <2>4
  <2>6. ASSUME NEW i \in 1 .. Len(queued) + Len(events) PROVE all[i].serial = arrivals + 1 - i
    <3>1. CASE i <= Len(queued)
      <4>1. Len(queued) - i + 1 \in 1 .. Len(queued) /\ i \in 1 .. Len(queued)
        BY <2>2, <3>1
      <4>2. all[i] = queued[Len(queued) - i + 1]
        BY <2>3, <2>4, <3>1, <4>1
      <4>3. all[i].serial = arrivals - Len(queued) + (Len(queued) - i + 1)
        BY <2>1, <4>1, <4>2 DEF Placed
      <4> QED BY <2>2, <4>3
    <3>2. CASE ~(i <= Len(queued))
      <4>1. i - Len(queued) \in 1 .. Len(events)
        BY <2>2, <3>2
      <4>2. all[i] = events[i - Len(queued)]
        BY <2>3, <2>4, <3>2
      <4>3. all[i].serial = arrivals - Len(queued) + 1 - (i - Len(queued))
        BY <2>1, <4>1, <4>2 DEF Placed
      <4> QED BY <2>2, <4>3
    <3> QED BY <3>1, <3>2
  <2>7. Len(events) = MAX_EVENTS \/ Len(all) = arrivals
    BY <2>1, <2>5 DEF Placed
  <2>8. ASSUME restarts = 0, NEW i \in 1 .. Len(events), NEW j \in 1 .. Len(events),
               events[i].id = events[j].id
        PROVE  i = j
    <3>1. events[i] \in Arrived /\ events[j] \in Arrived
      BY <2>2 DEF Arrived, Range
    <3>2. events[i] = events[j]
      BY <2>1, <2>8, <3>1 DEF OneProxy
    <3>3. /\ events[i].serial = arrivals - Len(queued) + 1 - i
          /\ events[j].serial = arrivals - Len(queued) + 1 - j
      BY <2>1 DEF Placed
    <3>4. arrivals - Len(queued) + 1 - i = arrivals - Len(queued) + 1 - j
      BY <3>2, <3>3
    <3> QED BY <2>2, <3>4
  <2> QED BY <2>2, <2>5, <2>6, <2>7, <2>8 DEF KeepsLatest, all, r
<1> QED BY <1>1, Invariance, PTL
(***************************************************************************)
(* The log, the cards and the tile count the same events                   *)
(* (PayloadInspector.tsx:31-33, useMetrics.ts:12-18,                       *)
(* TrafficDashboard.tsx:53 and 145).                                       *)
(***************************************************************************)
THEOREM LogMatches == Spec => []LogMatchesCards
<1>1. ASSUME Inv PROVE LogMatchesCards
  <2> DEFINE all == Filtered(events)
             counts == [l \in RouteLabel |-> Cards[l].count]
  <2>1. /\ events \in Seq(Traffic) /\ DOMAIN events = 1 .. Len(events) /\ Len(events) \in Nat
        /\ filter \in RouteLabel \cup {"all"}
    BY <1>1 DEF Inv, TypeOK
  <2>2. \A l \in RouteLabel : metrics[l].count = Cardinality(Labelled(events, l))
    BY <1>1 DEF Inv, Computed, Snapshots
  <2>3. filter # "all" => Cardinality(all) = metrics[filter].count
    BY <2>1, <2>2 DEF Filtered
  <2>4. ASSUME all # {} PROVE Min(all) \in Shown(events)
    <3>1. all \in SUBSET (1 .. Len(events))
      BY <2>1 DEF Filtered, Labelled
    <3>2. all \in SUBSET Nat
      BY <3>1
    <3> HIDE DEF all
    <3>3. Min(all) \in all /\ \A y \in all : Min(all) <= y
      BY <2>4, <3>2, MinFacts
    <3>4. {j \in all : j <= Min(all)} = {Min(all)}
      <4> DEFINE m == Min(all)
      <4>1. m \in all /\ m \in Nat /\ \A y \in all : m <= y /\ y \in Nat
        BY <3>2, <3>3
      <4> HIDE DEF m
      <4>2. \A j \in all : j <= m => j = m
        BY <4>1
      <4>3. m <= m
        BY <4>1
      <4>4. {j \in all : j <= m} = {m}
        BY <4>1, <4>2, <4>3, Zenon
      <4> QED BY <4>4 DEF m
    <3>5. Cardinality({Min(all)}) = 1
      BY FS_Singleton
    <3>6. Cardinality({j \in all : j <= Min(all)}) <= MAX_ROWS
      BY <3>4, <3>5, Sizes
    <3> QED BY <3>3, <3>6 DEF Shown, all
  <2>5. Len(events) = SumFunction(counts) + Cardinality(Labelled(events, Unknown))
    <3>1. counts = [l \in RouteLabel |-> Cardinality(Labelled(events, l))]
      BY <2>2 DEF Cards, RouteCard
    <3> HIDE DEF counts
    <3> QED BY <2>1, <3>1, CountsAdd
  <2>6. Tiles.captured = Len(events)
    BY DEF Tiles
  <2> QED BY <2>3, <2>4, <2>5, <2>6 DEF LogMatchesCards
<1> QED BY <1>1, Invariance, PTL

(***************************************************************************)
(* Once the effects have run, the chart ends at what the cards and the     *)
(* tile show (MetricsBar.tsx:23-34 and 68, TrafficDashboard.tsx:54).       *)
(***************************************************************************)
THEOREM ChartMatches == Spec => []ChartEndsAtCards
<1>1. ASSUME Inv PROVE ChartEndsAtCards
  <2> SUFFICES ASSUME up, ~effects
               PROVE  /\ events # << >> => ChartDrawn
                      /\ \A l \in RouteLabel : Last(history)[l] = Cards[l].rate
                      /\ SumFunction(Last(history)) = Total /\ Total = Tiles.rate
    BY DEF ChartEndsAtCards
  <2>1. Last(history) = Point /\ (events # << >> => Len(history) > 1)
    BY <1>1 DEF Inv, Drawn
  <2>2. events # << >> => ChartDrawn
    BY <2>1 DEF ChartDrawn
  <2>3. \A l \in RouteLabel : Last(history)[l] = Cards[l].rate
    BY <2>1 DEF Point, Cards, RouteCard
  <2>4. SumFunction(Last(history)) = Total /\ Total = Tiles.rate
    BY <2>1 DEF Point, Total, Tiles
  <2> QED BY <2>2, <2>3, <2>4
<1> QED BY <1>1, Invariance, PTL

(***************************************************************************)
(* The tile, the diagram, the active card and the badge speak of one       *)
(* decision (TrafficDashboard.tsx:52-58, 146, 186-192 and 213-220,         *)
(* RequestFlow.tsx:207-213, ClassifierBadge.tsx:71-79).                    *)
(***************************************************************************)
THEOREM OneDecisionShown == Spec => []OneDecision
<1>1. ASSUME Inv PROVE OneDecision
  <2> DEFINE active == {l \in RouteLabel : Cards[l].active}
  <2>1. active = {l \in RouteLabel : IsLatest(l)}
    BY DEF Cards, RouteCard
  <2>2. TypeOK /\ Spelt
    BY <1>1 DEF Inv
  <2>3. Quoted = Latest
    BY DEF Quoted
  <2>4. CASE events = << >>
    <3>1. Latest = None /\ active = {} /\ Tiles.pool = "waiting" /\ Panel = None
      BY <2>1, <2>4 DEF Latest, IsLatest, Tiles, Panel
    <3> HIDE DEF active
    <3>2. active = {Tiles.pool} \ {"waiting"}
      BY <3>1
    <3> QED BY <2>3, <3>1, <3>2 DEF OneDecision, active
  <2>5. CASE events # << >>
    <3> DEFINE e == Head(events)
    <3>1. /\ e = events[1] /\ e \in Traffic /\ e # None /\ Latest = e
          /\ 1 \in 1 .. Len(events) /\ DOMAIN events = 1 .. Len(events)
      BY <2>2, <2>5, LatestFacts DEF Latest, TypeOK
    <3>2. e.label \in RouteLabel \cup {Unknown}
      BY <3>1 DEF Traffic
    <3>3. block.label = e.label => block = e
      BY <2>2, <2>5 DEF Spelt
    <3> HIDE DEF e
    <3>4. active = {l \in RouteLabel : e.label = l}
      BY <2>1, <3>1 DEF IsLatest
    <3>5. Tiles.pool = IF e.label = Unknown THEN "waiting" ELSE e.label
      BY <3>1 DEF Tiles, IsLatest
    <3>6. active = {Tiles.pool} \ {"waiting"}
      <4> HIDE DEF active
      <4>1. Unknown \notin RouteLabel /\ "waiting" \notin RouteLabel
        BY DashboardAssumption
      <4> QED BY <3>2, <3>4, <3>5, <4>1
    <3>7. ASSUME NEW l \in active PROVE Cards[l].reasoning = Latest
      <4>1. l \in RouteLabel /\ e.label = l
        BY <3>4
      <4>2. 1 \in Labelled(events, l) /\ Labelled(events, l) \in SUBSET Nat
        BY <3>1, <4>1 DEF Labelled
      <4>3. Min(Labelled(events, l)) \in Nat /\ Min(Labelled(events, l)) <= 1
            /\ Min(Labelled(events, l)) \in 1 .. Len(events)
        BY <3>1, <4>2, MinFacts DEF Labelled
      <4>4. Min(Labelled(events, l)) = 1
        BY <4>3
      <4>5. Reasoning(l) = e
        BY <3>1, <4>2, <4>4 DEF Reasoning
      <4> QED BY <3>1, <4>1, <4>5 DEF Cards, RouteCard
    <3>8. Panel # None /\ Panel.text.label = Panel.ring.label => Panel.text = Panel.ring
      BY <3>1, <3>3 DEF Panel, Badge
    <3> HIDE DEF active
    <3> QED BY <2>3, <3>6, <3>7, <3>8 DEF OneDecision, active
  <2> QED BY <2>4, <2>5
<1> QED BY <1>1, Invariance, PTL
=============================================================================
