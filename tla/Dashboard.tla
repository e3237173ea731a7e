----------------------------- MODULE Dashboard -----------------------------
(***************************************************************************)
(* One open page of the dashboard (dashboard/src): the hook that listens   *)
(* to the proxy's event stream, the metrics computed from what it keeps,   *)
(* and the components that show both.                                      *)
(*                                                                         *)
(* React decides when the page is drawn.  A message only queues an update  *)
(* of the state; a render applies all that are queued and computes what is *)
(* shown; its effects run later, but before the next render.  Time passes  *)
(* between any two of these.  The proxy is the other end of the stream: it *)
(* may drop the connection and it may restart, and then its ids start      *)
(* again at 1.                                                             *)
(***************************************************************************)
EXTENDS Integers, Sequences, FiniteSets, SequencesExt

CONSTANTS
  RouteLabel,   \* the labels the page knows
  Unknown,      \* a label it does not know: that of a zero Response
  MAX_EVENTS,   \* events kept (200)
  RPS_WINDOW,   \* length of the window of the rates (5000 ms)
  MAX_POINTS,   \* points of the chart (60)
  MAX_ROWS,     \* rows of the request log (7)
  MaxArrivals,  \* bound of the model: how many messages arrive
  MaxRestarts,  \* bound of the model: how often the proxy restarts
  MaxTime,      \* bound of the model: how long the page is watched
  None

ASSUME DashboardAssumption ==
  /\ IsFiniteSet(RouteLabel)
  /\ {Unknown, None, "waiting"} \cap RouteLabel = {}
  /\ {MAX_EVENTS, RPS_WINDOW, MAX_ROWS} \subseteq Nat \ {0}
  /\ MAX_POINTS \in Nat \ {0, 1}
  /\ {MaxArrivals, MaxRestarts, MaxTime} \subseteq Nat

VARIABLES
  source,     \* the EventSource: "connecting", "open" or "closed"
  connected,
  queued,     \* the events whose setEvents React has not applied yet
  events,     \* newest first
  metrics,    \* the memoized result of useMetrics
  history,    \* the points of the chart, oldest first
  effects,    \* TRUE between a render and its effects
  prevId,     \* the id the diagram has last animated
  packet,     \* the event its packet was last sent out for
  filter,     \* the filter of the request log
  block,      \* the event whose route and reasoning the badge spells out
  up,         \* FALSE once an effect has thrown: the page is gone
  now         \* Date.now()

\* The proxy, as far as the page can tell, and what has come from it.
VARIABLES
  issued,     \* ids of the running proxy's events that have arrived
  restarts,   \* how often the proxy has restarted
  arrivals    \* history; how many events have arrived

page == <<events, metrics, history, effects, prevId, packet, filter, block>>
vars == <<source, connected, queued, page, up, now, issued, restarts, arrivals>>

\* serial, the event's place in the order of arrival, is read by no code.
Traffic ==
  [id : 1 .. MaxArrivals, label : RouteLabel \cup {Unknown},
   timestamp : 0 .. MaxTime, serial : 1 .. MaxArrivals]

\* None is neither an event nor an id.
ASSUME NoneAssumption == None \notin Traffic \cup 1 .. MaxArrivals

Take(s, n) == SubSeq(s, 1, IF Len(s) < n THEN Len(s) ELSE n)

\* The places in evs of the events with a label, ...
Labelled(evs, label) == {i \in DOMAIN evs : evs[i].label = label}

\* ... and of those that are younger than the window at time t.
Recent(evs, label, t) == {i \in Labelled(evs, label) : t - evs[i].timestamp < RPS_WINDOW}

\* Per route, the number of events and of those its rate is computed from:
\* what useMemo on [events] computes at time t, and keeps until events change.
Snapshots(evs, t) ==
  [l \in RouteLabel |->
     [count  |-> Cardinality(Labelled(evs, l)),
      recent |-> Cardinality(Recent(evs, l, t))]]

\* The chart's point: the rates of the routes.
Point == [l \in RouteLabel |-> metrics[l].recent]

\* The page is mounted, and its first effects have run.
Init ==
  /\ source = "connecting"
  /\ connected = FALSE
  /\ queued = << >>
  /\ events = << >>
  /\ metrics = Snapshots(<< >>, 0)
  /\ history = <<[l \in RouteLabel |-> 0]>>
  /\ effects = FALSE
  /\ prevId = None
  /\ packet = None
  /\ filter = "all"
  /\ block = None
  /\ up = TRUE
  /\ now = 0
  /\ issued = {}
  /\ restarts = 0
  /\ arrivals = 0

-----------------------------------------------------------------------------
(* The proxy and the clock.                                                *)

\* The running proxy has never given the id twice, but overlapping requests
\* need not arrive in the order of their ids.
NewEvent(id, label, t) ==
  /\ arrivals < MaxArrivals
  /\ id \in 1 .. MaxArrivals \ issued
  /\ t <= now
  /\ issued' = issued \cup {id}
  /\ arrivals' = arrivals + 1

ProxyRestarts ==
  /\ source # "open"
  /\ restarts < MaxRestarts
  /\ restarts' = restarts + 1
  /\ issued' = {}
  /\ UNCHANGED <<source, connected, queued, page, up, now, arrivals>>

Tick ==
  /\ now < MaxTime
  /\ now' = now + 1
  /\ UNCHANGED <<source, connected, queued, page, up, issued, restarts, arrivals>>

-----------------------------------------------------------------------------
(* useTrafficStream.                                                       *)

OnOpen ==
  /\ source = "connecting"
  /\ source' = "open"
  /\ connected' = TRUE
  /\ UNCHANGED <<queued, page, up, now, issued, restarts, arrivals>>

\* The browser connects again, unless the answer is one it gives up on.
OnError ==
  /\ source # "closed"
  /\ source' \in {"connecting", "closed"}
  /\ connected' = FALSE
  /\ UNCHANGED <<queued, page, up, now, issued, restarts, arrivals>>

OnMessage(id, label, t) ==
  /\ source = "open"
  /\ NewEvent(id, label, t)
  /\ queued' = Append(queued, [id |-> id, label |-> label, timestamp |-> t,
                               serial |-> arrivals'])
  /\ UNCHANGED <<source, connected, page, up, now, restarts>>

\* Fault: the oldest of a batch is put in front.
FaultPrepend(prev, evs) == Take(evs \o prev, MAX_EVENTS)

\* Fault: the list is never cut.
FaultPrependUncut(prev, evs) == Reverse(evs) \o prev

\* The queued updates, one after the other: [ev, ...prev].slice(0, MAX_EVENTS).
Prepend(prev, evs) == Take(Reverse(evs) \o prev, MAX_EVENTS)

-----------------------------------------------------------------------------
(* Rendering.                                                              *)

\* Fault: the filter is applied to the rows, not to the events.
FaultFiltered(evs) ==
  IF filter = "all" THEN DOMAIN evs ELSE Labelled(Take(evs, MAX_ROWS), filter)

\* The places of the events that the filter lets pass.
Filtered(evs) == IF filter = "all" THEN DOMAIN evs ELSE Labelled(evs, filter)

\* The first MAX_ROWS of them, the rows of the request log.
Shown(evs) ==
  {i \in Filtered(evs) : Cardinality({j \in Filtered(evs) : j <= i}) <= MAX_ROWS}

\* Fault: what has been spelt out for a route is kept.
FaultBlock(latest) == IF block = None THEN latest ELSE block

\* The badge's text has the label as its key, and AnimatePresence mode="wait":
\* it shows the latest event of the same label at once, and that of another
\* label when the old text has faded out.
Block(latest) == IF block = None \/ block.label = latest.label THEN latest ELSE block

\* A render for anything else than new events changes nothing here.
Render ==
  /\ up
  /\ queued # << >>
  /\ ~effects
  /\ events' = Prepend(events, queued)
  /\ queued' = << >>
  /\ metrics' = Snapshots(events', now)
  /\ block' = Block(Head(events'))
  /\ effects' = TRUE
  /\ UNCHANGED <<source, connected, history, prevId, packet, filter, up, now,
                 issued, restarts, arrivals>>

\* The old text has faded out.
ExitComplete ==
  /\ up
  /\ block # None /\ block.label # Head(events).label
  /\ block' = Head(events)
  /\ UNCHANGED <<source, connected, queued, events, metrics, history, effects,
                 prevId, packet, filter, up, now, issued, restarts, arrivals>>

SetFilter(f) ==
  /\ up
  /\ filter' = f
  /\ UNCHANGED <<source, connected, queued, events, metrics, history, effects,
                 prevId, packet, block, up, now, issued, restarts, arrivals>>

\* Fault: the first points are kept, slice(0, 60).
FaultChart == history' = Take(Append(history, Point), MAX_POINTS)

\* MetricsBar's effect, on [metrics]: slice(-60).  The update it queues is
\* applied here, as nothing but MetricsBar's own next render reads it.
Chart ==
  LET points == Append(history, Point)
  IN history' = Reverse(Take(Reverse(points), MAX_POINTS))

\* Fault: the packet is sent out again only when the route changes.
FaultAnimate ==
  LET latest == Head(events)
  IN \/ /\ latest.id # prevId /\ latest.label \in RouteLabel
        /\ packet # None => packet.label # latest.label
        /\ prevId' = latest.id /\ packet' = latest
        /\ UNCHANGED <<up, source>>
     \/ /\ latest.id = prevId \/ (packet # None /\ packet.label = latest.label)
        /\ UNCHANGED <<prevId, packet, up, source>>

\* RequestFlow's effect, on [latestEvent].  A label that POOL_TARGETS does not
\* have throws: React takes the page down, and the stream is closed.
Animate ==
  LET latest == Head(events)
  IN \/ /\ latest.id = prevId
        /\ UNCHANGED <<prevId, packet, up, source>>
     \/ /\ latest.id # prevId /\ latest.label \in RouteLabel
        /\ prevId' = latest.id
        /\ packet' = latest
        /\ UNCHANGED <<up, source>>
     \/ /\ latest.id # prevId /\ latest.label \notin RouteLabel
        /\ prevId' = latest.id
        /\ up' = FALSE
        /\ source' = "closed"
        /\ UNCHANGED packet

Effects ==
  /\ up /\ effects
  /\ effects' = FALSE
  /\ Animate
  /\ Chart
  /\ UNCHANGED <<connected, queued, events, metrics, filter, block, now,
                 issued, restarts, arrivals>>

Next ==
  \/ \E id \in 1 .. MaxArrivals, l \in RouteLabel \cup {Unknown}, t \in 0 .. now :
       OnMessage(id, l, t)
  \/ OnOpen \/ OnError
  \/ Render \/ Effects \/ ExitComplete
  \/ \E f \in RouteLabel \cup {"all"} : SetFilter(f)
  \/ ProxyRestarts \/ Tick

Spec == Init /\ [][Next]_vars

\* A page that is looked at, on which time passes.  Nothing is assumed of the
\* stream or of the user.
FairSpec ==
  /\ Spec
  /\ WF_vars(Render) /\ WF_vars(Effects) /\ WF_vars(ExitComplete) /\ WF_vars(Tick)

-----------------------------------------------------------------------------
(* What a render shows of it.                                              *)

\* events[0] ?? null
Latest == IF events = << >> THEN None ELSE Head(events)

IsLatest(l) == Latest # None /\ Latest.label = l

\* The summary tiles.  An empty label counts as none.
Tiles ==
  [captured |-> Len(events),
   rate |-> SumFunction([l \in RouteLabel |-> metrics[l].recent]),
   pool |-> IF Latest = None \/ IsLatest(Unknown) THEN "waiting" ELSE Latest.label]

\* The event whose reasoning the diagram quotes.
Quoted == Latest

\* The badge: the event of the ring and of the number in it, and that of the
\* text below, which lags behind.
Badge(event) == [ring |-> event, text |-> block]

\* The panel of the current decision; None while it awaits traffic.
Panel == IF Latest = None THEN None ELSE Badge(Latest)

\* lastReasoningByLabel, as the event whose reasoning it is.
Reasoning(l) ==
  LET its == Labelled(events, l)
  IN IF its = {} THEN None ELSE events[Min(its)]

RouteCard(snapshot, lastReasoning, isActive) ==
  [count |-> snapshot.count, rate |-> snapshot.recent,
   reasoning |-> lastReasoning, active |-> isActive]

Cards == [l \in RouteLabel |-> RouteCard(metrics[l], Reasoning(l), IsLatest(l))]

\* MetricsBar's own total.
Total == SumFunction([l \in RouteLabel |-> metrics[l].recent])

\* MetricsBar draws a chart, and not "collecting a baseline".
ChartDrawn == Len(history) > 1

-----------------------------------------------------------------------------
(***************************************************************************)
(* The types, and the bounds of what the page keeps.                       *)
(***************************************************************************)
TypeOK ==
  /\ source \in {"connecting", "open", "closed"}
  /\ connected \in BOOLEAN /\ effects \in BOOLEAN /\ up \in BOOLEAN
  /\ queued \in Seq(Traffic)
  /\ events \in Seq(Traffic) /\ Len(events) <= MAX_EVENTS
  /\ metrics \in [RouteLabel -> [count : 0 .. MAX_EVENTS, recent : 0 .. MAX_EVENTS]]
  /\ history \in Seq([RouteLabel -> 0 .. MAX_EVENTS])
  /\ Len(history) \in 1 .. MAX_POINTS
  /\ prevId \in 1 .. MaxArrivals \cup {None}
  /\ packet \in Traffic \cup {None}
  /\ filter \in RouteLabel \cup {"all"}
  /\ block \in Traffic \cup {None}
  /\ now \in 0 .. MaxTime
  /\ issued \subseteq 1 .. MaxArrivals
  /\ restarts \in 0 .. MaxRestarts
  /\ arrivals \in 0 .. MaxArrivals

(***************************************************************************)
(* However messages and renders interleave and however many updates one    *)
(* render applies, the page keeps the latest MAX_EVENTS events that have   *)
(* arrived, the newest first, and none is skipped over                     *)
(* (useTrafficStream.ts:17-24).  Of one proxy's events no two have the same *)
(* id, which is the key of their rows (PayloadInspector.tsx:115).          *)
(***************************************************************************)
KeepsLatest ==
  LET all == Reverse(queued) \o events
  IN /\ \A i \in DOMAIN all : all[i].serial = arrivals + 1 - i
     /\ \/ Len(events) = MAX_EVENTS
        \/ Len(all) = arrivals
     /\ restarts = 0 =>
          \A i, j \in DOMAIN events : events[i].id = events[j].id => i = j

(***************************************************************************)
(* The number of events the request log gives for a filter is the one on   *)
(* the route's card, although one is computed on every render and the      *)
(* other memoized, and the log's first row is the latest of them.  The     *)
(* cards add up to what the tile says was captured, but for the events     *)
(* without a label (PayloadInspector.tsx:31-33, useMetrics.ts:12-18,       *)
(* TrafficDashboard.tsx:53 and 145).                                       *)
(***************************************************************************)
LogMatchesCards ==
  LET all == Filtered(events)
  IN /\ filter # "all" => Cardinality(all) = metrics[filter].count
     /\ all # {} => Min(all) \in Shown(events)
     /\ Tiles.captured = SumFunction([l \in RouteLabel |-> Cards[l].count])
                           + Cardinality(Labelled(events, Unknown))

(***************************************************************************)
(* Once its effects have run, the chart is drawn if there has been an      *)
(* event, and its end is what the cards show and adds up to the tile's     *)
(* rate, also when the chart is full (MetricsBar.tsx:23-34 and 68,         *)
(* TrafficDashboard.tsx:54).                                               *)
(***************************************************************************)
ChartEndsAtCards ==
  up /\ ~effects =>
    /\ events # << >> => ChartDrawn
    /\ \A l \in RouteLabel : Last(history)[l] = Cards[l].rate
    /\ SumFunction(Last(history)) = Total /\ Total = Tiles.rate

(***************************************************************************)
(* The page speaks of one decision: the route of the tile is the one whose *)
(* card is active, the reasoning on that card, found among the kept        *)
(* events, is the one the diagram quotes, and the badge spells out the     *)
(* decision its ring shows or one for another route that is fading out,    *)
(* never another request's for the same route.  A label that is no route   *)
(* is active nowhere (TrafficDashboard.tsx:52-58, 146, 186-192, 213-220,   *)
(* RequestFlow.tsx:207-213, ClassifierBadge.tsx:71-79).                    *)
(***************************************************************************)
OneDecision ==
  LET active == {l \in RouteLabel : Cards[l].active}
  IN /\ active = {Tiles.pool} \ {"waiting"}
     /\ \A l \in active : Cards[l].reasoning = Quoted
     /\ Panel # None /\ Panel.text.label = Panel.ring.label => Panel.text = Panel.ring

(***************************************************************************)
(* MetricsBar.tsx:43: the rates are those of a "rolling 5s window".  When  *)
(* no more events arrive, they are in the end those of the window that     *)
(* ends now.                                                               *)
(***************************************************************************)
RatesRoll ==
  <>[](up => \A l \in RouteLabel :
               metrics[l].recent = Cardinality(Recent(events, l, now)))

(***************************************************************************)
(* TrafficDashboard.tsx:173: the animated packet shows the latest route    *)
(* chosen by the model.                                                    *)
(***************************************************************************)
PacketShowsLatest == up /\ ~effects /\ events # << >> => packet = Head(events)

(***************************************************************************)
(* It does as long as the proxy does not restart: of the events one proxy  *)
(* sends, in whatever order their ids arrive, the last one rendered is the *)
(* one the packet was last sent out for (RequestFlow.tsx:47-61).           *)
(***************************************************************************)
PacketShowsLatestOfOneProxy == restarts = 0 => PacketShowsLatest
=============================================================================
