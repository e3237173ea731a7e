# A verification of Semantic LB

TLA+ models of the semantic load balancer: a Go proxy that asks a Python
classifier which pool a request belongs to, forwards it there, and streams what
it has done to dashboards. TLC checks the models on small instances; TLAPS proves
the results of section 5 for every value of the constants.

## 1. The system

| Part | Source | State | Operations |
|------|--------|-------|------------|
| Event hub | `proxy/handler/proxy.go` 45-103, 187-190 | `h.events` (256 places), `h.sseClients`, a channel of 32 places per SSE connection | the handlers' `select` on `h.events`; `broadcast`; `SSEHandler` |
| Request handling | `proxy/handler/proxy.go` 115-194, `proxy/classifier/client.go`, `proxy/middleware/metrics.go` | one goroutine per request; the metrics; `idCounter` under `h.mu` | `ServeHTTP`, `Client.Classify` |
| Router and pools | `proxy/balancer` | an atomic `uint64` per pool | `Router.Route`, `Pool.Next` |
| Configuration | `proxy/config/config.go` | none | `Load`, `getenv`, `splitURLs` |
| Proxy process | `proxy/main.go` | two HTTP servers with their connections, the context of the shutdown | start, signal, the two `Shutdown`s, `log.Fatalf` |
| Classifier | `classifier/app` | a `TTLCache` of 512 entries and 30 s; the executor's threads; counters | `/classify`, `cache.get`, `cache.set`, `llm.classify` |
| Dashboard page | `dashboard/src` | the last 200 events, the chart's 60 points, the last id animated, the log's filter | `useTrafficStream`, `useMetrics`, the effects of `MetricsBar` and `RequestFlow`, the filter of `PayloadInspector`, the text of `ClassifierBadge`; `RouteCard` |
| Smooth scroll | `DesktopSmoothScroll.tsx`, `layout.tsx` | the stored scroll position, the frames asked for, the library's instance and observer, the attribute that hides the body | the inline script, two effects and their cleanups, the listeners, the import |
| Workers, deployment, scripts | `workers`, `k8s`, `scripts` | none | |

**How they interact.** A request is classified by an HTTP exchange with a timeout
of ten seconds; the classifier asks the model with a timeout of eight. The label
chooses the pool (an unknown one means `general`), the pool's counter the
upstream, and a `ReverseProxy` forwards the request. Then the handler writes the
metrics, takes an id and offers an event to the hub. The hub copies it to the
channel of each connected dashboard, whose `EventSource` hands it to React.

**What is hard.** In the proxy everything shared is touched by one goroutine per
request, one per dashboard and `broadcast`; channels are full, dashboards come and
go while the map is walked, and the end of a request can be a panic. In the
classifier calls overlap at one `await`, time out while their threads run on, and
share a cache with two orders of eviction. On the page messages, renders,
effects and the clock interleave, and the proxy at the other end may restart; its
scroll position is restored by five callbacks in an order that varies, and a
library may come when the page is gone. The process is told to end at any moment,
while some connections never become idle.
`PROJECT.json` lists the hazards, each at its line, with the properties that cover it.

**What makes each part correct.** Hub: order, no duplicates, no loss but by a full
channel, never waiting for a dashboard. Requests: used pools, metrics, ids and
events account for each other; no wait on the classifier or on a dashboard.
Pools: fairness in every interleaving. Classifier: no answer about another
payload, nothing in the cache nobody was told, every call answered. Page: what it
keeps is the latest, its views agree, and a reload leaves it where it was. Process:
it ends, cuts nobody off too early, and can be scraped to the last.

## 2. The modules

| Module | Models | How it corresponds |
|--------|--------|--------------------|
| `EventHub` | the hub | `events` is `h.events`, `sseClients` the keys of the map, `closed` the closed channels; `todo`, `cur`, `ev` are the locals of `broadcast`; `conn[c]` the place of a `SSEHandler`. A step is one channel operation, one call of the `sync.Map`, or one entry of a `Range`. `Visit` and `Send` are two steps because the callback has loaded a channel before it sends: between them the connection may `Delete` and `Close`. A client is a connection; one that reconnects is another. |
| `LossyMulticast` | what the hub promises | Events are accepted in an order; each client gets some, in that order, once. |
| `Balancer` | router and pools | `Pool.Next` is one atomic `Add`; the rest of it is local, so `NextUpstream` is one step. The counter is reduced modulo `CounterMod` (2^64). |
| `Config` | the upstream lists | Splitting, trimming and dropping blanks, on lists of parts. |
| `Proxy` | a request from end to end | Instances `Balancer` and, with requests for events, `EventHub`. One action per shared operation or exchange: `Read`, `Classified` or `Fallback`, `Route`, `Forwarded` or `CopyAborts`, `Count`, `Number`, `Publish`. A body is `plain`, `refused` (JSON the classifier's `ClassifyRequest` does not accept) or `garbled` (no JSON: `json.Marshal` fails). A panic of `broadcast` stops everything. |
| `Classifier` | the service | A coroutine gives up the loop only while it waits for the model, so that `Arrive`, `Finish` and `Timeout` are one step each. `lru` and `age` are the two orders `TTLCache` keeps; `Expire` drops an entry when its time is over, which no operation can tell from dropping it when it is next looked at. A cache hit leaves `age` alone. `queue` and `running` are the executor. |
| `Dashboard` | a page | `OnMessage` queues an update of React's state; `Render` applies the queued ones and recomputes the metrics; `Effects` extends the chart and sends out the packet, before the next `Render` (the code's effect queues the chart's update for a render of `MetricsBar` alone; nothing else reads it). `serial` and `arrivals` number the messages and are read by no action. What is shown (`Tiles`, `Quoted`, `Panel`, `Cards`, `Total`, `ChartDrawn`) is computed from that state; a reasoning is named by its event. `block` is the text of the badge, which `AnimatePresence mode="wait"` keeps until it has faded out (`ExitComplete`). |
| `SmoothScroll` | the scroll position over reloads | One action per callback: the inline script (part of `Reload`), `DOMContentLoaded`, the layout effect, the effect, the import, the observer, each animation frame (`frames` is their queue), the listeners, the two cleanups. Positions are screens; `height` grows when the markup comes in and with the traffic, and clamps `y`. `left`, `touched`, `heard` and `misused` are histories. |
| `Lifecycle` | the process | `main` is the place of `main`, `server[s]` that of a server's goroutine, `conn[c]` a connection. `Start` and `Bind` are the two places where `ListenAndServe` looks at `inShutdown`. `BindFails` and `AcceptFails` are its other errors, which end the process (`Fatal`) in whatever state it is. `CloseIdle` and `Drained` are what `Shutdown` does between the ticks. |

`MC_Balancer`, `MC_Proxy` and `MC_Dashboard` give the constants that a
`.cfg` cannot express and the symmetry. Operators whose name begins with `Fault` are mutated
forms of an action or helper, used by no specification: `PROJECT.json` ("mutants")
says which property finds each of them.

## 3. The runs

| Run | Checks | Instance, and why it is enough |
|-----|--------|--------------------------------|
| `hub` | `TypeOK`, `StreamOrder`, `NoUndueLoss`, `RegisteredIsOpen`, `HubDrains`, `ImplementsMulticast` | 3 events, 2 dashboards, 2 places in `h.events`, 1 per dashboard: both kinds of drop, joins and departures in the middle of a `Range`, a dashboard that drops while the other does not. If `broadcast` could be held up, one event would fill a channel, one wait to be sent and one wait in `h.events` for ever. No symmetry, for the liveness property. |
| `hub_panic` | `BroadcastNeverPanics`, violated | 1 event, 1 dashboard. |
| `balancer` | `TypeOK`, `Balanced` | pools of 3, 2 and 1, loaded through `Config`, and a counter that wraps at 4: in the middle of a turn for 3, between turns for 2. |
| `proxy` | `TypeOK`, `Conservation`, `DenseIds`, `ShownIsCounted`, `RealTimeOrder` | 2 requests, both with a place in `h.events` (the full hub is in `hub` and `proxy_live`), 1 dashboard; a pool of 2, a pool whose upstream does not parse, an empty pool. |
| `proxy_live` | `NeverBlocksOnClassifier`, `NeverBlocksOnDashboards` | 2 requests, 1 place in `h.events`, so that the second finds it full; no dashboard, because what could hold a handler up is a hub that does not move, and the hub is not assumed to. |
| `proxy_fallback` | `ErrorFallsBackToGeneral`, violated | 1 request. |
| `classifier` | `TypeOK`, `Honest`, `CachedWasReplied`, `EveryCallAnswered` | 3 calls and 3 payloads against a cache of 2 and 1 thread: eviction, overwriting, expiry, and calls that wait behind a job that was given up. |
| `dashboard` | `TypeOK`, `KeepsLatest`, `LogMatchesCards`, `ChartEndsAtCards`, `OneDecision`, `PacketShowsLatestOfOneProxy` | 3 messages against 2 kept, a chart of 2 points, a log of 1 row, a window of 1, 1 restart; 2 labels and the empty one, so that a text can fade out while its route comes back. The two labels are permuted (symmetry). |
| `dashboard_restart` | `PacketShowsLatest`, violated | the same; one event before the restart and one after it. |
| `dashboard_rate` | `RatesRoll`, violated | 1 event and a clock that passes the end of its window of 1. |
| `scroll` | `TypeOK`, `RestoresPosition`, `SavesPosition`, `LibraryGoesWithPage`, `OnlyUserScrolls`, `PageIsShown` | 3 loads of a page of 1 screen without traffic and 2 with it, on a desktop and not: it is left, and left again before it is mounted; positions that the reloaded page can and cannot reach. |
| `lifecycle` | `TypeOK`, `CutOnlyAfterGrace`, `MetricsOutliveRequests`, `Terminates` | 2 requests, so that one connection is idle and one busy, a dashboard, a scrape; each server can fail to bind, or fail later. |

Each event, connection, request and call is used once, which bounds the models;
`MaxWraps`, `MaxArrivals`, `MaxRestarts`, `MaxTime` and `MaxReloads` are bounds of the models
too. Runs whose bounds stop them do not check for deadlock.

What the violated runs show:

- `hub_panic`: `broadcast` loads a channel from the map, the dashboard leaves and
  its handler deletes and closes the channel, `broadcast` sends: a panic that
  nothing recovers, so that a browser tab closed at the wrong moment ends the proxy.
  `RegisteredIsOpen` shows that this is the only closed channel it can meet.
- `proxy_fallback`: a 422 of the classifier decodes to an empty response; the
  request goes to the general pool, but its label is empty in the metrics, in
  `X-Route-Label` and in its event, and an event with such a label throws in
  `RequestFlow`, which takes the page down (`Animate` in `Dashboard`).
- `dashboard_restart`: ids start again with the proxy, and the diagram compares ids.
- `dashboard_rate`: the number that `MetricsBar` heads "rolling 5s window" is computed
  when the list of events changes and at no other time. When traffic stops, the
  page goes on showing its last rate, however long nothing comes.

## 4. Fairness

- `EventHub`: weak fairness of `Broadcast`, a goroutine that never waits but for an
  event. None of the dashboards, whose sockets may stall for ever, nor of requests:
  `HubDrains` holds without them.
- `Proxy`: weak fairness of what depends on the request's goroutine alone (`Local`)
  and of `Fallback`, whose `http.Client` has a timer (`client.go:31`). None of the
  classifier's answers, of the upstreams (there is no timeout on them), of the hub.
- `Classifier`: weak fairness of `Timeout`, a timer of the event loop
  (`llm.py:44-57`). None of the model or of its threads.
- `Dashboard`: `Spec` has none. `FairSpec`, which only `dashboard_rate` uses, has weak
  fairness of renders, effects, the end of the badge's fading and the clock: of a page
  that is open and looked at. None of the stream or of the user.
- `SmoothScroll`: weak fairness of the markup's arrival, of React's mount and of
  animation frames: of a page that is loaded and looked at. None of the library, of
  `DOMContentLoaded`, of the user: `PageIsShown` holds without them.
- `Lifecycle`: weak fairness of `main`'s own steps and of the timer of its context
  (`main.go:59`). None of clients, handlers, or the servers' goroutines.

## 5. Proofs

Every safety invariant and action property that a run of section 3 checks and TLC
finds to hold is a theorem here, for every value of the constants; so is the
refinement of the hub. Each module but `Sums`, which has lemmas only,
states an inductive invariant `Inv` (`HubInv` for the hub) and proves
`Init => Inv`, `Inv /\ [Next]_vars => Inv'`, and that `Inv` implies the properties. The bounds of the
models (`MaxWraps`, `MaxArrivals`, `MaxRestarts`, `MaxTime`, `MaxReloads`) are
arbitrary numbers in the proofs.

`BalancerProofs`, for any pools and any modulus, from `BalancerAssumption`:

- `Types`: `TypeOK`.
- `FairShare`: `Balanced`. It is not inductive: a counter in the middle of a turn
  and one at its end allow the same differences. The invariant states the number
  of choices of each upstream from the counter and the number of wraps; the
  arithmetic of remainders is in lemmas of its own.

`EventHubProofs`, for any events, clients and capacities, from `HubAssumption`:

- `Types`: `TypeOK`, and `Invariance`: `HubInv`, which adds
  `Phases` (registry, closed channels and the place of each handler agree),
  `Queue` (the queue holds the events after those taken, in order, and no two
  events have one place), `Past` (nobody has got what was not given out; who is
  still to be visited lacks the current event) and `Delivered` (`NoUndueLoss` in
  the middle of a `Range`). Without `Past`, an event could reach a client twice or
  late; without `Delivered`, nothing is known of a `Range` that is under way.
- `Order`, `Loss`, `Open`: `StreamOrder`, `NoUndueLoss`, `RegisteredIsOpen`.
- `Refinement`: every step of the hub is a step of `LossyMulticast` or a stutter:
  `Enqueue` accepts, `SendBuffers` delivers, `Write` moves an event from the
  channel to the stream, which together are what a client has got.

`Sums`: lemmas about `SumFunction`, which `Proxy` and `Dashboard` add with. It is
defined by recursion on the subsets of its domain, so what it yields needs
induction. The library's induction theorems take an operator and cannot be used;
`SetInduction` and `NumberInduction` state induction for a *set* of sets or of
numbers and follow from the library's theorem that strict inclusion is well-founded
on finite sets. From them: a sum of integers is one (`SumType`), one of zeroes
is 0 (`SumZero`), it changes by what a term changes (`SumChange`), and the numbers
of elements with each label add up to the number with any (`SumParts`).

`ProxyProofs`, for any requests, answers, pools, capacities and dashboards, from
`ProxyAssumption`. A step of `Proxy` is a request's step that leaves the hub alone, a
publication, which is the hub's `Offer`, or a step of the hub (`Steps`). So
`EventHubProofs` and `BalancerProofs` are instantiated, and their lemmas, whose
assumptions follow from `ProxyAssumption`, hold of the hub and the pools in the proxy.
`Inv` is `HubInv` with

- `Numbers`: exactly the requests past `Number` have an id, at most `idCounter`, and
  `DenseIds`; without the bound the next id could be one in use;
- `Arrived`: what was over when a request arrived has the smaller id and, once
  both were offered, the earlier place in the queue. `RealTimeOrder` speaks of what
  dashboards got; the order there comes from the hub's `Order`, the order of the
  offers from here;
- `Metrics`: each count of `requestsTotal` is the number of the requests past `Count`
  with that label and status. `ShownIsCounted` follows, as a dashboard gets no
  event twice (`HubInv`) and only requests past `Count` publish;
- `Conserved`: `Conservation`, with the set it counts finite. `Route` adds one to
  the calls of a pool and one to that set, also where the pool is empty and the
  request ends with it; `Count` moves one from the set to the metrics. The calls are
  what the counter shows with its wraps, so that the wrap has to be shown to lose
  none (`BumpAdds`).

`Types`, `Dense`, `Conserves`, `ShownCounted` and `RealTime` are the run's invariants;
`HubWithin` says that the hub inside the proxy still implements `LossyMulticast`, and
`PoolsWithin` that its pools are fair.

`ClassifierProofs`, for any calls, payloads, verdicts, threads and size of the cache,
from `ClassifierAssumption`. The cache's operations are treated once:
`StoreFacts`, `TouchFacts` and `ExpireFacts` say what an insertion, a hit and an
expiry do to the two orders, sequences without repetition (`RemoveFacts`,
`AppendNew`, `TailFacts`, `MoveFacts`). `Inv` adds to `TypeOK` and the two properties

- `Aged`: `age` repeats no key. `TypeOK` has it for `lru` only, and an eviction
  that left a second entry of its victim in `age` would part the two orders;
- `Jobs`: who waits for a thread asks and has no thread and no outcome; who runs
  has called; who has an outcome asks. Otherwise a call could be queued twice, or
  an outcome reach a call that was answered;
- `Sourced`: outcomes on their way and cached verdicts are the model's about that
  payload, or the fallback. `Honest` is not inductive without it: a hit hands out
  what is cached.

`Honesty` and `Replied` are `Honest` and `CachedWasReplied`.

`DashboardProofs`, for any routes, any sizes of the list, the window, the chart and
the log, any number of messages and restarts, from `DashboardAssumption` (the chart
has at least two points) and `NoneAssumption`. `Inv` says of each thing shown from
which events it stems:

- `Placed`: the serial numbers of what waits and of what is kept, and that nothing
  was cut off but by a full list. `KeepsLatest` is its form for the whole page;
- `OneProxy`: while the proxy has not restarted, ids differ, and no event that waits
  to be rendered, or to be animated, has the id that was animated last. That
  is why `Animate` never takes a new event for the old one; it is lost at a restart,
  as the run `dashboard_restart` shows;
- `Computed`: the metrics are those of the kept events at some time past. That the
  events are the kept ones gives `LogMatchesCards` (with `CountsAdd`, an
  induction on the sum over the routes); nothing can be said of the time but that it
  is past, as the run `dashboard_rate` shows;
- `Drawn`: effects are due only when there is an event, and when none are due the
  chart ends at the metrics: `ChartEndsAtCards`;
- `Spelt`: the badge's text is the latest event or one of another label:
  `OneDecision`, with `Min` of the places of a route's events being the latest's.

`SmoothScrollProofs`, for any heights and any number of loads, from
`ScrollAssumption`. `Inv` adds `Waiting` (how often each callback can wait for a
frame, and that `ticking` tells whether one that saves does), `Library` (when
the library can run, observe or have been destroyed), `Length`, `Kept` (while the page
does not listen, nothing overwrites what was stored) and `Aimed` (once it
does, all that still restores restores the same position). `Restores`, `Saves` and
`LibraryGoes` are the run's invariants, `UserScrolls` its action property; without
`Kept`, a frame of the old page could store a position after the page was left.

`LifecycleProofs`, for any connections: `Inv` adds `Phases` (how far `main` is tells
which servers shut down), `ShutIsDeaf` (one that does never listens, although its
goroutine may reach the port later) and `NoneCutYet` (nobody is cut off while the
process runs; `FatalKeeps` treats the end by `log.Fatalf`). `Grace` and `MetricsLast`
follow; without `ShutIsDeaf` a drained server could get a connection
that the exit then cuts off.

Only model-checked: liveness (`HubDrains`, `NeverBlocksOnClassifier`,
`NeverBlocksOnDashboards`, `EveryCallAnswered`, `PageIsShown`, `Terminates`), which is
beyond the prover. What `Config` computes is given to `Balancer` as a constant in the
run `balancer` and has no theorem.

## 6. What is not modelled

Latencies and their histograms, the p99 of the cards, confidence and snippets;
headers; the classifier's `/metrics` and hit counters; the prompt; layout and
styles. The workers keep no state. Deployment files and scripts have no behaviour
of their own. Clocks of the proxy and of the browser are one clock in `Dashboard`.
A restart of the proxy or of the classifier loses all of its state and is `Init`;
`Dashboard` sees it from the other side. Of the library that scrolls the page only
the calls are modelled; a session storage that throws, a page taken back from the
browser's cache, a fragment in the address, to which the browser scrolls by itself,
and the rows of the log that are fading out are left out.

Where a model is coarser than what it stands for: `Reuse` of a connection is atomic,
while `net/http` can close one whose next request has just arrived but was not read;
a restored position is reached at once, while the page's `scroll-behavior: smooth`
(`globals.css:31`) animates a restore at `DOMContentLoaded` that comes when
`data-restoring-scroll` is gone.

The README of the repository says that repeated identical payloads "skip the LLM call
entirely" (README.md:27). That is not so of a payload repeated while the model is
still asked about it: the cache is looked up before the call and filled after it, and
`Arrive` asks again. The model shows it, without a run of its own.

Known, and no document says otherwise, hence not among the runs: a fallback is
cached for the whole TTL, and that of a call that timed out can replace a good answer
that an overlapping call has brought; after a restart of the proxy two rows of the
request log can have the same key; the library moves the page back to
the restored position when it arrives after the user has scrolled; a frame that
waits to save when the page crashes saves the position of the page with the error.
The models contain all of them.

## 7. Plan

Done: all modules of section 2; the proofs of section 5, which cover every safety
invariant and action property of the runs.

1. `Config`: what `splitURLs` yields, as a lemma for lists of any length, so that the
   assumptions on the pools follow from the configuration.
2. `Proxy` as a refinement: a request from end to end against a specification that
   knows only calls, choices, and answers.
3. The steps of the liveness arguments that are safety, as lemmas: a measure of
   what `Fallback`, `Broadcast` and `Timeout` bring nearer to the end.
