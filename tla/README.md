# A TLA+ model of JobMonitor

JobMonitor (`src/`) is a Go service that checks systemd units at an interval,
keeps the results in a JSON file, copies the results of other JobMonitor nodes,
and serves a status page. This directory models the parts of it in which order,
failure and time matter, checks them with TLC, and proves the most important
results with TLAPS for every size of the system.

The program has no tests. The references are the code, its comments and
`src/README.md`.

## 1. The system

| Component | Source | State | Operations |
|---|---|---|---|
| Process | `cmd/jobmonitor/main.go` | which loops run, the signal context | start, wait, deferred stops, `log.Fatalf` |
| Status monitor | `internal/monitor/monitor.go` | `stopCh`, `doneCh`, ticker | `run`, `RunOnce`, `checkTarget`, `Stop` |
| Status store | `internal/storage/storage.go` | `history`, `version`, the file | load, `Append`/`persist`, `Latest`, `HistorySince`, `Version` |
| Connectivity monitor and store | `internal/monitor/connectivity.go`, `internal/storage/connectivity.go` | `latest`, `history` (capped), the store's copy, the file | seed, `probe`, `Replace`, `Latest`, `HistorySince` |
| Cluster fetching | `internal/cluster/service.go` 99-126, 237-347 | `peersData`, the context | `run`, `fetchAllPeers`, `fetchPeer`, `Stop` |
| Cluster snapshot | `internal/cluster/service.go` 129-235, 305-436 | none of its own | `Snapshot`, `localSnapshot`, `materialisePeerSnapshot` |
| Uptime | `internal/metrics/uptime.go` | none | `ComputeServiceUptime` |
| Timelines | `internal/history/timeline.go` | none | `BuildServiceTimelines`, `BuildConnectivityTimeline` |
| Server | `internal/server/server.go` | `timelineCache` | REST handlers, `Run`, `Shutdown` |
| Overview | `internal/server/overview.go` | one loop per WebSocket | `handleOverview`, `serveOverviewConnection`, bucketing, choice of services |
| Page | `internal/server/static/ui.js` | range, view, timers, banner | refresh, render, overview polling |
| Configuration | `internal/config/config.go` | none after start | defaults, `Load` |

How they interact:

- `main` starts the status monitor, the connectivity monitor, the cluster loop
  and the server, each in goroutines of its own, and on a signal undoes that in
  reverse with deferred calls. Another goroutine, which nobody waits for, calls
  `Shutdown`.
- The two monitors are the only writers of their histories. Everything else reads
  the stores under a read lock, one call at a time: a request that needs the
  version, the history and the latest entry takes the lock three times.
- The cluster loop calls `/api/node/status` and `/api/node/history` of each peer
  in turn and keeps one copy per peer, which requests then read.
- The page polls `/api/cluster` every 30 seconds and `/api/overview` every 60. The
  server also pushes the overview to any client of `/ws/overview`, with two goroutines
  per connection; the page does not use that.
- The configuration is read once. The interval of a node bounds what it gives out and
  what it keeps of others (`historyLimit`, `historyCap`), and each node derives these
  from its own.

What is hard in it: the process may die between any two steps of a save; a save
may fail after memory has changed; timestamps follow a clock that may be set back;
a peer is read by two requests between which it changes or restarts; reads under
several locks race with appends; Stop waits for a round, the server's shutdown for
requests, and `main` for only one of the two; fetches of the page overlap and
answer in any order, or hang; a WebSocket client may stop reading without closing;
what one node shows of another is cut by the limits of both and grows old. `PROJECT.json` lists each as a hazard at its line.

What makes each part correct:

- *Status store*: nothing saved is lost or altered, whatever fails; a nil error
  means saved; queries return what they say.
- *Connectivity*: never more samples than the cap, the latest of them last, what was
  saved survives, only old samples go.
- *Process*: a signal always ends it; it ends between rounds, not inside one.
- *Cluster*: each peer is asked in its turn whatever the others do; what is shown of
  it is a piece of its log; absence shows; a return is caught up with.
- *Uptime*: missing samples are downtime and samples lost unsaved, up to a bounded
  error; an aggregator shows of a node what the node shows itself, but for what its limit
  cuts off, what is new and what the node has lost since.
- *Cache*: a cached timeline is the timeline of its version.
- *Timelines and overview*: what a dot or a light says of its time is what the checks
  said; none is lost between two of them; a hole means silence and silence shows; the
  choice of services is fair and stable.
- *WebSocket*: who reads is served, who does not is dropped, with both goroutines.
- *Page*: the cards fit the button; errors do not outlast their cause; an overview
  without a banner is fresh; a server that answers is not reported as unreachable.

## 2. The modules

| Module | Models | Composes |
|---|---|---|
| `DurableLog` | what a status history promises: a log, its durable prefix, restart | |
| `StatusStore` | `StatusStorage`, its writer, the file, kills, the clock | implements `DurableLog` |
| `StatusStoreProofs` | theorems about `StatusStore` | |
| `NodeLifecycle` | `main`, the loops, the shutdown goroutine, requests, signals | |
| `OverviewPush` | the connections of `/ws/overview`: handler, reader, client, buffers | |
| `NodeFeeds` | a process with the connections it serves | extends `NodeLifecycle`, instantiates `OverviewPush`, implements `NodeLifecycle` |
| `NodeFeedsProofs` | theorems about `NodeLifecycle` and `NodeFeeds` | |
| `ClusterSync` | the fetch loop, the two handlers it calls, the peers | peers change as `DurableLog` says |
| `ClusterSyncProofs` | theorems about `ClusterSync` | instantiates `DurableLog` for each host |
| `Configuration` | what `Load` makes of a file, and the sizes derived from it | |
| `Connectivity` | `ConnectivityMonitor` with `ConnectivityStorage` | extends `Configuration` |
| `ConnectivityProofs` | theorems about `Connectivity` | |
| `Uptime` | `ComputeServiceUptime`, `filterHistory` as functions | |
| `UptimeWindow` | a node that starts, makes rounds and dies, and the uptime it then shows | extends `Uptime` |
| `ClusterUptime` | an aggregator that fetches that node's history, and the uptime it shows of it | extends `UptimeWindow` and `Configuration` |
| `UptimeProofs` | theorems about `UptimeWindow` and `ClusterUptime` | |
| `TimelineCache` | `localPeerSnapshot` and its cache under concurrent requests | |
| `TimelineCacheProofs` | theorems about `TimelineCache` | |
| `Timeline` | the timelines of `internal/history` as functions | |
| `Overview` | the buckets of `internal/server/overview.go` and its choice of services as functions | extends `Timeline` |
| `StatusPage` | a node that checks, probes and fetches, and what the timelines and the overview then show | extends `Overview` and `Uptime` |
| `StatusPageProofs` | theorems about `StatusPage` | |
| `DashboardRefresh` | the page's overlapping refreshes | |
| `OverviewPolling` | the overview's polls, the view switch and the connection banner, with time | |
| `BrowserProofs` | theorems about `DashboardRefresh` and `OverviewPolling` | extends both |
| `MCClusterSync`, `MCClusterUptime`, `MCConnectivity`, `MCStatusPage`, `MCTimelineCache` | instances for TLC | |

Operators whose names end in a slip (`Boot_WithoutLoad`, `Hit_AnyVersion`, ...)
are not part of any specification. Each is a version of the definition it is named
after with a bug the code might have; put in its place it must make TLC report the
property it is paired with in `PROJECT.json`. This is how we know that the
property watches that part of the code.

### StatusStore

An entry is its timestamp, the only part the store looks at. `pc` is where the
single writer is: a round of checks (`checking`), then `Append`'s two file
operations under the write lock (`writing`, `renaming`). Every file operation may
fail, and `Crash` is enabled at every `pc`. Memory (`history`, `version`) goes with
a crash, `disk` stays. The temporary file has a fresh name and is never read, so it
is not in the state. `load` gives an empty history for an absent or empty file;
a file that does not parse cannot come about by killing the process, because only
whole files are renamed. `setBack` is a history variable that only the properties
about order read. Queries are operators: they run under the read lock, hence in
states in which `pc` is not one of the locked ones.

`Log == INSTANCE DurableLog` maps the log to the memory of a live process and to the
file when the process is down, so that the crash is where the log falls back, and
`saved` to the length of the file.

### NodeLifecycle

`main` is a program counter over the statements of `main.go` that start or wait for
something, through the deferred calls in their order. A loop is new, checking,
saving, selecting or ended. `Stop` is two steps, because the loop may end a select
between the test of `doneCh` and the close of `stopCh`. A signal is caught between
`NotifyContext` and the deferred `stop()` and kills before and after. `Fail` is
`log.Fatalf`, which skips the deferred calls.

A connection of the HTTP server is `open`, with no request on it, or `active`. Requests
come on open connections whenever they like, also while `Shutdown` waits and while the
monitors are being stopped: `Shutdown` ends the accepting of connections, closes those it
finds idle, and waits until there is none. A connection is kept after a request only
before `Shutdown` began. None of the properties rests on requests having stopped when the
monitors do, and what such a request reads may be of a monitor that has ended.

### OverviewPush and NodeFeeds

A connection is what its handler does next (`first` write, `selecting`, `writing`),
what its reader does, whether a tick waits, what its client does, and how many
snapshots lie unread in the buffers of both ends. A write succeeds while there is room;
it fails by its deadline when there is none, or because the client has closed. A
stalled client has not closed and does not read. `Closed` is what the deferred
`conn.Close` leaves: the reader, if there is one, has still to notice.

`NodeFeeds` opens a connection out of a request (`UpgradeRequest` is a `RequestEnds`
of `NodeLifecycle`: the HTTP server forgets a hijacked connection, so that `Shutdown`
does not wait for it) and ends all of them with the process.

### ClusterSync

Hosts keep logs as `DurableLog` says; an entry is its host and a number that the host
gives out once, so that a lost entry differs from the one recorded in its place. A peer
is a host and an identifier, and copies are kept by identifier, as in `peersData`:
`config` is one of several lists of peers, in one of which two hosts share an
identifier, as `Load` allows. What is shown then is one host's or the other's, never a
mixture, which is what the properties say of any list. The loop is at a peer (`turn`), waiting for its status or its history. `got` is the status
between the two answers. A request ends in an answer if the peer answers and the
context is not cancelled, else in an error; which error does not matter to the code
that follows. The range of the history request (30 days) is taken to reach over the
whole log; the two limits are modelled.

### Connectivity

The sample, the history and its copy change under the lock (`RecordSample`); the
store's copy and the file change later, outside it. A restart picks any of several
configuration files; `Load` and `MaxHistory` of `Configuration` make a cap of it. With
the probe disabled old samples are still shown, as many as the smallest cap.

### Configuration

A file is a record of the fields it sets, laid over the defaults. Kept are the fields
that sizes, peers and the monitors depend on. `HistoryCap` (of the cluster service),
`HistoryLimit` (of the server) and `MaxHistory` (of the connectivity monitor) are the
three sizes derived, with their floors, slacks and ceiling as constants.

### Uptime and UptimeWindow

`Uptime` is the arithmetic, over sequences of entries. `UptimeWindow` makes those
entries the way a node does: a round at the start, a ticker made after it, at most
one tick kept while a round lasts, entries stamped with the beginning of their round
and visible at its end. A round lasts until `Append` has returned, so that its length
includes the save. The save may fail: the loop logs the error and goes on, the entry is
in memory, where readers find it, and a later save takes it along. `saved` is how many
entries the file has; `Kill` leaves these, which the next process loads, and the others
go to `lost`, a history variable. `lives` records when the process was really up, and the
properties compare. Every check passes, so that everything short of 100% is what the
code takes to be downtime.

How far the two may be apart depends on saves and on the length of rounds. A sample that
died unsaved is missing although the node was up. Each process adds a sample at once,
which stands for no time. The first round of a process puts off its ticker, and a kill may
cut its last one, so that up to two rounds of each go uncounted; and the window may begin
just after a sample. `MissingTracksDowntime` counts the lost samples of the window as
downtime and bounds the rest. It speaks of rounds shorter than the interval: a longer one
makes the ticker drop ticks, and each is a missing sample although the node is up.

### ClusterUptime

An aggregator with a configuration of its own fetches the history of the node of
`UptimeWindow`, in one step, because `ClusterSync` already has what may come between
the two requests; it keeps the copy while the node goes on, dies and starts again, and
at any moment computes the uptime of any window from it. The node's own answer for the
same window (`handleNodeUptime`) is what the properties compare with. `known` is a
history variable, the node's entries at the time of the fetch: a node whose saves failed
may since have lost the newest of them, and the copy then has entries that the node has
not. `Kept` is how many both have in common. An old copy may therefore show less downtime
than the node itself, by at most the entries lost, and more, by at most the new ones.

An aggregator with a longer interval than the node's asks for fewer entries than the
node records in 30 days; the uptime expects one per interval of the node, so that
`CutCountsAsMissing` says how many samples are missing for no other reason. With the
shipped numbers an aggregator at five minutes shows a healthy node at one minute as
missing 34555 of 43200 samples of the month.

### TimelineCache

A request is a sequence of calls that each take a lock: window, version, history,
latest entry, cache lookup, build, version again, save. The shipped `main` always
passes a cluster service, so these requests occur only in a server built without
one; `localSnapshot` of the cluster service makes the same reads without a cache.

### Timeline, Overview and StatusPage

`Timeline` has the two bucketings. A service timeline walks the samples with a
cursor and takes bucket by bucket those up to, and without, its end; the class of a
bucket is its worst sample, no data being worse than a warning. A connectivity
timeline includes the end of a bucket, shows the last sample of it, and carries the
last state on over the gap `deriveConnectivityGap` finds. `Overview` maps the dots to
three lights, buckets probes by itself, sorts nodes and services, and takes services
in turn. Go's `sort.Slice` is the operator `Sorted`: the n-th is the element that n - 1
others come before. It says of the result what the code relies on, and the order of
equals, which `sort.Slice` leaves open, never matters: samples of one history differ in
time, and nodes and services are told apart by their identifiers in the end.
`StatusPage` produces the histories: `CheckTarget` turns what `systemctl`
prints into a check, a window slides with the clock, and all of the page is an operator
of the present state. The dashboard's windows (24 hours, 30 days) and the overview's
(30 minutes) are one window here, since the code treats them alike. Services, probes
and peers share only the clock; each behaviour is about one of them (`subject`).

A light may be green although a check inside it found the service `activating`, when
another check in the same dot found out nothing (`unknown`): no data outweighs a
warning in `evaluateBucket`, and the other dots of the light decide. Two checks in one
dot of 22 seconds need a restart between them. `GreenLightIsReal` states exactly that
exception.

A range of the dashboard may have more probes than `connectivityHistoryCap`: the newest
are drawn (`DrawnProbes`), and `HoleMeansSilence` names the far end that the cap empties
as the only other reason for a hole. `SilenceShows` is the other direction: a state is
carried on over no more than twice the distance that half of all probes have, within the
bounds, so that a probe that has died does not look alive. The median is not in it: it
counts the distances.

The items of the overview are the connectivity of every node, then the services chosen.
The snapshot has this node first and the copies as Go's map yields them; the choice sorts
them, the connectivity items do not, so that with two peers or more the connectivity of the
peers changes places from one poll to the next. `OnlyPeersChangePlaces` says that nothing
else of the items does. `parseOverviewLimit` has no upper bound; the theorems about the
choice hold for every limit.

The page's nodes are `PageAssumption`: one copy per identifier, as `peersData` is a map,
one timeline per service of a node, and no peer configured with this node's own
identifier, which `isLocalPeer` would take for this node.

Details of dots, names and labels are left out. `UptimeWindow` and `StatusPage`
produce inputs of functions and have no type invariant of their own; `PageInv` of
`StatusPageProofs` has the types of the latter.

### DashboardRefresh

JavaScript runs a handler to its next `await`. A refresh is the part up to the fetch
(`Refresh`) and the part after it (`RenderDashboard` or `ShowErrorState`), and any
number of others may run in between.

### OverviewPolling

The state has the ages of what the page knows: since the last answer came (`success`),
since the snapshot on the screen was made (`shown`), and since each poll was started or
answered. `Pass` lets one unit of time go by, after everything that is due. A poll takes
at most `Latency` each way while the server answers; while it does not, a poll fails or
stalls, and a poll that once stalled (`late`) may end, either way, whenever it likes. The
page is taken to be in the foreground, where timers are on time.

`src/README.md:16` says that the overview "shows a red banner whenever live updates
pause". A poll that hangs raises none until it is given up by the browser, unless the
user changes views; `NoBannerMeansFresh` names a stalled poll as the exception. Ages are
those of arrival: the answer that arrives last is shown and takes the banner down, be it
older than one shown before.

## 3. The runs

| Run | Shows |
|---|---|
| `store` | durability, refinement of `DurableLog`, order and exact queries as long as the clock is not set back |
| `node_stop` | no round is cut, a signal ends the process even with WebSocket clients, rounds keep coming until then; abandoned connections end, those that are read do not |
| `node_graceful` (violation) | a request dies with the process although its five seconds are not over |
| `sync` | copies are pieces of one host's log, with two hosts under one identifier too; nobody starves; absence and return show; Stop ends the loop |
| `connectivity` | cap, latest, durability, and what is dropped, across changes of the configuration |
| `uptime` | missing samples track the real downtime and the samples that died unsaved to within a bound per start of the process; an aggregator shows the same, but for what its limit cuts off, what was recorded since its fetch and what the node has lost since |
| `uptime_outage` (violation) | extra samples of restarts hide an outage of more than an interval |
| `dashboard_refresh` | the cards fit the active button, errors do not last, the Refresh button comes back |
| `dashboard_toggle` (violation) | a slow answer undoes the user's choice of range |
| `overview_poll` | no banner means fresh data unless a poll stalls; a server that answers is not reported; the banner goes |
| `status_page` | green and red dots and lights mean what the checks said; connectivity is the latest probe up to the gap, a hole means silence and silence shows; the choice of services is fair, and the order of the map moves nothing but the connectivity of peers |
| `timeline_cache` | a cached timeline is that of its version; a response misses nothing of the version it began with |

The violations are disagreements between the code and a sentence of its
documentation, quoted under `findings` in `PROJECT.json`:

- *Shutdown.* `ListenAndServe` returns when `Shutdown` begins, not when it is over,
  and `main` returns after the deferred Stops without waiting for it.
- *Missing samples.* They are a difference of two counts, not of times.
- *Toggle.* `renderDashboard` takes the range of any answer for the current one.

### Bounds

- `store`: clock 0..3, up to 4 entries. Two entries and one failure are enough for
  memory and file to differ and be healed; four give the binary search three levels.
- `node_stop`: one connection of the HTTP server at a time, with its requests, and one
  WebSocket, opened again after it has ended, with room for two snapshots in its buffers;
  connections share nothing, and the proofs hold for any number of them.
- `sync`: one host records three entries, the other one; the aggregator keeps two.
  Three are enough for a copy that is cut, for an entry lost between the status and
  the history, and for another recorded in its place. An error replaces the whole
  entry of a peer, last known data included, which is what `AbsenceIsShown` relies on.
- `connectivity`: caps at the floor, between and at the ceiling (2, 3 and 4), six
  samples: the history is cut under the same cap and again after a restart with a
  smaller one.
- `uptime`: a window of three intervals of two units, nine units of time, two lives: a
  restart at any place of the window, after any of the saves failed, and a fetch, the loss
  of what it fetched, and new entries in its place. The bounds of `MissingTracksDowntime`
  are tight: with either one closer by one, or with the lost samples left out, TLC finds a
  violation. More restarts are for `UptimeTracks`, which is proved for any number. The
  aggregator has the node's interval, whose limit leaves a sample to spare as the code
  does, or the longer default, whose limit is below the three samples of a window.
  `uptime_outage` has three lives, a window of two intervals and no aggregator.
- `overview_poll`: an interval of five units, one unit each way, two polls under way at
  a time and ages up to 13, one more than the freshness that is claimed. The code's
  numbers (60 seconds, answers in well under 15) satisfy the same assumption, that four
  latencies are less than an interval; `2 * (Interval + Latency)` is tight.
- `dashboard_refresh`: three fetches at a time; two suffice to overtake one another.
- `timeline_cache`: two requests for one window, two entries, a window shorter than
  the clock so that it slides. Requests for different keys do not share anything.

- `status_page`: eight dots over three lights of eight units each, so that dots straddle
  the boundaries of lights as eighty do over thirty minutes; up to three checks or four probes, three of
  which are drawn, at
  times that fall before, on and after the boundaries of dots, lights and windows; gap
  bounds of 2 and 10 that the distances of such samples exceed in both directions. Two
  of the peers have one name, one has no services.

Runs whose system may stop say `CHECK_DEADLOCK FALSE`: a process that has ended, a
loop that has been stopped while its peers have no more entries to record, and time
that has run out. In the others every state must have a successor.

### Fairness

- `NodeLifecycle`: weak fairness of `main`, of the shutdown goroutine's start and of
  the loops' checks and saves (checks run under a timeout; see below for what that
  leaves out), weak fairness of ticks, and strong fairness of taking `stopCh`: Go
  picks at random among the ready cases of a `select`, so a ready one is not passed
  over for ever. Signals, requests and kills are not fair.
- `ClusterSync`: weak fairness of the loop's steps and of the end of a request (every
  request runs under a ten-second timeout), strong fairness of taking `ctx.Done()`.
  Nothing is assumed of peers and network; where a property needs a peer to stay, it
  says so.
- `NodeFeeds`: in addition, weak fairness of the handler (each write ends by its
  deadline of five seconds), of its ticker and of the reader's return from a closed
  connection. Nothing is assumed of clients.
- `DashboardRefresh`: weak fairness of the timer, of the handlers and of the end of a
  fetch. The browser gives a fetch up in the end; the page itself sets no timeout.
- `OverviewPolling`: weak fairness of time, of the poll timer, of the server's handler
  while it answers, and of the end of a poll, for the same reason.

## 4. Proofs

All theorems hold for every value of the constants. Each proof module extends its
component's module, states an inductive invariant, proves that every action keeps
it, and derives the properties.

*StatusStoreProofs.* `StoreInv` is `TypeOK`, `DiskIsPrefix`, and `Consistent`:
the version of a live process is the length of its history, and between rounds a nil
error means that file and memory are equal. `DiskIsPrefix` by itself is not enough
for `NilErrorMeansDurable`, nor for the step of a crash in the refinement, which needs
that the file is what `SubSeq` leaves of the memory. From it follow `TypeCorrect`,
`FileIsPrefix`, `NilErrorDurable`, `FileOnlyGrows` and `StoreImplementsLog`: boot and round stutter, append extends, rename saves, crash
restarts. `HistoryStaysSorted` needs a second invariant, `SortInv`: nothing in memory
or file is later than the round in progress, which is not later than the clock.

`SinceIsExact` is about the binary search of `HistorySince`, for a history of any
length. A recursive function is what its definition says only if a function that
satisfies the definition exists; `SearchExists` shows that, and `SearchFindsFirst`
that its value is the first index at which a monotone predicate holds. Both argue by
a counterexample of least size, which `Least` provides: any set of natural numbers
has a least element, from the library's theorem that finite sets are well founded
under inclusion. Given `HistorySorted` the search is called with a monotone predicate.

*NodeFeedsProofs.* `LifeInv` says which loops are ended or stopping at each
deferred call that `main` has reached. `ReturnCutsNoRound` follows, whatever requests
come meanwhile. Every step of the composition maps to one of `NodeLifecycle` or to a
stutter, and its fairness includes that of `NodeLifecycle`: `NodeImplementsLifecycle`.
Hence `NodeReturnCutsNoRound` holds of a process with WebSocket clients. `FeedInv` is the type of the connections and the fact that a reader
which has ended did so because the client had left; without it `SelectDone` would close
a connection for no cause. From it follows `FeedDropsForCause`, for any number of
connections and any size of buffers.

*TimelineCacheProofs.* `CacheInv` says of every request that what it read is in order
(version, then history, neither newer than the store) and that when it is about to
save, the second look at the version has shown that nothing was appended since the
first; hence what it saves is the timeline of exactly that version.
`CachedTimelineExact` and `ResponseComplete` follow for any number of requests and
windows.

*ConnectivityProofs.* `SampleInv` adds to the properties that the samples in memory
and in the file are in the order in which they were taken, that what a probe is about
to save is what memory holds (`Saving`), and `FileBehind`: a sample that the file has
and memory has not is older than all that memory holds, and memory is then full. The
last one is what `SaveDropsOldest` needs: after failed saves and restarts with another
configuration, a save still takes nothing but the oldest samples from the file.
`CapIsPositive` shows that every accepted configuration gives a cap of at least one,
whatever interval it sets. `HistoryCapped` and `SavedSurvives` are parts of the
invariant.

*ClusterSyncProofs.* `SyncInv` says of each host that its log has its own entries in
the order of recording (`Hosts`), of the loop that between the two requests it is at an
enabled peer whose host gave the status it holds (`AtPeer`), and of each copy that
there is a host such that the history is a stretch of its log followed by entries that
are not in the log (`Stretch`), and its status, if newer than that history, is not in
the log either (`Copies`). A host may append, save or restart at any moment:
`StretchAfterRecord` and `StretchAfterRestart` show that a stretch stays one, because an
entry is never recorded twice. `FetchedIsEnd` shows that the limits of both sides leave
an end of the log. From these `StatusBeyondLost` and `CopyIsOneStretch`; the type
invariant needs `SyncInv` too, as a copy's length does. `HostsAreDurableLogs` shows that
each host takes only the steps of `DurableLog`, which `StoreImplementsLog` proves of the
status store: what is fetched is a log as the store keeps it.

*BrowserProofs.* Of the overview's polls: `PollingInv` places everything relative to the timer's last
event: a poll in time was started by that event (`PollsAreCurrent`), the last success
came with that event or the one before or is no recent sample (`SampleIsPlaced`), what is
shown without a banner was made after the last event but one, or but two while an answer
is to come (`OverviewIsFresh`); and once the server is well, the polls since then are
under way or answered (`CalmIsCalm`, `CalmIsAnswered`). The bounds of
`UnbanneredIsFresh` and `HealthyIsNotReported` follow for every interval and every
latency below a quarter of it (`PollingAssumption`; the page polls every minute), whatever
the user clicks, and any number of polls.

Of the dashboard's refreshes: `RefreshInv` adds to `CardsMatchButton` that the button is
disabled exactly while the one fetch it started is under way (`ButtonWaits`). A click on
the button is possible only while it is enabled, hence there is never a second fetch of
this kind. `CardsFitButton` holds for any number of fetches and any order of answers.

*UptimeProofs.* Two invariants. `CopyInv` says that a copy is a part of what the node had
when it was fetched (`known`), from some entry to the last one, that the limits allow it,
and that it begins with the first entry of the month or has as many as the limits allow. No
step of the node changes it, since it does not speak of what the node has now; how the two
differ is for `Kept` to say. `HistoryInv` says that the history is in the order of its times,
with which what `filterHistory` keeps is its end (`FilterIsEnd`): the loop is shown to have a
solution, and by a counterexample of least index (`Least`) every solution keeps the entries
from a certain one on. So the entries that the node and the aggregator count for a window
are lengths of parts that end where the history and `known` end, and the entries of both up
to `Kept` are the same; the rest is arithmetic: `CutCounts` and `OldCopyMisses`. `Limits`
shows that an aggregator whose interval is no longer than the node's has room for as many
entries as any window needs.

`LivesInv` is about time. The history alone cannot be cut into lives, since a kill takes
entries from it. The invariant says that there is a sequence of all entries ever made, in
order (`Lived`), and that from any time on as many of them are in the history and in `lost`
together (`Accounted`): a failed save changes nothing of that, and a kill moves entries from
the one to the other. That sequence is cut into the entries of one process after the
other: the first of each carries the time of its start, the k-th after that the time of
the k-th tick after the end of its first round, and a process lives no longer than the next
tick and a round after its last entry (`Made`). The process that runs is in its first round,
between two ticks, at one, or in the round that begins with one (`Running`); that rounds are
shorter than the interval is what keeps a tick from coming while another waits. `LifeCounts`
compares, for one process, its entries in a window with its time there; `OneMore` adds one
process to those before it, of which none reaches into a window that began after its own
start. What these counts have too much is what the window lost (`Accounted`). `UptimeTracks`
follows for any interval, window, round length and number of lives.
A bound of two intervals per process, without the length of rounds, would be false: rounds
of almost an interval and a window of four intervals exceed it.

*StatusPageProofs.* All the properties of the run `status_page`, for any windows, numbers
of dots and lights, bounds on the gap, cap on the probes, histories of any length and any
nodes. The inductive invariant, `PageInv`, is small: both histories are in the strict order
of their times, none later than now, and a check is `ok` exactly if the service is `active`.
The work is in the functions of the page, which the state does not have.

- *Windows.* What `filterHistory` keeps of an ordered history is a part of it
  (`Part`, a range of places), and so is what the cursor takes for each dot.
- *Loops.* `Recursion` shows that a loop of n rounds defines a function, once: the cursor of
  the timelines (`Chunks`), that of the connectivity (`Passed`) and the flattening of the
  turns (`FlattenIs`) are instances. Induction over the rounds is again an argument by the
  least counterexample (`Least`, `UpTo`).
- *Slots.* `BucketsOf` and `TimeBuckets` divide a window into tiles: every moment is in one,
  but for the end of the window. Dots and lights divide the window differently, so that
  a light has the checks of dots that only overlap it; `GreenLightIsEarned` needs the dots
  next to it.
- *Dots.* The chunk of a dot holds exactly the checks of its time, with which
  `GreenIsEarned` and `FailuresShow` follow from `EvaluateBucket`. The cursor of the
  connectivity has passed exactly the probes not after the end of a dot (`PassedIs`):
  `DotIsLatest`. The gap is never less than twice the least distance of two probes within its
  bounds, because the median is one of the distances (`GapIs`): `HolesAreReal`.
- *The choice.* Sorting is argued by rank: in an order of a finite set every element has
  another number of elements before it, from 0 on (`Ranked`). `GroupsAre` shows that the
  groups of a snapshot are the nodes by their rank, whatever the order of the copies, and
  `ConnectivityItemsAre` that the items before them are one of each node, this node's first:
  `ItemsStay`. `EntriesAre` gives every entry of the choice its node and its turn, with
  turns in order, each service once and this node first. The entries of a node that a limit
  leaves are its first turns without a hole (`Shares`), so that a node which lacks a service
  lacks it in a turn that another node can only have begun: `ChoiceFair`. Both hold for
  every limit.

Assumptions: those the modules state on their constants (`StoreAssumption`,
`LifecycleAssumption`, `FeedsAssumption`, `CacheAssumption`, `SyncAssumption`,
`ConfigurationAssumption`, `ConnectivityAssumption`, `PollingAssumption`,
`WindowAssumption`, `ClusterUptimeAssumption`, `TimelineAssumption`, `OverviewAssumption`,
`PageAssumption`), which TLC evaluates in every run.

Every safety property that a passing run checks is stated by a theorem, but for
`SilenceShows`: a theorem would have to count the distances on either side of a median. Only
model-checked is also liveness under fairness, which is out of the prover's reach: `SignalEndsProcess`,
`RoundsKeepComing`, `AbandonedFeedEnds` and the liveness of the loop and the pages. The
prover takes `SelectSeq` and `SortSeq` for symbols without a meaning; the models use
`Sorted` and recursive functions instead.

## 5. Not modelled

- Power failure. Neither store syncs its file before the rename; what is left of it
  is up to the file system. The models let the process die, not the machine.
- A killed `sudo` whose child keeps the pipe open, with which a round outlasts its
  timeout. `FinishChecks` is assumed to happen.
- JSON, HTTP, TLS, routing, static files, styles, drawing.
- `log` output and the debug panel.
- `HistoryN`, which has no caller, and the connectivity monitor's `HistorySince`, which is
  the status store's over again.
- A clock set back: `StatusStore` has it, and its properties about order say what holds
  until it happens. From then on `HistorySince`'s binary search may end anywhere, against
  its comment ("from the first whose timestamp is >= cutoff").
- The check of the origin of a WebSocket, and the limits on what a client may send.
- How far a cached timeline may lag behind its window: the window is parsed before the
  version is read, and the key is the name of the range. It would take the rate of
  rounds and requests to bound it.

## 6. Plan

What the project could grow by:

1. The three hazards without a property: power failure (a file system between process and
   disk), a `sudo` that outlives its timeout, and the age of a cached timeline.
2. That the composition of `StatusStore`, `ClusterSync` and `StatusPage` keeps what each of
   them promises: the page's histories are produced in `StatusPage` itself, and a theorem
   would read them from a store as `HostsAreDurableLogs` reads the hosts.
