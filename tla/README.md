# A verification of the visiting engine

TLA+ modules, TLC configurations and TLAPS proofs for the program in
`src/crates`: a supervisor that accepts tasks over HTTP and executes them, with
script workers, a page parser, a browser's objects for scripts, simulated tabs,
a cookie jar and a solver of proof-of-work challenges. Paths below are relative
to `src/crates`.

## 1. Inventory

| part | source | state it keeps | operations | talks to |
|---|---|---|---|---|
| task service | `supervisor/src/api.rs`, `task.rs` | registry of records, job queue, admission and worker semaphores | create, dispatch, execute, sweep, poll | script pool, visit flow |
| visit flow | `supervisor/src/flow.rs` | the hops of a visit, shared robots cache | visit, ask robots.txt, fetch, solve, run a script | page stream, script pool |
| build watch | `supervisor/src/watch.rs`, `parser-pipeline/src/lib.rs` | first build of each address, list of what to probe | check, put, make room, probe | visit flow, script pool |
| robots.txt | `net-client/src/robots.rs` | rules per host | parse and store, is allowed | visit flow |
| page stream | `net-client/src/fetch.rs`, `parser-pipeline/src/pipeline.rs` | head window, decoder, byte counters, UTF-8 tail | chunk, flush, finish | network, parser |
| page collector | `parser-pipeline/src/pipeline.rs`, `scratch.rs`, `collector.rs` | event arena, stacks of open and kept elements, captures, lists at limits | parser events, apply, drain, finish | page stream, DOM tree |
| DOM tree | `parser-pipeline/src/dom.rs` | linked arrays, free list, indexes, two orders | open element, number, remove subtree, is descendant | scripts |
| script pool | `runtime-exec/src/pool.rs`, `task.rs`, `worker.rs` | two bounded lanes, script budget, an engine per worker | exec, receive, run, reply, rebuild, exit | task service, script caches |
| request scopes and engines | `runtime-exec/src/worker.rs` | a worker's thread-locals | enter and leave a request, set up, drain, rebuild an engine | everything scripts use |
| reservation budget | `runtime-exec/src/cache.rs` | two atomic counters | reserve, drop of a charge | script pool, script caches |
| script caches | `runtime-exec/src/cache.rs`, `worker.rs` | raw and source maps, a function cache per worker | look up, put, sweep | script pool |
| fetch bridge | `supervisor/src/bridge.rs`, `runtime-exec/src/task.rs` | bounded channel, a reply channel per request, the daemon's tasks | dispatch, give up, take, finish, fail | workers, network |
| timers and frames | `runtime-exec/src/timer.rs` | heap, map of callbacks, frame queue | set, clear, run loop | scripts |
| mutable DOM | `runtime-exec/src/webidl.rs` | the script's nodes, what it did to the page's, attribute arena, index of ids | insert, remove, set markup, text and attributes | scripts, observers |
| registries of objects | `runtime-exec/src/webidl.rs` (`RegVec`) | entries, generations, free list | allocate, free, find, clear | network objects, observers |
| observers | `runtime-exec/src/observers.rs`, `webidl.rs` | records of changes, queues, frames asked for | observe, disconnect, take records, flush, deliver | mutable DOM, timers |
| selectors, collections, boxes, listeners | `runtime-exec/src/query.rs`, `layout.rs`, `webidl.rs` | three caches under the tree's number; lists of listeners | query, ask a point, add, remove, dispatch | mutable DOM |
| requests and peers of scripts | `runtime-exec/src/netapi.rs` | XMLHttpRequest and RTCPeerConnection entries, deferred events | open, send, abort; offer, answer, close | registries, fetch bridge |
| Intl formatters | `runtime-exec/src/intl.rs` | registry, a ring of shared formatters per engine | construct, build when first used, format | time zones |
| time zones | `core-utils/src/tz.rs`, `runtime-exec/src/intl.rs` | last rule and year a thread asked for | offset, make a date, read it | scripts |
| canvas | `runtime-exec/src/canvas2d.rs`, `payload-gen/src/canvas.rs` | commands and segments, style, the frame kept | draw, resize, read | scripts |
| proof-of-work scan | `challenge-solver/src/scan.rs` | job channel, `stop`, `found`, result channel | send, take, scan, publish, collect | thread pool, deadline |
| solve deadline | `challenge-solver/src/lib.rs` | one static watch | arm, poll, fire, disarm | scan |
| answer cache | `challenge-solver/src/cache.rs` | a ring of slots, two atomics each | look up, record | slider solver |
| telemetry fleet | `supervisor/src/fleet.rs` | slots, handles, sites, expiry queue, batches in flight | attach, detach, pump, absorb, expire | input hubs, network |
| input hub | `payload-gen/src/input/scheduler.rs` | tabs, sites, a heap of due keys | register, open, close, set input, tick, compact | fleet, tab sessions |
| tab sessions | `payload-gen/src/input/session.rs`, `motion.rs`, `typing.rs` | the phase of a tab, a cursor, visibility | step, hide, show; pump an inbound page | input hub |
| cookie jar | `session-state/src/session.rs` | cookies in order, index by name | ingest, header, evict, copy | visit flow, fleet |

Not modelled: process start and settings, the browser surface (property
getters, cryptography, stack formatting), the WebAssembly sandbox, the script
normalizer, fonts, profiles, proxies, the challenge kernels, the slider's image
matching, charsets and block list, the core utilities but for time zones, and
vendored code. Section 8 says why.

### How they interact

A client's request becomes a record and a job. The dispatcher gives each job a
worker permit and a task of its own, whose visit asks robots.txt, streams the
page into the parser and hands its script to the pool. A script worker looks
its script up in the caches, enters the scope of the request, runs the script
in its own engine until its timers are exhausted or its deadline is over,
leaves the scope, and answers through a oneshot channel. While it runs, the
script changes the tree, asks it, is told of its changes, and reaches the
network through the bridge, which blocks the worker. A page with a proof of
work keeps several threads busy under one shared deadline. The page's script is
noted by the build watch, whose daemon probes it again. The page may be attached
to the fleet, which keeps pushing what its input hubs make of it, with a copy of
the page's cookies.

### What is hard, and what makes each part correct

* **Permits and charges.** Admission permits live inside records that the
  janitor, the execution and a failed enqueue may drop in any order; byte
  charges live inside tasks that may be refused, skipped, timed out, discarded.
  Correct: every permit and every charge is accounted for at every moment.
* **Answers.** A poll looks a record up twice, the outcome changes at the
  deadline, and the janitor removes records. Correct: all terminal answers
  about a registered task are one, and true.
* **Exits.** Workers exit one by one, lanes disconnect from either side, the
  bridge's daemon ends with scripts waiting. Correct: whoever waits is answered,
  and is told the pool is down only if it is.
* **Early stops.** Several threads search, one finds, all stop, a deadline may
  fire meanwhile. Correct: a found nonce is returned, the call ends, threads
  are given back.
* **Reuse.** Slots, hub tabs, generations, sites, node ids, script objects and
  worker threads are used again while events, expiries, deferred firings and
  answers of the earlier use are under way. Correct: nothing reaches a
  stranger, nothing is forgotten, nothing is carried over.
* **Lazy deletion.** Heaps keep stale keys of cleared timers and replaced
  drivers. Correct: every live one has exactly one fresh key.
* **Double bookkeeping.** A node is in four links and up to two lists, an
  attribute in a chain and in an index, an open element on two stacks.
  Correct: all of them say the same to every getter.
* **Caches under a number.** Elements, collections, boxes, formatters, painted
  frames and the year of a zone are kept for a key. Correct: what is kept is
  what would be made now.
* **Limits.** A page body ends at one of five limits, an arena, a list, a jar or
  a cache at its room. Correct: what is lost is said; what is evicted is what
  should be.
* **Boundaries.** Chunks cut characters in two; a deadline falls in the instant
  an answer comes; a clock jumps in the hour a date names. Correct: the result
  does not depend on the cut.

## 2. The modules

One module per part; `MC*` modules give constants values that a `.cfg` cannot.

| module | models | actions and the code they stand for |
|---|---|---|
| `Admission` | what a budget promises | `Ask`, `Grant`, `Release`, atomic |
| `Budget` | `Budget::reserve`, `Charge::drop` | one action per atomic access; `CasEntriesFails` and `CasBytesFails` are the failing exchanges, `Undo` the give-back |
| `Totals` | sums over a set, with the lemmas on them | |
| `ExecPool` | callers, lanes, workers, environments | caller: reserve, send, await, time out, drop; worker: receive, run, reply, rebuild, exit, discard what is queued |
| `RequestScopes` | what a worker's thread keeps between scripts | a behaviour follows one store through entering, setting up, running, leaving, draining and rebuilding |
| `ScriptCache` | `NormCache`, `FnCache`, the look-ups of `Worker::run` | `LookRaw`, `Reserve`, `Insert`, `LookSrc`, `Sweep` (an entry a step), `Call`, `Rebuild` |
| `FetchBridge` | dispatch and the daemon | `Dispatch`, `Offer` (blocks on the full channel), `Receive`, `GiveUp`; `Install`, `Take`, `Finish`, `DaemonFails` |
| `TaskRegistry` | the task service | `Admit`, `Enqueue`, `Receive`, `Spawn`, the six steps of an execution, `Sweep`, `Ask` and `Answer` (the two look-ups of a poll), `Tick` |
| `BuildWatch` | monitor, watch map, daemon | `Visit`, `Check`, `Keep`, `Warn`, `Put`, the steps of `watch_gc` (its two countings of the list are `Room` and `Count`), the daemon's `Awake` and `Probe` |
| `ScanSolve` | `width_solve_until` | the caller's loop; a worker's start on a thread (`Begin`), receive, check of `stop`, scan, `fetch_min`, send |
| `DeadlineWatch` | the static watch, `solve`, `solve_until`, the static pool of threads | one action per atomic access and per reading of a clock; `Spawn`, `CheckFound` and `Put` hand over tasks and jobs, `Begin`, `Scan` and `End` are the pool's; the wait loop polls the watch (`Poll` to `Look`) |
| `AnswerCache` | `lookup`, `record`, `solve_with_cache` | one action per atomic access |
| `TimerLoop` | timers and frames | the script's calls, `run_loop`'s choice, the firing, what follows a callback |
| `Hubs`, `InputHub` | the operations of a hub; a hub used directly | one action per operation; a tick is driven one step at a time |
| `Fleet` | the daemon, the push tasks, the answers | one message, one pump or one expiry entry per step |
| `TabSession` | the driver of one tab, or of an inbound page | one step of the session is one action: at most one event |
| `CookieJar` | ingest, eviction, header, copy | one action per `Set-Cookie` line, one for the clock |
| `PageStream` | a body from the network into the parser | `Chunk`, `EndOfBody`, `FlushFeed`, `Finish` |
| `Collector` | parser handlers, arena, collector | `StartTag`, `Text`, `EndTag`, `EndChunk` (the drain), `Finish` |
| `DomTree` | the tree of a page | `OpenElement`, `Attach`, `RemoveNode` |
| `OverlayDom` | the tree as a script changes it | `CreateElement`, `AppendChild`, `AppendCanvas` (a canvas object), `InsertBefore`, `RemoveChild`, `RemoveSelf`, `SetText`, `SetInnerHtml`; the getters are operators |
| `AttrChains` | attributes and ids | set, remove, parse, for made and for page elements |
| `Views` | selectors, collections, boxes, listeners | extends `OverlayDom`: its changes move the number the three caches are kept for; queries, points, `ListenAdd`, `ListenRemove`, `ListenDispatch` |
| `ScriptObservers` | mutation observers; resize and intersection observers | `Observe`, `Change`, `TakeRecords`, `Disconnect`, `Flush`, `Deliver`; watch, unwatch, disconnect, the frame, which may be dropped (`DeferFrame`) or cleared |
| `RegVec` | registries of objects | allocate, free, find, clear between requests |
| `XhrObjects`, `RtcPeers` | extend `RegVec` with the objects | a script's calls, and the deferred firings, handler by handler; a firing may be dropped where it is deferred, or cleared |
| `Formatters` | Intl | construct, first use, `toLocaleString`, a new request, a new engine |
| `Zones` | the clock | offset with the kept year, `new Date`, its getters |
| `CanvasFrames` | one canvas | one action per call: the path, `Paint`, `SetStyle`, `Resize`, `ToDataUrl`, `GetImageData` |
| `Robots` | parsing and matching, and the meaning of a file | pure operators |
| `Visits` | visits side by side | `Hop`, `LookUp`, `AskRobots`, `Store`, `CheckRobots`, `Fetch`, `Solve`, `Script` |
| `MCWorkers` | no part of its own: caches, formatters, a canvas, registries, the worker's thread and observers side by side | what `MCScripts` and the proofs share |
| `*_proofs` | proofs about `TaskRegistry`, `TimerLoop`, `ExecPool`; in `Solver_proofs` about `ScanSolve` and the four parts of `MCSolverStatics`; in `Fleet_proofs` about `Fleet`, `Hubs`, `InputHub`, `TabSession` and `CookieJar`; in `Scripts_proofs` about `Budget` and the ten parts of `MCWorkers` | |

`Fleet` and `InputHub` compose the operators of `Hubs`: one with the hubs of
the daemon, one with every operation in any order. `Visits` composes `Robots`
with the shared cache, `Views` the caches with the tree of `OverlayDom`,
`XhrObjects` and `RtcPeers` their events with `RegVec`. `Budget` refines
`Admission`; `ExecPool` and `ScriptCache` take `reserve` as the single step that
this refinement justifies.

Each operator with the comment `Mutant` is a plausible mistake in the operator
after it (a guard dropped, a step left out, an order swapped). With that
mistake the property named beside it in `PROJECT.json` fails, which shows what
the property rests on; no specification uses these operators.

## 3. The runs

| run | properties | what it shows |
|---|---|---|
| `budget` | `ChargesKept`, `Admits`, `LockFree` | three callers of different sizes between any two atomic accesses: the counters account for the charges, both limits hold, the exchanges implement one atomic grant, calls keep ending |
| `pool` | `TasksAccounted`, `EnvUsable`, `Answered` | cancellation, deadlines, panics, out-of-memory, failing rebuilds and shutdown: no task is in two places, no charge is lost, no script runs in a damaged environment, no caller is left behind |
| `registry` | `Accounted`, `Once`, `OneTrueAnswer`, `NoJobLost`, `AdmissionComesBack` | expiry, janitor, full queue and polls at any moment |
| `scan` | `ReturnsFound` | every set of jobs with a solution, one to three workers, each on a thread early, late or never, the deadline at any moment |
| `scan_least` | `LeastNonce`, refuted | see Findings |
| `solver_statics` | `StaticsSound`, `ReturnIsTrue`, `RepliesOwned`, `UntilEnds`, `CallsEnd`, `WorkersReturn` | what a process has once: the answer cache, the deadline watch with the scan pool, the bridge to the network, the build watch |
| `timers` | `Armed`, `FiresAsAsked`, `ClearedByOthers` | scripts that set and clear timers and frames in any order |
| `timer_cleared` | `ClearedIsQuiet`, refuted | see Findings |
| `fleet` | `TablesAgree`, `AnswersLandHome`, `ReportedOnce`, `LivesItsTime`, `HubSound`, `InputWellFormed`, `CookiesHome`, `EvictsSoonest` | slots, hub tabs and sites reused while pushes are under way; a hub by itself; one tab by itself; the cookies a tab starts from |
| `pages` | `LossTold`, `TreeSound`, `PageKept`, `RobotsObeyed` | a page's way in: its bytes, its tree, what is collected of it and the robots.txt before it |
| `scripts` | `CachesSound`, `OverlaySound`, `AttrsAgree`, `ObserversTold`, `ObjectsApart`, `RequestsApart`, `KeptIsFresh` | what a script runs on: caches, trees, attributes, observers, objects, the worker's thread, formatters, canvas, clock, selectors |
| `attr_lost` | `ReadsBack`, refuted | see Findings |

**Scenes.** Where parts share no state, one run checks them one at a time: a
variable `scene` is chosen in the initial state and never changes, the scene's
module moves and the variables of the others stay at one initial value. A
property of one scene says nothing of the others, so nothing is lost; the
assumptions of every instance are checked by an `ASSUME` of the `MC` module.
Ten of the scenes of `scripts` are in a module of their own, `MCWorkers`, which
`MCScripts` extends, so that proofs about them have no more in sight than they
need. A step of `MCScripts` in one of the ten is a step of `WorkerNext`, and the
variables of `MCWorkers` do not move in its other scenes: what is proved of
`WorkerSpec` holds of `MCSpec`, and the theorem `WorkersMove` says so.

| run | scenes |
|---|---|
| `solver_statics` | `cache`, `watch`, `bridge`, `builds` |
| `fleet` | `fleet`, `hub`, `tab`, `jar` (two jars, one constant `Settings` for both) |
| `pages` | `stream`; `tree`; `boxes`, `loaded`, `asked` (the collector); `rules`, `race` (robots and visits) |
| `scripts` | `shared`, `functions` (caches); `lone`, `pair`, `family` (trees of one, two and three page nodes); `attrs`; `records`, `frames` (observers); `registry`, `xhr`, `rtc`; `requests`; `formats`; `canvas`; `zones`; `deep`, `nested`, `ears` (selectors, boxes, listeners) |

A property that several scenes share is the conjunction of what the modules
state, and the modules `MCWorkers` and `MC` list them: `CachesSound` is what the
script cache, the compiled functions, the formatters and the canvas each mean by
a cache that serves, `KeptIsFresh` what the clock, the views of the tree and the
listeners mean by fresh.

### Bounds, and why they are enough

* `budget`: three callers, two units and two bytes. A failed byte exchange,
  a refusal because of somebody's undone units, and a third caller who sees
  both, all happen; a fourth adds no new kind of neighbour.
* `pool`: two lanes of one place and three requests, so that a lane overflows
  while the other has room; two workers, so that the last exit differs from
  the first. The sizes 2, 1, 1 under a limit of 3 make the budget refuse. One
  of the three deadlines passes, at any moment; workers are interchangeable,
  and so are the two requests of one lane.
* `registry`: three tasks, two admission permits, one worker permit: one task
  executes, one waits, one is refused. A task lives one tick of two.
  Tasks are interchangeable, so `MCTaskRegistry` lets them be created in one
  order only; unlike a symmetry reduction this is sound for the liveness
  properties too, since it removes behaviours that are renamings of others.
  The third task comes when the first may be over, only the first one's
  execution fails, and clients ask for the first two.
* `scan`: four jobs and a channel of two, so that the caller blocks; one to
  three workers, so that a worker alone, a pair and a bystander are seen.
* `solver_statics`: three keys in two slots, two clients, two calls each: one
  slot is shared by two keys, with and without a race. A call of the solver has
  two tasks and two jobs, a channel of one for each, and two threads for all;
  its deadline is one tick away, the last tick is the third. The wall clock goes
  with the other one or is two behind it, so that a deadline lies before the
  epoch, and is set once. A caller alone makes two calls, of either kind; two
  callers one each, the first without a deadline, where the wall clock is not
  set and every job ends (`MCInit`, `CrowdCalls`; the theorems are about
  `StaticsSpec`, which has no such bounds). The bridge
  has two workers and a channel of one, so that a worker blocks in front of it;
  four calls, so that a late reply meets a later request. The build watch has
  room for one of two addresses, two builds, two visits and one round of the
  daemon, so that three may make room at once and count what another has just
  taken away; `Usize` is 8 instead of 2^64; a record ages in one tick. Of
  the two builds the one that a certain visitor meets is called the first
  (`NotTheOther`; the theorems are about `StaticsSpec`, which has no such bound).
* `timers`: room for two timers and two frames, three ids; one id more than
  there is room makes the cap and the pruning happen, two firings the limit.
* `fleet`: two hubs, two pages, two slots and two handles: the second tab has
  the slot, hub tab and site number of the first, which is gone, or lives
  beside it. Answers, the expiry and a batch capacity of two are reached within
  four ticks. The hub
  scene compacts at one key per tab instead of four plus 64, so that
  compaction comes early. The tab scene types no text, one letter, or three
  with one of them twice; scrolls 1, 3 or 8 notch widths, and drifts by one or two (`Nudges`) when it idles; hides and shows four
  times; an inbound page's deadlines lie at 5, 9 and 14 with cursors due again
  after 1 to 3, so that each deadline passes in the middle of its cursor.
* `fleet`, jar (`MCSettings`): room for two cookies with a domain and two hosts,
  two paths and a clock to 1, two cookies set (one may replace, hide or outlive
  the other); room for three, four set, a clock to 2, so that the full jar
  evicts. The 512 of the source is a parameter.
* `pages`, `stream`: documents of five bytes of four kinds, a head of two, a
  brake and a raw limit of four, room for two events a push and a parser limit
  of two or out of reach: each of the five limits is met with and without the
  others, and a character of three bytes is cut in every place. Documents that
  differ in what no run can show start once (`SameStream`; `SameRace` is
  the like of visits). `JoinWidth` is
  the 8 of `Utf8StreamState`, reduced to 4, one more than the longest tail.
* `pages`, `tree`: five nodes hold every shape a link can have (only, first,
  middle, last child; with and without children), six openings reuse one.
* `pages`, collector: four tags over five or six kinds each, an arena of six
  events and five strings, a tree of five and a stack of three: every limit is
  met by some page, and by most pages not.
* `pages`, visits: robots files of up to four lines over six kinds of line hold
  every order of agents and rules, groups of several agents, and rules before
  any; patterns of up to three characters with `*` and `$`.
* `scripts`, caches: two scripts of one normal form and one of another in rooms
  of two; five functions with room for two.
* `scripts`, trees: one page node with three made by the script, two with two,
  three with one; every order of calls over them, followed to the first node
  that is inserted before itself (section 6), the lone one to the end of its
  realm, the others with one adopted node for each parent and to the first
  node that its parent's list loses.
* `scripts`, attributes and objects: one node of each kind, two names and
  values, an arena of three; registries of two with a generation counter of 4
  instead of 2^28, so that it wraps; two opens and three requests in a registry of two,
  with room for two deferred firings; two offers of two peers in one slot. A firing may be
  dropped although there is room: other timers fill the queue too.
* `scripts`, observers: two observers, two targets one below the other, two
  changes, two registrations; two targets and three frames.
* `scripts`, `requests`: three requests and three engines: a store is followed
  through a request after a clean one, after a panic, after a lost engine.
* `scripts`, `formats`: a registry of two and a ring of two under eight kinds of
  constructor call by two profiles, so that the ring turns over.
* `scripts`, `canvas`: three calls that draw, one resize, two readings.
* `scripts`, `zones`: every half hour within five of a change of the clocks, in
  17 zones, asked first or after a question that kept a year of one of them
  (Lord Howe, whose clocks move by half an hour) - one of each
  rule of the table, one fixed, two of the embedded tables cut to their first
  changes, one unknown - and the years 2024 and 2026.
* `scripts`, views: four page nodes in a line with one made, two edits, two
  requests; two page nodes with one made, three edits; six selectors, of which
  two are wrong. Each request keeps one of the three caches, which do not
  depend on each other; `Shift` is 3 instead of 20. Listeners: two kinds of
  event, two functions, four calls, dispatches within dispatches included.

Counters that only grow are capped by constants named in the modules
(`LastTick`, `MaxSeq`, `MaxHandle`, `MaxEvents`, `Calls`, `Opens`, `MaxId`,
`MaxRaf`, `MaxGen`, `Allocs`, `Changes`, `Edits`, `Steps`, `Visits`, `Rounds`,
`LastCycle`, and of the hub and the tab `LastHubTick`, `StepLimit`, `HubTabs`,
`MaxSites`); a run stops where they end, hence `CHECK_DEADLOCK FALSE` there.
In `budget` the system may not stop, and deadlock is checked.

### Fairness

* `Budget`: each caller keeps taking steps (threads are scheduled), and if
  exchanges of `entries` are possible again and again one of them succeeds
  (`compare_exchange_weak` may fail without cause, but not for ever, for
  everybody). No fairness is assumed of a particular caller's exchange, and
  `LockFree` promises progress of somebody only.
* `TaskRegistry`: the executor polls what is ready: a `create_task` under way,
  the dispatcher, each execution (which ends by its timeout), the janitor. Time
  is not assumed to pass: `AdmissionComesBack` says what holds if it does.
* `DeadlineWatch`: the caller of a solve takes its steps, blocked while a
  channel is full; a free thread of the pool takes the next task of its channel,
  whoever's it is; the clock advances. That a job ends, and with it a task gives
  its thread back, is assumed only where `scans` says so: `CallsEnd` needs it,
  `UntilEnds` does not. The watch is not assumed to fire. `ScanSolve` states
  safety only: whether its workers get a thread depends on the other calls, and
  is what `DeadlineWatch` is about.
* `FetchBridge`: the daemon takes what is in the channel, which starts a task
  and returns at once (weak); a worker's wait ends with its budget (weak); a
  sender for which there is room again and again gets in (strong: the channel
  wakes its senders in order). Neither the network nor a task of the daemon is
  assumed to finish.

The other runs state safety only, under no fairness.

## 4. Abstractions worth knowing

* What scripts, pages and the network do is nondeterministic: a script sets and
  clears timers in any order, calls any method of any object, a fetch fails or
  answers, a run ends in any way `run()` can report.
* The HTML parser is external: one event per byte, and at its memory limit it
  fails or goes quiet. The quiet case loses input that nothing reports;
  `LossTold` excepts it and says so. For the collector it gives one event a tag
  or text; which end tags it reports for elements closed by implication is its
  own, and the pages of the collector's scenes have their end tags.
* A single-byte charset is a decoder that turns a byte that is not ASCII into
  two.
* `catch_unwind` catches a panic in `ExecPool`, as under `cargo test`. The
  release profile of `Cargo.toml` aborts instead: there a panic ends the
  process, and the parts of the model that follow a panic do not occur.
* `retain_sync` and `iter_sync` visit entries in any order; what a sweep takes
  out goes one entry at a time.
* In `TaskRegistry` a record is dropped when neither the registry nor its
  execution refers to it: reference counts are derived, not stored.
* Hash collisions (slider payloads, script hashes, signatures of formatters, 64
  bits) are left out, and so is a payload that hashes to zero.
* `ScanSolve` orders jobs as their nonces; a job is the first solution in its
  chunk, since a worker stops at it. It follows one call and what its workers
  do once they have a thread. `DeadlineWatch` follows all calls of a process over
  the pool they share and leaves out which job is whose: a task may find a nonce
  in any job.
* `TIMER_CAP` bounds all timers of a worker, so that whoever defers through
  `timer.rs` without being one of its scene's actors finds room or not:
  `DeferFrame` and `Defer` choose. `clear_all` before a second run, and a script
  that clears an id it guesses, may come at any moment.
* A visit asks the robots.txt of the URL it was given; where a redirect ends
  is not asked by the code and not in the model.
* `RequestScopes` follows one of a worker's stores at a time, chosen in the
  initial state: they do not read each other, so what holds of each holds of
  all.
* A formatter is the list of what its builder reads; a painted frame is the
  list of commands it was painted from; a box is the node it is of. Glyphs,
  coordinates, colours and wording are left out.
* `Zones` counts minutes; its calendar and rules are those of the source, not a
  choice.
* The layout library is external: which boxes have a size is a function of the
  tree, which of them a point hits is a choice.

## 5. What is proved

For all values of the constants, by TLAPS:

| theorem | module | says |
|---|---|---|
| `BudgetKeepsCharges` | `Scripts_proofs` | both counters are the sums of the charges under way, never negative, and what is granted is within both limits |
| `BudgetImplementsAdmission` | `Scripts_proofs` | `Budget` refines `Admission` |
| `PermitsAreAccounted` | `TaskRegistry_proofs` | types; every admission permit is free or in one living record, every worker permit free or held by one execution |
| `ExecutedOnce` | `TaskRegistry_proofs` | no job is executed twice, or after it was refused |
| `ClientsToldTheTruth` | `TaskRegistry_proofs` | the answers about a registered task agree and are true |
| `RoomIsKept` | `Scripts_proofs` | each budget of the script cache counts the entries in its map and those about to be inserted, and stays within its room (a part of `CachesSound`) |
| `LastUsedAreKept` | `Scripts_proofs` | the functions a worker used last, as many as one of its two maps holds, are still compiled (a part of `CachesSound`) |
| `CachesStaySound` | `Scripts_proofs` | with those two: a formatter is what the options of its own object call for, whoever built it; the realm holds what its ring says; a date is printed for the profile of its request; recorded paths are apart and whole, and the frame that is kept is painted from them |
| `ObjectsStayApart` | `Scripts_proofs` | an id leads to its own object or to none until its slot was given out as often as a generation has values; a request sees one `loadend` for each it is owed, but for those whose timer was dropped or cleared, and the reply to what it opened last; nothing is told to a peer that got another's slot |
| `RequestsStayApart` | `Scripts_proofs` | a script starts with nothing of an earlier request, its outcome carries only its own, no value of an engine that is gone is kept, and only its own request's flag stops it |
| `ObserversAreTold` | `Scripts_proofs` | an index a registration queues points at a record, in order; a change is handed whole to one observer only; a target nobody was told about has a frame on the way, unless that was dropped or cleared, or found a resize observer with nothing to report |
| `WorkersMove` | `MCScripts` | a behaviour that TLC runs is one of `WorkerSpec`, of which `RoomIsKept`, `LastUsedAreKept`, `CachesStaySound`, `ObjectsStayApart`, `RequestsStayApart` and `ObserversAreTold` speak |
| `TasksStayAccounted` | `ExecPool_proofs` | a task is in one place, charged exactly while it exists or is being sent, and the charges are within the budget |
| `EnvironmentsStayUsable` | `ExecPool_proofs` | no worker takes or runs a script in a broken environment |
| `CallersAreAnswered` | `ExecPool_proofs` | a waiting caller has its answer or a living worker that has or can reach its task, and is told of a shutdown only when no worker is left |
| `TimersStayArmed` | `TimerLoop_proofs` | every callback that is kept has exactly one key, the heap stays within its capacity, and no frame pends twice |
| `TimersFireAsAsked` | `TimerLoop_proofs` | a timer set before another, with a delay no longer, does not fire after it, whatever was cleared, pruned or repeated in between |
| `ClearedStaysQuiet` | `TimerLoop_proofs` | what anything but its own callback cleared never fires again |
| `ReturnsWhatIsFound` | `Solver_proofs` | a call that no deadline cut short returns the least nonce any worker found, none only where there is none, and misses fewer smaller ones than it has workers |
| `StaticsStaySound` | `Solver_proofs` | a cache hit is an answer of its slot, the client's own where no other comes, and slots in use are counted; the watch list is within its cap but for those still making room, whatever number the second counting comes to, and no build is on it unnoticed |
| `ReturnsAreTrue` | `Solver_proofs` | a solution that is returned was found; a `solve_until` alone with the watch returns nothing only when its time is over or every job was scanned and has none, unless the wall clock was set meanwhile |
| `RepliesReachTheirWorker` | `Solver_proofs` | a reply is kept only for who waits for it, and a result is of the worker's own last request |
| `TablesAlwaysAgree` | `Fleet_proofs` | slots, handles, tab numbers, hubs, sites, expiry entries and the list of those with events say the same of every tab |
| `AnswersReachHome` | `Fleet_proofs` | cookies and verdicts of a push stay with the tab and the page it was made for |
| `TabsLiveTheirTime` | `Fleet_proofs` | until the fleet stops, a tab leaves only by an expiry of its own that is due |
| `EveryEventIsReportedOnce` | `Fleet_proofs` | what is owed is what jobs and answers under way carry; what a living tab took in waits or was sent |
| `EveryDriverIsDue` | `Fleet_proofs` | every driver of a hub has one fresh key, a closed tab none; slots and site numbers are given out again once |
| `TabsPassForUsers` | `Fleet_proofs` | while a tab is driven, what a page gets could come from a user; the text is typed once and the page scrolled as far as was asked |
| `CookiesComeHome` | `Fleet_proofs` | a cookie goes only to the host that set it or within the domain it named; one set without a path comes back to its URL; a tab's copy of the jar sends for its URL what the page's jar does, in the same order |
| `TheSoonestGoes` | `Fleet_proofs` | only a full jar in which nothing is over gives up a cookie that is not over, and then the one that ends soonest; the index by name follows every renumbering |

*Budget.* The assumptions are those of `BudgetAssumption`: limits positive,
requests natural. The invariant `BudgetInv` adds to the accounting that the
counters themselves, units of a half-done reservation included, stay within the
limits, and that a caller about to exchange the bytes saw a value with which
its request fits: a successful exchange means the value is still there. Sums
are sizes of disjoint unions (`Totals`), so that lemmas on finite sets do the
arithmetic; a recursive sum, or a fold, would need induction over data. Refinement: only `CasBytes` maps to `Grant`
and `DropBytes` to `Release`; all else stutters.

*Task service.* `RegistryInv` has the types, that a task not yet created is
nowhere, `Once`, the two accounts, and what makes the answers true: an
execution stores its result before the state that announces it, a result is
set once (`ResultInv`); and what a client was told, or what a poll between its
two look-ups is about to say, is true of the task and stays true, because a
result does not change and a deadline that passed stays passed (`ToldInv`,
`TrueStays`). `OneTrueAnswer` alone is not inductive: it says nothing of a poll
between its look-ups. The counting part rests on the library's theorems on
finite cardinalities.

*Script caches.* `CacheAssumption`: finitely many workers, scripts and normal
forms, positive limits. The invariant is `RoomKept` itself, the shape of the
function `used` added (`CacheInv`). A step moves the count of one map in one of five ways
(`CountMoves`): nothing, a room reserved, a room given back by a worker that
found its key taken, a room turned into an entry, an entry swept; each action
is shown to be one of them. For a worker's compiled functions `KeepsRecent` is not
inductive: that the last `FnCap` are in one of the two maps says nothing of what
is lost when a full map becomes the old one. `FunctionsInv` adds that the new map
is exactly the first functions in the order of use, as many as it has; once it is
full it holds all `FnCap` of them, and what goes with the old map is of no use.

*Formatters.* `FormattersAssumption`. That an object's own formatters are what its
options call for is not inductive: nothing is said of those it may still take from
the realm. `RealmInv` adds that what is kept under a key is what every object with
that key calls for (`Answers`), whatever built it. This is where the hash of
options has to name all that is read: two objects of one signature agree on every
field but the zone (`SameReads`), and no builder reads the zone
(`SameFormatter`); a relative time adds its unit to the key (`KeyTells`). The ring
lists the keys of the realm, each once (`RingOf`), so that a full ring empties
exactly the place it reuses (`RingDrops`). Of the second cell, which one date
formatter serves for many profiles, `CellInv` says for which locale, zone and
parts it was built.

*The canvas.* `CanvasAssumption`; no bound on the calls is used. Of the three
parts of `CanvasSound`, `OldGone` is not inductive: it speaks of the last reading
and not of what the next will show. `CtxInv` says of the context that it is never
of a size to come, and that one of this size holds commands of this size only. A
context of an older size may hold both, drawn before it is read again; it starts
over when it is read, so the invariant says nothing of their sizes. Every call
either leaves the commands over another path or adds one behind them, of the
path that was drawn (`PathChanged`, `CommandAdded`), and both keep the invariant
(`OpKeeps`); a reading is the part that sets the kept frame (`ReadingKeeps`).

*Registries.* `RegAssumption`: natural limits, a generation counter of two
values or more. The three scenes share the registry's variables, so the lemmas
speak of it as one record and of what an operation does to it as a relation of
two records (`Deals`, `DropsId`, `Empties`). `RegInv` has two halves. `RegTidy`
holds always: empty slots and free list are the same, each once. `RegFresh`
holds while no slot was given out as often as the counter has values
(`Unwrapped`): a generation is how often its slot was given, so no id was given
twice, and what a slot holds has its latest id. The exception that `IdsHold`
makes for a counter that wraps is needed: the 28 bits of the source come round.

*Requests and peers.* Their assumption adds `Allocs < Gens`: followed for fewer
objects than a generation has values (2^28 in the source), so that ids do not
repeat. `XhrInv`: of an object that is not gone, `due` is the number of its
deferred firings that were not cleared and the one that runs (`DueHolds`), and
what is dropped was never owed; a firing ends with its only
`loadend` (`EndsOnce`), which is why counting firings counts `loadend`s; an
aborted object had sent (`AbortsHold`), which keeps a late completion from a
reply. `RtcInv`: an offer that waits or is being trickled is of a peer that is
gone or has made one (`OffersHold`), and a closed peer is gone for good
(`ClosedHold`), so that what finds a peer by its id finds the one that asked.

*Request scopes.* Any number of requests and engines. `NothingCarriedOver` and
its like look at two moments of a request; `ScopesInv` says what may be in the
followed store wherever the worker is, by the kind of store: cleared on the way
in or out (`OwnOnly`), taken by the outcome (`SentOnce`), of the engine
(`OneEngine`); and whose flag is set (`Signals`). The lists of stores are those
of the source; that they lie to each other as they must is a lemma
(`StoreKinds`).

*Observers.* `ObserversAssumption`: natural limits, and every target is in its own
subtree. `RecInv` numbers the records by the changes they are of and says that
no record, and nothing that was handed over, is of a change to come, so that the
record of the next change is none of the old ones (`RecordsApart`); `RecordsKept`
alone does not say it. A queue is in order and within the list of records, which
may be cleared only once no queue has anything (`Tidy`). Whatever moves records
out, a takeRecords or a flush over all registrations, moves them by index: each
index goes to one observer at most and what is left in its place is empty
(`MovedApart`), and from that what each observer has stays apart. That of two
registrations with one index the first gets the record is in the definition of
`Entry`, which says in closed form what the loop of `flush_mutations` does one
record at a time. To `FrameOnTheWay` the invariant `FrameInv` adds that with
somebody untold the flag is set: a frame that is dropped when it is deferred, or
cleared, then leaves the mark the exception speaks of.

*Script pool.* `PoolAssumption`: some worker, sizes natural, and no request is
called `None`. `PoolInv` adds to the three properties what they lean on: the
lanes hold each task once and none that a worker holds (`Apart`); what is
charged is what is alive or being sent (`Charging`); a task not yet sent is
nowhere and has no answer (`Unsent`); a worker that lets go of a task has
answered it, and an environment is broken only on the way to its mending or to
the worker's exit (`WorkerOK`); with no worker left both lanes are empty, which
is what the last exit is for (`Heard`). `Answered` is not inductive without
these: that the last worker's exit closes the reply of every queued task uses
that the queued tasks are exactly those alive and unheld. The steps on lanes
use the library's theorems on sequences.

*Timers and frames.* `TimerAssumption`: natural limits, positive delays. `TimersInv`: the
number of callbacks is the counter, each has a key, no id has two keys, stale
ones included (`Tidy`), and a timer whose callback runs is out of the heap and
was not cleared (`OutWhileItRuns`). For the order, `FiresAsAsked` compares what
the script asked for, the order of its calls and their delays, with what fires.
`AskedInv` says of each key that it is due no later than a timer set now with its
delay would be (`InTime`), and that of two keys the one that was made first,
does not repeat and waits no longer comes first in the heap (`InTurn`); pruning
takes keys out and a repeated timer's new key is the last of its time. That a cleared timer stays quiet follows
since ids are never given out again and the only key that could be made for an
old id is that of the timer that runs. `Armed` adds the frames: a callback is
in the batch that fires or in the list of the next frame, once and never in
both, and below the number that is given out next (`FramesPend`; `Kept` takes
what is cancelled out of a sequence by its places, not by recursion over it).

*The scan.* Any pool of workers, any number of jobs, any room in the channel.
`ScanInv`: jobs go down the channel in order and each is taken once (`InOrder`);
the caller stops, and a worker leaves, for one of the reasons the code has
(`StopsForAReason`); what is in `found` was sent or is about to be, and whoever
found it has taken no job below it since (`FoundIsSent`); a solution below
`found` is still in the channel, in a worker's hands, or was dropped by a worker
told to stop (`NoneForgotten`), which is where the bound of one per worker comes
from; and the caller returns after the last of them (`ReturnsLast`).

*The statics.* `StaticsAssumption`: finitely many clients, keys, slots, callers,
addresses and visitors; 0 is no key, no build and no deadline. Each part has an
invariant of its own, which every step of `StaticsSpec` keeps.
`RepliesOwned` of the bridge is inductive with the types. In the watch, `OnTime`
says of a `solve_until` that has it to itself, while nobody sets the wall clock, that
from the first arming store on the deadline is no earlier than its own end, read
off the wall, and from the second on the abort flag is raised only when its time
is over. A caller that waits has a task left, or has had all its jobs scanned,
or need not (`PlaceSound`), so that one about to return nothing was aborted or
has scanned everything. In the cache a slot has its answer before its key (`RingSound`); in a
slot that one client alone comes to, key and answer belong together except while
that client is between the two (`OwnSlots`); and a slot is counted before it is
used, so `len` bounds the slots in use or about to be (`Reserved`), and itself is
bounded by the calls that are past the counting (`CountedCalls`). `CapKept` of the
watch list is far from inductive: two sweeps may work on one excess. `RoomComes`
says why that is enough: of any set of actors that are making room, one will
still take so much that what is left fits the cap and the actors outside the
set. A sweep that ends has nothing left to take, so the others suffice without
it. One that counts a list that is shorter than its cap by then gets a number
that is more than any list holds: it takes everything, and the list is within
the cap for all the others.

*Fleet.* `FleetAssumption`: some lane, sizes natural. `FleetInv` is what the
daemon's tables mean, of any number of hubs, pages and tabs: `SlotsAgree` (the
two maps are the slots in use, and no two tabs share a handle or a number),
`SlotsTile` (the free list is the empty slots, each once), `HubsAgree` (the open
tabs of a hub are those of the slots, decoded by lane), `SitesAgree` and
`SitesTile` (an entry counts its tabs, and the first hub's free sites are the
unused ones), `ExpiryAgrees`, `HotAgrees`, and of each hub that its heap is the
keys of its open tabs (`HubGood`). `SitesAgree` has a parameter: the keys of
which one tab is counted that has no slot, as in the middle of an attach and of
a retirement. `TablesAgree` is not inductive: it does not say that free slots
are free once, or that a new handle is new. For the answers, what is under way
was made for a tab of its page (`MadeFor`) and has a batch number that its tab
has used (`Numbered`), so that the next push is a new one; without it two equal
pushes would count once. `CountInv` adds up what is owed, over the jobs and,
place by place, over the channel of answers; that taking the first answer
moves the others up changes no sum (`TotalOfRenamed`). Each operation has a
lemma that says what it does to the tables (`EntersAs`, `RecountedAs` and the
like) and one that it keeps the invariant. `Absorbed`, `Shipped` and `Entered`
are cut into operators of a record each (`WithEvent`, `Emptied`, `SlotToUse`),
which is how the prover can be told what becomes of one slot.

*A hub by itself.* `InputHubAssumption` and `HubAssumption`: natural limits. In
the fleet a heap is the keys of the open tabs; here drivers are replaced and
done, and keys of generations past stay in it. `KeysFit` says that a key is of
an open tab and of no later generation than the tab's, that the one of the
tab's own generation is where its driver is due, and that each driver has it;
`SitesTile` and `SitesUsed` that free site numbers are the unused ones and a
tab's site is in use. `HubSound` says nothing of what is stale, and so would
not survive a new generation. The last generation is a bound of the model: the
source's has 32 bits and wraps.

*A tab by itself.* `SessionAssumption`: positive distances and delays, and no
character called as the two keys that are none. `TabInv` says of each phase what
its cursor and the page agree on (`SessionFits`): which key or button is down is
the cursor's state, what stands in the field is as much of the text as the
cursor has typed, or one character more if it is wrong (`TypeFits`), and what
was scrolled and what is left is what was asked (`ScrollFits`). Of an idle tab
only what is left of that holds: its page may have been told a distance instead
of a position, and shown without having been hidden, so the theorem says there
that the hand is off, the text complete, and the page hidden when the tab is
(`IdleFits`). Of an inbound
page, what is still held or focused is so by the phase that its deadline cut
short (`InboundFits`).

*The cookie jar.* `JarAssumption`: of every setting, a positive limit and paths
that are sequences and not empty; no host is called as the host of a line
without a URL. `JarInv` says that the jar is what its list makes of it
(`JarOf`: the index by name is computed from the list and never off it), that
the list is in the order of age with each key once and no cookie younger than
the count of those made (`InOrder`), and that every cookie is at home: without
a domain of its own it is of the host that set it, else that host is within the
domain (`AtHome`). `NoLeak` is not inductive: it speaks only of cookies that
may be sent now. What is sent, what is indexed and what stays after an eviction
are lists put in an order, so the order comes first: the members of a finite set
under a total order each have a rank, which is how many are not after them
(`RankGrows`, `RanksAreTaken`), and the list of a set has each member at its
rank (`RankedIs`). With that, keeping a part of the list keeps its order
(`KeptKeeps`), and two sets in the same order give lists that match place by
place (`SameOrder`), which is why the copy of a jar, numbered anew, sends what
the jar does (`CopySends`). The copy is a recursive function over the list;
what it holds after each cookie is given in closed form (`CopyOf`), and that
the function is this form follows without induction over data, from the least
place where the two would differ (`CopiedIs`).

Only model-checked:

* the liveness properties and `LockFree`: fairness and `ENABLED` are beyond the
  prover;
* everything the run `pages` checks: the tree, the page's bytes, the collector
  and robots.txt are walks, written with recursive operators, which the prover
  does not take;
* `OverlaySound` and `AttrsAgree`: chains of links in trees and arenas, where
  the proof would be an induction over the chain;
* `KeptIsFresh`: the calendar's years, selectors, collections, boxes and the lists
  of listeners are folds and walks in the same way.

## 6. Findings

1. **The least nonce** (`scan_least`). With several workers a scan may return
   a nonce that is not the least, and so not the one a single worker returns:
   a worker that received a lower chunk drops it when it sees `stop`
   (`challenge-solver/src/scan.rs:380`). The test
   `pow_multithread_finds_same_solution` (`challenge-solver/tests/pow_core.rs:144`)
   says both are equal. Any nonce found is valid, and `ReturnsFound` says what
   is missed: less than one solution per worker.
2. **A timer that clears itself** (`timer_cleared`). `clearInterval` in the
   interval's own callback has no effect: the callback is out of the map while
   it runs (`runtime-exec/src/timer.rs:415`) and armed again after it
   (`timer.rs:455`). The test `interval_reschedules_and_clears`
   (`runtime-exec/tests/exec.rs:367`) does just that, and asserts only that the
   callback ran often enough. `ClearedByOthers` holds.
3. **An attribute that does not come back** (`attr_lost`). A script removes an
   attribute of one of the page's elements and sets it again: the tombstone was
   the only entry of the chain, taking it out makes the chain's head what was
   behind it, and the new entry is reached from nowhere
   (`runtime-exec/src/webidl.rs:776`). `getAttribute` answers with the page's
   old value. `runtime-exec/tests/webidl.rs:229-230` sets and reads back, on an
   attribute that was never removed. `AttrsAgree` states what does hold.

Met while modelling, without a text in the repository that says otherwise; the
properties are stated so as to hold, and where one makes an exception it is one
of these.

*Service and solver*

* Two clients whose payloads share a slot of the answer cache may pair one's
  key with the other's answer (`HitsAreOfTheSlot`: the hit is the answer to
  what was asked only where one client uses the slot), and may count the slot
  twice, after which the ring closes early (`slider.rs:101`).
* The watch is one for all callers: a second `solve_until` moves the deadline
  of the first, ends it, or is cut short by it, and an abort flag left set cuts
  a later plain solve short. `ReturnIsTrue` and `UntilEnds` promise the
  deadline to a caller that is alone.
* The watch is looked at in the wait loop only (`scan.rs:426-438`): while a call
  hands over tasks and jobs, blocked where a channel is full (`scan.rs:396`,
  `419`), no deadline ends it. Deadlines are `Instant`s, which the watch
  compares with the wall clock: one that falls before the epoch is none
  (`lib.rs:194-203`), the time between the two readings is taken off, and a
  clock that is set moves every deadline.
* Threads of the scan pool are kept by tasks whose caller still hands over, so
  callers can wait for one another: with two threads, two tasks a call and a
  channel of one, three calls that have one task each on a thread or in the
  channel all wait for room, for ever. `CallsEnd` excludes this by `Few`: `k`
  calls with `w` tasks each always end where `(k - 1) * (w - 1)` is less than the
  number of threads.
* `watch_gc` counts the list twice (`watch.rs:63`, `66`). Where another sweep
  took entries out in between, `watched.len() - cap` is below zero: a debug
  build panics, a release build empties the list. `CapKept` holds in the latter
  (`Count`); how much is left is not promised.
* The version monitor and the watch map insert without replacing
  (`watch.rs:85`, `parser-pipeline/src/lib.rs:45`). The monitor keeps the first
  build of an address for good: every later one is reported anew at each probe,
  a return to the first never, and the first sight of an address counts as a
  change. The record a daemon puts after a change is dropped while the old one
  is listed, so that its token and script are not compared next time.
* One visit's failure to fetch robots.txt is kept for all visits of the
  process: an empty file, which permits everything (`flow.rs:410`). Where
  visits race, the first to store decides.
* The bridge's `send` on a full channel has no deadline; a worker leaves it
  because the daemon takes what it finds without waiting (`WorkersReturn`).

*The worker's thread*

* The lifted memory limit of `gc_and_maybe_lift` is set back at once by the
  limit the second `exec` sets (`worker.rs:1957`, `1787`), and the second try
  runs on the tree and the registries that the first one changed.
* The cancel flag of a request stays in its thread-local after the scope is
  left, as do some memoised objects of the engine and the remembered `getTime`
  of the first object that had one (`intl.rs:545`).

*The tree a script changes*

* `insertBefore(x, x)` leaves `x` its own next sibling; walks over it do not end.
  A page node as child or reference indexes another table, out of its range.
* `appendChild` of an ancestor below itself is not refused: a knot, on which a
  descendant selector walks up for ever (`query.rs:217`).
* A page node under a parent the script has not touched before is lost from its
  `childNodes`; the list of the parent it came from keeps it.
* `walk_elements` lists elements of the script twice, and those of detached
  subtrees too; `document.scripts` keeps the page's elements that were removed.
* A page element is still found by the id it no longer has.
* `documentElement.remove()` is not noted as a change: element list, collections
  and boxes stay (`CachesFresh` excepts it). `elementFromPoint` may answer with
  a text node, and compares coordinates of the page with those of the parent.
* The number of a request is shifted by 20 bits over that of its changes, which
  collide after 2^20 changes.
* A selector may end in `>`; `a>b` without blanks is refused.
* `addEventListener` of the same function twice calls it twice; one that is
  removed during a dispatch is still called.

*Observers and objects*

* The second mutation observer of a record that was moved out gets an empty one.
* A resize observer whose targets were all taken away keeps `scheduled` set, and
  is never called again before it disconnects. The same is true of either kind
  of observer whose frame is dropped at `TIMER_CAP` (`observers.rs:101`,
  `timer.rs:218`), cleared by a script, or lost to `clear_all` before a second
  run (`worker.rs:1785`). `FrameOnTheWay` excepts them (`missed`).
* A deferred firing of a request that is dropped, cleared or lost in these ways
  never comes: its `loadend` is not owed in `XhrSound`.
* `abort()` defers a firing that resets whatever was opened on the object since;
  a completion fires after an abort, and ends the request that was opened next.
* The "closed" state of a peer connection cannot be read: its entry is gone.

*Time, numbers, pictures*

* Rules for the last but one week of a month (Nuuk, Jerusalem) are a week early
  in a month whose last such weekday comes before the last Sunday, as in March
  2024. `new Date(y, m)` is invalid; `new Date(y, 12, d)` is December. Zones of
  one abbreviation share a long name, so that Shanghai is in "Central Standard
  Time".
* A currency's `maximumFractionDigits` of 0 counts as absent. Formatters of a
  request are not freed before its end.
* What is drawn between a resize and the next reading is lost; after it the
  getters answer with the old style. `fill()` leaves no path for `stroke()`.

*Pages and tabs*

* A form outlives its end tag. Open elements past 512 are not on the one stack
  and are on the other; a challenge script at a limit is taken for the one
  before. An item inside a list that was not kept is hung under the outer item.
  The title of an inline drawing is appended to the page's.
* A tab's first event of visibility may be "visible" though it never was hidden,
  or the same may come twice; a scroll of 0 px never ends; wheel events give a
  position while a tab is driven and a distance when it idles
  (`session.rs:212-216`, `event.rs:267-281`); an inbound page's deadlines may
  leave a button pressed or an element focused; `finished` is never set.

## 7. Building on it

In this directory, `tlc -config <run>.cfg <module>` repeats a run and
`tlapm <module>` a proof. `PROJECT.json` names the source lines of every
definition, the hazards and the properties that stand against them. A new part
joins an existing run as a scene where it shares no state with it.

## 8. Not modelled, and why

* Fonts, profiles, proxies, charsets, the block list: tables that are built
  once and looked up.
* The challenge kernels, hashes, codecs, URL splitting, and the slider's image
  matching: pure functions over wide integers or pixels; the schedules around
  them are modelled.
* The browser surface (`touch.rs`, `pageapi.rs`, `deviceapi.rs`,
  `cryptoapi.rs`, `stackfmt.rs`): getters, one value in and one out; the
  registries of its objects are `RegVec`.
* The WebAssembly sandbox: a vendored interpreter, whose handles live in one
  function. The script normalizer: a walk over an external parser's tree.
* Process start, counters that only grow, and the settings file.
* Of parts modelled in part: the text of what is printed (Intl, console,
  PNG), geometry and costs, headers and descriptions, site keys, the HTTP
  routes that only read, and the choice of slot, profile and challenge.

Next to check would be two stores of `RequestScopes` that one object spans, and
liveness of the fleet's pushes; next to prove, that the
links of the page's tree survive a removal (`TreeSound`), with its walks as
recursive functions.
