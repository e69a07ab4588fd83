# Verification of MudFish

TLA+ models of the MudFish crawler (`src/`), their TLC configurations, and
TLAPS proofs. Every module is translated from the Rust code; `PROJECT.json`
maps each definition to the lines it stands for.

    tlc -workers 2 -config Frontier_memory.cfg MCFrontier   # a run
    tlapm CrawlProofs.tla                                   # proofs

## 1. Inventory

| Component | State | Operations | What is hard | What makes it correct |
|---|---|---|---|---|
| **Frontier** `crates/frontier/src/frontier.rs`, `item.rs`, `scheduler.rs` | heap, visited set, `pending`, `seq`, `stopped`, a tokio `Notify` | `try_push`, `pop`, `complete`, `stop`, `with_store` | every field is synchronised on its own; termination is a counter; sleeping is a `Notify` | one owner per URL; `pending` exact; nobody leaves early, nobody sleeps for ever; FIFO within a depth |
| **Frontier store** `store.rs` | SQLite tables `seen`, `items` | `mark_seen`, `enqueue`, `mark_inflight`, `complete`, `load` | one autocommit per statement, a crash between any two | what was in flight is queued again, what was completed stays completed |
| **Engine** `crates/engine/src/lib.rs` | statistics, pages, scope host, permits, deadline | `crawl`: N copies of the worker loop | slot reservation and release, four exits of an iteration, in-flight work at a stop | hard budget, adding-up statistics, balanced permits, the crawl ends |
| **Domain health** `crates/fetch/src/health.rs` | per host: circuit, failure count, cooldown | `is_available`, `record_response` | the answer to a request arrives in another state than it was sent in | opens at the threshold, cools down, tried again |
| **Politeness** `politeness.rs` | per host: last slot, token bucket, semaphore | `host_semaphore`, `wait_for_slot` | reserve-then-sleep, idle credit, saturating time | spacing, rate, concurrency |
| **Robots cache** `robots.rs` | per origin: rules and age | `is_allowed` | misses race, the last answer wins | no fetch of a disallowed URL |
| **Fetcher** `fetcher.rs` | proxy pool, retry policy | `fetch`, `fetch_once`, `read_body_capped` | retries, backoff, `Retry-After`, size cap, two atomics per pool | bounded attempts and bytes |
| **Renderer** `crates/browser/src/renderer.rs` | one Chrome, a collector task per page | `render` | settle loop against late events; stop handshake | ends, collector stopped |
| **Relocation** `crates/parser/src/adaptive.rs` | none | `relocate` | ranking with ties, bounded LCS | best candidate, bounded work |
| **Normalisation** `crates/core/src/normalize.rs` | none | `normalize`, fingerprint | order of rules | one key per page, stable, nothing lost |
| **JS heuristic** `crates/parser/src/lib.rs` | none | `static_html_looks_js_dependent` | unsigned difference of two counts taken over different parts of the page | a page a script must fill is rendered |
| Link and field extraction, challenge/status, security, config, CLI, Python, tools | none that changes during a crawl | pure functions, I/O | - | - |

`crawl` opens a `Frontier` (in memory, or over a file), pushes the seed, and
spawns N tokio tasks on a multi-threaded runtime. Each task: checks deadline and
budget, `pop`s, asks health and robots, reserves a slot in `stats.fetched`,
takes the host's permit, waits for its slot, fetches, reports to health, pushes
the links it found, records the page and `complete`s the item. All tasks share
the frontier, the statistics, the scope host, health, politeness and robots by
reference; nothing is passed by message. They meet only in the `Notify` and the
semaphores. The process may die at any point; with `--frontier-state` the next
one loads the file.

The hazards, each at its line with the properties that cover it, are in
`PROJECT.json`.

## 2. Modules

| Module | Models | Uses |
|---|---|---|
| `Notify` | `tokio::sync::Notify`, external: one permit, tickets that are armed, fired, waiting, woken | - |
| `FrontierStore` | `store.rs`: the two tables, one operator per statement, `load` | - |
| `Frontier` | `frontier.rs`, with a general client for the worker | both |
| `WorkPool` | abstract: a URL is offered once, leased once, settled once; a worker goes home only when closed or idle | - |
| `DurablePool` | abstract: the same pool over restarts; a crash gives back what was leased, undoes nothing else, and may lose one URL that was being offered | - |
| `Crawl` | the worker loop of `engine/src/lib.rs` in place of the general client | `Frontier` |
| `Health` | the circuit breaker of one host | - |
| `Politeness` | `wait_for_slot` of one host | - |
| `Fetcher` | `fetch`, `fetch_once`, the proxy pool, the capped body | - |
| `Robots` | the cached robots.txt of one origin | `Fetcher` |
| `HostRequests` | breaker, robots.txt, permit, fetch and report, in the loop's order | `Robots`, `Health` |
| `Renderer` | one `render`, its collector task and the page's traffic | - |
| `Ranking` | the scan of `relocate` | - |
| `Similarity` | what an element scores against a fingerprint | - |
| `Normalize` | `normalize_url` | - |
| `JsHeuristic` | `static_html_looks_js_dependent` | - |
| `Backoff` | `RetryPolicy` and `Retry-After` | - |

`MCFrontier`, `MCCrawl`, `MCPoliteness`, `MCHostRequests` hold link graphs, host
assignments and symmetry for TLC; `MCContent` joins `Ranking` and the four pure
modules. `FrontierProofs`, `StoreProofs`, `CrawlProofs`, `HealthProofs`,
`PolitenessProofs`, `HostProofs`, `RendererProofs` and `RankingProofs` hold
theorems; `HostProofs` covers `Fetcher`, `Robots` and `HostRequests`.

**Frontier.** `pc[p]` is where a task stands. Each atomic, lock or store access
of `try_push` is an action of its own (`PushFresh`/`PushDuplicate` for
`visited.insert` and `seq.fetch_add`, `PushSeen` and `PushRow` for the two
writes, `PushCount`, `PushQueue`, `PushNotify`); so are the steps of `pop`
(`PopListen` creates the `Notified`, `PopStopCheck`, `PopTake` or `PopEmpty`,
`PopLease`, `PopPendingCheck`, `PopAwait`), of `complete` (`CompleteRow`,
`CompleteCount`, `CompleteNotify`) and of `stop`. `visited.insert` and
`seq.fetch_add` are merged: the order of two numbers handed out between them
cannot be seen. The store mutex is held over `PushSeen; PushRow` (`StoreFree`),
but a crash may fall between them. The heap is a set: `FrontierItem`'s order is
total on it. `Restart` is `with_store` in a new process, from any state. All
atomics of the code are `SeqCst` or are used only for their atomicity, so steps
interleave.

**Crawl** keeps the frontier's actions and replaces the client. `at[w]` is where
a worker is in the loop while the frontier's `pc` only says `loop` (before
`pop`) or `got` (an item in hand). `Hrefs` are all links of a page, `Links` those
in the scope of the host the seed resolves to. What health, robots and the fetch
answer is left open (`MaySkip`, `MayFail`). `EngineIsClient` says that every step
of the engine is a step of `Frontier`'s specification or leaves the frontier
alone, so what is proved of the frontier holds of a crawl.

**Health.** One call is one action, since it holds the host's map entry. Time is
the cooldown left. A request is in `inflight` between `is_available` and
`record_response`; anything may happen in between.

**Politeness.** A caller reads the clock (`Call`, `ReadRateClock`), then takes
the map entry's lock and reserves (`Reserve`, `TakeToken`), then sleeps. The
clock may be stale when it is used and a sleep may end late; `Tick` does not let
a caller fall more than `Lateness` behind the instant it is entitled to. Idle
credit is a `next_available` that lags behind the clock, as in the code.

**Fetcher, Robots, HostRequests.** `stage[w]` follows one call of `fetch`;
`used.fetch_add`, its reset and the move of `current` are steps of their own, in
`select` and in `mark_failure`. `Pools` are the pool sizes to explore, 0 standing
for the single client. Statuses and errors are the classes the code tells apart.
`Robots` adds the cache entry: `Miss` starts a fetch of the file, `Insert` judges
its outcome. What the origin answered (`AnswerOf`) is kept, as history, beside
what the code makes of it (`Parsed`), so that properties can speak of the first.
`HostRequests` puts them in the order of the loop: the file goes
through the same fetcher but under no permit, and the breaker hears of the page's
answer before the permit is given back.

**Renderer.** `pc` is where `render` stands, `collector` and `stop` the task and
its oneshot. The two event streams are `requested` and `answered`, `seen` and
`heard` what the collector took of them. Only navigation and sleeps take time.

**Ranking, Similarity, Normalize, JsHeuristic, Backoff.** `Ranking` is a state
machine over given scores; the other four are operators. In `Similarity` a word
stands for the characters that text caps count, and scores are exact fractions
where the code has floating point. In `Normalize` a path is its segments, a
query its pairs with the way each is spelled.

History variables (`crawled`, `finished`, `processed`, `depthOf`, `streak`,
`trials`, `ready`, `tokens`, `holds`, `sent`, `picks`, `misses`, the
`answer` of a cache entry, and `late` and `strays` of `HostRequests`) record what
a property speaks of. No guard on a step of the code reads them; `Politeness`'s `Tick` and
its bound on calls do.

Definitions called "bug variant" are not part of any specification: each is a
plausible error of the definition after it, used to confirm that a property
notices it.

## 3. Runs

| Run | Instance | Shows |
|---|---|---|
| `Frontier_memory` | 2 workers, 4 URLs, racing links | one owner per URL, exact counter, no early exit, nobody sleeps through the end, termination, every queued URL served; every step is one of `WorkPool` |
| `Frontier_durable` | 2 workers, 4 URLs, racing links, two crashes anywhere | the file would rebuild exactly what is unfinished, links are recoverable; every step is one of `DurablePool`, in which what is done stays done; the proofs' invariant holds |
| `Crawl_budget` | 2 workers, `max_urls` 2 of 4, skips, failures, failing writes, one permit per host, a redirecting seed | exact budget, statistics, scope, end; the engine is the frontier's client |
| `Crawl_resumed` | 1 worker, 5 URLs with a short cut, deadline, one crash anywhere | a page's depth is the length of a path from the seed, and of the shortest, across the restart |
| `Health_breaker` | 4 workers, threshold 3 | opens exactly after three blocks in a row, and after one more when half open, bounded overshoot, cooldown never shortened, tried again |
| `Politeness_slots` | 3 callers, every pairing of delay, rate and burst | requests spaced, rate held over every stretch, nobody queues for slots nobody uses |
| `Fetcher_pool` | 2 workers, single client or two proxies, one retry | the pool moves on, every fetch ends |
| `Host_requests` | 2 workers, threshold 2, one permit, one retry | a host that blocks is left alone, so is one whose robots.txt forbids or fails, no refetch within a TTL |
| `Renderer_settle` | 2 requests, settle times below, at zero and above the quiet window | captured on quiet or on time, records are the traffic, call and collector end |
| `Page_content` | every small sample, one per initial state, and every short scan | relocation reports one best element or none, similarity is the longest common subsequence, an unchanged element scores 100, keys are sound, script-filled pages are rendered, backoff doubles up to its maximum |

Where code and documentation disagree (quoted in `PROJECT.json`, "findings"):

| Run | Shows |
|---|---|
| `Frontier_wakeup` | three workers: two pushes leave one permit, one worker sleeps beside a queued item |
| `Frontier_lost_seen` | a crash between the two writes of `try_push`: the URL is seen and never queued |

### Bounds

Two workers make every race of two tasks; a lost permit takes two pushes and two
sleepers beside the pusher, hence three workers in `Frontier_wakeup`. Three or
four URLs with cross links make a page reachable on two paths, a duplicate
pushed during the other's push, and a page at the depth limit.
`MaxRestarts = 2` in `Frontier_durable` crosses a crash of a crawl that was
itself resumed, and its fourth URL lets both workers be in `try_push` with
different new URLs when it happens; one is enough to lose a URL in `Frontier_lost_seen`, and to put
restored depths beside new ones in `Crawl_resumed`. `MaxUrls = 2` of four URLs lets the budget be
reached, released and reached again. `Health` needs no bound: its counter is
bounded by `OvershootBounded`; four workers and threshold 3 let late answers
outnumber those needed to open.

`Politeness_slots` stops after `MaxCalls = 3` calls or `MaxTime = 7`: enough for
an idle stretch, a burst out of its credit and one call beyond it, with delays
shorter and longer than intervals. `Lateness = 2` exceeds what a delay of 3 leaves
over an interval of 2, the case in which a late caller's token holds up the next. A pool of two proxies with `RotateAfter = 2`
lets both workers count past the threshold and reset; `Limit = 1` chunk makes
both a body that fits and one that does not. In `Host_requests` the pool is the
single client, since proxies have their own run. `Quiet = 3` and `Poll = 2` keep
the code's proportion of a window that is no multiple of the poll; `MaxRequests`
and `LoadTime` bound the page's traffic and its navigation. The samples of
`Page_content` are all sequences of two symbols up to length four, all trees of
four nodes, all paths of four segments, all short queries under every option,
and retry policies around the width of the word (5 bits) and the cap on the
shift. `ShiftCap = 3` and `Width = 5` stand for 16 and 64.

`WorkerSymmetry` is used in `Politeness_slots` and `Host_requests`: no state or
property there names a worker, and only invariants are checked.

A run that says `CHECK_DEADLOCK FALSE` is of a system that stops: a bounded number
of calls, one call of `render`, one scan.

### Fairness

tokio polls a runnable task again and again, hence weak fairness of each task's
steps. A sleeping task has no enabled step until it is woken. A fetch ends since
connect, read and total timeouts are set; so `EngineWorker` may be fair while it
fetches, and `FetchSpec` is fair to answers as well as to the code. Nothing is
assumed of the deadline or of restarts, nor that a notified sleeper is the one a
push needs. `Health` assumes that time passes, requests end, and some worker
goes on asking about the host: `Recovers` is about a host with URLs left.
`RendererSpec` is fair to the render task, to navigation (the browser gives it
up) and to the branch of `select!` that takes the stop: it is chosen at random
among those that are ready, so a page that never falls silent does not starve it.
`Politeness` has no fairness: instead of a promise that sleepers wake in time it
has the bound `Lateness`, and its properties are stated with it.

## 4. Proofs

`FrontierProofs`, for any workers, URLs, links, depth and number of restarts,
in memory or durable, with or without write errors, from
`FrontierAssumption` alone:

    Spec => []IndInv

and from it `TypeOK`, `AtMostOnce`, `PendingExact`, `NoEarlyExit`,
`NoLostWakeup`. None of the four is inductive by itself. `IndInv` adds `Shape`
(what a task holds at each `pc`, and that a worker leaves early only after
`stop`), `PlayVisited` (whatever is in play was entered in `visited`, so
`visited.insert` excludes a second owner), `OutstandingFinite` (so
cardinalities mean something), and `StopSignalled` (the stop half of
`NoLostWakeup` from the check of `stopped` on). The lemmas go in that order:
`ShapeInductive`, with `TypeInductive`, `TasksInductive` and `RowsInductive`
for its parts; `PlayInductive`, that a URL in play has one place;
`CountInductive`, that `pending` moves with the set it counts, for which
`AtMostOnce` is needed; `EarlyExitInductive`, that a worker that found
`pending = 0` cannot be refuted later, as only holders push (`PushersHold`);
`WakeupInductive`, on the ticket of a future created before the checks.
`LoadedItemsFacts` and `LoadedItemsFinite` carry them over a restart.

Its last part is `FrontierIsAPool`: with `MaxRestarts = 0`, `Spec => Pool!Spec`.
`StatusCases` says which status `StatusOf` gives to what is held, queued, about
to be queued, and settled. Then one lemma per kind of step says what it shows:
`PushCount` is the pool's `Offer`, `PopTake` its `Take`, `CompleteCount` its
`Settle`, everything else changes no status (`QuietShows`, `FreshShows`,
`QueueShows`). The doors, `open` and `gone`, are in `DoorKinds`: `Close` is
`StopSet`, and a worker leaves when it found the frontier stopped or `pending`
zero, which `PendingExact` turns into nothing queued or leased. An `Offer` needs
somebody at work, save for the first: `SeedFirst` is the invariant that a push by
`main` is the seed's, into a pool nobody has touched.

`StoreProofs` is about the file. `CompletedIsForever` (`CompletedStaysCompleted`)
needs no more than `IndInv`, so it holds with failing writes too; the runs check it
as a part of `ImplementsDurablePool`. The others assume that writes
succeed (`Reliable`). `ResumeIsExact`: `FileExact`, that what `load` would queue
is `WithRow`, is kept by every step: `enqueue` and `complete` move one item in
or out of both sides, `AtMostOnce` keeping other items' rows apart,
`mark_inflight` and a restart move none. Sequence numbers stay distinct over a restart because what is
loaded was outstanding before. `LinksAreKept` rests on `SeenSoon` (a URL in
`visited` has its seen mark or somebody about to write it), `LinksTracked` (each
link of the page in hand is to be pushed, being pushed, or in `visited`) and
`Uncrawled` (no page still to be worked on counts as gone through): the task
about to write the mark holds a page with a row, which is the source that
`LinksKept` asks for. `crawled` forgets, at a restart, pages that still have a
row: a later process goes through those again.

`FrontierOutlivesCrashes` is the refinement over restarts: with writes that
succeed, `Spec => Durably!DurableSpec`. `FrontierIsAPool` cannot be carried over a
crash: in memory an item is offered when it is counted, and settled when the
counter says so. For the file (`Stored`) the offer is the write of the row
(`RowOffers`) and the deletion of the row settles it (`DeleteSettles`), so that a
crash takes leased items back to queued and changes no other (`CrashGivesBack`),
save the one item whose URL is marked seen and has no row yet: the next process
takes it for done. There is at most one, as the store's mutex is held between the
two writes (`WritersApart`). What the next process knows is what `FileExact` and
`SeenSoon` say. `SeedStored`, that the seed's mark is the first of all, makes the
resumed crawl's push of the seed either the pool's first offer or a duplicate.

`CrawlProofs` lifts all this to the engine: `EngineHonoursContract` is
`CrawlSpec => Spec`, the refinement `EngineIsClient`, by a case per action in
`ClientStep`. The one step that needs an invariant is `FetchOk`: it pushes links
in the scope it has just resolved, and these are the client's links only if that
is the seed's resolved host. Hence `TopIsSeed` (an item at depth 0 is the seed),
`AtMatches` (what `at` says of `pc`) and `ScopeKnown` (no deeper item before the
scope is known). The assumption `Steady` says when that holds: a crawl that
starts afresh, a resumed one whose seed does not redirect to another host, or
links that are not filtered; `ScopeStays` is the same without the last case. On
it rest

- `CrawlOwnsOnce`, `CrawlIsResumable`, `CrawlIsAPool`, `CrawlOutlivesCrashes`: what
  is proved of the frontier, its file and the two pools holds of a crawl;
- `ScopeIsResolved`: `SeedResolvesScope`, under `ScopeStays`;
- `BudgetIsExact`: `fetched` is the collected pages plus the workers between
  reservation and result, and never more than `max_urls`. `PagesSettled` (a
  collected page is in play nowhere but at its owner's `complete`) makes a page
  count once, and `BusyByLoop` counts who enters and leaves;
- `PermitsAreBalanced`: `PermitsBalance`, for any number of hosts;
- `StatisticsAddUp`: the `Ledger`, that discovered plus the seed is what is
  settled plus what is outstanding or being pushed, is kept by every step until
  `stopped`; when everybody has left it is `StatsAddUp`.
- `DepthsAreReached`: `DepthIsReached`, for any number of workers and restarts: a
  page is queued at depth d only when a path of d links leads to it. What is
  queued or in hand stands at its recorded depth (`ItemsStand`), what a worker
  pushes is a link of the page in hand and one level deeper (`ArgIsReached`, on
  `LinksTracked` and `TopIsSeed`) and has no depth yet (`ArgsNew`), so that
  recording it moves no page another one stands on (`RecordStands`). A restart
  reloads the same items with the same depths and adds those whose rows were
  written and which were yet to be queued (`RestartRecords`, on `FileExact` and
  `SeenSoon`). A resumed crawl whose predecessor failed to write rows is left out
  (`Resumable`): it may queue a page again at another depth;
- `BreadthFirst`: `DepthIsDistance`, for one worker. `DepthOrder` is the shape of
  a breadth-first queue: what is queued spans at most two levels, and the item in
  hand is the shallowest. What is pushed fits below the page in hand (`PushFits`),
  so recording it keeps the order (`RecordKeeps`); a link left out was visited
  before, at most one level down (`LinksNear`). `OneWorker` is needed: TLC refutes
  the property for two workers, one of which overtakes the other by a level.

`HealthProofs`, for any threshold, cooldowns and workers: `HealthInv`, and from
it `BreakerConsistent`, `OpenMeansBlocked`, `OvershootBounded` and
`CooldownNeverShortened`.

`PolitenessProofs`, for any delays, intervals, bursts, lateness and number of
callers: `PolitenessTypeCorrect`, `RateHolds`, `SpacingHolds` and
`QueueStaysShort`. `RateBound` speaks of requests
already sent; the induction is over the token history: `BucketInv` (slots are at
least an interval apart, no slot lies behind its clock reading by more than the
credit, and `next_available` keeps an interval's distance from all of them) and
`CallersInv` (a caller that goes has waited for the slot of its token).
`SendsSpaced` needs where every caller stands in time: `TimesInv` says what a
caller is entitled to at each `pc` and that it is no more than `Lateness` behind
it. A caller holds its delay slot until it has its token, then it is on its way
out; `SpacingInv` keeps slots a delay apart (`SlotsInv`), keeps them and the next
token behind whatever was let out before (`PassedInv`), and separates any two that
are on their way out or gone, by slot or by token (`LeaveInv`, `SentInv`), so that
the order of sending need not be the order of the slots. It is claimed when the
delay exceeds what callers fall behind (`Tight`); otherwise the bound is not
positive, and time goes forward (`SentInOrder`). When the rate is faster than the
delay, a late caller leaves a token instant behind that the next one waits for, up
to `TokenLag`; an earlier bound without that term was refuted by TLC when the
proof would not go through. `QueueIsShort` counts: `QueueInv` states it for every
instant still to come, and `OneMore` has a reservation add one caller to those
that wait beyond it.

`HostProofs`, for any number of workers, thresholds, retries, pools and permits:

- `PoolAlwaysMovesOn`. `used`, its reset and the move of the index are steps of
  their own, and a reset may be late. `PoolInv`: a reset is on its way for every
  use counted past the threshold, and `picks` is at most `RotateAfter` for each
  worker that has reset and is yet to move the index, plus the uses still
  counted, the resets begun and the uses still to be counted. A step changes each
  of these sets by its own worker.
- `HostImplementsBreaker`: a page's admission and its report are `Health`'s
  `Ask` and `Record`, every other step leaves the breaker alone, so
  `HostBreakerConsistent` follows from `HealthProofs` by instantiation.
- `OpenHostIsLeftAlone`. `LateInv` is a budget: what a worker has sent since the
  circuit opened is at most the attempts of its present call and those of the
  calls before it in the iteration (`Earlier`). Once it finishes it asks the
  breaker and is refused; the one whose report opened the circuit has sent
  nothing and cannot begin again.
- `ForbiddenIsLeftAlone`. While the fresh entry forbids (`Forbidding`, a matter of
  the answer and not of what was parsed) nobody is let through. `StrayInv`: a
  worker waiting for a permit has it from before and has begun no page since;
  the worker whose insertion made the entry forbid is turned away, and until the
  entry goes it cannot come to the permits again.
- `RobotsMissedOnce`. `MissInv`: a worker that missed and finds nothing fresh is
  still fetching the file; its own insertion makes the entry fresh.

`RendererProofs`, for any page, settle time and window: `RendererTypeCorrect`,
`RenderSettlesInTime` (`TimeInv`: a sleep ends by the settle time, and when it was
begun the network was not quiet or too little time had passed to tell),
`RecordsMatchTraffic` (`RecordInv`: one record for each request taken, in order,
with the answers that were heard; they are handed over once the collector has
ended) and the action property `RenderSettlesOnQuiet`.

`RankingProofs`, for any documents, scores, thresholds and caps:
`RankingTypeCorrect`, `FoundIsTheOnlyBest` and `ReportIsTheRanking`. `LeadsScan`
says of the scanned prefix what `FoundIsUnique` says of the document: `top` is its
maximum, `tied = 1` only if no other element reaches it, and the report begins with
the first that does. `LeastNatural` makes the place `insert_candidate` looks for
exist. For the whole report the invariant is `Places`: place q holds the element
of rank q among those scanned. `RankOrders` makes ranks a numbering without gaps
or repetitions, `PositionIsRank` says the new element's position is its rank
(the elements before it fill the places before it), and `RankWithOneMore` that
those behind it move down by one. `TieIsReal` and `CapHolds` give the outcomes.

Only model-checked: everything under fairness (`Termination`, `QueuedIsServed`,
`CrawlEnds`, `Recovers`, `FetchEnds`, `CallEnds`; liveness is out of the prover's
reach) and the pure operators of `MCContent`
(`SimilarityIsExact`, `UnchangedScoresTop`, `KeysAreSound`,
`SparsePagesEscalate`), whose folds and recursion over their input need an
induction the prover cannot instantiate, and `BackoffGrows`, whose powers of two
the provers know nothing of. `ResumeLosesNothing` and
`NoMissedWakeup` are what the code does not do. Every other property of the runs
is a theorem.

### Known limits of the code

Read off the models and not kept as runs of their own.

*Frontier and engine.* `visited` is ahead of the table `seen`: a page may
complete while another worker has yet to record one of its links, and a crash
then loses the link if that worker's page is later given up (`LinksRecoverable`
is what does hold). Without `max_urls` no slot is counted and `urls_fetched`
stays 0 (`lib.rs` 229-246 against 390); the command line and the Python API always
set it. The item in hand when the budget runs out is completed, and so loses its
row, unfetched (232-235). A slot released after the crawl was stopped for want of
slots is wasted (357). A resumed crawl filters links by the seed's literal host
(103-105): it has no seed to resolve again. The deadline is looked at before
`pop` only, so a worker waiting for an item or a permit fetches after it. A
worker waits for a host's permit with its item in hand, so one slow host can
hold all of them. With several workers a link found first on a longer path keeps
the greater depth, and its page's links may fall past `max_depth`.

*Health.* A half-open circuit lets through everybody who asks (`health.rs`
107-116). A blocked answer that was in flight when the circuit opened doubles the
cooldown again, and a success that was closes the circuit. A worker waiting for a
permit does not ask the circuit again.

*Fetching.* Fetches of robots.txt pass neither permits nor politeness nor health,
and racing misses each fetch it; an answer of 429 there means no restrictions.
So does a 2xx file the parser rejects (`robots.rs` 68, `"garbage"` of `Parsed`):
the code takes it for permission, though its comments have no restrictions only
for a file that is absent or 4xx (11), and deny-all rather than crawling on a
policy nobody could read (16-20). Which files the parser, a library, rejects is
left open. `ForbiddenLeftAlone` does not cover it. A page let through
under an older robots.txt is fetched however long it waits for its permit. The
retries inside `fetch` (`fetcher.rs` 206-230) take neither a slot nor a token: the
spacing and the rate are of calls of `wait_for_slot`, not of requests. A
429 page over the size limit is "too large": it is not retried and health does
not hear of it. A `Retry-After` is slept for however long it is. Two failures at
once move a pool of two proxies back to the one that failed. The backoff stops
doubling after 16 attempts, below a larger maximum. Politeness spaces requests
only up to how late its callers run, twice over where the rate is faster than the
delay: the lateness of one caller moves the token the next one waits for.

*Rendering.* The quiet window is counted from the call, the settle time from the
load: after a slow navigation quiet is noticed late, by that long. `select!` may
take the stop before buffered events, which are dropped, and a response before
its request, whose status is then lost. An error return leaves the tab open.

*Content.* Doubled slashes are collapsed whatever the options, though the module's
comment has every rule opt-in, and a rewritten query turns `?flag` into `?flag=`.
Text in the body is lessened by scripts in the head. A candidate's text is cut at
`opts.max_text_chars`, the fingerprint's at the default, so with a smaller cap an
unchanged element may score below 100. The siblings after an element get only
what those before leave of the window.

## 5. Not modelled

- A worker that panics: its item in hand would stay outstanding, and the others
  would wait for it. No modelled step has a cause for one.
- The byte counter and the other totals nothing reads back.
- The browser escalation inside a fetch: it is one more way a fetch ends;
  `Renderer` and `JsHeuristic` model its two halves.
- Building clients and headers, redirects inside the HTTP library, finding and
  launching the browser: calls to other programs with no state of their own.
- Extraction of links, fields and metadata: a walk over an external parser's
  tree. Matching of robots.txt paths: the parser library's.
- Challenge and status classification, the address filter: predicates on strings
  and addresses that no step of the crawl depends on, or that their unit tests
  enumerate.
- Configuration and result types, command line, Python bindings, repository
  tools: data and conversions around one call of `crawl`.
