------------------------------- MODULE Crawl -------------------------------
(***************************************************************************)
(* crawl() of the engine: N workers run the loop of engine/src/lib.rs over *)
(* one Frontier.  The frontier's methods are the actions of module         *)
(* Frontier; here the engine's own steps take the place of its client:     *)
(* budgets, skips, the reservation of a fetch slot, the host permit, the   *)
(* fetch and the pushing of what the page links to.  What the fetcher,     *)
(* health tracker and robots answer is left open (MaySkip, MayFail).  The  *)
(* global semaphore has as many permits as there are workers and each      *)
(* worker takes one at most, so it never blocks and has no state here.     *)
(* at[w] is where w stands in the loop while the frontier sees no more     *)
(* than "loop" (before pop) or "got" (an item in hand).                    *)
(***************************************************************************)
EXTENDS Frontier

CONSTANTS Hosts, NoHost,
          Hrefs,        \* Hrefs[u]: every link of the page, in scope or not
          HostOf,       \* HostOf[u]: the host in the URL
          FinalHost,    \* FinalHost[u]: the host its fetch ends at
          SameDomain,
          PerHost,      \* per_host_concurrency
          MaxUrls,      \* max_urls: a number, or NoLimit
          NoLimit,
          HasDeadline,  \* max_duration is set
          MaySkip,      \* URLs robots.txt or an open circuit may refuse
          MayFail       \* URLs whose fetch may fail

InScope(u, h) == SameDomain => HostOf[u] = h

(* The links that reach the frontier are those in the scope of the host    *)
(* the seed resolves to.                                                   *)
ASSUME CrawlAssumption ==
  /\ IsFiniteSet(Workers) /\ Workers # {}
  /\ Hrefs \in [Urls -> SUBSET Urls]
  /\ Links = [u \in Urls |-> {v \in Hrefs[u] : InScope(v, FinalHost[Seed])}]
  /\ HostOf \in [Urls -> Hosts] /\ FinalHost \in [Urls -> Hosts]
  /\ NoHost \notin Hosts
  /\ PerHost \in Nat \ {0}
  /\ MaxUrls \in Nat \cup {NoLimit} /\ NoLimit \notin Nat
  /\ SameDomain \in BOOLEAN /\ HasDeadline \in BOOLEAN
  /\ MaySkip \subseteq Urls /\ MayFail \subseteq Urls

VARIABLES fetched, discovered, skipped, errors,  \* StatsCounter
          pages,      \* the URLs of the collected pages
          scopeHost,
          at,
          permitOf,   \* permitOf[w]: the host whose permit w holds
          late,       \* the deadline has passed
          depthOf     \* history: the depth each URL was queued at

statVars == <<fetched, discovered, skipped, errors, pages>>
engineVars == <<statVars, scopeHost, at, permitOf, late, depthOf>>
crawlVars == <<vars, engineVars>>

Spots == {"deadline", "budget", "checks", "reserve", "host", "fetch"}

CrawlTypeOK ==
  /\ {fetched, discovered, skipped, errors} \subseteq Nat
  /\ pages \subseteq Urls
  /\ scopeHost \in Hosts
  /\ at \in [Workers -> Spots]
  /\ permitOf \in [Workers -> Hosts \cup {NoHost}]
  /\ late \in BOOLEAN
  /\ depthOf \in [Urls -> 0..MaxDepth + 1]

(* MaxDepth + 1 stands for "not queued yet".                               *)
EngineStart == /\ fetched = 0 /\ discovered = 0 /\ skipped = 0 /\ errors = 0
               /\ pages = {}
               /\ scopeHost = HostOf[Seed]
               /\ at = [w \in Workers |-> "deadline"]
               /\ permitOf = [w \in Workers |-> NoHost]
               /\ late = FALSE

CrawlInit == /\ Init
             /\ EngineStart
             /\ depthOf = [u \in Urls |-> MaxDepth + 1]

Limited == MaxUrls # NoLimit
-----------------------------------------------------------------------------
(* The frontier's methods inside the engine.                               *)

(* try_push answered true: a page the worker pushed counts as discovered.  *)
Pushed(p) == /\ PushNotify(p)
             /\ discovered' = discovered + IF p = Main THEN 0 ELSE 1
             /\ UNCHANGED <<fetched, skipped, errors, pages, scopeHost, at,
                            permitOf, late, depthOf>>

Queue(p) == /\ PushQueue(p)
            /\ depthOf' = [depthOf EXCEPT ![arg[p].url] = arg[p].depth]
            /\ UNCHANGED <<statVars, scopeHost, at, permitOf, late>>

(* The permits are dropped when the iteration ends, after complete.        *)
EndIteration(w) ==
  /\ CompleteCount(w) \/ CompleteNotify(w)
  /\ permitOf' = IF pc'[w] = "drain_notify" THEN permitOf
                 ELSE [permitOf EXCEPT ![w] = NoHost]
  /\ UNCHANGED <<statVars, scopeHost, at, late, depthOf>>

FrontierStep(w) ==
  \/ Pushed(w) \/ Queue(w) \/ EndIteration(w)
  \/ /\ \/ PushDuplicate(w) \/ PushFresh(w) \/ PushSeen(w) \/ PushRow(w)
        \/ PushCount(w) \/ CompleteRow(w) \/ Stop(w)
        \/ PopListen(w) \/ PopStopCheck(w) \/ PopEmpty(w) \/ PopTake(w)
        \/ PopLease(w) \/ PopPendingCheck(w) \/ PopAwait(w)
     /\ UNCHANGED engineVars
-----------------------------------------------------------------------------
(* The worker loop.                                                        *)

MoveTo(w, spot) == at' = [at EXCEPT ![w] = spot]

(* stop() and break: with an item in hand, it is completed first.          *)
GiveUpWork(w) == BeginStop(w) /\ MoveTo(w, "deadline")

CheckDeadline(w) ==
  /\ pc[w] = "loop" /\ at[w] = "deadline"
  /\ \/ late /\ GiveUpWork(w)
     \/ ~late /\ MoveTo(w, "budget") /\ UNCHANGED vars
  /\ UNCHANGED <<statVars, scopeHost, permitOf, late, depthOf>>

Spent == Limited /\ fetched >= MaxUrls

(* The fast path: a load that is not yet a reservation.                    *)
CheckBudget(w) ==
  /\ at[w] = "budget"
  /\ \/ Spent /\ GiveUpWork(w)
     \/ ~Spent /\ MoveTo(w, "checks") /\ BeginPop(w)
  /\ UNCHANGED <<statVars, scopeHost, permitOf, late, depthOf>>

Refuse(w, count) ==
  /\ at[w] = "checks" /\ pc[w] = "got"
  /\ held[w].url \in MaySkip
  /\ skipped' = skipped + count
  /\ MoveTo(w, "deadline")
  /\ UNCHANGED <<fetched, discovered, errors, pages, scopeHost, permitOf, late,
                 depthOf>>

(* Bug variants: the skip is not counted; the item is not completed.       *)
SkipUncounted(w) == Refuse(w, 0) /\ GiveUp(w)
SkipIncomplete(w) == /\ Refuse(w, 1)
                     /\ Goto(w, "loop")
                     /\ UNCHANGED <<notifyVars, storeVars, memVars, taskVars, histVars>>

(* An open circuit or robots.txt refuses the URL.                          *)
Skip(w) == Refuse(w, 1) /\ GiveUp(w)

Admitted(w) ==
  /\ at[w] = "checks" /\ pc[w] = "got"
  /\ MoveTo(w, "reserve")
  /\ UNCHANGED <<vars, statVars, scopeHost, permitOf, late, depthOf>>

TakeSlot(w) == /\ fetched' = fetched + IF Limited THEN 1 ELSE 0
               /\ MoveTo(w, "host")
               /\ UNCHANGED vars

(* Bug variant: a worker without a slot drops its item and carries on.     *)
ReserveAbandons(w) ==
  /\ at[w] = "reserve"
  /\ \/ ~Spent /\ TakeSlot(w)
     \/ /\ Spent
        /\ Goto(w, "loop") /\ MoveTo(w, "deadline")
        /\ UNCHANGED <<fetched, notifyVars, storeVars, memVars, taskVars, histVars>>
  /\ UNCHANGED <<discovered, skipped, errors, pages, scopeHost, permitOf, late,
                 depthOf>>

(* Bug variant: the fast path is trusted and the slot is just counted.     *)
ReserveUnchecked(w) ==
  /\ at[w] = "reserve"
  /\ TakeSlot(w)
  /\ UNCHANGED <<discovered, skipped, errors, pages, scopeHost, permitOf, late,
                 depthOf>>

(* The compare-exchange loop: it ends with a slot taken while one was free,*)
(* or with a count seen at the limit; either is one atomic access.         *)
Reserve(w) ==
  /\ at[w] = "reserve"
  /\ \/ ~Spent /\ TakeSlot(w)
     \/ Spent /\ GiveUpWork(w) /\ UNCHANGED fetched
  /\ UNCHANGED <<discovered, skipped, errors, pages, scopeHost, permitOf, late,
                 depthOf>>

FreePermit(h) == Cardinality({w \in Workers : permitOf[w] = h}) < PerHost

AcquireHost(w) ==
  /\ at[w] = "host"
  /\ FreePermit(HostOf[held[w].url])
  /\ permitOf' = [permitOf EXCEPT ![w] = HostOf[held[w].url]]
  /\ MoveTo(w, "fetch")
  /\ UNCHANGED <<vars, statVars, scopeHost, late, depthOf>>

ResolvedScope(w) ==
  IF held[w].depth = 0 THEN FinalHost[held[w].url] ELSE scopeHost

Follow(w, scope) ==
  /\ at[w] = "fetch"
  /\ scopeHost' = scope
  /\ todo' = [todo EXCEPT ![w] =
                {v \in Hrefs[held[w].url] :
                   held[w].depth < MaxDepth /\ InScope(v, scope)}]
  /\ Goto(w, "work") /\ MoveTo(w, "deadline")
  /\ UNCHANGED <<notifyVars, storeVars, memVars, arg, held, leaving, histVars,
                 statVars, permitOf, late, depthOf>>

(* Bug variant: the scope stays the literal host of the seed.              *)
FetchOkLiteralScope(w) == Follow(w, scopeHost)

(* The fetch succeeds: the seed's resolved host becomes the scope, then    *)
(* the links in scope are pushed, unless the page is at the depth limit.   *)
FetchOk(w) == Follow(w, ResolvedScope(w))

PushLink(w) == BeginPush(w) /\ UNCHANGED engineVars

RecordPage(w) ==
  /\ BeginComplete(w)
  /\ pages' = pages \cup {held[w].url}
  /\ UNCHANGED <<fetched, discovered, skipped, errors, scopeHost, at,
                 permitOf, late, depthOf>>

(* The fetch fails: the slot is released.                                  *)
FetchErr(w) ==
  /\ at[w] = "fetch"
  /\ held[w].url \in MayFail
  /\ fetched' = fetched - IF Limited THEN 1 ELSE 0
  /\ errors' = errors + 1
  /\ GiveUp(w) /\ MoveTo(w, "deadline")
  /\ UNCHANGED <<discovered, skipped, pages, scopeHost, permitOf, late, depthOf>>

EngineStep(w) == \/ CheckDeadline(w) \/ CheckBudget(w) \/ Skip(w) \/ Admitted(w)
                 \/ Reserve(w) \/ AcquireHost(w) \/ FetchOk(w) \/ PushLink(w)
                 \/ RecordPage(w) \/ FetchErr(w)

EngineWorker(w) == FrontierStep(w) \/ EngineStep(w)

(* The process that calls crawl: the seed, then the workers.               *)
EngineMain ==
  \/ Pushed(Main) \/ Queue(Main)
  \/ /\ \/ PushDuplicate(Main) \/ PushFresh(Main) \/ PushSeen(Main)
        \/ PushRow(Main) \/ PushCount(Main) \/ SpawnWorkers
     /\ UNCHANGED engineVars

DeadlinePasses == /\ HasDeadline /\ ~late
                  /\ late' = TRUE
                  /\ UNCHANGED <<vars, statVars, scopeHost, at, permitOf, depthOf>>

(* A new process: it starts its own counters and scope.                    *)
CrawlRestart == /\ Restart
                /\ fetched' = 0 /\ discovered' = 0 /\ skipped' = 0 /\ errors' = 0
                /\ pages' = {}
                /\ scopeHost' = HostOf[Seed]
                /\ at' = [w \in Workers |-> "deadline"]
                /\ permitOf' = [w \in Workers |-> NoHost]
                /\ late' = FALSE
                /\ depthOf' = [u \in Urls |-> IF u \in Present THEN rows[u].depth
                                              ELSE depthOf[u]]

CrawlEnd == AllExited /\ UNCHANGED crawlVars

CrawlNext == \/ EngineMain
             \/ \E w \in Workers : EngineWorker(w)
             \/ DeadlinePasses
             \/ CrawlRestart
             \/ CrawlEnd

CrawlSpec == CrawlInit /\ [][CrawlNext]_crawlVars

(* Every runnable task is polled again, and a fetch ends (its timeouts see *)
(* to that); nothing is assumed of the deadline or of restarts.            *)
CrawlFairSpec == /\ CrawlSpec
                 /\ WF_crawlVars(EngineMain)
                 /\ \A w \in Workers : WF_crawlVars(EngineWorker(w))
-----------------------------------------------------------------------------
(* The engine keeps the frontier's contract: every step of it, restarts    *)
(* included, is a step of the general client of module Frontier, or leaves *)
(* the frontier alone.  So what is proved of the frontier holds of it.     *)
EngineIsClient == Spec
-----------------------------------------------------------------------------
(* Correctness.                                                            *)

Busy == {w \in Workers : \/ at[w] \in {"host", "fetch"}
                         \/ pc[w] \in {"work"} \cup PushPcs}

(* The slot counter is exact at every step: one slot per collected page    *)
(* and one per fetch under way, and never more slots than max_urls.        *)
BudgetExact == Limited => /\ fetched = Cardinality(pages) + Cardinality(Busy)
                          /\ fetched <= MaxUrls

(* When the crawl drained, the counters add up: every discovered URL, the  *)
(* seed included, was fetched, skipped or failed, once.                    *)
StatsAddUp == (AllExited /\ ~stopped /\ restarts = 0) =>
                 discovered + 1 = Cardinality(pages) + skipped + errors

(* No more than per_host_concurrency workers are ever between acquiring a  *)
(* host's permit and the end of the iteration, whichever way it ends; and  *)
(* no worker carries a permit into the next one.                           *)
PermitsBalance ==
  /\ \A h \in Hosts : Cardinality({w \in Workers : permitOf[w] = h}) <= PerHost
  /\ \A w \in Workers : permitOf[w] # NoHost =>
       \/ at[w] = "fetch"
       \/ pc[w] \in {"work", "delete_row", "count_down", "drain_notify"} \cup PushPcs

(* Every worker leaves: by drain, by a budget or by the deadline.          *)
CrawlEnds == <>AllExited

(* A recorded depth is a number of links: the seed is at depth 0 and every *)
(* other URL one level below some page that links to it.  So no page that  *)
(* is more than max_depth links from the seed is ever queued, whichever    *)
(* worker found it first and in whichever process.                         *)
DepthIsReached ==
  \A u \in Urls : depthOf[u] <= MaxDepth =>
    \/ u = Seed /\ depthOf[u] = 0
    \/ \E v \in Urls : u \in Hrefs[v] /\ depthOf[u] = depthOf[v] + 1

(* With one worker the crawl is breadth first, also across a restart: nor  *)
(* is a page's link ever queued deeper than one below the page, so depth   *)
(* is the distance from the seed and max_depth cuts off nothing nearer.    *)
DepthIsDistance ==
  /\ DepthIsReached
  /\ \A u \in crawled : \A v \in Hrefs[u] :
       (InScope(v, scopeHost) /\ depthOf[v] <= MaxDepth) => depthOf[v] <= depthOf[u] + 1

(* "no depth>0 item can exist in the frontier until the seed (depth 0) has *)
(* been processed once" (engine lib.rs:103-104), by this crawl, whose      *)
(* scope host the seed resolves.                                           *)
SeedResolvesScope ==
  (\E i \in Outstanding : i.depth > 0) => scopeHost = FinalHost[Seed]

=============================================================================
