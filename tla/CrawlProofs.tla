---------------------------- MODULE CrawlProofs ----------------------------
(***************************************************************************)
(* The engine is a client of the frontier, so the frontier's theorems hold *)
(* of a crawl; and with them its budget, permits and statistics are exact, *)
(* for any number of workers, any pages and links, and any limits; a depth *)
(* is the length of a path, and with one worker of the shortest.           *)
(***************************************************************************)
EXTENDS Crawl, StoreProofs

(* A crawl that starts afresh, or is resumed with the scope it had: the    *)
(* scope host is then the seed's resolved host whenever links are filtered.*)
ScopeStays == MaxRestarts = 0 \/ FinalHost[Seed] = HostOf[Seed]
Steady == ScopeStays \/ ~SameDomain

Working == {"work"} \cup PushPcs

(* One step of try_push, pop, complete or stop, as the engine calls them.  *)
Method(p) ==
  \/ Pushed(p) \/ Queue(p)
  \/ /\ PushDuplicate(p) \/ PushFresh(p) \/ PushSeen(p) \/ PushRow(p) \/ PushCount(p)
     /\ UNCHANGED engineVars
  \/ p \in Workers /\ EndIteration(p)
  \/ /\ p \in Workers
     /\ \/ CompleteRow(p) \/ StopSet(p) \/ StopNotify(p)
        \/ PopListen(p) \/ PopStopCheck(p) \/ PopEmpty(p) \/ PopTake(p)
        \/ PopLease(p) \/ PopPendingCheck(p) \/ PopAwait(p)
     /\ UNCHANGED engineVars

Idle == UNCHANGED <<vars, statVars, scopeHost, at, permitOf, depthOf>>

LEMMA CrawlSteps ==
  ASSUME [CrawlNext]_crawlVars
  PROVE  \/ \E p \in Procs : Method(p)
         \/ SpawnWorkers /\ UNCHANGED engineVars
         \/ \E w \in Workers :
              \/ CheckDeadline(w) \/ CheckBudget(w) \/ Skip(w) \/ Admitted(w)
              \/ Reserve(w) \/ AcquireHost(w) \/ FetchOk(w) \/ PushLink(w)
              \/ RecordPage(w) \/ FetchErr(w)
         \/ CrawlRestart
         \/ Idle
<1>1. CASE EngineMain
  <2>1. Main \in Procs
    BY DEF Procs
  <2> QED BY <1>1, <2>1 DEF EngineMain, Method
<1>2. ASSUME NEW w \in Workers, FrontierStep(w)
      PROVE  Method(w) /\ w \in Procs
  <2>1. w \in Procs
    BY DEF Procs
  <2> QED BY <1>2, <2>1 DEF FrontierStep, Method, Stop
<1>3. CASE DeadlinePasses
  BY <1>3 DEF DeadlinePasses, Idle
<1>4. CASE CrawlEnd \/ UNCHANGED crawlVars
  BY <1>4 DEF CrawlEnd, Idle, crawlVars, engineVars
<1>5. CASE \E w \in Workers : EngineWorker(w)
  BY <1>2, <1>5 DEF EngineWorker, EngineStep
<1> QED BY <1>1, <1>3, <1>4, <1>5 DEF CrawlNext

-----------------------------------------------------------------------------
(* Items at depth 0 are the seed: links are pushed one deeper.             *)
TopIsSeed ==
  /\ \A i \in queue : i.depth = 0 => i.url = Seed
  /\ \A w \in Workers : held[w] # NoItem /\ held[w].depth = 0 => held[w].url = Seed
  /\ \A p \in Procs : arg[p] # NoItem /\ arg[p].depth = 0 => arg[p].url = Seed
  /\ \A u \in Present : rows[u].depth = 0 => u = Seed

LEMMA TopInductive ==
  ASSUME Shape, TopIsSeed, [Next]_vars
  PROVE  TopIsSeed'
<1> USE FrontierAssumption DEF TopIsSeed, Present
<1>0. /\ arg \in [Procs -> Items \cup {NoItem}]
      /\ held \in [Workers -> Items \cup {NoItem}]
      /\ todo \in [Workers -> SUBSET Urls]
      /\ rows \in [Urls -> Row]
      /\ queue \subseteq Items /\ nextSeq \in Nat
      /\ Workers \subseteq Procs
  BY Typed DEF Shape, Procs
<1>a. ASSUME UNCHANGED <<arg, rows>>, queue' \subseteq queue,
             \A w \in Workers : held'[w] = held[w] \/ held'[w] \in queue \cup {NoItem}
      PROVE  TopIsSeed'
  BY <1>0, <1>a
<1>1. ASSUME NEW p \in Procs, PushDuplicate(p) PROVE TopIsSeed'
  BY <1>0, <1>1 DEF PushDuplicate, memVars, storeVars
<1>2. ASSUME NEW p \in Procs, PushFresh(p) PROVE TopIsSeed'
  <2>1. arg[p] \in Items
    BY <1>2, ShapeArgs DEF PushFresh, PushPcs
  <2>2. arg' = [arg EXCEPT ![p] = [arg[p] EXCEPT !.seq = nextSeq]]
    BY <1>2 DEF PushFresh, Admit
  <2>3. /\ [arg[p] EXCEPT !.seq = nextSeq].depth = arg[p].depth
        /\ [arg[p] EXCEPT !.seq = nextSeq].url = arg[p].url
        /\ arg[p] # NoItem
    BY <2>1 DEF Items
  <2>4. UNCHANGED <<queue, held, rows>>
    BY <1>2 DEF PushFresh, Admit, storeVars
  <2> QED BY <1>0, <2>2, <2>3, <2>4
<1>3. ASSUME NEW p \in Procs, PushSeen(p) PROVE TopIsSeed'
  BY <1>0, <1>3, <1>a DEF PushSeen, MarkSeen, memVars, taskVars, storeVars
<1>4. ASSUME NEW p \in Procs, PushRow(p) PROVE TopIsSeed'
  <2>1. arg[p] \in Items /\ arg[p] # NoItem
    BY <1>4, ShapeArgs, ItemsFacts DEF PushRow, PushPcs
  <2>2. UNCHANGED <<queue, held, arg>>
    BY <1>4 DEF PushRow, memVars, taskVars
  <2>3. \A u \in Urls : rows'[u] = rows[u] \/ (u = arg[p].url /\ rows'[u].depth = arg[p].depth)
    BY <1>0, <1>4, <2>1 DEF PushRow, EnqueueRow, storeVars
  <2> QED BY <1>0, <2>1, <2>2, <2>3
<1>5. ASSUME NEW p \in Procs, PushCount(p) \/ PushNotify(p) PROVE TopIsSeed'
  BY <1>0, <1>5, <1>a DEF PushCount, PushNotify, memVars, taskVars, storeVars
<1>6. ASSUME NEW p \in Procs, PushQueue(p) PROVE TopIsSeed'
  <2>1. arg[p] # NoItem
    BY <1>6, ShapeArgs, ItemsFacts DEF PushQueue, PushPcs
  <2> QED BY <1>0, <1>6, <2>1 DEF PushQueue, storeVars
<1>7. ASSUME NEW w \in Workers, PopTake(w) PROVE TopIsSeed'
  BY <1>0, <1>7, <1>a DEF PopTake, storeVars
<1>8. ASSUME NEW w \in Workers, PopLease(w) PROVE TopIsSeed'
  <2>1. UNCHANGED <<queue, held, arg>>
    BY <1>8 DEF PopLease, memVars, taskVars
  <2>2. \A u \in Urls : rows'[u].depth = rows[u].depth
                        /\ (rows'[u].state # "absent" => rows[u].state # "absent")
    BY <1>0, <1>8 DEF PopLease, MarkInflight, storeVars, Row
  <2> QED BY <1>0, <2>1, <2>2
<1>9. ASSUME NEW w \in Workers, CompleteRow(w) PROVE TopIsSeed'
  <2>1. UNCHANGED <<queue, held, arg>>
    BY <1>9 DEF CompleteRow, memVars, taskVars
  <2>2. \A u \in Urls : rows'[u] = rows[u] \/ rows'[u].state = "absent"
    BY <1>0, <1>9 DEF CompleteRow, DeleteRow, storeVars, Absent
  <2> QED BY <1>0, <2>1, <2>2
<1>10. ASSUME NEW w \in Workers, CompleteCount(w) PROVE TopIsSeed'
  BY <1>0, <1>10, <1>a DEF CompleteCount, CountDown, storeVars
<1>11. ASSUME NEW w \in Workers,
              \/ PopListen(w) \/ PopStopCheck(w) \/ PopEmpty(w)
              \/ PopPendingCheck(w) \/ PopAwait(w) \/ CompleteNotify(w)
              \/ StopSet(w) \/ StopNotify(w)
       PROVE  TopIsSeed'
  BY <1>0, <1>11, <1>a DEF PopListen, PopStopCheck, PopEmpty, PopPendingCheck, PopAwait,
     CompleteNotify, StopSet, StopNotify, storeVars, memVars, taskVars
<1>12. ASSUME NEW w \in Workers,
              \/ BeginPop(w) \/ BeginStop(w) \/ GiveUp(w) \/ Discover(w) \/ BeginComplete(w)
       PROVE  TopIsSeed'
  BY <1>0, <1>12, <1>a DEF BeginPop, BeginStop, GiveUp, Discover, BeginComplete,
     MarkCrawled, storeVars, memVars, taskVars
<1>13. ASSUME NEW w \in Workers, BeginPush(w) PROVE TopIsSeed'
  <2>1. PICK u \in todo[w] : arg' = [arg EXCEPT ![w] =
               [url |-> u, depth |-> held[w].depth + 1, seq |-> 0]]
    BY <1>13 DEF BeginPush
  <2>2. held[w].depth + 1 # 0
    BY <1>0, <1>13, HandFacts, ItemsFacts DEF BeginPush, Shape
  <2>3. UNCHANGED <<queue, held, rows>>
    BY <1>13 DEF BeginPush, memVars, storeVars
  <2> QED BY <1>0, <2>1, <2>2, <2>3
<1>14. CASE SpawnWorkers
  BY <1>0, <1>14, <1>a DEF SpawnWorkers, storeVars, memVars, taskVars
<1>15. CASE Restart
  <2>1. /\ queue' = LoadedItems /\ rows' = Requeued
        /\ \A w \in Workers : held'[w] = NoItem
        /\ \A p \in Procs : arg'[p] \in {SeedItem, NoItem}
    BY <1>15 DEF Restart
  <2>2. \A u \in Urls : /\ Requeued[u].depth = rows[u].depth
                        /\ (Requeued[u].state # "absent") = (rows[u].state # "absent")
    BY <1>0, LoadedItemsFacts DEF Requeued, Row, Shape, TypeOK, StoreTypeOK
  <2>3. \A i \in LoadedItems : i.url \in Present /\ i.depth = rows[i.url].depth
    BY <2>2, LoadedItemsFacts DEF LoadedItems, Shape, TypeOK
  <2>4. SeedItem.url = Seed
    BY DEF SeedItem
  <2> QED BY <1>0, <2>1, <2>2, <2>3, <2>4
<1>16. CASE UNCHANGED vars
  BY <1>0, <1>16, <1>a DEF vars, storeVars, memVars, taskVars
<1> QED BY <1>1, <1>2, <1>3, <1>4, <1>5, <1>6, <1>7, <1>8, <1>9, <1>10, <1>11, <1>12,
           <1>13, <1>14, <1>15, <1>16, Steps

-----------------------------------------------------------------------------
(* Where a worker is in the loop fits where the frontier sees it.          *)
AtMatches ==
  /\ at \in [Workers -> Spots]
  /\ \A w \in Workers :
       /\ at[w] = "budget" => pc[w] = "loop"
       /\ at[w] \in {"reserve", "host", "fetch"} => pc[w] = "got"

(* Until the scope is the seed's resolved host, nothing was found.         *)
NothingFound == /\ \A i \in queue : i.depth = 0
                /\ \A w \in Workers : held[w] # NoItem => held[w].depth = 0
                /\ \A p \in Procs : arg[p] # NoItem => arg[p].depth = 0
                /\ \A w \in Workers : todo[w] = {}

ScopeKnown == ScopeStays => scopeHost = FinalHost[Seed] \/ NothingFound

EngineInv == TopIsSeed /\ AtMatches /\ ScopeKnown

(* A fetch follows the links that the frontier's client follows.           *)
LEMMA FollowsScope ==
  ASSUME Steady, IndInv, EngineInv, NEW w \in Workers, FetchOk(w)
  PROVE  /\ Discover(w)
         /\ ScopeStays => scopeHost' = FinalHost[Seed]
<1> USE FrontierAssumption, CrawlAssumption
<1>1. pc[w] = "got" /\ at[w] = "fetch"
  BY DEF FetchOk, Follow, EngineInv, AtMatches
<1>2. held[w] \in Items /\ held[w] # NoItem
  BY <1>1, HandFacts, ItemsFacts DEF IndInv, Shape
<1>3. held[w].depth \in 0..MaxDepth /\ held[w].url \in Urls
  BY <1>2, ItemsFacts
<1>4. ScopeStays => ResolvedScope(w) = FinalHost[Seed]
  <2>1. CASE held[w].depth = 0
    BY <1>2, <2>1 DEF ResolvedScope, EngineInv, TopIsSeed
  <2>2. CASE held[w].depth # 0
    BY <1>2, <2>2 DEF ResolvedScope, EngineInv, ScopeKnown, NothingFound
  <2> QED BY <2>1, <2>2
<1>5. \A v \in Urls : InScope(v, ResolvedScope(w)) = InScope(v, FinalHost[Seed])
  BY <1>4 DEF Steady, InScope
<1>6. {v \in Hrefs[held[w].url] : held[w].depth < MaxDepth /\ InScope(v, ResolvedScope(w))}
        = IF held[w].depth < MaxDepth THEN Links[held[w].url] ELSE {}
  <2>1. Hrefs[held[w].url] \subseteq Urls
    BY <1>3
  <2>2. Links[held[w].url] = {v \in Hrefs[held[w].url] : InScope(v, FinalHost[Seed])}
    BY <1>3
  <2> QED BY <1>5, <2>1, <2>2
<1>7. Discover(w)
  BY <1>1, <1>6 DEF FetchOk, Follow, Discover
<1> QED BY <1>4, <1>7 DEF FetchOk, Follow

(* Every step of the engine is one of the client, or none.                 *)
LEMMA ClientStep ==
  ASSUME Steady, IndInv, EngineInv, [CrawlNext]_crawlVars
  PROVE  [Next]_vars
<1>1. ASSUME NEW p \in Procs, Method(p) PROVE Next
  <2>1. CASE TryPush(p)
    BY <1>1, <2>1 DEF Next, MainTask, Worker, Procs
  <2>2. ASSUME p \in Workers, Pop(p) \/ Complete(p) \/ Stop(p) PROVE Next
    BY <1>1, <2>2 DEF Next, Worker
  <2>3. TryPush(p) \/ (p \in Workers /\ (Pop(p) \/ Complete(p) \/ Stop(p)))
    BY <1>1 DEF Method, TryPush, Pop, Complete, Stop, Pushed, Queue, EndIteration
  <2> QED BY <2>1, <2>2, <2>3
<1>2. ASSUME NEW w \in Workers, Client(w) PROVE Next
  BY <1>2 DEF Next, Worker
<1>3. ASSUME NEW w \in Workers, CheckDeadline(w) PROVE [Next]_vars
  BY <1>2, <1>3 DEF CheckDeadline, GiveUpWork, Client
<1>4. ASSUME NEW w \in Workers, CheckBudget(w) PROVE [Next]_vars
  BY <1>2, <1>4 DEF CheckBudget, GiveUpWork, Client
<1>5. ASSUME NEW w \in Workers, Skip(w) \/ FetchErr(w) PROVE [Next]_vars
  BY <1>2, <1>5 DEF Skip, FetchErr, Client
<1>6. ASSUME NEW w \in Workers, Admitted(w) \/ AcquireHost(w) PROVE [Next]_vars
  BY <1>6 DEF Admitted, AcquireHost
<1>7. ASSUME NEW w \in Workers, Reserve(w) PROVE [Next]_vars
  BY <1>2, <1>7 DEF Reserve, TakeSlot, GiveUpWork, Client
<1>8. ASSUME NEW w \in Workers, FetchOk(w) PROVE [Next]_vars
  BY <1>2, <1>8, FollowsScope DEF Client
<1>9. ASSUME NEW w \in Workers, PushLink(w) \/ RecordPage(w) PROVE [Next]_vars
  BY <1>2, <1>9 DEF PushLink, RecordPage, Client
<1>10. CASE SpawnWorkers
  BY <1>10 DEF Next, MainTask
<1>11. CASE CrawlRestart
  BY <1>11 DEF CrawlRestart, Next
<1>12. CASE Idle
  BY <1>12 DEF Idle
<1> QED BY <1>1, <1>3, <1>4, <1>5, <1>6, <1>7, <1>8, <1>9, <1>10, <1>11, <1>12, CrawlSteps

(* The methods leave the engine's own state alone, and move a worker only  *)
(* within pop, within try_push, or after complete.                         *)
Kept == /\ UNCHANGED <<fetched, skipped, errors, pages, scopeHost, at, late, todo,
                        leaving, restarts>>
        /\ \A w \in Workers : pc[w] \in {"loop", "got"} => pc'[w] = pc[w]
        /\ \A w \in Workers : (pc'[w] \in Working) = (pc[w] \in Working)

LEMMA MethodKeeps ==
  ASSUME Shape, NEW p \in Procs, Method(p)
  PROVE  Kept
<1> USE FrontierAssumption
<1> USE DEF Kept, statVars, engineVars, taskVars, histVars, Goto, AfterPush, AfterComplete,
            CompleteStart, Working, PushPcs
<1>0. pc \in [Procs -> WorkerPcs \cup MainPcs] /\ \A w \in Workers : w \in Procs
  BY Typed DEF Shape
<1>1. CASE Pushed(p) \/ Queue(p)
  BY <1>0, <1>1 DEF Pushed, Queue, PushNotify, PushQueue
<1>2. CASE /\ PushDuplicate(p) \/ PushFresh(p) \/ PushSeen(p) \/ PushRow(p) \/ PushCount(p)
           /\ UNCHANGED engineVars
  BY <1>0, <1>2 DEF PushDuplicate, PushFresh, Admit, PushSeen, PushRow, PushCount
<1>3. CASE p \in Workers /\ EndIteration(p)
  BY <1>0, <1>3 DEF EndIteration, CompleteCount, CountDown, CompleteNotify
<1>4. CASE /\ CompleteRow(p) \/ StopSet(p) \/ StopNotify(p)
           /\ UNCHANGED engineVars
  BY <1>0, <1>4 DEF CompleteRow, StopSet, StopNotify
<1>5. CASE /\ \/ PopListen(p) \/ PopStopCheck(p) \/ PopEmpty(p) \/ PopTake(p)
              \/ PopLease(p) \/ PopPendingCheck(p) \/ PopAwait(p)
           /\ UNCHANGED engineVars
  BY <1>0, <1>5 DEF PopListen, PopStopCheck, PopEmpty, PopTake, PopLease,
     PopPendingCheck, PopAwait
<1> QED BY <1>1, <1>2, <1>3, <1>4, <1>5 DEF Method

LEMMA AtInductive ==
  ASSUME Shape, AtMatches, [CrawlNext]_crawlVars
  PROVE  AtMatches'
<1> USE FrontierAssumption DEF AtMatches, Spots, Goto, CompleteStart, MoveTo, vars
<1>0. pc \in [Procs -> WorkerPcs \cup MainPcs] /\ \A w \in Workers : w \in Procs
  BY Typed DEF Shape
<1>1. ASSUME NEW p \in Procs, Method(p) PROVE AtMatches'
  BY <1>1, MethodKeeps DEF Kept
<1>2. CASE SpawnWorkers /\ UNCHANGED engineVars
  <2>1. \A w \in Workers : pc[w] = "off"
    BY <1>2 DEF SpawnWorkers, Shape, MainFirst
  <2> QED BY <1>0, <1>2, <2>1 DEF SpawnWorkers, engineVars
<1>3. ASSUME NEW w \in Workers,
             CheckDeadline(w) \/ CheckBudget(w) \/ Admitted(w) \/ Reserve(w) \/ AcquireHost(w)
      PROVE  AtMatches'
  BY <1>0, <1>3 DEF CheckDeadline, CheckBudget, Admitted, Reserve, AcquireHost, GiveUpWork,
     TakeSlot, BeginStop, BeginPop
<1>4. ASSUME NEW w \in Workers, Skip(w) \/ FetchErr(w) \/ FetchOk(w)
      PROVE  AtMatches'
  BY <1>0, <1>4 DEF Skip, Refuse, FetchErr, GiveUp, FetchOk, Follow
<1>5. ASSUME NEW w \in Workers, PushLink(w) \/ RecordPage(w)
      PROVE  AtMatches'
  BY <1>0, <1>5 DEF PushLink, BeginPush, RecordPage, BeginComplete, MarkCrawled, engineVars
<1>6. CASE CrawlRestart
  BY <1>6 DEF CrawlRestart
<1>7. CASE Idle
  BY <1>7 DEF Idle
<1> QED BY <1>1, <1>2, <1>3, <1>4, <1>5, <1>6, <1>7, CrawlSteps

LEMMA FoundByMethod ==
  ASSUME Shape, NothingFound, NEW p \in Procs, Method(p)
  PROVE  NothingFound'
<1> USE FrontierAssumption DEF NothingFound
<1>0. /\ arg \in [Procs -> Items \cup {NoItem}]
      /\ held \in [Workers -> Items \cup {NoItem}]
      /\ UNCHANGED todo
  BY Typed, MethodKeeps DEF Shape, Kept
<1>1. CASE PushFresh(p)
  <2>1. arg[p] \in Items /\ arg[p] # NoItem
    BY <1>1, ShapeArgs, ItemsFacts DEF PushFresh, PushPcs
  <2>2. arg' = [arg EXCEPT ![p] = [arg[p] EXCEPT !.seq = nextSeq]]
    BY <1>1 DEF PushFresh, Admit
  <2>3. [arg[p] EXCEPT !.seq = nextSeq].depth = arg[p].depth
    BY <2>1 DEF Items
  <2> QED BY <1>0, <1>1, <2>1, <2>2, <2>3 DEF PushFresh, Admit
<1>2. CASE PushQueue(p)
  <2>1. arg[p] # NoItem
    BY <1>2, ShapeArgs, ItemsFacts DEF PushQueue, PushPcs
  <2> QED BY <1>0, <1>2, <2>1 DEF PushQueue
<1>3. CASE PushDuplicate(p) \/ PushSeen(p) \/ PushRow(p) \/ PushCount(p) \/ PushNotify(p)
  BY <1>0, <1>3 DEF PushDuplicate, PushSeen, PushRow, PushCount, PushNotify, memVars, taskVars
<1>4. CASE p \in Workers /\ (CompleteRow(p) \/ CompleteCount(p) \/ CompleteNotify(p)
                             \/ StopSet(p) \/ StopNotify(p))
  BY <1>0, <1>4 DEF CompleteRow, CompleteCount, CountDown, CompleteNotify, StopSet,
     StopNotify, memVars, taskVars
<1>5. CASE p \in Workers /\ PopTake(p)
  BY <1>0, <1>5 DEF PopTake
<1>6. CASE p \in Workers /\ (PopListen(p) \/ PopStopCheck(p) \/ PopEmpty(p) \/ PopLease(p)
                             \/ PopPendingCheck(p) \/ PopAwait(p))
  BY <1>0, <1>6 DEF PopListen, PopStopCheck, PopEmpty, PopLease, PopPendingCheck, PopAwait,
     memVars, taskVars
<1> QED BY <1>1, <1>2, <1>3, <1>4, <1>5, <1>6 DEF Method, Pushed, Queue, EndIteration

LEMMA ScopeInductive ==
  ASSUME Steady, IndInv, EngineInv, [CrawlNext]_crawlVars
  PROVE  ScopeKnown'
<1> SUFFICES ASSUME ScopeStays PROVE (scopeHost = FinalHost[Seed] \/ NothingFound)'
  BY DEF ScopeKnown, ScopeStays
<1>0. /\ Shape
      /\ scopeHost = FinalHost[Seed] \/ NothingFound
  BY DEF IndInv, EngineInv, ScopeKnown
<1>a. ASSUME scopeHost' = scopeHost, UNCHANGED <<queue, held, arg, todo>>
      PROVE  (scopeHost = FinalHost[Seed] \/ NothingFound)'
  BY <1>0, <1>a DEF NothingFound
<1>1. ASSUME NEW p \in Procs, Method(p)
      PROVE  (scopeHost = FinalHost[Seed] \/ NothingFound)'
  BY <1>0, <1>1, MethodKeeps, FoundByMethod DEF Kept
<1>2. CASE SpawnWorkers /\ UNCHANGED engineVars
  BY <1>2, <1>a DEF SpawnWorkers, engineVars, memVars, taskVars
<1>3. ASSUME NEW w \in Workers,
             \/ CheckDeadline(w) \/ CheckBudget(w) \/ Skip(w) \/ Admitted(w)
             \/ Reserve(w) \/ AcquireHost(w) \/ RecordPage(w) \/ FetchErr(w)
      PROVE  (scopeHost = FinalHost[Seed] \/ NothingFound)'
  BY <1>3, <1>a DEF CheckDeadline, CheckBudget, Skip, Refuse, Admitted, Reserve, AcquireHost,
     RecordPage, FetchErr, GiveUpWork, TakeSlot, BeginStop, BeginPop, GiveUp,
     BeginComplete, MarkCrawled, vars, memVars, taskVars
<1>4. ASSUME NEW w \in Workers, FetchOk(w)
      PROVE  (scopeHost = FinalHost[Seed] \/ NothingFound)'
  BY <1>4, FollowsScope
<1>5. ASSUME NEW w \in Workers, PushLink(w)
      PROVE  (scopeHost = FinalHost[Seed] \/ NothingFound)'
  BY <1>0, <1>5 DEF PushLink, BeginPush, engineVars, NothingFound
<1>6. CASE CrawlRestart
  <2>1. restarts \in 0..MaxRestarts /\ restarts < MaxRestarts
    BY <1>0, <1>6 DEF CrawlRestart, Restart, Shape, TypeOK, HistTypeOK
  <2>2. FinalHost[Seed] = HostOf[Seed]
    BY <2>1 DEF ScopeStays
  <2> QED BY <1>6, <2>2 DEF CrawlRestart
<1>7. CASE Idle
  BY <1>7, <1>a DEF Idle, vars, memVars, taskVars
<1> QED BY <1>1, <1>2, <1>3, <1>4, <1>5, <1>6, <1>7, CrawlSteps

LEMMA CrawlInitInv == CrawlInit => IndInv /\ EngineInv
<1> SUFFICES ASSUME CrawlInit PROVE EngineInv
  BY InitIndInv DEF CrawlInit
<1> USE FrontierAssumption DEF CrawlInit, EngineStart, Init, StoreInit, TasksStart, SeedItem,
        Procs
<1>1. TopIsSeed
  BY DEF TopIsSeed, Present, Absent
<1>2. AtMatches
  BY DEF AtMatches, Spots
<1>3. NothingFound
  BY DEF NothingFound
<1> QED BY <1>1, <1>2, <1>3 DEF EngineInv, ScopeKnown

LEMMA CrawlNextInv ==
  ASSUME Steady, IndInv, EngineInv, [CrawlNext]_crawlVars
  PROVE  IndInv' /\ EngineInv'
<1>1. [Next]_vars
  BY ClientStep
<1> QED BY <1>1, NextIndInv, TopInductive, AtInductive, ScopeInductive DEF IndInv, EngineInv

LEMMA CrawlInvariance ==
  ASSUME Steady
  PROVE  CrawlSpec => [](IndInv /\ EngineInv)
BY CrawlInitInv, CrawlNextInv, PTL DEF CrawlSpec

(* The engine honours the frontier's contract: children are pushed before  *)
(* complete, complete is called once per popped item, and whatever ends an *)
(* iteration (a skip, a failure, a spent budget, the deadline) is a way    *)
(* the general client ends one.                                            *)
THEOREM EngineHonoursContract ==
  ASSUME Steady
  PROVE  CrawlSpec => EngineIsClient
<1>1. CrawlInit => Init
  BY DEF CrawlInit
<1>2. IndInv /\ EngineInv /\ [CrawlNext]_crawlVars => [Next]_vars
  BY ClientStep
<1> QED BY <1>1, <1>2, CrawlInvariance, PTL DEF CrawlSpec, EngineIsClient, Spec

(* So in a crawl no page is fetched twice, pending is exact, no worker     *)
(* leaves while another can still find links, and the end reaches all.     *)
THEOREM CrawlOwnsOnce ==
  ASSUME Steady
  PROVE  CrawlSpec => [](AtMostOnce /\ PendingExact /\ NoEarlyExit /\ NoLostWakeup)
<1>1. IndInv => AtMostOnce /\ PendingExact /\ NoEarlyExit /\ NoLostWakeup
  BY DEF IndInv
<1> QED BY <1>1, CrawlInvariance, PTL

(* A crawl whose writes succeed can be resumed: at every moment the file   *)
(* holds exactly its unfinished items, the links of what it went through   *)
(* can be found again, and what it completed is not fetched again.         *)
THEOREM CrawlIsResumable ==
  ASSUME Steady, Reliable
  PROVE  CrawlSpec => /\ []FileRebuildsFrontier
                      /\ []LinksRecoverable
                      /\ CompletedStaysCompleted
BY EngineHonoursContract, ResumeIsExact, LinksAreKept, CompletedIsForever DEF EngineIsClient

(* To the outside one run of the engine is a pool of work: each URL is     *)
(* handed out at most once and settled, and nobody leaves before that.     *)
THEOREM CrawlIsAPool ==
  ASSUME Steady, MaxRestarts = 0
  PROVE  CrawlSpec => ImplementsPool
BY EngineHonoursContract, FrontierIsAPool DEF EngineIsClient

(* And a crawl with every process that resumes it is one pool of work: a   *)
(* crash gives back the pages in hand, none is fetched again once its row  *)
(* was deleted, and no more than one URL is lost by it.                    *)
THEOREM CrawlOutlivesCrashes ==
  ASSUME Steady, Reliable
  PROVE  CrawlSpec => ImplementsDurablePool
BY EngineHonoursContract, FrontierOutlivesCrashes DEF EngineIsClient

(* The scope host is resolved by the seed's own fetch before any link is   *)
(* outstanding (engine lib.rs:103-104).                                    *)
THEOREM ScopeIsResolved ==
  ASSUME ScopeStays
  PROVE  CrawlSpec => []SeedResolvesScope
<1>1. IndInv /\ EngineInv => SeedResolvesScope
  <2> SUFFICES ASSUME IndInv, EngineInv, NEW i \in Outstanding, i.depth > 0
               PROVE  scopeHost = FinalHost[Seed]
    BY DEF SeedResolvesScope
  <2>1. i.depth # 0 /\ i # NoItem
    BY ShapeArgs, ItemsFacts DEF IndInv
  <2>2. ~NothingFound
    BY <2>1 DEF NothingFound, Outstanding, Holding
  <2> QED BY <2>2 DEF EngineInv, ScopeKnown
<1>2. Steady
  BY DEF Steady
<1> QED BY <1>1, <1>2, CrawlInvariance, PTL

-----------------------------------------------------------------------------
(* The engine's own steps move no item, and one worker.                    *)
Loop(w) == \/ CheckDeadline(w) \/ CheckBudget(w) \/ Skip(w) \/ Admitted(w)
           \/ Reserve(w) \/ AcquireHost(w) \/ FetchOk(w) \/ PushLink(w)
           \/ RecordPage(w) \/ FetchErr(w)

LEMMA LoopKeeps ==
  ASSUME Shape, AtMatches, NEW w \in Workers, Loop(w)
  PROVE  /\ UNCHANGED <<queue, held, visited, stopped, restarts, late>>
         /\ pc \in [Procs -> WorkerPcs \cup MainPcs]
         /\ \A q \in Procs \ {w} : pc'[q] = pc[q] /\ arg'[q] = arg[q]
         /\ pc[w] \in {"loop", "got", "work"}
         /\ pc'[w] \in {"loop", "got", "work", "listen", "stop_set", "push_insert",
                        CompleteStart}
<1> USE FrontierAssumption
<1> USE DEF Goto, vars, memVars, taskVars, histVars, engineVars
<1>0. /\ pc \in [Procs -> WorkerPcs \cup MainPcs]
      /\ arg \in [Procs -> Items \cup {NoItem}]
      /\ w \in Procs
  BY Typed DEF Shape
<1>1. CASE CheckDeadline(w) \/ CheckBudget(w)
  BY <1>0, <1>1 DEF CheckDeadline, CheckBudget, GiveUpWork, BeginStop, BeginPop, AtMatches
<1>2. CASE Skip(w) \/ FetchErr(w)
  BY <1>0, <1>2 DEF Skip, Refuse, FetchErr, GiveUp
<1>3. CASE Admitted(w) \/ Reserve(w) \/ AcquireHost(w)
  BY <1>0, <1>3 DEF Admitted, Reserve, AcquireHost, TakeSlot, GiveUpWork, BeginStop, AtMatches
<1>4. CASE FetchOk(w)
  BY <1>0, <1>4 DEF FetchOk, Follow, AtMatches
<1>5. CASE PushLink(w)
  BY <1>0, <1>5 DEF PushLink, BeginPush
<1>6. CASE RecordPage(w)
  BY <1>0, <1>6 DEF RecordPage, BeginComplete, MarkCrawled
<1> QED BY <1>1, <1>2, <1>3, <1>4, <1>5, <1>6 DEF Loop

LEMMA LoopPushes ==
  ASSUME Shape, AtMatches, NEW w \in Workers, Loop(w)
  PROVE  /\ Pushing' = Pushing /\ Holding' = Holding
         /\ \A p \in Pushing : arg'[p] = arg[p]
BY LoopKeeps DEF Pushing, Holding, CompleteStart

(* A collected page is out of play: its worker is completing it, at most.  *)
PagesSettled ==
  /\ pages \subseteq visited
  /\ \A i \in queue : i.url \notin pages
  /\ \A p \in Pushing : arg[p].url \notin pages
  /\ \A w \in Holding : held[w].url \in pages => pc[w] \in {"delete_row", "count_down"}

LEMMA SettledStay ==
  ASSUME Shape, NEW p \in Procs, Method(p), NEW w \in Workers,
         pc[w] \in {"delete_row", "count_down"}, w \in Holding'
  PROVE  pc'[w] \in {"delete_row", "count_down"} /\ held'[w] = held[w]
<1> USE FrontierAssumption DEF Goto, Holding, taskVars, AfterPush
<1>0. /\ pc \in [Procs -> WorkerPcs \cup MainPcs]
      /\ held \in [Workers -> Items \cup {NoItem}]
      /\ w \in Procs
  BY Typed DEF Shape
<1>1. CASE PushDuplicate(p) \/ PushFresh(p) \/ PushSeen(p) \/ PushRow(p)
           \/ PushCount(p) \/ PushQueue(p) \/ PushNotify(p)
  BY <1>0, <1>1 DEF PushDuplicate, PushFresh, Admit, PushSeen, PushRow, PushCount, PushQueue,
     PushNotify
<1>2. CASE CompleteRow(p) \/ CompleteCount(p) \/ CompleteNotify(p)
  BY <1>0, <1>2 DEF CompleteRow, CompleteCount, CountDown, CompleteNotify
<1>3. CASE StopSet(p) \/ StopNotify(p)
  BY <1>0, <1>3 DEF StopSet, StopNotify
<1>4. CASE \/ PopListen(p) \/ PopStopCheck(p) \/ PopEmpty(p) \/ PopTake(p)
           \/ PopLease(p) \/ PopPendingCheck(p) \/ PopAwait(p)
  BY <1>0, <1>4 DEF PopListen, PopStopCheck, PopEmpty, PopTake, PopLease, PopPendingCheck,
     PopAwait
<1> QED BY <1>1, <1>2, <1>3, <1>4 DEF Method, Pushed, Queue, EndIteration

LEMMA PagesByMethod ==
  ASSUME IndInv, PagesSettled, NEW p \in Procs, Method(p)
  PROVE  PagesSettled'
<1> USE FrontierAssumption
<1>0. /\ pc \in [Procs -> WorkerPcs \cup MainPcs]
      /\ arg \in [Procs -> Items \cup {NoItem}]
      /\ held \in [Workers -> Items \cup {NoItem}]
      /\ \A w \in Workers : w \in Procs
      /\ Shape /\ pages' = pages
  BY Typed, MethodKeeps DEF IndInv, Shape, Kept
<1>1. [Next]_vars
  <2>1. CASE TryPush(p)
    BY <2>1 DEF Next, MainTask, Worker, Procs
  <2>2. CASE p \in Workers /\ (Pop(p) \/ Complete(p) \/ Stop(p))
    BY <2>2 DEF Next, Worker
  <2> QED BY <2>1, <2>2 DEF Method, TryPush, Pop, Complete, Stop, Pushed, Queue, EndIteration
<1>2. ~Restart
  BY <1>0, MethodKeeps DEF Restart, Kept, Shape, TypeOK, HistTypeOK
<1>a. \A w \in Holding' : pc[w] \in {"delete_row", "count_down"} =>
                             pc'[w] \in {"delete_row", "count_down"}
  BY <1>0, SettledStay DEF Holding
<1>3. CASE Quiet
  <2>1. Holding' = Holding
    BY <1>3 DEF Quiet, Holding
  <2> QED BY <1>0, <1>3, <1>a, <2>1 DEF Quiet, PagesSettled
<1>4. ASSUME NEW q \in Procs, PushFresh(q) PROVE PagesSettled'
  <2>1. arg[q] \in Items /\ arg[q].url \notin visited
    BY <1>0, <1>4, ShapeArgs DEF PushFresh, PushPcs
  <2>2. /\ arg'[q].url = arg[q].url
        /\ \A r \in Procs \ {q} : arg'[r] = arg[r] /\ pc'[r] = pc[r]
        /\ visited' = visited \cup {arg[q].url}
        /\ queue' = queue /\ held' = held
    BY <1>0, <1>4, <2>1 DEF PushFresh, Admit, Goto, Items
  <2>3. \A r \in Pushing' : r = q \/ r \in Pushing
    BY <2>2 DEF Pushing
  <2>4. Holding' = Holding
    BY <2>2 DEF Holding
  <2> QED BY <1>0, <1>a, <2>1, <2>2, <2>3, <2>4 DEF PagesSettled, Pushing
<1>5. ASSUME NEW q \in Procs, PushCount(q) PROVE PagesSettled'
  <2>1. UNCHANGED <<queue, visited, held, arg>> /\ Pushing' = Pushing
    BY <1>0, <1>5 DEF PushCount, Goto, taskVars, Pushing
  <2> QED BY <1>0, <1>a, <2>1 DEF PagesSettled, Holding
<1>6. ASSUME NEW q \in Procs, PushQueue(q) PROVE PagesSettled'
  <2>1. /\ queue' = queue \cup {arg[q]} /\ UNCHANGED <<visited, held>>
        /\ \A r \in Procs \ {q} : arg'[r] = arg[r] /\ pc'[r] = pc[r]
        /\ pc'[q] = "push_notify" /\ q \in Pushing
    BY <1>0, <1>6 DEF PushQueue, Goto, Pushing
  <2>2. \A r \in Pushing' : r # q /\ r \in Pushing /\ arg'[r] = arg[r]
    BY <2>1 DEF Pushing
  <2> QED BY <1>0, <1>a, <2>1, <2>2 DEF PagesSettled, Holding
<1>7. ASSUME NEW w \in Workers, PopTake(w) PROVE PagesSettled'
  <2>1. PICK i \in queue : queue' = queue \ {i} /\ held' = [held EXCEPT ![w] = i]
    BY <1>7 DEF PopTake
  <2>2. Pushing' = Pushing /\ UNCHANGED <<visited, arg>>
    BY <1>0, <1>7 DEF PopTake, Goto, Pushing
  <2>3. \A v \in Holding' : v = w \/ (v \in Holding /\ held'[v] = held[v])
    BY <1>0, <2>1 DEF Holding
  <2> QED BY <1>0, <1>a, <2>1, <2>2, <2>3 DEF PagesSettled, Holding
<1>8. ASSUME NEW w \in Workers, CompleteCount(w) PROVE PagesSettled'
  <2>1. /\ held' = [held EXCEPT ![w] = NoItem]
        /\ UNCHANGED <<queue, visited, arg>> /\ Pushing' = Pushing
    BY <1>0, <1>8 DEF CompleteCount, CountDown, Goto, AfterComplete, Pushing
  <2>2. \A v \in Holding' : v \in Holding /\ held'[v] = held[v]
    BY <1>0, <2>1 DEF Holding
  <2> QED BY <1>0, <1>a, <2>1, <2>2 DEF PagesSettled
<1> QED BY <1>0, <1>1, <1>2, <1>3, <1>4, <1>5, <1>6, <1>7, <1>8, StepKinds

LEMMA PagesInductive ==
  ASSUME IndInv, AtMatches, PagesSettled, [CrawlNext]_crawlVars
  PROVE  PagesSettled'
<1> USE FrontierAssumption
<1>0. Shape /\ AtMostOnce /\ PlayVisited
  BY DEF IndInv
<1>1. ASSUME NEW p \in Procs, Method(p) PROVE PagesSettled'
  BY <1>1, PagesByMethod
<1>2. CASE SpawnWorkers /\ UNCHANGED engineVars
  <2>1. /\ UNCHANGED <<queue, held, visited, arg, pages>>
        /\ \A w \in Workers : pc[w] = "off"
        /\ pc[Main] = "spawn" /\ pc'[Main] = "join"
        /\ \A w \in Workers : pc'[w] = "loop"
    BY <1>0, <1>2 DEF SpawnWorkers, engineVars, statVars, memVars, taskVars, Shape, MainFirst,
       Procs
  <2> QED BY <2>1 DEF PagesSettled, Pushing, Holding, Procs
<1>3. ASSUME NEW w \in Workers, Loop(w) PROVE PagesSettled'
  <2>1. /\ UNCHANGED <<queue, held, visited>>
        /\ \A v \in Workers \ {w} : pc'[v] = pc[v]
        /\ pc[w] \in {"loop", "got", "work"}
        /\ Pushing' = Pushing /\ Holding' = Holding
        /\ \A p \in Pushing : arg'[p] = arg[p]
    BY <1>0, <1>3, LoopKeeps, LoopPushes DEF Procs
  <2>2. CASE UNCHANGED pages
    BY <2>1, <2>2 DEF PagesSettled, Holding
  <2>3. CASE RecordPage(w)
    <3>1. /\ pages' = pages \cup {held[w].url}
          /\ pc'[w] \in {"delete_row", "count_down"} /\ pc[w] = "work"
      BY <1>0, <2>3, Typed
         DEF RecordPage, BeginComplete, MarkCrawled, Goto, CompleteStart, Shape
    <3>2. w \in Holding
      BY <1>0, <3>1 DEF Shape, HandsMatch, HandPcs, Holding
    <3>3. /\ \A i \in queue : i.url # held[w].url
          /\ \A p \in Pushing : arg[p].url # held[w].url
          /\ \A v \in Holding : held[v].url = held[w].url => v = w
      BY <1>0, <3>2 DEF AtMostOnce
    <3>4. held[w].url \in visited
      BY <1>0, <3>2, InPlayFacts
    <3> QED BY <2>1, <3>1, <3>2, <3>3, <3>4 DEF PagesSettled, Holding
  <2>4. UNCHANGED pages \/ RecordPage(w)
    BY <1>3 DEF Loop, CheckDeadline, CheckBudget, Skip, Refuse, Admitted, Reserve, AcquireHost,
       FetchOk, Follow, PushLink, FetchErr, statVars, engineVars
  <2> QED BY <2>2, <2>3, <2>4
<1>4. CASE CrawlRestart
  BY <1>4 DEF CrawlRestart, PagesSettled
<1>5. CASE Idle
  BY <1>5 DEF Idle, vars, memVars, taskVars, statVars, PagesSettled, Pushing, Holding
<1> QED BY <1>1, <1>2, <1>3, <1>4, <1>5, CrawlSteps DEF Loop

-----------------------------------------------------------------------------
(* The four counters and the two sets they count are finite.               *)
CountersTyped == /\ fetched \in Nat /\ discovered \in Nat
                 /\ skipped \in Nat /\ errors \in Nat

LEMMA PagesFinite ==
  ASSUME TypeOK, PagesSettled
  PROVE  IsFiniteSet(pages) /\ pages \subseteq Urls
BY FrontierAssumption, FS_Subset DEF TypeOK, MemTypeOK, PagesSettled

LEMMA BusyFinite == IsFiniteSet(Busy) /\ Busy \subseteq Workers
BY CrawlAssumption, FS_Subset DEF Busy

(* The slots taken, and who holds one, as each step of the loop moves them.*)
LEMMA BusyByLoop ==
  ASSUME Shape, AtMatches, NEW w \in Workers, Loop(w)
  PROVE  \/ /\ Busy' = Busy /\ UNCHANGED <<fetched, pages>>
         \/ /\ ~Spent /\ fetched' = fetched + (IF Limited THEN 1 ELSE 0)
            /\ w \notin Busy /\ Busy' = Busy \cup {w} /\ UNCHANGED pages
         \/ /\ fetched' = fetched - (IF Limited THEN 1 ELSE 0)
            /\ w \in Busy /\ Busy' = Busy \ {w} /\ UNCHANGED pages
         \/ /\ pages' = pages \cup {held[w].url} /\ pc[w] = "work"
            /\ w \in Busy /\ Busy' = Busy \ {w} /\ UNCHANGED fetched
<1> USE DEF Busy, PushPcs, Goto, MoveTo, vars, statVars, engineVars, AtMatches, CompleteStart
<1>0. /\ pc \in [Procs -> WorkerPcs \cup MainPcs]
      /\ w \in Procs
      /\ at \in [Workers -> Spots]
  BY Typed DEF Shape, Procs
<1>a. \A v \in Workers \ {w} : pc'[v] = pc[v] /\ at'[v] = at[v]
  <2>1. \A v \in Workers \ {w} : pc'[v] = pc[v]
    BY LoopKeeps DEF Procs
  <2>2. \A v \in Workers \ {w} : at'[v] = at[v]
    BY <1>0 DEF Loop, CheckDeadline, CheckBudget, Skip, Refuse, Admitted, Reserve, AcquireHost,
       FetchOk, Follow, PushLink, RecordPage, FetchErr, GiveUpWork, TakeSlot
  <2> QED BY <2>1, <2>2
<1>b. ASSUME ~(at[w] \in {"host", "fetch"} \/ pc[w] \in {"work"} \cup PushPcs),
             ~(at'[w] \in {"host", "fetch"} \/ pc'[w] \in {"work"} \cup PushPcs)
      PROVE  Busy' = Busy
  BY <1>a, <1>b
<1>c. ASSUME at[w] \in {"host", "fetch"} \/ pc[w] \in {"work"} \cup PushPcs,
             at'[w] \in {"host", "fetch"} \/ pc'[w] \in {"work"} \cup PushPcs
      PROVE  Busy' = Busy
  BY <1>a, <1>c
<1>1. CASE CheckDeadline(w) \/ CheckBudget(w)
  <2>1. UNCHANGED <<fetched, pages>>
    BY <1>1 DEF CheckDeadline, CheckBudget
  <2>2. /\ at[w] \in {"deadline", "budget"} /\ at'[w] \in {"deadline", "budget", "checks"}
        /\ pc[w] = "loop" /\ pc'[w] \in {"loop", "listen", "stop_set"}
    BY <1>0, <1>1 DEF CheckDeadline, CheckBudget, GiveUpWork, BeginStop, BeginPop
  <2> QED BY <1>b, <2>1, <2>2
<1>2. CASE Skip(w) \/ Admitted(w)
  <2>1. UNCHANGED <<fetched, pages>>
    BY <1>2 DEF Skip, Refuse, Admitted
  <2>2. /\ at[w] = "checks" /\ at'[w] \in {"deadline", "reserve"}
        /\ pc[w] = "got" /\ pc'[w] \in {"got", "delete_row", "count_down"}
    BY <1>0, <1>2 DEF Skip, Refuse, Admitted, GiveUp
  <2> QED BY <1>b, <2>1, <2>2
<1>3. CASE Reserve(w) /\ Spent
  <2>1. UNCHANGED <<fetched, pages>>
    BY <1>3 DEF Reserve
  <2>2. /\ at[w] = "reserve" /\ at'[w] = "deadline"
        /\ pc[w] = "got" /\ pc'[w] = "stop_set"
    BY <1>0, <1>3 DEF Reserve, GiveUpWork, BeginStop
  <2> QED BY <1>b, <2>1, <2>2
<1>4. CASE Reserve(w) /\ ~Spent
  <2>1. /\ fetched' = fetched + (IF Limited THEN 1 ELSE 0)
        /\ UNCHANGED pages
    BY <1>4 DEF Reserve, TakeSlot
  <2>2. /\ at[w] = "reserve" /\ at'[w] = "host" /\ pc[w] = "got"
    BY <1>0, <1>4 DEF Reserve, TakeSlot
  <2>3. w \notin Busy /\ Busy' = Busy \cup {w}
    BY <1>a, <2>2
  <2> QED BY <1>4, <2>1, <2>3
<1>5. CASE AcquireHost(w) \/ FetchOk(w) \/ PushLink(w)
  <2>1. UNCHANGED <<fetched, pages>>
    BY <1>5 DEF AcquireHost, FetchOk, Follow, PushLink
  <2>2. /\ at[w] \in {"host", "fetch"} \/ pc[w] = "work"
        /\ at'[w] \in {"host", "fetch"} \/ pc'[w] \in {"work", "push_insert"}
    BY <1>0, <1>5 DEF AcquireHost, FetchOk, Follow, PushLink, BeginPush
  <2> QED BY <1>c, <2>1, <2>2
<1>6. CASE RecordPage(w)
  <2>1. /\ pages' = pages \cup {held[w].url} /\ UNCHANGED <<fetched, at>>
        /\ pc[w] = "work" /\ pc'[w] \in {"delete_row", "count_down"}
    BY <1>0, <1>6 DEF RecordPage, BeginComplete, MarkCrawled
  <2>2. at[w] \notin {"host", "fetch"}
    BY <2>1
  <2>3. w \in Busy /\ Busy' = Busy \ {w}
    BY <1>a, <2>1, <2>2
  <2> QED BY <2>1, <2>3
<1>7. CASE FetchErr(w)
  <2>1. /\ fetched' = fetched - (IF Limited THEN 1 ELSE 0) /\ UNCHANGED pages
        /\ at[w] = "fetch" /\ at'[w] = "deadline"
        /\ pc'[w] \in {"delete_row", "count_down"}
    BY <1>0, <1>7 DEF FetchErr, GiveUp
  <2>2. w \in Busy /\ Busy' = Busy \ {w}
    BY <1>a, <2>1
  <2> QED BY <2>1, <2>2
<1> QED BY <1>1, <1>2, <1>3, <1>4, <1>5, <1>6, <1>7 DEF Loop

LEMMA BudgetInductive ==
  ASSUME IndInv, AtMatches, PagesSettled, CountersTyped, BudgetExact, [CrawlNext]_crawlVars
  PROVE  BudgetExact' /\ fetched' \in Nat
<1> USE FrontierAssumption, CrawlAssumption
<1>0. /\ Shape /\ fetched \in Nat
      /\ IsFiniteSet(pages) /\ IsFiniteSet(Busy)
      /\ Cardinality(pages) \in Nat /\ Cardinality(Busy) \in Nat
  BY PagesFinite, BusyFinite, FS_CardinalityType DEF IndInv, Shape, CountersTyped
<1>a. ASSUME Busy' = Busy, UNCHANGED <<fetched, pages>>
      PROVE  BudgetExact' /\ fetched' \in Nat
  BY <1>0, <1>a DEF BudgetExact, Limited
<1>1. ASSUME NEW p \in Procs, Method(p) PROVE BudgetExact' /\ fetched' \in Nat
  <2>1. Busy' = Busy /\ UNCHANGED <<fetched, pages>>
    BY <1>0, <1>1, MethodKeeps DEF Kept, Busy, Working
  <2> QED BY <1>a, <2>1
<1>2. CASE SpawnWorkers /\ UNCHANGED engineVars
  <2>1. \A w \in Workers : pc[w] = "off" /\ pc'[w] = "loop"
    BY <1>0, <1>2 DEF SpawnWorkers, Shape, MainFirst, Procs
  <2>2. Busy' = Busy
    BY <1>2, <2>1 DEF Busy, PushPcs, engineVars
  <2> QED BY <1>2, <1>a, <2>2 DEF engineVars, statVars
<1>3. ASSUME NEW w \in Workers, Loop(w) PROVE BudgetExact' /\ fetched' \in Nat
  <2>1. CASE ~Spent /\ fetched' = fetched + (IF Limited THEN 1 ELSE 0)
             /\ w \notin Busy /\ Busy' = Busy \cup {w} /\ UNCHANGED pages
    <3>1. Cardinality(Busy') = Cardinality(Busy) + 1
      BY <1>0, <2>1, FS_AddElement
    <3> QED BY <1>0, <2>1, <3>1 DEF BudgetExact, Limited, Spent
  <2>2. CASE fetched' = fetched - (IF Limited THEN 1 ELSE 0)
             /\ w \in Busy /\ Busy' = Busy \ {w} /\ UNCHANGED pages
    <3>1. Cardinality(Busy') = Cardinality(Busy) - 1 /\ Cardinality(Busy') \in Nat
      BY <1>0, <2>2, FS_RemoveElement, FS_CardinalityType
    <3> QED BY <1>0, <2>2, <3>1 DEF BudgetExact, Limited
  <2>3. CASE pages' = pages \cup {held[w].url} /\ pc[w] = "work"
             /\ w \in Busy /\ Busy' = Busy \ {w} /\ UNCHANGED fetched
    <3>1. Cardinality(Busy') = Cardinality(Busy) - 1
      BY <1>0, <2>3, FS_RemoveElement
    <3>2. held[w].url \notin pages
      BY <1>0, <2>3 DEF PagesSettled, Holding, Shape, HandsMatch, HandPcs
    <3>3. Cardinality(pages') = Cardinality(pages) + 1
      BY <1>0, <2>3, <3>2, FS_AddElement
    <3> QED BY <1>0, <2>3, <3>1, <3>3 DEF BudgetExact, Limited
  <2> QED BY <1>0, <1>3, <1>a, <2>1, <2>2, <2>3, BusyByLoop
<1>4. CASE CrawlRestart
  <2>1. Busy' = {} /\ pages' = {} /\ fetched' = 0
    BY <1>4 DEF CrawlRestart, Restart, Busy, PushPcs, Procs
  <2> QED BY <2>1, FS_EmptySet DEF BudgetExact, Limited
<1>5. CASE Idle
  BY <1>5, <1>a DEF Idle, vars, statVars, Busy
<1> QED BY <1>1, <1>2, <1>3, <1>4, <1>5, CrawlSteps DEF Loop


LEMMA CountersInductive ==
  ASSUME IndInv, AtMatches, PagesSettled, CountersTyped, BudgetExact, [CrawlNext]_crawlVars
  PROVE  CountersTyped'
<1>1. fetched' \in Nat
  BY BudgetInductive
<1>2. ASSUME NEW p \in Procs, Method(p)
      PROVE  discovered' \in Nat /\ skipped' \in Nat /\ errors' \in Nat
  <2>1. UNCHANGED <<skipped, errors>>
    BY <1>2, MethodKeeps DEF Kept, IndInv
  <2>2. discovered' \in {discovered, discovered + 1}
    BY <1>2 DEF CountersTyped, Method, Pushed, Queue, EndIteration, statVars, engineVars
  <2> QED BY <2>1, <2>2 DEF CountersTyped
<1>3. ASSUME NEW w \in Workers, Loop(w)
      PROVE  discovered' \in Nat /\ skipped' \in Nat /\ errors' \in Nat
  <2>1. UNCHANGED discovered
    BY <1>3 DEF Loop, CheckDeadline, CheckBudget, Skip, Refuse, Admitted, Reserve, AcquireHost,
       FetchOk, Follow, PushLink, RecordPage, FetchErr, statVars, engineVars
  <2>2. skipped' \in {skipped, skipped + 1}
    BY <1>3 DEF Loop, CheckDeadline, CheckBudget, Skip, Refuse, Admitted, Reserve, AcquireHost,
       FetchOk, Follow, PushLink, RecordPage, FetchErr, statVars, engineVars
  <2>3. errors' \in {errors, errors + 1}
    BY <1>3 DEF Loop, CheckDeadline, CheckBudget, Skip, Refuse, Admitted, Reserve, AcquireHost,
       FetchOk, Follow, PushLink, RecordPage, FetchErr, statVars, engineVars
  <2> QED BY <2>1, <2>2, <2>3 DEF CountersTyped
<1>4. (SpawnWorkers /\ UNCHANGED engineVars) \/ CrawlRestart \/ Idle
        => discovered' \in Nat /\ skipped' \in Nat /\ errors' \in Nat
  BY DEF CountersTyped, CrawlRestart, Idle, statVars, engineVars
<1> QED BY <1>1, <1>2, <1>3, <1>4, CrawlSteps DEF CountersTyped, Loop

SlotInv == CountersTyped /\ PagesSettled /\ BudgetExact

LEMMA SlotInvariance ==
  ASSUME Steady
  PROVE  CrawlSpec => [](IndInv /\ EngineInv /\ SlotInv)
<1>1. CrawlInit => SlotInv
  <2> SUFFICES ASSUME CrawlInit PROVE SlotInv
    OBVIOUS
  <2> USE DEF CrawlInit, EngineStart, Init, TasksStart
  <2>1. CountersTyped /\ pages = {}
    BY DEF CountersTyped
  <2>2. PagesSettled
    BY <2>1 DEF PagesSettled
  <2>3. Busy = {}
    BY FrontierAssumption DEF Busy, PushPcs, Procs
  <2>4. BudgetExact
    BY <2>1, <2>3, FS_EmptySet, CrawlAssumption DEF BudgetExact, Limited
  <2> QED BY <2>1, <2>2, <2>4 DEF SlotInv
<1>2. IndInv /\ EngineInv /\ SlotInv /\ [CrawlNext]_crawlVars => SlotInv'
  BY PagesInductive, CountersInductive, BudgetInductive DEF SlotInv, EngineInv
<1> QED BY <1>1, <1>2, CrawlInvariance, PTL DEF CrawlSpec

(* The slot counter is exact and never passes max_urls, however the load,  *)
(* the compare-exchange and the release after a failure interleave.        *)
THEOREM BudgetIsExact ==
  ASSUME Steady
  PROVE  CrawlSpec => []BudgetExact
<1>1. SlotInv => BudgetExact
  BY DEF SlotInv
<1> QED BY <1>1, SlotInvariance, PTL

-----------------------------------------------------------------------------
(* Host permits.                                                           *)
PermitsTyped == permitOf \in [Workers -> Hosts \cup {NoHost}]

Carrying == {"work", "delete_row", "count_down", "drain_notify"} \cup PushPcs

LEMMA MethodCarries ==
  ASSUME Shape, NEW p \in Procs, Method(p)
  PROVE  \/ /\ UNCHANGED permitOf
            /\ \A w \in Workers : pc[w] \in Carrying => pc'[w] \in Carrying
         \/ /\ p \in Workers /\ permitOf' = [permitOf EXCEPT ![p] = NoHost]
            /\ \A w \in Workers \ {p} : pc'[w] = pc[w]
<1> USE FrontierAssumption
<1> USE DEF statVars, engineVars, Goto, AfterPush, CompleteStart, Carrying, PushPcs
<1>0. pc \in [Procs -> WorkerPcs \cup MainPcs] /\ \A w \in Workers : w \in Procs
  BY Typed DEF Shape
<1>1. CASE Pushed(p) \/ Queue(p)
  BY <1>0, <1>1 DEF Pushed, Queue, PushNotify, PushQueue
<1>2. CASE /\ PushDuplicate(p) \/ PushFresh(p) \/ PushSeen(p) \/ PushRow(p) \/ PushCount(p)
           /\ UNCHANGED engineVars
  BY <1>0, <1>2 DEF PushDuplicate, PushFresh, Admit, PushSeen, PushRow, PushCount
<1>3. CASE p \in Workers /\ EndIteration(p)
  BY <1>0, <1>3 DEF EndIteration, CompleteCount, CountDown, CompleteNotify
<1>4. CASE /\ CompleteRow(p) \/ StopSet(p) \/ StopNotify(p)
           /\ UNCHANGED engineVars
  BY <1>0, <1>4 DEF CompleteRow, StopSet, StopNotify
<1>5. CASE /\ \/ PopListen(p) \/ PopStopCheck(p) \/ PopEmpty(p) \/ PopTake(p)
              \/ PopLease(p) \/ PopPendingCheck(p) \/ PopAwait(p)
           /\ UNCHANGED engineVars
  BY <1>0, <1>5 DEF PopListen, PopStopCheck, PopEmpty, PopTake, PopLease,
     PopPendingCheck, PopAwait
<1> QED BY <1>1, <1>2, <1>3, <1>4, <1>5 DEF Method

PermitHolders(h) == {w \in Workers : permitOf[w] = h}

LEMMA FewerPermits ==
  ASSUME \A h \in Hosts : Cardinality(PermitHolders(h)) <= PerHost,
         \A h \in Hosts : PermitHolders(h)' \subseteq PermitHolders(h)
  PROVE  \A h \in Hosts : Cardinality(PermitHolders(h)') <= PerHost
<1> SUFFICES ASSUME NEW h \in Hosts PROVE Cardinality(PermitHolders(h)') <= PerHost
  OBVIOUS
<1>1. IsFiniteSet(PermitHolders(h))
  BY CrawlAssumption, FS_Subset DEF PermitHolders
<1>2. /\ Cardinality(PermitHolders(h)') <= Cardinality(PermitHolders(h))
      /\ Cardinality(PermitHolders(h)) \in Nat
      /\ Cardinality(PermitHolders(h)') \in Nat
  BY <1>1, FS_Subset, FS_CardinalityType
<1> QED BY <1>2, CrawlAssumption


LEMMA PermitsInductive ==
  ASSUME IndInv, AtMatches, PermitsTyped, PermitsBalance, [CrawlNext]_crawlVars
  PROVE  PermitsTyped' /\ PermitsBalance'
<1> USE FrontierAssumption, CrawlAssumption DEF PermitsTyped
<1> DEFINE Within == \A w \in Workers : permitOf[w] # NoHost =>
                       at[w] = "fetch" \/ pc[w] \in Carrying
           Few == \A h \in Hosts : Cardinality(PermitHolders(h)) <= PerHost
<1>0. /\ Shape /\ Within /\ Few
      /\ pc \in [Procs -> WorkerPcs \cup MainPcs]
      /\ \A w \in Workers : w \in Procs
  BY Typed DEF IndInv, Shape, PermitsBalance, PermitHolders, Carrying
<1>q. ASSUME PermitsTyped', Within', Few'
      PROVE  PermitsTyped' /\ PermitsBalance'
  BY <1>q DEF PermitsBalance, PermitHolders, Carrying
<1>a. ASSUME UNCHANGED permitOf, Within'
      PROVE  PermitsTyped' /\ PermitsBalance'
  BY <1>0, <1>a, <1>q DEF PermitHolders
<1>1. ASSUME NEW p \in Procs, Method(p) PROVE PermitsTyped' /\ PermitsBalance'
  <2>1. UNCHANGED at
    BY <1>0, <1>1, MethodKeeps DEF Kept
  <2>2. CASE /\ UNCHANGED permitOf
             /\ \A w \in Workers : pc[w] \in Carrying => pc'[w] \in Carrying
    BY <1>0, <1>a, <2>1, <2>2
  <2>3. CASE /\ p \in Workers /\ permitOf' = [permitOf EXCEPT ![p] = NoHost]
             /\ \A w \in Workers \ {p} : pc'[w] = pc[w]
    <3>1. \A h \in Hosts : PermitHolders(h)' \subseteq PermitHolders(h)
      BY <2>3 DEF PermitHolders
    <3>2. Few'
      BY <1>0, <3>1, FewerPermits
    <3> QED BY <1>0, <1>q, <2>1, <2>3, <3>2
  <2> QED BY <1>0, <1>1, <2>2, <2>3, MethodCarries
<1>2. CASE SpawnWorkers /\ UNCHANGED engineVars
  <2>1. \A w \in Workers : pc[w] = "off" /\ at[w] # "fetch"
    BY <1>0, <1>2 DEF SpawnWorkers, Shape, MainFirst, AtMatches
  <2> QED BY <1>0, <1>2, <1>a, <2>1 DEF engineVars, Carrying, PushPcs
<1>3. ASSUME NEW w \in Workers, Loop(w) PROVE PermitsTyped' /\ PermitsBalance'
  <2>1. \A v \in Workers \ {w} : pc'[v] = pc[v] /\ at'[v] = at[v]
    <3>1. \A v \in Workers \ {w} : pc'[v] = pc[v]
      BY <1>0, <1>3, LoopKeeps
    <3>2. \A v \in Workers \ {w} : at'[v] = at[v]
      BY <1>3 DEF Loop, CheckDeadline, CheckBudget, Skip, Refuse, Admitted, Reserve, AcquireHost,
         FetchOk, Follow, PushLink, RecordPage, FetchErr, GiveUpWork, TakeSlot, MoveTo, engineVars,
         AtMatches
    <3> QED BY <3>1, <3>2
  <2>2. CASE CheckDeadline(w) \/ CheckBudget(w) \/ Skip(w) \/ Admitted(w) \/ Reserve(w)
    <3>1. /\ UNCHANGED permitOf
          /\ at[w] # "fetch" /\ pc[w] \in {"loop", "got"}
      BY <1>0, <2>2 DEF CheckDeadline, CheckBudget, Skip, Refuse, Admitted, Reserve, AtMatches
    <3>2. permitOf[w] = NoHost
      BY <1>0, <3>1 DEF Carrying, PushPcs
    <3> QED BY <1>0, <1>a, <2>1, <3>1, <3>2
  <2>3. CASE FetchOk(w) \/ FetchErr(w) \/ PushLink(w) \/ RecordPage(w)
    <3>1. UNCHANGED permitOf
      BY <2>3 DEF FetchOk, Follow, FetchErr, PushLink, RecordPage, engineVars
    <3>2. pc'[w] \in Carrying
      BY <1>0, <2>3 DEF FetchOk, Follow, FetchErr, GiveUp, PushLink, BeginPush, RecordPage,
         BeginComplete, MarkCrawled, CompleteStart, Goto, Carrying, PushPcs
    <3> QED BY <1>0, <1>a, <2>1, <3>1, <3>2
  <2>4. CASE AcquireHost(w)
    <3>0. at[w] = "host" /\ pc[w] = "got"
      BY <2>4 DEF AcquireHost, AtMatches
    <3>1. held[w].url \in Urls
      BY <1>0, <3>0, HandFacts, ItemsFacts DEF Shape
    <3>2. /\ HostOf[held[w].url] \in Hosts
          /\ permitOf' = [permitOf EXCEPT ![w] = HostOf[held[w].url]]
          /\ at'[w] = "fetch"
      BY <2>4, <3>1 DEF AcquireHost, MoveTo, AtMatches
    <3>3. Within'
      BY <1>0, <2>1, <3>2
    <3>4. permitOf[w] = NoHost
      BY <1>0, <3>0 DEF Carrying, PushPcs
    <3>5. ASSUME NEW h \in Hosts PROVE Cardinality(PermitHolders(h)') <= PerHost
      <4>1. IsFiniteSet(PermitHolders(h)) /\ w \notin PermitHolders(h)
        BY <3>4, FS_Subset DEF PermitHolders
      <4>2. Cardinality(PermitHolders(h)) \in Nat
        BY <4>1, FS_CardinalityType
      <4>3. CASE h = HostOf[held[w].url]
        <5>1. PermitHolders(h)' = PermitHolders(h) \cup {w}
          BY <3>2, <4>3 DEF PermitHolders
        <5>2. Cardinality(PermitHolders(h)') = Cardinality(PermitHolders(h)) + 1
          BY <4>1, <5>1, FS_AddElement
        <5>3. Cardinality(PermitHolders(h)) < PerHost
          BY <2>4, <4>3 DEF AcquireHost, FreePermit, PermitHolders
        <5> QED BY <4>2, <5>2, <5>3
      <4>4. CASE h # HostOf[held[w].url]
        <5>1. PermitHolders(h)' = PermitHolders(h)
          BY <3>2, <3>4, <4>4 DEF PermitHolders
        <5> QED BY <1>0, <5>1
      <4> QED BY <4>3, <4>4
    <3> QED BY <1>q, <3>2, <3>3, <3>5
  <2> QED BY <1>3, <2>2, <2>3, <2>4 DEF Loop
<1>4. CASE CrawlRestart
  <2>1. permitOf' = [v \in Workers |-> NoHost]
    BY <1>4 DEF CrawlRestart
  <2>2. \A h \in Hosts : PermitHolders(h)' = {}
    BY <2>1 DEF PermitHolders
  <2>3. Few'
    <3>1. Cardinality({}) = 0
      BY FS_EmptySet
    <3>2. 0 <= PerHost
      OBVIOUS
    <3> HIDE CrawlAssumption, FrontierAssumption
    <3> QED BY <2>2, <3>1, <3>2
  <2> QED BY <1>q, <2>1, <2>3
<1>5. CASE Idle
  BY <1>0, <1>5, <1>a DEF Idle, vars
<1> QED BY <1>1, <1>2, <1>3, <1>4, <1>5, CrawlSteps DEF Loop

(* Never more than per_host_concurrency workers hold a host's permit, and  *)
(* whatever ends an iteration gives it back: a skip, a failed fetch, a     *)
(* spent budget or the deadline.                                           *)
THEOREM PermitsAreBalanced ==
  ASSUME Steady
  PROVE  CrawlSpec => []PermitsBalance
<1>1. CrawlInit => PermitsTyped /\ PermitsBalance
  <2> SUFFICES ASSUME CrawlInit PROVE PermitsTyped /\ PermitsBalance
    OBVIOUS
  <2>1. permitOf = [w \in Workers |-> NoHost]
    BY DEF CrawlInit, EngineStart
  <2>2. \A h \in Hosts : {w \in Workers : permitOf[w] = h} = {}
    BY <2>1, CrawlAssumption
  <2>3. \A h \in Hosts : Cardinality({w \in Workers : permitOf[w] = h}) <= PerHost
    <3> SUFFICES ASSUME NEW h \in Hosts
                 PROVE  Cardinality({w \in Workers : permitOf[w] = h}) <= PerHost
      OBVIOUS
    <3>1. {w \in Workers : permitOf[w] = h} = {}
      BY <2>2
    <3>2. Cardinality({w \in Workers : permitOf[w] = h}) = 0
      BY <3>1, FS_EmptySet
    <3> QED BY <3>2, CrawlAssumption
  <2> QED BY <2>1, <2>3 DEF PermitsTyped, PermitsBalance
<1>2. IndInv /\ EngineInv /\ PermitsTyped /\ PermitsBalance /\ [CrawlNext]_crawlVars
        => PermitsTyped' /\ PermitsBalance'
  BY PermitsInductive DEF EngineInv
<1> QED BY <1>1, <1>2, CrawlInvariance, PTL DEF CrawlSpec


-----------------------------------------------------------------------------
(* The statistics.  A ledger of one process that is not stopped: what was  *)
(* found (the links counted, the ones about to be counted, the seed) is    *)
(* what was settled (pages, skips, errors) plus what is queued or in hand. *)
Announcing == {p \in Procs : pc[p] = "push_notify"}
Unsettled == {w \in Holding : pc[w] \notin {"delete_row", "count_down"}}
SeedIn == IF pc[Main] \in {"spawn", "join"} THEN 1 ELSE 0

Found == discovered + Cardinality(Announcing) + SeedIn
Settled == Cardinality(pages) + skipped + errors

Ledger == (~stopped /\ restarts = 0) =>
             Found = Settled + Cardinality(queue) + Cardinality(Unsettled)

(* The seed of a first process is never taken for a duplicate.             *)
SeedIsNew == (restarts = 0 /\ pc[Main] = "push_insert") => visited = {}

LEMMA LedgerFinite ==
  ASSUME IndInv, PagesSettled
  PROVE  /\ IsFiniteSet(Announcing) /\ IsFiniteSet(queue)
         /\ IsFiniteSet(Unsettled) /\ IsFiniteSet(pages)
         /\ Cardinality(Announcing) \in Nat /\ Cardinality(queue) \in Nat
         /\ Cardinality(Unsettled) \in Nat /\ Cardinality(pages) \in Nat
<1>1. IsFiniteSet(Procs)
  BY CrawlAssumption, FS_AddElement DEF Procs
<1>2. IsFiniteSet(Announcing)
  BY <1>1, FS_Subset DEF Announcing
<1>3. IsFiniteSet(queue)
  BY FS_Subset DEF IndInv, OutstandingFinite, Outstanding
<1>4. IsFiniteSet(Unsettled)
  BY CrawlAssumption, FS_Subset DEF Unsettled, Holding
<1>5. IsFiniteSet(pages)
  BY PagesFinite DEF IndInv, Shape
<1> QED BY <1>2, <1>3, <1>4, <1>5, FS_CardinalityType

LEMMA MethodNotFirst ==
  ASSUME Shape, NEW p \in Procs, Method(p)
  PROVE  pc'[Main] # "push_insert"
<1> USE FrontierAssumption
<1>0. pc \in [Procs -> WorkerPcs \cup MainPcs] /\ Main \in Procs
  BY Typed DEF Shape, Procs
<1>1. CASE p = Main
  BY <1>0, <1>1 DEF Method, Pushed, Queue, PushDuplicate, PushFresh, Admit, PushSeen, PushRow,
     PushCount, PushQueue, PushNotify, Goto, AfterPush
<1>2. CASE p # Main
  <2>1. pc[p] # "off"
    BY <1>2 DEF Method, Pushed, Queue, PushDuplicate, PushFresh, PushSeen, PushRow,
       PushCount, PushQueue, PushNotify, EndIteration, CompleteRow, CompleteCount, CountDown,
       CompleteNotify, StopSet, StopNotify, PopListen, PopStopCheck, PopEmpty, PopTake,
       PopLease, PopPendingCheck, PopAwait
  <2>2. pc[Main] = "join"
    BY <1>2, <2>1 DEF Shape, MainFirst, Procs
  <2>3. pc'[Main] = pc[Main]
    BY <1>0, <1>2 DEF Method, Pushed, Queue, PushDuplicate, PushFresh, Admit, PushSeen, PushRow,
       PushCount, PushQueue, PushNotify, EndIteration, CompleteRow, CompleteCount, CountDown,
       CompleteNotify, StopSet, StopNotify, PopListen, PopStopCheck, PopEmpty, PopTake,
       PopLease, PopPendingCheck, PopAwait, Goto
  <2> QED BY <2>2, <2>3
<1> QED BY <1>1, <1>2

LEMMA SeedNewInductive ==
  ASSUME Shape, AtMatches, SeedIsNew, [CrawlNext]_crawlVars
  PROVE  SeedIsNew'
<1> USE FrontierAssumption DEF SeedIsNew
<1>1. ASSUME NEW p \in Procs, Method(p) PROVE SeedIsNew'
  BY <1>1, MethodNotFirst
<1>2. CASE SpawnWorkers /\ UNCHANGED engineVars
  BY <1>2 DEF SpawnWorkers, Procs
<1>3. ASSUME NEW w \in Workers, Loop(w) PROVE SeedIsNew'
  <2>1. pc[Main] = "join"
    BY <1>3, LoopKeeps DEF Shape, MainFirst
  <2>2. pc'[Main] = pc[Main]
    BY <1>3, LoopKeeps DEF Procs
  <2> QED BY <2>1, <2>2
<1>4. CASE CrawlRestart
  <2>1. restarts \in Nat /\ restarts' = restarts + 1
    BY <1>4 DEF CrawlRestart, Restart, Shape, TypeOK, HistTypeOK
  <2> QED BY <2>1
<1>5. CASE Idle
  BY <1>5 DEF Idle, vars, memVars, histVars
<1> QED BY <1>1, <1>2, <1>3, <1>4, <1>5, CrawlSteps DEF Loop


(* What a method does to the ledger: nothing, or one of three transfers.   *)
LEMMA LedgerByMethod ==
  ASSUME IndInv, SeedIsNew, CountersTyped, restarts = 0, ~stopped, ~stopped', NEW p \in Procs, Method(p)
  PROVE  \/ /\ UNCHANGED <<queue, discovered>>
            /\ Unsettled' = Unsettled /\ Announcing' = Announcing /\ SeedIn' = SeedIn
         \/ /\ UNCHANGED queue /\ Unsettled' = Unsettled
            /\ p \in Announcing /\ Announcing' = Announcing \ {p}
            /\ \/ discovered' = discovered + 1 /\ SeedIn' = SeedIn
               \/ discovered' = discovered /\ SeedIn' = SeedIn + 1
         \/ /\ UNCHANGED discovered /\ Unsettled' = Unsettled /\ SeedIn' = SeedIn
            /\ p \notin Announcing /\ Announcing' = Announcing \cup {p}
            /\ arg[p] \notin queue /\ queue' = queue \cup {arg[p]}
         \/ /\ UNCHANGED discovered /\ Announcing' = Announcing /\ SeedIn' = SeedIn
            /\ p \notin Unsettled /\ Unsettled' = Unsettled \cup {p}
            /\ \E i \in queue : queue' = queue \ {i}
<1> USE FrontierAssumption
<1> USE DEF Announcing, Unsettled, Holding, SeedIn, Goto, AfterPush, engineVars, statVars,
            taskVars, memVars
<1>0. /\ Shape /\ AtMostOnce
      /\ pc \in [Procs -> WorkerPcs \cup MainPcs]
      /\ held \in [Workers -> Items \cup {NoItem}]
      /\ Main \in Procs /\ \A w \in Workers : w \in Procs
  BY Typed DEF IndInv, Shape, Procs
<1> DEFINE Same == /\ UNCHANGED <<queue, discovered>>
                   /\ Unsettled' = Unsettled /\ Announcing' = Announcing /\ SeedIn' = SeedIn
<1>1. CASE PushDuplicate(p) /\ UNCHANGED engineVars
  <2>1. p # Main
    BY <1>1 DEF PushDuplicate, SeedIsNew
  <2>2. Same
    BY <1>0, <1>1, <2>1 DEF PushDuplicate
  <2> QED BY <2>2
<1>2. CASE /\ PushFresh(p) \/ PushSeen(p) \/ PushRow(p) \/ PushCount(p)
           /\ UNCHANGED engineVars
  <2>1. Same
    BY <1>0, <1>2 DEF PushFresh, Admit, PushSeen, PushRow, PushCount
  <2> QED BY <2>1
<1>3. CASE Pushed(p)
  <2>1. UNCHANGED queue /\ Unsettled' = Unsettled
    BY <1>0, <1>3 DEF Pushed, PushNotify
  <2>2. p \in Announcing /\ Announcing' = Announcing \ {p}
    BY <1>0, <1>3 DEF Pushed, PushNotify
  <2>3. discovered' = discovered + (IF p = Main THEN 0 ELSE 1)
    BY <1>3 DEF Pushed
  <2>4. CASE p = Main
    <3>1. SeedIn = 0 /\ SeedIn' = 1
      BY <1>0, <1>3, <2>4 DEF Pushed, PushNotify
    <3>2. discovered' = discovered
      BY <2>3, <2>4 DEF CountersTyped
    <3> QED BY <2>1, <2>2, <3>1, <3>2
  <2>5. CASE p # Main
    <3>1. SeedIn' = SeedIn
      BY <1>0, <1>3, <2>5 DEF Pushed, PushNotify
    <3> QED BY <2>1, <2>2, <2>3, <2>5, <3>1
  <2> QED BY <2>4, <2>5
<1>4. CASE Queue(p)
  <2>1. UNCHANGED discovered /\ Unsettled' = Unsettled /\ SeedIn' = SeedIn
    BY <1>0, <1>4 DEF Queue, PushQueue
  <2>2. p \notin Announcing /\ Announcing' = Announcing \cup {p}
    BY <1>0, <1>4 DEF Queue, PushQueue
  <2>3. p \in Pushing /\ queue' = queue \cup {arg[p]}
    BY <1>4 DEF Queue, PushQueue, Pushing
  <2>4. arg[p] \notin queue
    BY <1>0, <2>3 DEF AtMostOnce
  <2> QED BY <2>1, <2>2, <2>3, <2>4
<1>5. CASE p \in Workers /\ EndIteration(p)
  <2>1. pc[p] = "drain_notify" => held[p] = NoItem
    BY <1>0, <1>5 DEF Shape, HandsMatch, EmptyPcs
  <2>2. Same
    BY <1>0, <1>5, <2>1 DEF EndIteration, CompleteCount, CountDown, CompleteNotify, AfterComplete
  <2> QED BY <2>2
<1>6. CASE p \in Workers /\ UNCHANGED engineVars /\ (StopSet(p) \/ StopNotify(p))
  <2>1. pc[p] = "stop_notify" => stopped
    BY <1>0, <1>6 DEF Shape, LeaversStop
  <2>2. FALSE
    BY <1>6, <2>1 DEF StopSet, StopNotify
  <2> QED BY <2>2
<1>7. CASE p \in Workers /\ UNCHANGED engineVars /\ PopTake(p)
  <2>1. PICK i \in queue : queue' = queue \ {i} /\ held' = [held EXCEPT ![p] = i]
    BY <1>7 DEF PopTake
  <2>2. i # NoItem /\ held[p] = NoItem
    BY <1>0, <1>7, <2>1, ShapeArgs, ItemsFacts DEF PopTake, Shape, HandsMatch, EmptyPcs
  <2>3. p \notin Unsettled /\ Unsettled' = Unsettled \cup {p}
    BY <1>0, <1>7, <2>1, <2>2 DEF PopTake
  <2>4. UNCHANGED discovered /\ Announcing' = Announcing /\ SeedIn' = SeedIn
    BY <1>0, <1>7 DEF PopTake
  <2> QED BY <2>1, <2>3, <2>4
<1>8. CASE /\ p \in Workers /\ UNCHANGED engineVars
           /\ \/ CompleteRow(p) \/ PopListen(p) \/ PopStopCheck(p) \/ PopEmpty(p)
              \/ PopLease(p) \/ PopPendingCheck(p) \/ PopAwait(p)
  <2>1. Same
    BY <1>0, <1>8 DEF CompleteRow, PopListen, PopStopCheck, PopEmpty, PopLease,
       PopPendingCheck, PopAwait
  <2> QED BY <2>1
<1> QED BY <1>1, <1>2, <1>3, <1>4, <1>5, <1>6, <1>7, <1>8 DEF Method


LEMMA StoppedOnlyGrows ==
  ASSUME Shape, NEW p \in Procs, Method(p), stopped
  PROVE  stopped'
BY DEF Method, Pushed, Queue, PushDuplicate, PushFresh, Admit, PushSeen, PushRow, PushCount,
   PushQueue, PushNotify, EndIteration, CompleteRow, CompleteCount, CountDown, CompleteNotify,
   StopSet, StopNotify, PopListen, PopStopCheck, PopEmpty, PopTake, PopLease, PopPendingCheck,
   PopAwait, memVars

LEMMA LedgerByLoop ==
  ASSUME IndInv, AtMatches, NEW w \in Workers, Loop(w)
  PROVE  /\ UNCHANGED <<queue, discovered>>
         /\ Announcing' = Announcing /\ SeedIn' = SeedIn
         /\ \/ Unsettled' = Unsettled /\ UNCHANGED <<pages, skipped, errors>>
            \/ /\ w \in Unsettled /\ Unsettled' = Unsettled \ {w}
               /\ \/ skipped' = skipped + 1 /\ UNCHANGED <<pages, errors>>
                  \/ errors' = errors + 1 /\ UNCHANGED <<pages, skipped>>
                  \/ /\ pages' = pages \cup {held[w].url} /\ w \in Holding /\ pc[w] = "work"
                     /\ UNCHANGED <<skipped, errors>>
<1> USE FrontierAssumption
<1>0. /\ Shape /\ w \in Procs /\ Main \in Procs \ {w} /\ held' = held
      /\ pc \in [Procs -> WorkerPcs \cup MainPcs]
      /\ \A q \in Procs \ {w} : pc'[q] = pc[q]
      /\ pc[w] \in {"loop", "got", "work"}
      /\ pc'[w] \in {"loop", "got", "work", "listen", "stop_set", "push_insert", CompleteStart}
  BY LoopKeeps DEF IndInv, Procs
<1>1. CompleteStart \in {"delete_row", "count_down"}
  BY DEF CompleteStart
<1>2. UNCHANGED <<queue, discovered>>
  <2>1. UNCHANGED discovered
    BY DEF Loop, CheckDeadline, CheckBudget, Skip, Refuse, Admitted, Reserve, AcquireHost,
       FetchOk, Follow, PushLink, RecordPage, FetchErr, statVars, engineVars
  <2> QED BY <1>0, <2>1, LoopKeeps
<1>3. Announcing' = Announcing /\ SeedIn' = SeedIn
  BY <1>0, <1>1 DEF Announcing, SeedIn
<1>4. CASE pc'[w] # CompleteStart
  <2>1. pc'[w] \notin {"delete_row", "count_down"}
    BY <1>0, <1>1, <1>4
  <2>2. Unsettled' = Unsettled
    BY <1>0, <2>1 DEF Unsettled, Holding, Procs
  <2>3. UNCHANGED <<pages, skipped, errors>>
    BY <1>0, <1>4 DEF Loop, CheckDeadline, CheckBudget, Skip, Refuse, GiveUp, Admitted, Reserve,
       AcquireHost, FetchOk, Follow, PushLink, RecordPage, BeginComplete, MarkCrawled, FetchErr,
       statVars, engineVars, Goto
  <2> QED BY <1>2, <1>3, <2>2, <2>3
<1>5. CASE pc'[w] = CompleteStart
  <2>1. Skip(w) \/ FetchErr(w) \/ RecordPage(w)
    BY <1>0, <1>1, <1>5 DEF Loop, CheckDeadline, CheckBudget, Admitted, Reserve, AcquireHost,
       FetchOk, Follow, PushLink, BeginPush, GiveUpWork, BeginStop, BeginPop, TakeSlot,
       vars, Goto, AtMatches
  <2>2. pc[w] \in {"got", "work"}
    BY <2>1 DEF Skip, Refuse, FetchErr, GiveUp, RecordPage, BeginComplete
  <2>3. w \in Holding
    BY <1>0, <2>2 DEF Shape, HandsMatch, HandPcs, Holding
  <2>4. w \in Unsettled /\ Unsettled' = Unsettled \ {w}
    BY <1>0, <1>1, <1>5, <2>2, <2>3 DEF Unsettled, Holding, Procs
  <2>5. \/ skipped' = skipped + 1 /\ UNCHANGED <<pages, errors>>
        \/ errors' = errors + 1 /\ UNCHANGED <<pages, skipped>>
        \/ /\ pages' = pages \cup {held[w].url} /\ pc[w] = "work"
           /\ UNCHANGED <<skipped, errors>>
    BY <2>1 DEF Skip, Refuse, FetchErr, RecordPage, BeginComplete
  <2> QED BY <1>2, <1>3, <2>3, <2>4, <2>5
<1> QED BY <1>4, <1>5

LEMMA LedgerInductive ==
  ASSUME IndInv, AtMatches, PagesSettled, CountersTyped, SeedIsNew, Ledger, [CrawlNext]_crawlVars
  PROVE  Ledger'
<1> USE FrontierAssumption
<1> SUFFICES ASSUME ~stopped', restarts' = 0
             PROVE  Found' = Settled' + Cardinality(queue') + Cardinality(Unsettled')
  BY DEF Ledger
<1> DEFINE Goal == Found' = Settled' + Cardinality(queue') + Cardinality(Unsettled')
<1>0. /\ Shape /\ restarts \in Nat
      /\ discovered \in Nat /\ skipped \in Nat /\ errors \in Nat /\ SeedIn \in Nat
      /\ IsFiniteSet(Announcing) /\ IsFiniteSet(queue)
      /\ IsFiniteSet(Unsettled) /\ IsFiniteSet(pages)
      /\ Cardinality(Announcing) \in Nat /\ Cardinality(queue) \in Nat
      /\ Cardinality(Unsettled) \in Nat /\ Cardinality(pages) \in Nat
  BY LedgerFinite DEF CountersTyped, SeedIn, IndInv, Shape, TypeOK, HistTypeOK
<1>b. ASSUME ~stopped, restarts = 0
      PROVE  discovered + Cardinality(Announcing) + SeedIn
               = Cardinality(pages) + skipped + errors + Cardinality(queue) + Cardinality(Unsettled)
  BY <1>b DEF Ledger, Found, Settled
<1>q. ASSUME discovered' + Cardinality(Announcing)' + SeedIn'
               = Cardinality(pages)' + skipped' + errors' + Cardinality(queue)'
                   + Cardinality(Unsettled)'
      PROVE  Goal
  BY <1>q DEF Found, Settled
<1>1. ASSUME NEW p \in Procs, Method(p) PROVE Goal
  <2>1. UNCHANGED <<pages, skipped, errors, restarts>>
    BY <1>0, <1>1, MethodKeeps DEF Kept
  <2>2. ~stopped
    BY <1>1, <2>1, StoppedOnlyGrows, <1>0
  <2>3. CASE /\ UNCHANGED <<queue, discovered>>
             /\ Unsettled' = Unsettled /\ Announcing' = Announcing /\ SeedIn' = SeedIn
    BY <1>b, <1>q, <2>1, <2>2, <2>3
  <2>4. CASE /\ UNCHANGED queue /\ Unsettled' = Unsettled
             /\ p \in Announcing /\ Announcing' = Announcing \ {p}
             /\ \/ discovered' = discovered + 1 /\ SeedIn' = SeedIn
                \/ discovered' = discovered /\ SeedIn' = SeedIn + 1
    <3>1. Cardinality(Announcing') = Cardinality(Announcing) - 1
      BY <1>0, <2>4, FS_RemoveElement
    <3>2. CASE discovered' = discovered + 1 /\ SeedIn' = SeedIn
      BY <1>0, <1>b, <1>q, <2>1, <2>2, <2>4, <3>1, <3>2
    <3>3. CASE discovered' = discovered /\ SeedIn' = SeedIn + 1
      BY <1>0, <1>b, <1>q, <2>1, <2>2, <2>4, <3>1, <3>3
    <3> QED BY <2>4, <3>2, <3>3
  <2>5. CASE /\ UNCHANGED discovered /\ Unsettled' = Unsettled /\ SeedIn' = SeedIn
             /\ p \notin Announcing /\ Announcing' = Announcing \cup {p}
             /\ arg[p] \notin queue /\ queue' = queue \cup {arg[p]}
    <3>1. Cardinality(Announcing') = Cardinality(Announcing) + 1
      BY <1>0, <2>5, FS_AddElement
    <3>2. Cardinality(queue') = Cardinality(queue) + 1
      BY <1>0, <2>5, FS_AddElement
    <3>3. /\ Cardinality(Announcing)' = Cardinality(Announcing) + 1
          /\ Cardinality(queue)' = Cardinality(queue) + 1
          /\ Cardinality(Unsettled)' = Cardinality(Unsettled)
          /\ Cardinality(pages)' = Cardinality(pages)
          /\ UNCHANGED <<discovered, skipped, errors>> /\ SeedIn' = SeedIn
      BY <2>1, <2>5, <3>1, <3>2
    <3> QED BY <1>0, <1>b, <1>q, <2>1, <2>2, <3>3
  <2>6. CASE /\ UNCHANGED discovered /\ Announcing' = Announcing /\ SeedIn' = SeedIn
             /\ p \notin Unsettled /\ Unsettled' = Unsettled \cup {p}
             /\ \E i \in queue : queue' = queue \ {i}
    <3>1. Cardinality(Unsettled') = Cardinality(Unsettled) + 1
      BY <1>0, <2>6, FS_AddElement
    <3>2. Cardinality(queue') = Cardinality(queue) - 1
      BY <1>0, <2>6, FS_RemoveElement
    <3> QED BY <1>0, <1>b, <1>q, <2>1, <2>2, <2>6, <3>1, <3>2
  <2> QED BY <1>1, <2>1, <2>2, <2>3, <2>4, <2>5, <2>6, LedgerByMethod
<1>2. CASE SpawnWorkers /\ UNCHANGED engineVars
  <2>1. /\ UNCHANGED <<queue, held, stopped, restarts, discovered, pages, skipped, errors>>
        /\ pc[Main] = "spawn" /\ pc'[Main] = "join"
        /\ \A w \in Workers : pc[w] = "off" /\ pc'[w] = "loop"
    BY <1>0, <1>2 DEF SpawnWorkers, engineVars, statVars, memVars, taskVars, histVars, Shape,
       MainFirst, Procs
  <2>2. Announcing' = Announcing /\ Unsettled' = Unsettled /\ SeedIn' = SeedIn
    BY <2>1 DEF Announcing, Unsettled, Holding, SeedIn, Procs
  <2> QED BY <1>b, <1>q, <2>1, <2>2
<1>3. ASSUME NEW w \in Workers, Loop(w) PROVE Goal
  <2>1. /\ UNCHANGED <<queue, discovered, stopped, restarts>>
        /\ Announcing' = Announcing /\ SeedIn' = SeedIn
    <3>1. UNCHANGED <<stopped, restarts>>
      BY <1>0, <1>3, LoopKeeps
    <3>2. /\ UNCHANGED <<queue, discovered>>
          /\ Announcing' = Announcing /\ SeedIn' = SeedIn
      BY <1>3, LedgerByLoop
    <3> QED BY <3>1, <3>2
  <2>2. CASE Unsettled' = Unsettled /\ UNCHANGED <<pages, skipped, errors>>
    BY <1>b, <1>q, <2>1, <2>2
  <2>3. CASE /\ w \in Unsettled /\ Unsettled' = Unsettled \ {w}
             /\ \/ skipped' = skipped + 1 /\ UNCHANGED <<pages, errors>>
                \/ errors' = errors + 1 /\ UNCHANGED <<pages, skipped>>
                \/ /\ pages' = pages \cup {held[w].url} /\ w \in Holding /\ pc[w] = "work"
                   /\ UNCHANGED <<skipped, errors>>
    <3>1. Cardinality(Unsettled') = Cardinality(Unsettled) - 1
      BY <1>0, <2>3, FS_RemoveElement
    <3>2. CASE skipped' = skipped + 1 /\ UNCHANGED <<pages, errors>>
      BY <1>0, <1>b, <1>q, <2>1, <2>3, <3>1, <3>2
    <3>4. CASE errors' = errors + 1 /\ UNCHANGED <<pages, skipped>>
      BY <1>0, <1>b, <1>q, <2>1, <2>3, <3>1, <3>4
    <3>3. CASE /\ pages' = pages \cup {held[w].url} /\ w \in Holding /\ pc[w] = "work"
               /\ UNCHANGED <<skipped, errors>>
      <4>1. held[w].url \notin pages
        BY <3>3 DEF PagesSettled
      <4>2. Cardinality(pages') = Cardinality(pages) + 1
        BY <1>0, <3>3, <4>1, FS_AddElement
      <4> QED BY <1>0, <1>b, <1>q, <2>1, <3>1, <3>3, <4>2
    <3> QED BY <2>3, <3>2, <3>3, <3>4
  <2> QED BY <1>3, <2>2, <2>3, LedgerByLoop
<1>4. CASE CrawlRestart
  BY <1>0, <1>4 DEF CrawlRestart, Restart
<1>5. CASE Idle
  <2>1. /\ UNCHANGED <<queue, stopped, restarts, discovered, pages, skipped, errors>>
        /\ Announcing' = Announcing /\ Unsettled' = Unsettled /\ SeedIn' = SeedIn
    BY <1>5 DEF Idle, vars, memVars, taskVars, histVars, statVars, Announcing, Unsettled,
       Holding, SeedIn
  <2> QED BY <1>b, <1>q, <2>1
<1> QED BY <1>1, <1>2, <1>3, <1>4, <1>5, CrawlSteps DEF Loop


(* When a crawl drained, its counters add up: every discovered URL, the    *)
(* seed included, was fetched, skipped or failed, exactly once.            *)
THEOREM StatisticsAddUp ==
  ASSUME Steady
  PROVE  CrawlSpec => []StatsAddUp
<1> DEFINE LedgerInv == SeedIsNew /\ Ledger
           Base == IndInv /\ EngineInv /\ SlotInv
<1>1. CrawlInit => LedgerInv
  <2> SUFFICES ASSUME CrawlInit PROVE LedgerInv
    OBVIOUS
  <2> USE DEF CrawlInit, EngineStart, Init, TasksStart
  <2>1. SeedIsNew
    BY DEF SeedIsNew
  <2>2. pc[Main] = "push_insert" /\ \A w \in Workers : pc[w] = "off"
    BY FrontierAssumption DEF Procs
  <2>3. Announcing = {} /\ queue = {} /\ Unsettled = {} /\ pages = {} /\ SeedIn = 0
    BY <2>2 DEF Announcing, Unsettled, Holding, SeedIn, Procs
  <2>4. Ledger
    BY <2>3, FS_EmptySet DEF Ledger, Found, Settled
  <2> QED BY <2>1, <2>4
<1>2. Base /\ LedgerInv /\ [CrawlNext]_crawlVars => LedgerInv'
  BY LedgerInductive, SeedNewInductive DEF EngineInv, SlotInv, IndInv
<1>3. Base /\ LedgerInv => StatsAddUp
  <2> SUFFICES ASSUME Base, LedgerInv, AllExited, ~stopped, restarts = 0
               PROVE  discovered + 1 = Cardinality(pages) + skipped + errors
    BY DEF StatsAddUp
  <2>1. \E w \in Workers : pc[w] = "exit"
    BY CrawlAssumption DEF AllExited
  <2>2. Outstanding = {}
    BY <2>1 DEF IndInv, NoEarlyExit
  <2>3. queue = {} /\ Unsettled = {}
    BY <2>2 DEF Outstanding, Unsettled
  <2>4. pc[Main] = "join"
    BY <2>1 DEF IndInv, Shape, MainFirst
  <2>5. Announcing = {} /\ SeedIn = 1
    BY <2>4 DEF Announcing, SeedIn, AllExited, Procs
  <2>6. discovered \in Nat /\ skipped \in Nat /\ errors \in Nat /\ Cardinality(pages) \in Nat
    BY LedgerFinite DEF SlotInv, CountersTyped
  <2> QED BY <2>3, <2>5, <2>6, FS_EmptySet DEF Ledger, Found, Settled
<1>4. CrawlSpec => []Base
  BY SlotInvariance
<1> HIDE DEF LedgerInv, Base
<1> QED BY <1>1, <1>2, <1>3, <1>4, PTL DEF CrawlSpec

-----------------------------------------------------------------------------
(* Depths, with any number of workers.  A crawl that is resumed must find  *)
(* its rows.                                                               *)
Resumable == (Durable /\ MaxRestarts > 0) => ~WriteErrors

(* The program counters at which an item to push is in hand.               *)
Entering == PushPcs \ {"push_notify"}

Recorded == {u \in Urls : depthOf[u] <= MaxDepth}

(* Whatever is queued or in hand stands at its recorded depth; what a      *)
(* worker pushes is one level below its page, and has no depth yet.        *)
ItemsStand == /\ \A i \in queue : depthOf[i.url] = i.depth
              /\ \A w \in Holding : depthOf[held[w].url] = held[w].depth
ArgsDeeper ==
  /\ \A w \in Workers : pc[w] \in Entering => arg[w].depth = held[w].depth + 1
  /\ pc[Main] \in Entering => arg[Main].depth = 0
ArgsNew == \A p \in Pushing : arg[p].url \notin Recorded

ReachInv == /\ depthOf \in [Urls -> 0..MaxDepth + 1]
            /\ ItemsStand /\ ArgsDeeper /\ ArgsNew
            /\ Recorded \subseteq visited
            /\ DepthIsReached

(* What a restart needs of the file, and gets of writes that succeed.      *)
Rebuilt == Reliable => FileExact /\ SeenSoon

ReachAssumptions == IndInv /\ EngineInv /\ LinksTracked /\ Rebuilt /\ ReachInv

(* A step that records nothing and starts no push.                         *)
Ahead == /\ UNCHANGED <<visited, crawled, depthOf>> /\ seenTable \subseteq seenTable'
         /\ \A p \in Procs : pc'[p] \in Entering => pc[p] \in Entering /\ arg'[p] = arg[p]
         /\ \A w \in Workers : pc'[w] \in Entering => held'[w] = held[w]
         /\ Pushing' \subseteq Pushing

LEMMA AheadMethods ==
  ASSUME Shape, NEW p \in Procs, Method(p)
  PROVE  \/ Queue(p)
         \/ PushFresh(p) /\ UNCHANGED depthOf
         \/ Ahead /\ (UNCHANGED <<queue, held>> \/ (p \in Workers /\ (PopTake(p) \/ CompleteCount(p))))
<1> USE FrontierAssumption
<1> USE DEF Ahead, statVars, engineVars, memVars, taskVars, histVars, storeVars, Goto, AfterPush,
            AfterComplete, CompleteStart, Entering, PushPcs, Pushing
<1>0. /\ pc \in [Procs -> WorkerPcs \cup MainPcs]
      /\ arg \in [Procs -> Items \cup {NoItem}]
      /\ held \in [Workers -> Items \cup {NoItem}]
      /\ \A w \in Workers : w \in Procs
  BY Typed DEF Shape
<1>1. CASE Pushed(p)
  BY <1>0, <1>1 DEF Pushed, PushNotify
<1>2. CASE PushDuplicate(p) /\ UNCHANGED engineVars
  BY <1>0, <1>2 DEF PushDuplicate
<1>3. CASE PushFresh(p) /\ UNCHANGED engineVars
  BY <1>3
<1>4. CASE (PushSeen(p) \/ PushRow(p) \/ PushCount(p)) /\ UNCHANGED engineVars
  BY <1>0, <1>4 DEF PushSeen, MarkSeen, PushRow, EnqueueRow, PushCount
<1>5. CASE p \in Workers /\ EndIteration(p)
  BY <1>0, <1>5 DEF EndIteration, CompleteCount, CountDown, CompleteNotify
<1>6. CASE /\ p \in Workers /\ (CompleteRow(p) \/ StopSet(p) \/ StopNotify(p))
           /\ UNCHANGED engineVars
  BY <1>0, <1>6 DEF CompleteRow, DeleteRow, StopSet, StopNotify
<1>7. CASE p \in Workers /\ PopTake(p) /\ UNCHANGED engineVars
  BY <1>0, <1>7 DEF PopTake
<1>8. CASE /\ p \in Workers
           /\ \/ PopListen(p) \/ PopStopCheck(p) \/ PopEmpty(p)
              \/ PopLease(p) \/ PopPendingCheck(p) \/ PopAwait(p)
           /\ UNCHANGED engineVars
  BY <1>0, <1>8 DEF PopListen, PopStopCheck, PopEmpty, PopLease, MarkInflight,
     PopPendingCheck, PopAwait
<1> QED BY <1>1, <1>2, <1>3, <1>4, <1>5, <1>6, <1>7, <1>8 DEF Method

LEMMA DepthSteps ==
  ASSUME Shape, AtMatches, [CrawlNext]_crawlVars
  PROVE  \/ \E p \in Procs : Queue(p)
         \/ \E p \in Procs : PushFresh(p) /\ UNCHANGED depthOf
         \/ \E w \in Workers : (BeginPush(w) \/ BeginComplete(w)) /\ UNCHANGED depthOf
         \/ Ahead /\ (UNCHANGED <<queue, held>> \/ \E w \in Workers : PopTake(w) \/ CompleteCount(w))
         \/ CrawlRestart
<1> USE FrontierAssumption
<1>0. pc \in [Procs -> WorkerPcs \cup MainPcs] /\ \A w \in Workers : w \in Procs
  BY Typed DEF Shape
<1>1. ASSUME NEW w \in Workers, PushLink(w) \/ RecordPage(w)
      PROVE  (BeginPush(w) \/ BeginComplete(w)) /\ UNCHANGED depthOf
  BY <1>1 DEF PushLink, RecordPage, engineVars
<1>2. ASSUME NEW w \in Workers,
             \/ CheckDeadline(w) \/ CheckBudget(w) \/ Skip(w) \/ Admitted(w)
             \/ Reserve(w) \/ AcquireHost(w) \/ FetchOk(w) \/ FetchErr(w)
      PROVE  Ahead /\ UNCHANGED <<queue, held>>
  <2>1. UNCHANGED <<queue, held, visited, crawled, depthOf, seenTable, arg>>
    BY <1>2 DEF CheckDeadline, CheckBudget, Skip, Refuse, Admitted, Reserve, AcquireHost,
       FetchOk, Follow, FetchErr, GiveUpWork, TakeSlot, BeginStop, BeginPop, GiveUp,
       vars, storeVars, memVars, taskVars, histVars
  <2>2. \A p \in Procs : pc'[p] = pc[p] \/ pc'[p] \notin PushPcs
    BY <1>0, <1>2 DEF CheckDeadline, CheckBudget, Skip, Admitted, Reserve, AcquireHost,
       FetchOk, Follow, FetchErr, GiveUpWork, TakeSlot, BeginStop, BeginPop, GiveUp,
       vars, taskVars, Goto, CompleteStart, PushPcs
  <2> QED BY <2>1, <2>2 DEF Ahead, Entering, Pushing, PushPcs
<1>3. CASE SpawnWorkers /\ UNCHANGED engineVars
  BY <1>0, <1>3 DEF SpawnWorkers, Ahead, Entering, Pushing, PushPcs, engineVars,
     storeVars, memVars, taskVars, histVars
<1>4. CASE Idle
  BY <1>4 DEF Idle, vars, Ahead, Pushing, storeVars, memVars, taskVars, histVars
<1> QED BY <1>1, <1>2, <1>3, <1>4, AheadMethods, CrawlSteps

(* What the main task pushes is the seed; what a worker pushes is a link   *)
(* of a page recorded one level above.                                     *)
LEMMA ArgIsReached ==
  ASSUME ReachAssumptions, NEW p \in Procs, pc[p] \in Entering
  PROVE  \/ p = Main /\ arg[p].url = Seed /\ arg[p].depth = 0
         \/ /\ p \in Workers /\ held[p].url \in Recorded
            /\ arg[p].url \in Hrefs[held[p].url]
            /\ arg[p].depth = depthOf[held[p].url] + 1
<1> USE DEF ReachAssumptions, ReachInv
<1>1. CASE p = Main
  <2>1. arg[p].depth = 0 /\ arg[p] # NoItem
    BY <1>1, ShapeArgs, ItemsFacts DEF IndInv, ArgsDeeper, Entering, Procs
  <2> QED BY <1>1, <2>1 DEF EngineInv, TopIsSeed
<1>2. CASE p # Main
  <2>1. p \in Workers
    BY <1>2 DEF Procs
  <2>2. p \in Holding /\ held[p] \in Items
    BY <2>1, HandFacts DEF IndInv, Shape, HandsMatch, HandPcs, Entering, Holding
  <2>3. held[p].url \in Recorded /\ held[p].depth = depthOf[held[p].url]
    BY <2>2, ItemsFacts DEF ItemsStand, Recorded
  <2>4. arg[p].url \in Links[held[p].url]
    BY <2>1 DEF LinksTracked, OnlyLinks, Entering
  <2>5. Links[held[p].url] \subseteq Hrefs[held[p].url]
    BY <2>3, CrawlAssumption DEF Recorded
  <2> QED BY <2>1, <2>3, <2>4, <2>5 DEF ArgsDeeper
<1> QED BY <1>1, <1>2

(* Depths are recorded for what processes were about to queue: by Queue    *)
(* for one of them, by a restart for all whose rows it finds.              *)
Records(P) == /\ depthOf' \in [Urls -> 0..MaxDepth + 1]
              /\ \A p \in P : depthOf'[arg[p].url] = arg[p].depth
              /\ \A u \in Urls \ {arg[p].url : p \in P} : depthOf'[u] = depthOf[u]

LEMMA RecordStands ==
  ASSUME ReachAssumptions, NEW P \in SUBSET Pushing, Records(P)
  PROVE  /\ Recorded' = Recorded \cup {arg[p].url : p \in P}
         /\ \A u \in Recorded : depthOf'[u] = depthOf[u]
         /\ \A i \in queue \cup {held[w] : w \in Holding} \cup {arg[p] : p \in P} :
              depthOf'[i.url] = i.depth
         /\ DepthIsReached'
<1> USE FrontierAssumption
<1> USE DEF ReachAssumptions, ReachInv
<1>0. /\ \A p \in P : /\ p \in Procs /\ pc[p] \in Entering /\ arg[p] \in Items
                      /\ arg[p].url \in Urls /\ arg[p].depth \in 0..MaxDepth
      /\ \A i \in queue \cup {held[w] : w \in Holding} : i \in Items /\ i.url \in Urls
  BY ShapeArgs, ItemsFacts DEF IndInv, Pushing, Entering, PushPcs
<1>1. Recorded' = Recorded \cup {arg[p].url : p \in P}
  BY <1>0 DEF Records, Recorded
<1>2. \A u \in Recorded : u \in Urls /\ depthOf'[u] = depthOf[u]
  BY DEF Records, Recorded, ArgsNew
<1>3. ASSUME NEW i \in queue \cup {held[w] : w \in Holding}
      PROVE  depthOf'[i.url] = i.depth
  <2>1. \A p \in P : i.url # arg[p].url
    BY DEF IndInv, AtMostOnce
  <2> QED BY <1>0, <2>1 DEF Records, ItemsStand
<1>4. ASSUME NEW u \in Urls, depthOf'[u] <= MaxDepth
      PROVE  \/ u = Seed /\ depthOf'[u] = 0
             \/ \E v \in Urls : u \in Hrefs[v] /\ depthOf'[u] = depthOf'[v] + 1
  <2>1. CASE u \in Recorded
    <3>1. CASE u = Seed /\ depthOf[u] = 0
      BY <1>2, <2>1, <3>1
    <3>2. ASSUME NEW v \in Urls, u \in Hrefs[v], depthOf[u] = depthOf[v] + 1
          PROVE  depthOf'[u] = depthOf'[v] + 1
      <4>1. v \in Recorded
        BY <2>1, <3>2 DEF Recorded
      <4> QED BY <1>2, <2>1, <3>2, <4>1
    <3> QED BY <2>1, <3>1, <3>2 DEF DepthIsReached, Recorded
  <2>2. ASSUME NEW p \in P, u = arg[p].url
        PROVE  \/ u = Seed /\ depthOf'[u] = 0
               \/ \E v \in Urls : u \in Hrefs[v] /\ depthOf'[u] = depthOf'[v] + 1
    BY <1>0, <1>2, <2>2, ArgIsReached DEF Records
  <2>3. u \in Recorded'
    BY <1>4 DEF Recorded
  <2> QED BY <1>1, <2>1, <2>2, <2>3
<1>5. DepthIsReached'
  BY <1>4 DEF DepthIsReached
<1> QED BY <1>1, <1>2, <1>3, <1>5 DEF Records

LEMMA QueueRecords ==
  ASSUME ReachAssumptions, NEW p \in Procs, Queue(p)
  PROVE  /\ p \in Pushing /\ Records({p})
         /\ Recorded' = Recorded \cup {arg[p].url}
<1>1. p \in Pushing
  BY DEF Queue, PushQueue, Pushing
<1>2. arg[p].url \in Urls /\ arg[p].depth \in 0..MaxDepth + 1
  BY <1>1, ShapeArgs, ItemsFacts, FrontierAssumption DEF ReachAssumptions, IndInv, Pushing, PushPcs
<1>3. Records({p})
  BY <1>2 DEF Queue, Records, ReachAssumptions, ReachInv
<1>4. Recorded' = Recorded \cup {arg[q].url : q \in {p}}
  BY <1>1, <1>3, RecordStands
<1> QED BY <1>1, <1>3, <1>4

(* A process that dies records, besides, the items whose rows are written  *)
(* but which it had yet to queue; its successor queues those items too.    *)
LEMMA RestartRecords ==
  ASSUME ReachAssumptions, Resumable, CrawlRestart
  PROVE  /\ Reliable /\ FileExact /\ SeenSoon
         /\ RowWritten \subseteq Pushing /\ Records(RowWritten)
<1> USE FrontierAssumption
<1> USE DEF ReachAssumptions, ReachInv
<1>1. Reliable
  <2>1. Durable /\ restarts < MaxRestarts /\ restarts \in Nat
    BY DEF CrawlRestart, Restart, IndInv, Shape, TypeOK, HistTypeOK
  <2> QED BY <2>1 DEF Resumable, Reliable
<1>2. FileExact /\ SeenSoon
  BY <1>1 DEF Rebuilt
<1>3. /\ StoreTypeOK /\ Present \subseteq Urls
      /\ depthOf' = [u \in Urls |-> IF u \in Present THEN rows[u].depth ELSE depthOf[u]]
  BY DEF CrawlRestart, IndInv, Shape, TypeOK, Present
<1>4. ASSUME NEW i \in LoadedItems PROVE i.url \in Present /\ i.depth = rows[i.url].depth
  <2>1. PICK u \in Urls : i = [url |-> u, depth |-> Requeued[u].depth, seq |-> Requeued[u].seq]
    BY DEF LoadedItems
  <2>2. i.url = u /\ i.depth = rows[u].depth
    BY <1>3, <2>1 DEF Requeued, StoreTypeOK, Row
  <2> QED BY <1>3, <2>2, LoadedItemsFacts
<1>5. ASSUME NEW u \in Present
      PROVE  rows[u].depth \in 0..MaxDepth /\ \E i \in LoadedItems : i.url = u
  <2>1. u \in Urls /\ rows[u] \in Row /\ rows[u].state \in {"queued", "inflight"}
    BY <1>3 DEF Present, StoreTypeOK, Row
  <2>2. [url |-> u, depth |-> Requeued[u].depth, seq |-> Requeued[u].seq] \in LoadedItems
    BY <2>1 DEF LoadedItems, Requeued, Row
  <2> QED BY <2>1, <2>2 DEF Row
<1>6. depthOf' \in [Urls -> 0..MaxDepth + 1]
  BY <1>3, <1>5
<1>7. ASSUME NEW p \in RowWritten PROVE depthOf'[arg[p].url] = arg[p].depth
  <2>1. arg[p] \in LoadedItems
    BY <1>2 DEF FileExact, WithRow
  <2> QED BY <1>3, <1>4, <2>1
<1>8. ASSUME NEW u \in Urls \ {arg[p].url : p \in RowWritten} PROVE depthOf'[u] = depthOf[u]
  <2>1. CASE u \notin Present
    BY <1>3, <2>1
  <2>2. CASE u \in Present
    <3>1. PICK i \in LoadedItems : i.url = u
      BY <1>5, <2>2
    <3>2. i \in queue \cup {held[w] : w \in Holding}
      BY <1>2, <1>8, <3>1 DEF FileExact, WithRow
    <3> QED BY <1>3, <1>4, <2>2, <3>1, <3>2 DEF ItemsStand
  <2> QED BY <2>1, <2>2
<1>9. RowWritten \subseteq Pushing
  BY DEF RowWritten, Pushing
<1> QED BY <1>1, <1>2, <1>6, <1>7, <1>8, <1>9 DEF Records

LEMMA RestartFinds ==
  ASSUME ReachAssumptions, Resumable, CrawlRestart
  PROVE  /\ Recorded \subseteq seenTable
         /\ \A p \in RowWritten : arg[p].url \in seenTable
<1>0. FileExact /\ SeenSoon
  BY RestartRecords
<1>1. Recorded \subseteq seenTable
  <2>1. \A v \in visited \ seenTable : \E p \in Pushing : arg[p].url = v
    BY <1>0 DEF SeenSoon, Marking, Pushing
  <2> QED BY <2>1 DEF ReachAssumptions, ReachInv, ArgsNew
<1>2. ASSUME NEW p \in RowWritten PROVE arg[p].url \in seenTable
  <2>1. arg[p] \in LoadedItems
    BY <1>0 DEF FileExact, WithRow
  <2>2. arg[p].url \in Present
    BY <2>1, LoadedItemsFacts DEF ReachAssumptions, IndInv, Shape, TypeOK
  <2> QED BY <2>2 DEF ReachAssumptions, IndInv, Shape, RowsSeen
<1> QED BY <1>1, <1>2

LEMMA StandInductive ==
  ASSUME ReachAssumptions, Resumable, [CrawlNext]_crawlVars
  PROVE  /\ depthOf' \in [Urls -> 0..MaxDepth + 1]
         /\ ItemsStand' /\ DepthIsReached'
<1> USE FrontierAssumption
<1>0. /\ Shape /\ AtMatches
      /\ depthOf \in [Urls -> 0..MaxDepth + 1] /\ ItemsStand /\ DepthIsReached
      /\ held \in [Workers -> Items \cup {NoItem}]
  BY Typed DEF ReachAssumptions, IndInv, EngineInv, ReachInv, Shape
<1>a. ASSUME depthOf' = depthOf PROVE depthOf' \in [Urls -> 0..MaxDepth + 1] /\ DepthIsReached'
  BY <1>0, <1>a DEF DepthIsReached
<1>b. ASSUME UNCHANGED <<depthOf, queue, held>> PROVE ItemsStand'
  BY <1>0, <1>b DEF ItemsStand, Holding
<1>1. ASSUME NEW p \in Procs, Queue(p)
      PROVE  depthOf' \in [Urls -> 0..MaxDepth + 1] /\ ItemsStand' /\ DepthIsReached'
  <2>1. p \in Pushing /\ Records({p})
    BY <1>1, QueueRecords
  <2>2. queue' = queue \cup {arg[p]} /\ held' = held
    BY <1>1 DEF Queue, PushQueue
  <2>3. DepthIsReached' /\ \A i \in queue' \cup {held[w] : w \in Holding} : depthOf'[i.url] = i.depth
    BY <2>1, <2>2, RecordStands
  <2>4. Holding' = Holding
    BY <2>2 DEF Holding
  <2> QED BY <2>1, <2>2, <2>3, <2>4 DEF ItemsStand, Records
<1>2. ASSUME NEW p \in Procs, PushFresh(p) PROVE UNCHANGED <<queue, held>>
  BY <1>2 DEF PushFresh, Admit
<1>3. ASSUME NEW w \in Workers, BeginPush(w) \/ BeginComplete(w)
      PROVE  UNCHANGED <<queue, held>>
  BY <1>3 DEF BeginPush, BeginComplete, MarkCrawled, memVars, taskVars
<1>4. ASSUME NEW w \in Workers, PopTake(w), depthOf' = depthOf PROVE ItemsStand'
  <2>1. PICK i \in queue : queue' = queue \ {i} /\ held' = [held EXCEPT ![w] = i]
    BY <1>4 DEF PopTake
  <2>2. \A v \in Holding' : held'[v] = i \/ (v \in Holding /\ held'[v] = held[v])
    BY <1>0, <2>1 DEF Holding
  <2> QED BY <1>0, <1>4, <2>1, <2>2 DEF ItemsStand
<1>5. ASSUME NEW w \in Workers, CompleteCount(w), depthOf' = depthOf PROVE ItemsStand'
  <2>1. queue' = queue /\ \A v \in Holding' : v \in Holding /\ held'[v] = held[v]
    BY <1>0, <1>5 DEF CompleteCount, CountDown, Holding
  <2> QED BY <1>0, <1>5, <2>1 DEF ItemsStand
<1>6. CASE CrawlRestart
  <2>1. FileExact /\ RowWritten \in SUBSET Pushing /\ Records(RowWritten)
    BY <1>6, RestartRecords
  <2>2. DepthIsReached' /\ \A i \in LoadedItems : depthOf'[i.url] = i.depth
    BY <2>1, RecordStands DEF FileExact, WithRow
  <2>3. queue' = LoadedItems /\ Holding' = {}
    BY <1>6 DEF CrawlRestart, Restart, Holding
  <2> QED BY <2>1, <2>2, <2>3 DEF ItemsStand, Records
<1> QED BY <1>0, <1>a, <1>b, <1>1, <1>2, <1>3, <1>4, <1>5, <1>6, DepthSteps DEF Ahead

LEMMA ArgsInductive ==
  ASSUME ReachAssumptions, [CrawlNext]_crawlVars
  PROVE  ArgsDeeper'
<1> USE FrontierAssumption
<1>0. /\ Shape /\ AtMatches /\ ArgsDeeper
      /\ pc \in [Procs -> WorkerPcs \cup MainPcs]
      /\ arg \in [Procs -> Items \cup {NoItem}]
      /\ Main \in Procs /\ \A w \in Workers : w \in Procs /\ w # Main
  BY Typed DEF ReachAssumptions, IndInv, EngineInv, ReachInv, Shape, Procs
<1>a. ASSUME NEW p \in Procs, held' = held,
             \A q \in Procs \ {p} : pc'[q] = pc[q] /\ arg'[q] = arg[q],
             \/ pc'[p] \notin Entering
             \/ pc[p] \in Entering /\ arg'[p].depth = arg[p].depth
             \/ p \in Workers /\ arg'[p].depth = held[p].depth + 1
      PROVE  ArgsDeeper'
  BY <1>0, <1>a DEF ArgsDeeper
<1>1. ASSUME NEW p \in Procs, Queue(p) PROVE ArgsDeeper'
  BY <1>0, <1>1, <1>a DEF Queue, PushQueue, Goto, Entering
<1>2. ASSUME NEW p \in Procs, PushFresh(p) PROVE ArgsDeeper'
  <2>1. pc[p] \in Entering /\ arg[p] \in Items
    BY <1>0, <1>2, ShapeArgs DEF PushFresh, Entering, PushPcs
  <2>2. arg'[p].depth = arg[p].depth
    BY <1>0, <1>2, <2>1 DEF PushFresh, Admit, Items
  <2> QED BY <1>0, <1>2, <1>a, <2>1, <2>2 DEF PushFresh, Admit, Goto
<1>3. ASSUME NEW w \in Workers, BeginPush(w) PROVE ArgsDeeper'
  <2>1. arg'[w].depth = held[w].depth + 1
    BY <1>0, <1>3 DEF BeginPush
  <2> QED BY <1>0, <1>3, <1>a, <2>1 DEF BeginPush, Goto
<1>4. ASSUME NEW w \in Workers, BeginComplete(w) PROVE ArgsDeeper'
  BY <1>0, <1>4, <1>a DEF BeginComplete, MarkCrawled, CompleteStart, Goto, Entering, PushPcs, taskVars
<1>5. CASE Ahead
  BY <1>0, <1>5 DEF Ahead, ArgsDeeper
<1>6. CASE CrawlRestart
  BY <1>0, <1>6 DEF CrawlRestart, Restart, SeedItem, ArgsDeeper, Entering, PushPcs
<1> QED BY <1>0, <1>1, <1>2, <1>3, <1>4, <1>5, <1>6, DepthSteps

LEMMA NewInductive ==
  ASSUME ReachAssumptions, [CrawlNext]_crawlVars
  PROVE  ArgsNew'
<1> USE FrontierAssumption
<1>0. /\ Shape /\ AtMatches /\ ArgsNew
      /\ pc \in [Procs -> WorkerPcs \cup MainPcs]
      /\ arg \in [Procs -> Items \cup {NoItem}]
      /\ \A w \in Workers : w \in Procs
  BY Typed DEF ReachAssumptions, IndInv, EngineInv, ReachInv, Shape
<1>a. ASSUME depthOf' = depthOf, \A q \in Pushing' : q \in Pushing /\ arg'[q] = arg[q]
      PROVE  ArgsNew'
  BY <1>0, <1>a DEF ArgsNew, Recorded
<1>1. ASSUME NEW p \in Procs, Queue(p) PROVE ArgsNew'
  <2>1. p \in Pushing /\ Recorded' = Recorded \cup {arg[p].url}
    BY <1>1, QueueRecords
  <2>2. \A q \in Pushing' : q \in Pushing /\ q # p /\ arg'[q] = arg[q]
    BY <1>0, <1>1 DEF Queue, PushQueue, Goto, Pushing
  <2>3. \A q \in Pushing' : arg[q].url # arg[p].url
    BY <2>1, <2>2 DEF ReachAssumptions, IndInv, AtMostOnce
  <2> QED BY <1>0, <2>1, <2>2, <2>3 DEF ArgsNew
<1>2. ASSUME NEW p \in Procs, PushFresh(p), depthOf' = depthOf PROVE ArgsNew'
  <2>1. arg[p] \in Items
    BY <1>0, <1>2, ShapeArgs DEF PushFresh, PushPcs
  <2>2. arg'[p].url = arg[p].url /\ arg[p].url \notin Recorded
    BY <1>0, <1>2, <2>1 DEF PushFresh, Admit, Items, ReachAssumptions, ReachInv
  <2>3. \A q \in Pushing' : q = p \/ (q \in Pushing /\ arg'[q] = arg[q])
    BY <1>0, <1>2 DEF PushFresh, Admit, Goto, Pushing
  <2> QED BY <1>0, <1>2, <2>2, <2>3 DEF ArgsNew, Recorded
<1>3. ASSUME NEW w \in Workers, BeginPush(w), depthOf' = depthOf PROVE ArgsNew'
  <2>1. \A q \in Pushing' : q \in Pushing /\ q # w
    BY <1>0, <1>3 DEF BeginPush, Goto, Pushing
  <2>2. \A q \in Pushing' : arg'[q] = arg[q]
    BY <1>0, <1>3, <2>1 DEF BeginPush, Pushing
  <2> QED BY <1>3, <1>a, <2>1, <2>2
<1>4. ASSUME NEW w \in Workers, BeginComplete(w), depthOf' = depthOf PROVE ArgsNew'
  <2>1. \A q \in Pushing' : q \in Pushing
    BY <1>0, <1>4 DEF BeginComplete, MarkCrawled, CompleteStart, Goto, Pushing
  <2>2. arg' = arg
    BY <1>4 DEF BeginComplete, MarkCrawled, taskVars
  <2> QED BY <1>4, <1>a, <2>1, <2>2
<1>5. CASE Ahead
  <2>1. \A q \in Pushing' : q \in Pushing /\ q \in Procs /\ pc'[q] \in Entering
    BY <1>5 DEF Ahead, Pushing, Entering, PushPcs
  <2> QED BY <1>5, <1>a, <2>1 DEF Ahead
<1>6. CASE CrawlRestart
  <2>1. Pushing' = {}
    BY <1>0, <1>6 DEF CrawlRestart, Restart, Pushing
  <2> QED BY <2>1 DEF ArgsNew
<1> QED BY <1>0, <1>1, <1>2, <1>3, <1>4, <1>5, <1>6, DepthSteps

LEMMA RecordedInductive ==
  ASSUME ReachAssumptions, Resumable, [CrawlNext]_crawlVars
  PROVE  (Recorded \subseteq visited)'
<1> USE DEF ReachAssumptions, ReachInv
<1>a. ASSUME depthOf' = depthOf, visited \subseteq visited'
      PROVE  (Recorded \subseteq visited)'
  BY <1>a DEF Recorded
<1>1. ASSUME NEW p \in Procs, Queue(p) PROVE (Recorded \subseteq visited)'
  <2>1. p \in Pushing /\ Recorded' = Recorded \cup {arg[p].url}
    BY <1>1, QueueRecords
  <2>2. visited' = visited /\ arg[p].url \in visited
    BY <1>1, <2>1, InPlayFacts DEF Queue, PushQueue, IndInv
  <2> QED BY <2>1, <2>2
<1>2. ASSUME NEW p \in Procs, PushFresh(p) PROVE visited \subseteq visited'
  BY <1>2 DEF PushFresh, Admit
<1>3. ASSUME NEW w \in Workers, BeginPush(w) \/ BeginComplete(w) PROVE visited' = visited
  BY <1>3 DEF BeginPush, BeginComplete, MarkCrawled, memVars
<1>4. CASE CrawlRestart
  <2>1. RowWritten \in SUBSET Pushing /\ Records(RowWritten)
    BY <1>4, RestartRecords
  <2>2. Recorded' = Recorded \cup {arg[p].url : p \in RowWritten}
    BY <2>1, RecordStands
  <2>3. visited' = seenTable
    BY <1>4 DEF CrawlRestart, Restart, LoadedSeen
  <2> QED BY <1>4, <2>2, <2>3, RestartFinds
<1> QED BY <1>a, <1>1, <1>2, <1>3, <1>4, DepthSteps DEF Ahead, IndInv, EngineInv

LEMMA ReachInit == CrawlInit => LinksTracked /\ Rebuilt /\ ReachInv
<1> SUFFICES ASSUME CrawlInit PROVE LinksTracked /\ Rebuilt /\ ReachInv
  OBVIOUS
<1> USE FrontierAssumption
<1>1. LinksTracked /\ Rebuilt
  BY LinksInit, FileInit DEF CrawlInit, LinksInv, FileInv, Rebuilt
<1>2. /\ queue = {} /\ Holding = {} /\ Pushing = {} /\ arg[Main] = SeedItem
      /\ \A w \in Workers : pc[w] = "off"
  BY DEF CrawlInit, Init, TasksStart, Procs, Holding, Pushing
<1>3. depthOf \in [Urls -> 0..MaxDepth + 1] /\ Recorded = {}
  <2>1. depthOf = [u \in Urls |-> MaxDepth + 1] /\ MaxDepth \in Nat
    BY DEF CrawlInit
  <2> QED BY <2>1 DEF Recorded
<1>4. ArgsDeeper
  BY <1>2 DEF ArgsDeeper, SeedItem, Entering, PushPcs
<1> QED BY <1>1, <1>2, <1>3, <1>4 DEF ReachInv, ItemsStand, ArgsNew, Recorded, DepthIsReached

ReachKept == LinksTracked /\ Rebuilt /\ ReachInv

LEMMA ReachInvariance ==
  ASSUME Steady, Resumable
  PROVE  CrawlSpec => []ReachKept
<1> DEFINE Base == IndInv /\ EngineInv
<1>1. CrawlInit => ReachKept
  BY ReachInit DEF ReachKept
<1>2. Base /\ Base' /\ ReachKept /\ [CrawlNext]_crawlVars => ReachKept'
  <2> SUFFICES ASSUME Base, Base', ReachKept, [CrawlNext]_crawlVars PROVE ReachKept'
    OBVIOUS
  <2>1. ReachAssumptions
    BY DEF ReachKept, ReachAssumptions
  <2>2. ReachInv'
    BY <2>1, StandInductive, ArgsInductive, NewInductive, RecordedInductive DEF ReachInv
  <2>3. [Next]_vars
    BY ClientStep
  <2>4. LinksTracked'
    BY <2>1, <2>3, TrackedInductive DEF ReachAssumptions
  <2>5. Rebuilt'
    BY <2>1, <2>3, FileInductive, SeenInductive DEF ReachAssumptions, Rebuilt, IndInv, Reliable
  <2> QED BY <2>2, <2>4, <2>5 DEF ReachKept
<1>3. CrawlSpec => []Base
  BY CrawlInvariance
<1> HIDE DEF Base
<1> QED BY <1>1, <1>2, <1>3, PTL DEF CrawlSpec

(* With any number of workers and of restarts, a page is queued at depth d *)
(* only when d links lead to it from the seed: max_depth is never passed.  *)
(* A resumed crawl needs the rows its predecessor wrote.                   *)
THEOREM DepthsAreReached ==
  ASSUME Steady, Resumable
  PROVE  CrawlSpec => []DepthIsReached
BY ReachInvariance, PTL DEF ReachKept, ReachInv

-----------------------------------------------------------------------------
(* Breadth first.                                                          *)
OneWorker == \E w \in Workers : Workers = {w}

(* Whatever is queued or in hand stands at most one level above the        *)
(* deepest, and the item in hand is the shallowest.                        *)
DepthOrder ==
  /\ \A i \in queue : \A u \in Recorded : depthOf[u] <= i.depth + 1
  /\ \A w \in Holding : \A u \in Recorded : depthOf[u] <= held[w].depth + 1
  /\ \A w \in Holding : \A i \in queue : held[w].depth <= i.depth

(* The seed is pushed first.                                               *)
SeedRecorded == Recorded # {} =>
                  /\ Seed \in visited /\ Main \notin Pushing
                  /\ Reliable => Seed \in seenTable

(* What is being pushed is no link of a crawled page.                      *)
ArgsUnlinked == \A p \in Pushing : \A u \in crawled : arg[p].url \notin Links[u]

(* The links of a crawled page are visited, and one level down at most.    *)
LinksNear == \A u \in crawled : \A v \in Links[u] :
                v \in visited /\ (v \in Recorded => depthOf[v] <= depthOf[u] + 1)

DepthInv == /\ DepthOrder /\ SeedRecorded /\ ArgsUnlinked /\ LinksNear
            /\ crawled \subseteq Recorded

DepthAssumptions == ReachAssumptions /\ DepthInv

(* What is about to be queued fits between what is in hand and what is     *)
(* queued: a worker's link one level below its page, or the seed alone.    *)
LEMMA PushFits ==
  ASSUME OneWorker, DepthAssumptions, NEW p \in Pushing
  PROVE  /\ arg[p] \in Items
         /\ \A i \in queue : arg[p].depth <= i.depth + 1
         /\ \A w \in Holding : held[w].depth <= arg[p].depth /\ arg[p].depth <= held[w].depth + 1
         /\ \A u \in Recorded : depthOf[u] <= arg[p].depth + 1
         /\ p = Main => Recorded = {}
<1> USE FrontierAssumption
<1> USE DEF DepthAssumptions, ReachAssumptions
<1>0. /\ arg[p] \in Items /\ pc[p] \in Entering /\ p \in Procs
      /\ \A i \in queue : i \in Items
      /\ \A w \in Holding : w \in Workers /\ held[w] \in Items
  BY ShapeArgs DEF IndInv, Pushing, Entering, PushPcs
<1>1. CASE p = Main
  <2>1. Recorded = {}
    BY <1>1 DEF DepthInv, SeedRecorded
  <2>2. queue = {}
    BY <1>0, <2>1, ItemsFacts DEF ReachInv, ItemsStand, Recorded
  <2>3. Holding = {}
    BY <1>0, <2>1, ItemsFacts DEF ReachInv, ItemsStand, Recorded
  <2> QED BY <1>0, <2>1, <2>2, <2>3
<1>2. CASE p # Main
  <2>1. p \in Workers /\ Workers = {p}
    BY <1>0, <1>2 DEF Procs, OneWorker
  <2>2. arg[p].depth = held[p].depth + 1
    BY <1>0, <2>1 DEF ReachInv, ArgsDeeper
  <2>3. p \in Holding /\ \A w \in Holding : w = p
    BY <1>0, <2>1 DEF Holding, IndInv, Shape, HandsMatch, HandPcs, Entering
  <2>4. PICK d \in Int : d = held[p].depth
    BY <1>0, <2>3, ItemsFacts
  <2>5. \A i \in queue : i.depth \in Int /\ d <= i.depth
    BY <1>0, <2>3, <2>4, ItemsFacts DEF DepthInv, DepthOrder
  <2>6. \A u \in Recorded : depthOf[u] \in Int /\ depthOf[u] <= d + 1
    BY <2>3, <2>4 DEF ReachInv, DepthInv, DepthOrder, Recorded
  <2>7. /\ \A i \in queue : d + 1 <= i.depth + 1
        /\ \A u \in Recorded : depthOf[u] <= (d + 1) + 1
    BY <2>5, <2>6
  <2> QED BY <1>0, <1>2, <2>2, <2>3, <2>4, <2>7
<1> QED BY <1>1, <1>2

LEMMA OnePusher ==
  ASSUME OneWorker, Shape, NEW p \in Procs, pc[p] \in PushPcs \cup {"work"}, NEW q \in Pushing
  PROVE  q = p
<1>1. CASE pc[Main] = "join"
  BY <1>1 DEF Procs, Pushing, PushPcs, OneWorker
<1>2. CASE pc[Main] # "join"
  BY <1>2 DEF Procs, Pushing, PushPcs, Shape, MainFirst
<1> QED BY <1>1, <1>2

(* Recording the depth of what is pushed keeps the order and the links.    *)
LEMMA RecordKeeps ==
  ASSUME OneWorker, DepthAssumptions, NEW P \in SUBSET Pushing, Records(P)
  PROVE  /\ \A i \in queue \cup {held[w] : w \in Holding} \cup {arg[p] : p \in P} :
              \A u \in Recorded' : depthOf'[u] <= i.depth + 1
         /\ \A u \in crawled : \A v \in Links[u] :
              v \in Recorded' => depthOf'[v] <= depthOf'[u] + 1
<1> USE FrontierAssumption
<1> USE DEF DepthAssumptions
<1>1. /\ Recorded' = Recorded \cup {arg[p].url : p \in P}
      /\ \A u \in Recorded : depthOf'[u] = depthOf[u]
  BY RecordStands
<1>2. \A p, q \in P : p = q /\ depthOf'[arg[p].url] = arg[p].depth /\ arg[p].depth \in 0..MaxDepth
  BY OnePusher, ShapeArgs, ItemsFacts DEF Records, ReachAssumptions, IndInv, Pushing, PushPcs
<1>3. ASSUME NEW i \in queue \cup {held[w] : w \in Holding} \cup {arg[p] : p \in P},
             NEW u \in Recorded'
      PROVE  depthOf'[u] <= i.depth + 1
  <2>1. CASE u \in Recorded
    BY <1>1, <2>1, PushFits DEF DepthInv, DepthOrder
  <2>2. ASSUME NEW p \in P, u = arg[p].url PROVE depthOf'[u] <= i.depth + 1
    <3>1. i \in queue \cup {held[w] : w \in Holding} \/ i = arg[p]
      BY <1>2
    <3> QED BY <1>2, <2>2, <3>1, PushFits
  <2> QED BY <1>1, <2>1, <2>2
<1>4. ASSUME NEW u \in crawled, NEW v \in Links[u], v \in Recorded'
      PROVE  depthOf'[v] <= depthOf'[u] + 1
  <2>1. v \in Recorded /\ u \in Recorded
    BY <1>1, <1>4 DEF DepthInv, ArgsUnlinked
  <2> QED BY <1>1, <2>1 DEF DepthInv, LinksNear
<1> QED BY <1>3, <1>4

LEMMA OrderInductive ==
  ASSUME OneWorker, Resumable, DepthAssumptions, [CrawlNext]_crawlVars
  PROVE  DepthOrder'
<1> USE FrontierAssumption
<1>0. /\ Shape /\ AtMatches /\ DepthOrder
      /\ held \in [Workers -> Items \cup {NoItem}]
      /\ queue \subseteq Items
  BY Typed DEF DepthAssumptions, ReachAssumptions, IndInv, EngineInv, DepthInv, Shape
<1>1. ASSUME NEW p \in Procs, Queue(p) PROVE DepthOrder'
  <2>1. p \in Pushing /\ Records({p})
    BY <1>1, QueueRecords DEF DepthAssumptions
  <2>2. queue' = queue \cup {arg[p]} /\ held' = held /\ Holding' = Holding
    BY <1>1 DEF Queue, PushQueue, Holding
  <2>3. \A i \in queue' \cup {held[w] : w \in Holding} : \A u \in Recorded' : depthOf'[u] <= i.depth + 1
    BY <2>1, <2>2, RecordKeeps
  <2>4. \A w \in Holding : held[w].depth <= arg[p].depth
    BY <2>1, PushFits
  <2> QED BY <1>0, <2>2, <2>3, <2>4 DEF DepthOrder
<1>2. CASE UNCHANGED <<depthOf, queue, held>>
  BY <1>0, <1>2 DEF DepthOrder, Recorded, Holding
<1>3. ASSUME NEW p \in Procs, PushFresh(p) PROVE UNCHANGED <<queue, held>>
  BY <1>3 DEF PushFresh, Admit
<1>4. ASSUME NEW w \in Workers, BeginPush(w) \/ BeginComplete(w)
      PROVE  UNCHANGED <<queue, held>>
  BY <1>4 DEF BeginPush, BeginComplete, MarkCrawled, memVars, taskVars
<1>5. ASSUME NEW w \in Workers, PopTake(w), depthOf' = depthOf PROVE DepthOrder'
  <2>1. PICK i \in queue : /\ \A j \in queue \ {i} : Precedes(i, j)
                           /\ queue' = queue \ {i}
                           /\ held' = [held EXCEPT ![w] = i]
    BY <1>5 DEF PopTake
  <2>2. \A v \in Holding' : v \in Workers /\ held'[v] = i
    BY <1>0, <2>1 DEF Holding, OneWorker
  <2>3. \A j \in queue : i.depth <= j.depth
    BY <1>0, <2>1, ItemsFacts DEF Precedes
  <2>4. Recorded' = Recorded
    BY <1>5 DEF Recorded
  <2> QED BY <1>0, <1>5, <2>1, <2>2, <2>3, <2>4 DEF DepthOrder
<1>6. ASSUME NEW w \in Workers, CompleteCount(w), depthOf' = depthOf PROVE DepthOrder'
  <2>1. queue' = queue /\ \A v \in Holding' : v \in Holding /\ held'[v] = held[v]
    BY <1>0, <1>6 DEF CompleteCount, CountDown, Holding
  <2>2. Recorded' = Recorded
    BY <1>6 DEF Recorded
  <2> QED BY <1>0, <1>6, <2>1, <2>2 DEF DepthOrder
<1>7. CASE CrawlRestart
  <2>1. FileExact /\ RowWritten \in SUBSET Pushing /\ Records(RowWritten)
    BY <1>7, RestartRecords DEF DepthAssumptions
  <2>2. \A i \in LoadedItems : \A u \in Recorded' : depthOf'[u] <= i.depth + 1
    BY <2>1, RecordKeeps DEF FileExact, WithRow
  <2>3. queue' = LoadedItems /\ Holding' = {}
    BY <1>7 DEF CrawlRestart, Restart, Holding
  <2> QED BY <2>2, <2>3 DEF DepthOrder
<1> QED BY <1>0, <1>1, <1>2, <1>3, <1>4, <1>5, <1>6, <1>7, DepthSteps DEF Ahead

LEMMA UnlinkedInductive ==
  ASSUME OneWorker, DepthAssumptions, [CrawlNext]_crawlVars
  PROVE  ArgsUnlinked'
<1> USE FrontierAssumption
<1>0. /\ Shape /\ AtMatches /\ ArgsUnlinked
      /\ pc \in [Procs -> WorkerPcs \cup MainPcs]
      /\ arg \in [Procs -> Items \cup {NoItem}]
      /\ \A w \in Workers : w \in Procs
  BY Typed DEF DepthAssumptions, ReachAssumptions, IndInv, EngineInv, DepthInv, Shape
<1>a. ASSUME crawled' = crawled, \A q \in Pushing' : q \in Pushing /\ arg'[q] = arg[q]
      PROVE  ArgsUnlinked'
  BY <1>0, <1>a DEF ArgsUnlinked
<1>1. ASSUME NEW p \in Procs, Queue(p) PROVE ArgsUnlinked'
  <2>1. p \in Pushing /\ \A q \in Pushing : q = p
    BY <1>0, <1>1, OnePusher DEF Queue, PushQueue, Pushing, PushPcs
  <2>2. Pushing' = {}
    BY <1>0, <1>1, <2>1 DEF Queue, PushQueue, Goto, Pushing
  <2> QED BY <2>2 DEF ArgsUnlinked
<1>2. ASSUME NEW p \in Procs, PushFresh(p) PROVE ArgsUnlinked'
  <2>1. arg[p] \in Items
    BY <1>0, <1>2, ShapeArgs DEF PushFresh, PushPcs
  <2>2. /\ arg'[p].url = arg[p].url /\ arg[p].url \notin visited
        /\ crawled' = crawled
    BY <1>0, <1>2, <2>1 DEF PushFresh, Admit, Items, histVars
  <2>3. \A q \in Pushing' : q = p \/ (q \in Pushing /\ arg'[q] = arg[q])
    BY <1>0, <1>2 DEF PushFresh, Admit, Goto, Pushing
  <2>4. \A u \in crawled : arg[p].url \notin Links[u]
    BY <2>2 DEF DepthAssumptions, DepthInv, LinksNear
  <2> QED BY <1>0, <2>2, <2>3, <2>4 DEF ArgsUnlinked
<1>3. ASSUME NEW w \in Workers, BeginPush(w) PROVE ArgsUnlinked'
  <2>1. \A q \in Pushing' : q \in Pushing /\ q # w
    BY <1>0, <1>3 DEF BeginPush, Goto, Pushing
  <2>2. \A q \in Pushing' : arg'[q] = arg[q]
    BY <1>0, <1>3, <2>1 DEF BeginPush, Pushing
  <2> QED BY <1>3, <1>a, <2>1, <2>2 DEF BeginPush, histVars
<1>4. ASSUME NEW w \in Workers, BeginComplete(w) PROVE ArgsUnlinked'
  <2>1. Pushing = {}
    BY <1>0, <1>4, OnePusher DEF BeginComplete, Pushing
  <2>2. Pushing' = {}
    BY <1>0, <1>4, <2>1 DEF BeginComplete, MarkCrawled, CompleteStart, Goto, Pushing
  <2> QED BY <2>2 DEF ArgsUnlinked
<1>5. CASE Ahead
  <2>1. \A q \in Pushing' : q \in Pushing /\ q \in Procs /\ pc'[q] \in Entering
    BY <1>5 DEF Ahead, Pushing, Entering, PushPcs
  <2> QED BY <1>5, <1>a, <2>1 DEF Ahead
<1>6. CASE CrawlRestart
  <2>1. Pushing' = {}
    BY <1>0, <1>6 DEF CrawlRestart, Restart, Pushing
  <2> QED BY <2>1 DEF ArgsUnlinked
<1> QED BY <1>0, <1>1, <1>2, <1>3, <1>4, <1>5, <1>6, DepthSteps

(* A crawled page leaves the history only when its row is found again.     *)
LEMMA LinksInductive ==
  ASSUME OneWorker, Resumable, DepthAssumptions, [CrawlNext]_crawlVars
  PROVE  LinksNear' /\ (crawled \subseteq Recorded)'
<1> USE FrontierAssumption
<1>0. /\ Shape /\ AtMatches /\ LinksNear /\ crawled \subseteq Recorded
  BY DEF DepthAssumptions, ReachAssumptions, IndInv, EngineInv, DepthInv
<1>a. ASSUME UNCHANGED <<depthOf, crawled>>, visited \subseteq visited'
      PROVE  LinksNear' /\ (crawled \subseteq Recorded)'
  BY <1>0, <1>a DEF LinksNear, Recorded
<1>1. ASSUME NEW p \in Procs, Queue(p) PROVE LinksNear' /\ (crawled \subseteq Recorded)'
  <2>1. /\ p \in Pushing /\ Records({p})
        /\ Recorded' = Recorded \cup {arg[p].url}
    BY <1>1, QueueRecords DEF DepthAssumptions
  <2>2. crawled' = crawled /\ visited' = visited
    BY <1>1 DEF Queue, PushQueue, histVars
  <2>3. \A u \in crawled : \A v \in Links[u] :
          v \in Recorded' => depthOf'[v] <= depthOf'[u] + 1
    BY <2>1, RecordKeeps
  <2> QED BY <1>0, <2>1, <2>2, <2>3 DEF LinksNear
<1>2. ASSUME NEW p \in Procs, PushFresh(p), depthOf' = depthOf
      PROVE  LinksNear' /\ (crawled \subseteq Recorded)'
  BY <1>2, <1>a DEF PushFresh, Admit, histVars
<1>3. ASSUME NEW w \in Workers, BeginPush(w), depthOf' = depthOf
      PROVE  LinksNear' /\ (crawled \subseteq Recorded)'
  BY <1>3, <1>a DEF BeginPush, memVars, histVars
<1>4. ASSUME NEW w \in Workers, BeginComplete(w), depthOf' = depthOf
      PROVE  LinksNear' /\ (crawled \subseteq Recorded)'
  <2>1. /\ visited' = visited /\ pc[w] = "work" /\ todo[w] = {}
        /\ crawled' = IF held[w].depth < MaxDepth THEN crawled \cup {held[w].url} ELSE crawled
    BY <1>4 DEF BeginComplete, MarkCrawled, memVars
  <2>2. CASE crawled' = crawled
    BY <1>4, <1>a, <2>1, <2>2
  <2>3. CASE held[w].depth < MaxDepth
    <3>1. Links[held[w].url] \subseteq visited
      BY <2>1, <2>3 DEF DepthAssumptions, ReachAssumptions, LinksTracked, AllTracked
    <3>2. w \in Holding /\ held[w] \in Items
      BY <1>0, <2>1, HandFacts DEF Shape, HandsMatch, HandPcs, Holding
    <3>3. \A v \in Recorded : depthOf[v] <= depthOf[held[w].url] + 1
      BY <3>2 DEF DepthAssumptions, ReachAssumptions, ReachInv, ItemsStand, DepthInv, DepthOrder
    <3>4. held[w].url \in Recorded
      BY <3>2, ItemsFacts DEF DepthAssumptions, ReachAssumptions, ReachInv, ItemsStand, Recorded
    <3>5. Recorded' = Recorded
      BY <1>4 DEF Recorded
    <3> QED BY <1>0, <1>4, <2>1, <2>3, <3>1, <3>3, <3>4, <3>5 DEF LinksNear
  <2> QED BY <2>1, <2>2, <2>3
<1>5. CASE Ahead
  BY <1>5, <1>a DEF Ahead
<1>6. CASE CrawlRestart
  <2>1. SeenSoon /\ RowWritten \in SUBSET Pushing /\ Records(RowWritten)
    BY <1>6, RestartRecords DEF DepthAssumptions
  <2>2. /\ Recorded \subseteq Recorded'
        /\ \A u \in crawled : \A v \in Links[u] :
             v \in Recorded' => depthOf'[v] <= depthOf'[u] + 1
    BY <2>1, RecordKeeps, RecordStands DEF DepthAssumptions
  <2>3. crawled' \subseteq crawled /\ visited' = seenTable
    BY <1>6 DEF CrawlRestart, Restart, LoadedSeen
  <2>4. \A v \in visited \ seenTable : \E p \in Pushing : arg[p].url = v
    BY <2>1 DEF SeenSoon, Marking, Pushing
  <2>5. \A u \in crawled : \A v \in Links[u] : v \in seenTable
    BY <1>0, <2>4 DEF LinksNear, DepthAssumptions, DepthInv, ArgsUnlinked
  <2> QED BY <1>0, <2>2, <2>3, <2>5 DEF LinksNear
<1> QED BY <1>0, <1>1, <1>2, <1>3, <1>4, <1>5, <1>6, DepthSteps

LEMMA SeedRecordedInductive ==
  ASSUME OneWorker, Resumable, DepthAssumptions, [CrawlNext]_crawlVars
  PROVE  SeedRecorded'
<1> USE FrontierAssumption
<1>0. /\ Shape /\ AtMatches /\ SeedRecorded /\ IndInv
      /\ pc \in [Procs -> WorkerPcs \cup MainPcs]
      /\ Main \in Procs /\ \A w \in Workers : w \in Procs /\ w # Main
  BY Typed DEF DepthAssumptions, ReachAssumptions, IndInv, EngineInv, DepthInv, Shape, Procs
<1>a. ASSUME depthOf' = depthOf, visited \subseteq visited', seenTable \subseteq seenTable',
             Main \in Pushing' => Main \in Pushing
      PROVE  SeedRecorded'
  BY <1>0, <1>a DEF SeedRecorded, Recorded
<1>1. ASSUME NEW p \in Procs, Queue(p) PROVE SeedRecorded'
  <2>1. p \in Pushing /\ pc[p] \in Entering
    BY <1>1 DEF Queue, PushQueue, Pushing, Entering, PushPcs
  <2>2. /\ visited' = visited /\ seenTable' = seenTable
        /\ \A q \in Pushing' : q \in Pushing /\ q # p
    BY <1>0, <1>1 DEF Queue, PushQueue, Goto, Pushing, storeVars
  <2>3. CASE p = Main /\ arg[p].url = Seed
    <3>1. Seed \in visited
      BY <1>0, <2>1, <2>3, InPlayFacts DEF IndInv
    <3>2. ASSUME Reliable PROVE Seed \in seenTable
      <4>1. arg[p] \in LoadedItems
        BY <1>1, <3>2 DEF Queue, PushQueue, DepthAssumptions, ReachAssumptions, Rebuilt, FileExact, WithRow, RowWritten
      <4>2. arg[p].url \in Present
        BY <1>0, <4>1, LoadedItemsFacts DEF Shape, TypeOK
      <4> QED BY <1>0, <2>3, <4>2 DEF Shape, RowsSeen
    <3> QED BY <2>2, <2>3, <3>1, <3>2 DEF SeedRecorded
  <2>4. CASE p \in Workers /\ Recorded # {}
    BY <1>0, <2>2, <2>4 DEF SeedRecorded
  <2> QED BY <2>1, <2>3, <2>4, ArgIsReached DEF DepthAssumptions
<1>2. ASSUME NEW p \in Procs, PushFresh(p), depthOf' = depthOf PROVE SeedRecorded'
  <2>1. pc[p] \in Entering /\ arg[p].url \notin visited
    BY <1>2 DEF PushFresh, Entering, PushPcs
  <2>2. /\ visited \subseteq visited' /\ seenTable' = seenTable
        /\ \A q \in Pushing' : q \in Pushing \/ q = p
    BY <1>0, <1>2 DEF PushFresh, Admit, Goto, Pushing, storeVars
  <2>3. CASE p = Main /\ arg[p].url = Seed
    <3>1. Recorded = {}
      BY <1>0, <2>1, <2>3 DEF SeedRecorded
    <3>2. Recorded' = {}
      BY <1>2, <3>1 DEF Recorded
    <3> QED BY <3>2 DEF SeedRecorded
  <2>4. CASE p \in Workers
    BY <1>0, <1>2, <1>a, <2>2, <2>4
  <2> QED BY <2>1, <2>3, <2>4, ArgIsReached DEF DepthAssumptions
<1>3. ASSUME NEW w \in Workers, BeginPush(w) \/ BeginComplete(w), depthOf' = depthOf
      PROVE  SeedRecorded'
  <2>1. visited' = visited /\ seenTable' = seenTable /\ pc'[Main] = pc[Main]
    BY <1>0, <1>3 DEF BeginPush, BeginComplete, MarkCrawled, Goto, memVars, storeVars
  <2> QED BY <1>3, <1>a, <2>1 DEF Pushing
<1>4. CASE Ahead
  BY <1>4, <1>a DEF Ahead
<1>5. CASE CrawlRestart
  <2>1. /\ Reliable /\ RowWritten \in SUBSET Pushing /\ Records(RowWritten)
        /\ \A p \in RowWritten : arg[p].url \in seenTable
    BY <1>5, RestartRecords, RestartFinds DEF DepthAssumptions
  <2>2. Recorded' = Recorded \cup {arg[p].url : p \in RowWritten}
    BY <2>1, RecordStands DEF DepthAssumptions
  <2>3. visited' = seenTable /\ seenTable' = seenTable /\ pc'[Main] = "push_insert"
    BY <1>0, <1>5 DEF CrawlRestart, Restart, LoadedSeen
  <2>4. ASSUME NEW p \in RowWritten PROVE Seed \in seenTable
    <3>1. p \in Procs /\ pc[p] \in Entering
      BY DEF RowWritten, Entering, PushPcs
    <3> QED BY <1>0, <2>1, <3>1, ArgIsReached DEF DepthAssumptions, SeedRecorded
  <2>5. Recorded' # {} => Seed \in seenTable
    BY <1>0, <2>1, <2>2, <2>4 DEF SeedRecorded
  <2> QED BY <2>3, <2>5 DEF SeedRecorded, Pushing
<1> QED BY <1>0, <1>1, <1>2, <1>3, <1>4, <1>5, DepthSteps

(* By the time a page is gone through, the scope is the seed's host.       *)
ScopeFits ==
  (crawled # {} \/ \E w \in Workers : pc[w] \in Working)
     => (ScopeStays => scopeHost = FinalHost[Seed])

LEMMA ScopeFitsInductive ==
  ASSUME Steady, IndInv, EngineInv, ScopeFits, [CrawlNext]_crawlVars
  PROVE  ScopeFits'
<1> SUFFICES ASSUME ScopeStays, (crawled # {} \/ \E w \in Workers : pc[w] \in Working)'
             PROVE  scopeHost' = FinalHost[Seed]
  BY DEF ScopeFits, ScopeStays
<1> USE FrontierAssumption
<1>0. /\ Shape /\ AtMatches
      /\ pc \in [Procs -> WorkerPcs \cup MainPcs]
      /\ \A w \in Workers : w \in Procs
  BY Typed DEF IndInv, EngineInv, Shape
<1>a. ASSUME scopeHost' = scopeHost, crawled # {} \/ \E w \in Workers : pc[w] \in Working
      PROVE  scopeHost' = FinalHost[Seed]
  BY <1>a DEF ScopeFits
<1>1. ASSUME NEW p \in Procs, Method(p) PROVE scopeHost' = FinalHost[Seed]
  <2>1. crawled' = crawled
    BY <1>1 DEF Method, Pushed, Queue, PushDuplicate, PushFresh, Admit, PushSeen, PushRow,
       PushCount, PushQueue, PushNotify, EndIteration, CompleteRow, CompleteCount, CountDown,
       CompleteNotify, StopSet, StopNotify, PopListen, PopStopCheck, PopEmpty, PopTake,
       PopLease, PopPendingCheck, PopAwait, histVars
  <2> QED BY <1>0, <1>1, <1>a, <2>1, MethodKeeps DEF Kept
<1>2. CASE SpawnWorkers /\ UNCHANGED engineVars
  BY <1>0, <1>2, <1>a DEF SpawnWorkers, engineVars, histVars, Working, PushPcs
<1>3. ASSUME NEW w \in Workers, FetchOk(w) PROVE scopeHost' = FinalHost[Seed]
  BY <1>3, FollowsScope
<1>4. ASSUME NEW w \in Workers, PushLink(w) \/ RecordPage(w)
      PROVE  scopeHost' = FinalHost[Seed]
  <2>1. pc[w] \in Working /\ scopeHost' = scopeHost
    BY <1>4 DEF PushLink, BeginPush, RecordPage, BeginComplete, Working, engineVars
  <2> QED BY <1>a, <2>1
<1>5. ASSUME NEW w \in Workers,
             \/ CheckDeadline(w) \/ CheckBudget(w) \/ Skip(w) \/ Admitted(w)
             \/ Reserve(w) \/ AcquireHost(w) \/ FetchErr(w)
      PROVE  scopeHost' = FinalHost[Seed]
  <2>1. UNCHANGED <<scopeHost, crawled>>
    BY <1>5 DEF CheckDeadline, CheckBudget, Skip, Refuse, Admitted, Reserve, AcquireHost,
       FetchErr, GiveUpWork, TakeSlot, BeginStop, BeginPop, GiveUp, vars, histVars
  <2>2. \A p \in Procs : pc'[p] = pc[p] \/ pc'[p] \notin Working
    BY <1>0, <1>5 DEF CheckDeadline, CheckBudget, Skip, Admitted, Reserve, AcquireHost,
       FetchErr, GiveUpWork, TakeSlot, BeginStop, BeginPop, GiveUp,
       vars, taskVars, Goto, CompleteStart, Working, PushPcs
  <2> QED BY <1>0, <1>a, <2>1, <2>2
<1>6. CASE CrawlRestart
  <2>1. restarts \in 0..MaxRestarts /\ restarts < MaxRestarts
    BY <1>0, <1>6 DEF CrawlRestart, Restart, Shape, TypeOK, HistTypeOK
  <2>2. FinalHost[Seed] = HostOf[Seed]
    BY <2>1 DEF ScopeStays
  <2> QED BY <1>6, <2>2 DEF CrawlRestart
<1>7. CASE Idle
  BY <1>7, <1>a DEF Idle, vars, histVars, taskVars
<1> QED BY <1>1, <1>2, <1>3, <1>4, <1>5, <1>6, <1>7, CrawlSteps

LEMMA DepthInit == CrawlInit => DepthInv /\ ScopeFits
<1> SUFFICES ASSUME CrawlInit PROVE DepthInv /\ ScopeFits
  OBVIOUS
<1> USE FrontierAssumption
<1>1. /\ queue = {} /\ Holding = {} /\ crawled = {} /\ Pushing = {}
      /\ \A w \in Workers : pc[w] = "off"
  BY DEF CrawlInit, Init, TasksStart, Procs, Holding, Pushing
<1>2. Recorded = {}
  <2>1. depthOf = [u \in Urls |-> MaxDepth + 1] /\ MaxDepth \in Nat
    BY DEF CrawlInit
  <2> QED BY <2>1 DEF Recorded
<1>3. DepthInv
  BY <1>1, <1>2 DEF DepthInv, DepthOrder, SeedRecorded, ArgsUnlinked, LinksNear
<1>4. ScopeFits
  BY <1>1 DEF ScopeFits, Working, PushPcs
<1> QED BY <1>3, <1>4

(* With one worker the crawl is breadth first, restarts included: a depth  *)
(* is a number of links from the seed, and no link of a crawled page was   *)
(* queued deeper than one level below that page, so max_depth cuts off     *)
(* nothing nearer.  A resumed crawl needs the rows its predecessor wrote.  *)
THEOREM BreadthFirst ==
  ASSUME Steady, OneWorker, Resumable
  PROVE  CrawlSpec => []DepthIsDistance
<1> DEFINE Base == IndInv /\ EngineInv
           Inv == DepthInv /\ ScopeFits
<1>1. CrawlInit => Inv
  BY DepthInit
<1>2. Base /\ ReachKept /\ Inv /\ [CrawlNext]_crawlVars => Inv'
  <2> SUFFICES ASSUME Base, ReachKept, Inv, [CrawlNext]_crawlVars PROVE Inv'
    OBVIOUS
  <2>1. DepthAssumptions
    BY DEF DepthAssumptions, ReachAssumptions, ReachKept
  <2>2. DepthInv'
    BY <2>1, OrderInductive, UnlinkedInductive, LinksInductive, SeedRecordedInductive DEF DepthInv
  <2>3. ScopeFits'
    BY ScopeFitsInductive
  <2> QED BY <2>2, <2>3
<1>3. Base /\ ReachKept /\ Inv => DepthIsDistance
  <2> SUFFICES ASSUME Base, ReachKept, Inv,
                      NEW u \in crawled, NEW v \in Hrefs[u],
                      InScope(v, scopeHost), depthOf[v] <= MaxDepth
               PROVE  depthOf[v] <= depthOf[u] + 1
    BY DEF DepthIsDistance, ReachKept, ReachInv
  <2>1. u \in Urls /\ v \in Urls
    BY CrawlAssumption DEF IndInv, Shape, TypeOK, HistTypeOK
  <2>2. InScope(v, FinalHost[Seed])
    BY DEF ScopeFits, Steady, InScope
  <2>3. v \in Links[u] /\ v \in Recorded
    BY <2>1, <2>2, CrawlAssumption DEF Recorded
  <2> QED BY <2>3 DEF DepthInv, LinksNear
<1>4. CrawlSpec => []Base
  BY CrawlInvariance
<1>5. CrawlSpec => []ReachKept
  BY ReachInvariance
<1> HIDE DEF Inv, Base
<1> QED BY <1>1, <1>2, <1>3, <1>4, <1>5, PTL DEF CrawlSpec
=============================================================================
