------------------------------ MODULE Frontier ------------------------------
(***************************************************************************)
(* frontier.rs: the URL frontier shared by a pool of workers, one action   *)
(* per step that another task or a crash can observe.  pc[p] is where task *)
(* p stands inside try_push, pop, complete or stop, or in its own code     *)
(* between two of those calls.  Main is the task that pushes the seed and  *)
(* spawns the workers.  The worker's own code is here the most general     *)
(* client that keeps the documented contract (children are pushed before   *)
(* complete, complete is called once per popped item); module Crawl puts   *)
(* the engine's worker loop in its place.                                  *)
(***************************************************************************)
EXTENDS Notify, FrontierStore

CONSTANTS Main, Seed,
          Links,        \* Links[u]: what a page links to, normalised
          NoItem,
          Durable,      \* TRUE: Frontier::with_store; FALSE: Frontier::new
          WriteErrors,  \* a store write may fail (it is only logged)
          MaxRestarts   \* bound on the process restarts explored

Procs == Workers \cup {Main}

Items == [url : Urls, depth : 0..MaxDepth, seq : Nat]

ASSUME FrontierAssumption ==
  /\ Main \notin Workers
  /\ IsFiniteSet(Urls)
  /\ Seed \in Urls
  /\ Links \in [Urls -> SUBSET Urls]
  /\ NoItem \notin Items
  /\ MaxDepth \in Nat
  /\ MaxRestarts \in Nat
  /\ Durable \in BOOLEAN
  /\ WriteErrors \in BOOLEAN

VARIABLES queue,      \* the BinaryHeap, as a set of items
          visited,    \* the DashSet of fingerprints
          pending,    \* AtomicI64
          nextSeq,    \* AtomicU64 `seq`
          stopped,    \* AtomicBool
          pc,
          arg,        \* arg[p]: the item p's try_push is building
          held,       \* held[w]: popped and not yet subtracted from pending
          todo,       \* todo[w]: the links of held[w] still to be pushed
          leaving,    \* workers that break out of their loop after complete
          crawled,    \* history: URLs whose links were all pushed, and that
                      \* no later process has to go through again
          finished,   \* history: URLs whose row complete() has deleted
          restarts

memVars == <<queue, visited, pending, nextSeq, stopped>>
taskVars == <<arg, held, todo, leaving>>
histVars == <<crawled, finished, restarts>>
vars == <<notifyVars, storeVars, memVars, pc, taskVars, histVars>>

MainPcs == {"push_insert", "push_seen", "push_row", "push_count",
            "push_queue", "push_notify", "spawn", "join"}
WorkerPcs == {"off", "loop", "listen", "stop_check", "take", "lease",
              "pending_check", "await", "got", "work", "push_insert",
              "push_seen", "push_row", "push_count", "push_queue",
              "push_notify", "delete_row", "count_down", "drain_notify",
              "stop_set", "stop_notify", "exit"}

MemTypeOK == /\ queue \subseteq Items
             /\ visited \subseteq Urls
             /\ pending \in Int
             /\ nextSeq \in Nat
             /\ stopped \in BOOLEAN

PcTypeOK == /\ pc \in [Procs -> WorkerPcs \cup MainPcs]
            /\ pc[Main] \in MainPcs
            /\ \A w \in Workers : pc[w] \in WorkerPcs

TaskTypeOK == /\ arg \in [Procs -> Items \cup {NoItem}]
              /\ held \in [Workers -> Items \cup {NoItem}]
              /\ todo \in [Workers -> SUBSET Urls]
              /\ leaving \subseteq Workers

HistTypeOK == /\ crawled \subseteq Urls
              /\ finished \subseteq Urls
              /\ restarts \in 0..MaxRestarts

TypeOK == /\ NotifyTypeOK
          /\ StoreTypeOK
          /\ MemTypeOK
          /\ PcTypeOK
          /\ TaskTypeOK
          /\ HistTypeOK

Goto(p, l) == pc' = [pc EXCEPT ![p] = l]

(* Where try_push returns to, and where complete returns to.               *)
AfterPush(p) == IF p = Main THEN "spawn" ELSE "work"
AfterComplete(w) == IF w \in leaving THEN "exit" ELSE "loop"

(* The crawl starts by pushing the seed at depth 0.                        *)
SeedItem == [url |-> Seed, depth |-> 0, seq |-> 0]

TasksStart == /\ pc = [p \in Procs |-> IF p = Main THEN "push_insert" ELSE "off"]
              /\ arg = [p \in Procs |-> IF p = Main THEN SeedItem ELSE NoItem]
              /\ held = [w \in Workers |-> NoItem]
              /\ todo = [w \in Workers |-> {}]
              /\ leaving = {}

Init == /\ NotifyInit
        /\ StoreInit
        /\ queue = {} /\ visited = {} /\ pending = 0 /\ stopped = FALSE
        /\ nextSeq = IF Durable THEN 1 ELSE 0
        /\ TasksStart
        /\ crawled = {} /\ finished = {} /\ restarts = 0
-----------------------------------------------------------------------------
(* try_push(url, depth): arg[p] is set by the caller.                      *)

PushDuplicate(p) ==
  /\ pc[p] = "push_insert"
  /\ arg[p].url \in visited
  /\ Goto(p, AfterPush(p))
  /\ arg' = [arg EXCEPT ![p] = NoItem]
  /\ UNCHANGED <<notifyVars, storeVars, memVars, held, todo, leaving, histVars>>

Admit(p) ==
  /\ visited' = visited \cup {arg[p].url}
  /\ arg' = [arg EXCEPT ![p].seq = nextSeq]
  /\ nextSeq' = nextSeq + 1
  /\ Goto(p, IF Durable THEN "push_seen" ELSE "push_count")
  /\ UNCHANGED <<notifyVars, storeVars, queue, pending, stopped,
                 held, todo, leaving, histVars>>

(* Bug variant: the answer of visited.insert is not looked at.             *)
PushFreshUnchecked(p) == pc[p] = "push_insert" /\ Admit(p)

PushFresh(p) ==
  /\ pc[p] = "push_insert"
  /\ arg[p].url \notin visited
  /\ Admit(p)

(* The store mutex is held from mark_seen to the end of enqueue.           *)
StoreFree(p) == \A q \in Procs \ {p} : pc[q] # "push_row"

(* Bug variant: the mutex is taken for each write by itself.               *)
PushSeenUnlocked(p) ==
  /\ pc[p] = "push_seen"
  /\ \/ MarkSeen(arg[p].url) /\ Goto(p, "push_row")
     \/ WriteErrors /\ UNCHANGED storeVars /\ Goto(p, "push_count")
  /\ UNCHANGED <<notifyVars, memVars, taskVars, histVars>>

(* Bug variant: the seen mark is skipped and the row written all the same. *)
PushSeenForgotten(p) ==
  /\ pc[p] = "push_seen"
  /\ StoreFree(p)
  /\ Goto(p, "push_row")
  /\ UNCHANGED <<notifyVars, storeVars, memVars, taskVars, histVars>>

PushSeen(p) ==
  /\ pc[p] = "push_seen"
  /\ StoreFree(p)
  /\ \/ MarkSeen(arg[p].url) /\ Goto(p, "push_row")
     \/ WriteErrors /\ UNCHANGED storeVars /\ Goto(p, "push_count")
  /\ UNCHANGED <<notifyVars, memVars, taskVars, histVars>>

PushRow(p) ==
  /\ pc[p] = "push_row"
  /\ \/ EnqueueRow(arg[p])
     \/ WriteErrors /\ UNCHANGED storeVars
  /\ Goto(p, "push_count")
  /\ UNCHANGED <<notifyVars, memVars, taskVars, histVars>>

(* Bug variant: the item is queued without being counted.                  *)
PushCountDropped(p) ==
  /\ pc[p] = "push_count"
  /\ Goto(p, "push_queue")
  /\ UNCHANGED <<notifyVars, storeVars, memVars, taskVars, histVars>>

PushCount(p) ==
  /\ pc[p] = "push_count"
  /\ pending' = pending + 1
  /\ Goto(p, "push_queue")
  /\ UNCHANGED <<notifyVars, storeVars, queue, visited, nextSeq, stopped,
                 taskVars, histVars>>

PushQueue(p) ==
  /\ pc[p] = "push_queue"
  /\ queue' = queue \cup {arg[p]}
  /\ arg' = [arg EXCEPT ![p] = NoItem]
  /\ Goto(p, "push_notify")
  /\ UNCHANGED <<notifyVars, storeVars, visited, pending, nextSeq, stopped,
                 held, todo, leaving, histVars>>

PushNotify(p) ==
  /\ pc[p] = "push_notify"
  /\ NotifyOne
  /\ Goto(p, AfterPush(p))
  /\ UNCHANGED <<storeVars, memVars, taskVars, histVars>>

TryPush(p) == \/ PushDuplicate(p) \/ PushFresh(p) \/ PushSeen(p) \/ PushRow(p)
              \/ PushCount(p) \/ PushQueue(p) \/ PushNotify(p)
-----------------------------------------------------------------------------
(* pop(): `listen` creates the Notified future, then the three checks.     *)

PopListen(w) ==
  /\ pc[w] = "listen"
  /\ Notified(w)
  /\ Goto(w, "stop_check")
  /\ UNCHANGED <<storeVars, memVars, taskVars, histVars>>

PopStopCheck(w) ==
  /\ pc[w] = "stop_check"
  /\ \/ stopped /\ Drop(w) /\ Goto(w, "exit")
     \/ ~stopped /\ Goto(w, "take") /\ UNCHANGED notifyVars
  /\ UNCHANGED <<storeVars, memVars, taskVars, histVars>>

(* Bug variant: the heap's order is the wrong way round, deepest first.    *)
PrecedesDeepest(i, j) == \/ i.depth > j.depth
                         \/ i.depth = j.depth /\ i.seq < j.seq

(* FrontierItem's Ord under DepthPriority: shallower first, then FIFO.     *)
Precedes(i, j) == \/ i.depth < j.depth
                  \/ i.depth = j.depth /\ i.seq < j.seq

(* Bug variant: the item is handed out but stays in the heap (a peek).     *)
PopTakePeek(w) ==
  /\ pc[w] = "take"
  /\ \E i \in queue :
       /\ \A j \in queue \ {i} : Precedes(i, j)
       /\ held' = [held EXCEPT ![w] = i]
  /\ Drop(w)
  /\ Goto(w, IF Durable THEN "lease" ELSE "got")
  /\ UNCHANGED <<storeVars, memVars, arg, todo, leaving, histVars>>

PopTake(w) ==
  /\ pc[w] = "take"
  /\ \E i \in queue :
       /\ \A j \in queue \ {i} : Precedes(i, j)
       /\ queue' = queue \ {i}
       /\ held' = [held EXCEPT ![w] = i]
  /\ Drop(w)
  /\ Goto(w, IF Durable THEN "lease" ELSE "got")
  /\ UNCHANGED <<storeVars, visited, pending, nextSeq, stopped,
                 arg, todo, leaving, histVars>>

(* Bug variant: a heap that could not be looked at counts as empty.        *)
PopEmptyUnchecked(w) ==
  /\ pc[w] = "take"
  /\ Goto(w, "pending_check")
  /\ UNCHANGED <<notifyVars, storeVars, memVars, taskVars, histVars>>

PopEmpty(w) ==
  /\ pc[w] = "take"
  /\ queue = {}
  /\ Goto(w, "pending_check")
  /\ UNCHANGED <<notifyVars, storeVars, memVars, taskVars, histVars>>

(* Bug variant: handing an item out deletes its row.                       *)
PopLeaseDeletes(w) ==
  /\ pc[w] = "lease"
  /\ StoreFree(w)
  /\ DeleteRow(held[w].url)
  /\ Goto(w, "got")
  /\ UNCHANGED <<notifyVars, memVars, taskVars, histVars>>

PopLease(w) ==
  /\ pc[w] = "lease"
  /\ StoreFree(w)
  /\ \/ MarkInflight(held[w].url)
     \/ WriteErrors /\ UNCHANGED storeVars
  /\ Goto(w, "got")
  /\ UNCHANGED <<notifyVars, memVars, taskVars, histVars>>

(* Bug variant: "the queue is empty right now" is taken for the end.       *)
PopPendingCheckSkipped(w) ==
  /\ pc[w] = "pending_check"
  /\ Drop(w) /\ Goto(w, "exit")
  /\ UNCHANGED <<storeVars, memVars, taskVars, histVars>>

PopPendingCheck(w) ==
  /\ pc[w] = "pending_check"
  /\ \/ pending = 0 /\ Drop(w) /\ Goto(w, "exit")
     \/ pending # 0 /\ Goto(w, "await") /\ UNCHANGED notifyVars
  /\ UNCHANGED <<storeVars, memVars, taskVars, histVars>>

(* Bug variant: the future awaited is created after the checks, so it is   *)
(* none that notify_waiters passed over.                                   *)
PopAwaitFresh(w) ==
  /\ pc[w] = "await"
  /\ \/ /\ ticket[w] \in {"armed", "fired"} /\ ~permit
        /\ Register(w)
        /\ UNCHANGED pc
     \/ /\ ticket[w] \in {"armed", "fired"} /\ permit
        /\ ConsumePermit(w)
        /\ Goto(w, "listen")
     \/ ticket[w] = "woken" /\ Drop(w) /\ Goto(w, "listen")
  /\ UNCHANGED <<storeVars, memVars, taskVars, histVars>>

(* notified.await: complete at once, or go to sleep until woken.           *)
PopAwait(w) ==
  /\ pc[w] = "await"
  /\ \/ /\ ticket[w] = "armed" /\ ~PollReady(w)
        /\ Register(w)
        /\ UNCHANGED pc
     \/ /\ ticket[w] \in {"armed", "fired"} /\ PollReady(w)
        /\ ConsumePermit(w)
        /\ Goto(w, "listen")
     \/ /\ ticket[w] = "woken"
        /\ Drop(w)
        /\ Goto(w, "listen")
  /\ UNCHANGED <<storeVars, memVars, taskVars, histVars>>

Pop(w) == \/ PopListen(w) \/ PopStopCheck(w) \/ PopTake(w) \/ PopEmpty(w)
          \/ PopLease(w) \/ PopPendingCheck(w) \/ PopAwait(w)
-----------------------------------------------------------------------------
(* complete(item): the row, then the counter, then the drain signal.       *)

CompleteStart == IF Durable THEN "delete_row" ELSE "count_down"

CompleteRow(w) ==
  /\ pc[w] = "delete_row"
  /\ StoreFree(w)
  /\ \/ /\ DeleteRow(held[w].url)
        /\ finished' = finished \cup {held[w].url}
     \/ WriteErrors /\ UNCHANGED <<storeVars, finished>>
  /\ Goto(w, "count_down")
  /\ UNCHANGED <<notifyVars, memVars, taskVars, crawled, restarts>>

CountDown(w, last) ==
  /\ pc[w] = "count_down"
  /\ pending' = pending - 1
  /\ held' = [held EXCEPT ![w] = NoItem]
  /\ Goto(w, IF pending = last THEN "drain_notify" ELSE AfterComplete(w))
  /\ UNCHANGED <<notifyVars, storeVars, queue, visited, nextSeq, stopped,
                 arg, todo, leaving, histVars>>

(* Bug variant: fetch_sub's return value is taken for the new count.       *)
CompleteCountOffByOne(w) == CountDown(w, 0)

CompleteCount(w) == CountDown(w, 1)

CompleteNotify(w) ==
  /\ pc[w] = "drain_notify"
  /\ NotifyWaiters
  /\ Goto(w, AfterComplete(w))
  /\ UNCHANGED <<storeVars, memVars, taskVars, histVars>>

Complete(w) == CompleteRow(w) \/ CompleteCount(w) \/ CompleteNotify(w)
-----------------------------------------------------------------------------
(* stop(): called with no item in hand, or just before completing one.     *)

StopSet(w) ==
  /\ pc[w] = "stop_set"
  /\ stopped' = TRUE
  /\ Goto(w, "stop_notify")
  /\ UNCHANGED <<notifyVars, storeVars, queue, visited, pending, nextSeq,
                 taskVars, histVars>>

StopNotify(w) ==
  /\ pc[w] = "stop_notify"
  /\ NotifyWaiters
  /\ Goto(w, IF held[w] = NoItem THEN "exit" ELSE CompleteStart)
  /\ UNCHANGED <<storeVars, memVars, taskVars, histVars>>

Stop(w) == StopSet(w) \/ StopNotify(w)
-----------------------------------------------------------------------------
(* The tasks' own code.                                                    *)

SpawnWorkers ==
  /\ pc[Main] = "spawn"
  /\ pc' = [p \in Procs |-> IF p = Main THEN "join" ELSE "loop"]
  /\ UNCHANGED <<notifyVars, storeVars, memVars, taskVars, histVars>>

BeginPop(w) ==
  /\ pc[w] = "loop"
  /\ Goto(w, "listen")
  /\ UNCHANGED <<notifyVars, storeVars, memVars, taskVars, histVars>>

(* A budget is spent: before pop, or with an item in hand that is then     *)
(* completed unprocessed.                                                  *)
BeginStop(w) ==
  /\ pc[w] \in {"loop", "got"}
  /\ leaving' = leaving \cup {w}
  /\ Goto(w, "stop_set")
  /\ UNCHANGED <<notifyVars, storeVars, memVars, arg, held, todo, histVars>>

(* The item is skipped, or its fetch fails: it is completed childless.     *)
GiveUp(w) ==
  /\ pc[w] = "got"
  /\ Goto(w, CompleteStart)
  /\ UNCHANGED <<notifyVars, storeVars, memVars, taskVars, histVars>>

Discover(w) ==
  /\ pc[w] = "got"
  /\ todo' = [todo EXCEPT ![w] =
                IF held[w].depth < MaxDepth THEN Links[held[w].url] ELSE {}]
  /\ Goto(w, "work")
  /\ UNCHANGED <<notifyVars, storeVars, memVars, arg, held, leaving, histVars>>

BeginPush(w) ==
  /\ pc[w] = "work"
  /\ \E u \in todo[w] :
       /\ todo' = [todo EXCEPT ![w] = @ \ {u}]
       /\ arg' = [arg EXCEPT ![w] = [url |-> u, depth |-> held[w].depth + 1, seq |-> 0]]
  /\ Goto(w, "push_insert")
  /\ UNCHANGED <<notifyVars, storeVars, memVars, held, leaving, histVars>>

MarkCrawled(w) ==
  /\ crawled' = IF held[w].depth < MaxDepth THEN crawled \cup {held[w].url}
                ELSE crawled
  /\ Goto(w, CompleteStart)
  /\ UNCHANGED <<notifyVars, storeVars, memVars, taskVars, finished, restarts>>

(* Bug variant: complete is called before every child has been pushed.     *)
BeginCompleteEarly(w) == pc[w] = "work" /\ MarkCrawled(w)

BeginComplete(w) ==
  /\ pc[w] = "work"
  /\ todo[w] = {}
  /\ MarkCrawled(w)

Client(w) == \/ BeginPop(w) \/ BeginStop(w) \/ GiveUp(w) \/ Discover(w)
             \/ BeginPush(w) \/ BeginComplete(w)
-----------------------------------------------------------------------------
(* The process dies, or has ended, and a new one opens the same file:      *)
(* with_store loads it and main pushes the seed again.                     *)
Restart ==
  /\ Durable
  /\ restarts < MaxRestarts
  /\ restarts' = restarts + 1
  /\ rows' = Requeued
  /\ UNCHANGED seenTable
  /\ queue' = LoadedItems
  /\ visited' = LoadedSeen
  /\ pending' = Cardinality(LoadedItems)
  /\ \E m \in MaxSeqs : nextSeq' = m + 1
  /\ stopped' = FALSE
  /\ permit' = FALSE
  /\ ticket' = [w \in Workers |-> "none"]
  /\ pc' = [p \in Procs |-> IF p = Main THEN "push_insert" ELSE "off"]
  /\ arg' = [p \in Procs |-> IF p = Main THEN SeedItem ELSE NoItem]
  /\ held' = [w \in Workers |-> NoItem]
  /\ todo' = [w \in Workers |-> {}]
  /\ leaving' = {}
  /\ crawled' = crawled \ Present
  /\ UNCHANGED finished

AllExited == \A w \in Workers : pc[w] = "exit"

Finished == AllExited /\ UNCHANGED vars

Worker(w) == TryPush(w) \/ Pop(w) \/ Complete(w) \/ Stop(w) \/ Client(w)

MainTask == TryPush(Main) \/ SpawnWorkers

Next == \/ MainTask
        \/ \E w \in Workers : Worker(w)
        \/ Restart
        \/ Finished

(* tokio polls every runnable task again and again.                        *)
Fairness == /\ WF_vars(MainTask)
            /\ \A w \in Workers : WF_vars(Worker(w))

Spec == Init /\ [][Next]_vars

FairSpec == Spec /\ Fairness
-----------------------------------------------------------------------------
(* Correctness.                                                            *)

Pushing == {p \in Procs : pc[p] \in {"push_seen", "push_row", "push_count", "push_queue"}}
Holding == {w \in Workers : held[w] # NoItem}

(* What `pending` is meant to count: queued, popped, or about to be queued.*)
Outstanding == queue \cup {held[w] : w \in Holding}
                     \cup {arg[p] : p \in {q \in Procs : pc[q] = "push_queue"}}

(* A URL is in one place only: queued once, or in the hands of one worker, *)
(* or being pushed by one task, however pushes of the same link race and   *)
(* across restarts.  So no page is handed out twice.                       *)
AtMostOnce ==
  /\ \A i, j \in queue : i.url = j.url => i = j
  /\ \A w \in Holding : \A i \in queue : i.url # held[w].url
  /\ \A v, w \in Holding : held[v].url = held[w].url => v = w
  /\ \A p \in Pushing : /\ \A i \in queue : i.url # arg[p].url
                        /\ \A w \in Holding : held[w].url # arg[p].url
                        /\ \A q \in Pushing : arg[q].url = arg[p].url => q = p

(* `pending` is exact between any two steps of any tasks: it reaches zero  *)
(* only when nothing is queued, in hand, or about to be queued.            *)
PendingExact == pending = Cardinality(Outstanding)

(* A worker that left because the frontier drained, not because it was     *)
(* stopped, left nothing behind that some task could still add to.         *)
NoEarlyExit ==
  (~stopped /\ \E w \in Workers : pc[w] = "exit")
     => Outstanding = {} /\ Pushing = {}

(* No worker sleeps through the end: whoever is registered, or about to    *)
(* register, can still count on a stop or drain signal yet to be sent.     *)
NoLostWakeup ==
  \A w \in Workers :
    (pc[w] = "await" /\ ticket[w] \in {"armed", "waiting"}) =>
       /\ stopped => \E v \in Workers : pc[v] = "stop_notify"
       /\ pending = 0 => \E v \in Workers : pc[v] = "drain_notify"

(* While an item is queued, a worker asleep in pop is not forgotten: some  *)
(* worker is on its way through pop, or a push has yet to notify.  This is *)
(* what "a push racing with this check can't produce a missed wakeup"      *)
(* (frontier.rs:147-148) says.                                             *)
NoMissedWakeup ==
  (queue # {} /\ Waiting # {}) =>
     \/ \E w \in Workers \ Waiting :
          pc[w] \in {"loop", "listen", "stop_check", "take", "pending_check",
                    "await", "stop_set", "stop_notify", "drain_notify"}
     \/ \E p \in Procs : pc[p] = "push_notify"

(* Sequence numbers order the queue totally, also next to the numbers      *)
(* restored from disk: nothing outstanding shares one, and the counter is  *)
(* beyond all of them, so FIFO within a depth survives a restart.          *)
SeqsDistinct ==
  LET placed == Outstanding \cup {arg[p] : p \in Pushing}
  IN /\ \A i, j \in placed : i.seq = j.seq => i = j
     /\ \A i \in placed : i.seq < nextSeq

(* What has a row: the items from try_push's last write, which comes       *)
(* before they are counted, to complete's first.                           *)
RowWritten == {p \in Procs : pc[p] \in {"push_count", "push_queue"}}
RowDeleted == {w \in Workers : pc[w] = "count_down"}
WithRow == queue \cup {held[w] : w \in Holding \ RowDeleted}
                 \cup {arg[p] : p \in RowWritten}

FileExact == LoadedItems = WithRow

(* With writes that succeed, a process started at this moment would queue  *)
(* these items and no other, each at its depth and with its number, and    *)
(* go on numbering beyond them; and no row is of a URL never marked seen.  *)
FileRebuildsFrontier ==
  /\ FileExact
  /\ SeqsDistinct
  /\ Present \subseteq seenTable

(* What resuming may rely on when a page has been completed: each of its   *)
(* links is recorded as seen, unless another page that links to it was     *)
(* being processed and is still in the file, or was itself given up.       *)
LinksRecoverable ==
  \A u \in crawled : \A v \in Links[u] \ seenTable :
     \E w \in Present \cup (finished \ crawled) : v \in Links[w]

(* The promise of with_store (frontier.rs:55-56, "a crash resumes rather   *)
(* than losing work"): when a process starts, every URL the file calls     *)
(* seen is queued again or was completed.                                  *)
ResumeLosesNothing ==
  (pc[Main] = "push_insert") => seenTable \subseteq Present \cup finished

(* Completed is for ever: a URL seen and completed is never queued, leased *)
(* or given a row again, in this process or a later one.                   *)
InPlay == {i.url : i \in Outstanding} \cup {arg[p].url : p \in Pushing}

Retired == {u \in (seenTable \cap visited) \ InPlay : rows[u].state = "absent"}

CompletedStaysCompleted == [][Retired \subseteq Retired']_vars

(* stop() is a hard stop: once set, no worker that checks it takes work.   *)
(* A worker that had passed the check takes at most the item it went for.  *)
Termination == <>AllExited

(* Every item the pool took responsibility for is processed before it      *)
(* drains: unless stopped, a queued item is eventually handed out.         *)
QueuedIsServed == \A u \in Urls :
  (\E i \in queue : i.url = u) ~> (stopped \/ \E w \in Holding : held[w].url = u)
-----------------------------------------------------------------------------
(* The frontier implements the abstract pool.                              *)
StatusOf(u) ==
  IF \E w \in Holding : held[w].url = u THEN "leased"
  ELSE IF \E i \in Outstanding : i.url = u THEN "queued"
  ELSE IF u \in visited /\ \A p \in Pushing : arg[p].url # u THEN "done"
  ELSE "new"

Pool == INSTANCE WorkPool WITH
          status <- [u \in Urls |-> StatusOf(u)],
          open <- ~stopped,
          gone <- {w \in Workers \ leaving : pc[w] = "exit"}

(* Within one process, also while store writes fail, every step of every   *)
(* task is a step of the pool or changes nothing the pool shows.           *)
ImplementsPool == Pool!Spec

(* What the file shows of the pool: an item is offered by the write of its *)
(* row and settled by its deletion.                                        *)
Stored(u) ==
  IF \E w \in Holding \ RowDeleted : held[w].url = u THEN "leased"
  ELSE IF \E i \in WithRow : i.url = u THEN "queued"
  ELSE IF u \in visited /\ \A p \in Pushing : arg[p].url # u THEN "done"
  ELSE "new"

Durably == INSTANCE DurablePool WITH
             status <- [u \in Urls |-> Stored(u)],
             open <- ~stopped,
             gone <- {w \in Workers \ leaving : pc[w] = "exit"}

(* Over restarts, with writes that succeed, every step of every task is a  *)
(* step of the pool that outlives its process: a crash gives back what was *)
(* in hand, undoes nothing else, and loses no more than the one URL that   *)
(* is between try_push's two writes.                                       *)
ImplementsDurablePool == Durably!DurableSpec

-----------------------------------------------------------------------------
(* The inductive invariant behind the safety properties.                   *)

PushPcs == {"push_insert", "push_seen", "push_row", "push_count",
            "push_queue", "push_notify"}
HandPcs == PushPcs \cup {"lease", "got", "work", "delete_row", "count_down"}
EmptyPcs == {"off", "loop", "listen", "stop_check", "take", "pending_check",
             "await", "drain_notify", "exit"}

(* A task inside try_push has an item to push; a worker has an item in     *)
(* hand exactly from pop's return to complete's decrement.                 *)
ArgsMatch == \A p \in Procs : pc[p] \in PushPcs \ {"push_notify"} => arg[p] # NoItem
HandsMatch ==
  \A w \in Workers :
    /\ pc[w] \in HandPcs => held[w] # NoItem
    /\ pc[w] \in EmptyPcs => held[w] = NoItem

TodoMatches == \A w \in Workers : todo[w] # {} =>
                 /\ pc[w] \in PushPcs \cup {"work"}
                 /\ held[w].depth < MaxDepth

MainFirst == pc[Main] # "join" => \A w \in Workers : pc[w] = "off"

LeaversStop ==
  \A w \in Workers :
    /\ w \in leaving => stopped \/ pc[w] = "stop_set"
    /\ pc[w] \in {"stop_set", "stop_notify"} => w \in leaving

RowsSeen == /\ Present \subseteq seenTable
            /\ \A p \in Procs : pc[p] = "push_row" => arg[p].url \in seenTable

(* Whatever is in play was entered in visited.                             *)
PlayVisited == InPlay \subseteq visited

OutstandingFinite == IsFiniteSet(Outstanding)

(* NoLostWakeup, from the check of `stopped` on.                           *)
StopSignalled ==
  \A w \in Workers :
    (/\ pc[w] \in {"take", "pending_check", "await"}
     /\ ticket[w] \in {"armed", "waiting"}
     /\ stopped) => \E v \in Workers : pc[v] = "stop_notify"

(* Everything the other parts take for granted about where tasks stand.    *)
Shape == /\ TypeOK
         /\ ArgsMatch
         /\ HandsMatch
         /\ TodoMatches
         /\ MainFirst
         /\ LeaversStop
         /\ RowsSeen

IndInv == /\ Shape
          /\ PlayVisited
          /\ AtMostOnce
          /\ OutstandingFinite
          /\ PendingExact
          /\ NoEarlyExit
          /\ StopSignalled
          /\ NoLostWakeup

=============================================================================
