--------------------------- MODULE FrontierProofs ---------------------------
(***************************************************************************)
(* Safety of the frontier for any number of workers and URLs, any link     *)
(* graph, with or without a store, failing writes and restarts included;   *)
(* and that it implements the abstract pool.                               *)
(***************************************************************************)
EXTENDS Frontier, FiniteSetTheorems, TLAPS

LEMMA ItemsFacts ==
  ASSUME NEW i \in Items
  PROVE  /\ i.url \in Urls /\ i.depth \in 0..MaxDepth /\ i.seq \in Nat
         /\ i # NoItem
  BY FrontierAssumption DEF Items

LEMMA LoadedItemsFacts ==
  ASSUME StoreTypeOK
  PROVE  /\ LoadedItems \subseteq Items
         /\ \A i \in LoadedItems : i.url \in Present
         /\ \A i, j \in LoadedItems : i.url = j.url => i = j
         /\ Requeued \in [Urls -> Row]
         /\ \A u \in Urls : (Requeued[u].state # "absent") = (u \in Present)
<1>1. Requeued \in [Urls -> Row]
  BY DEF StoreTypeOK, Requeued, Row
<1>2. \A u \in Urls : (Requeued[u].state # "absent") = (u \in Present)
  BY DEF StoreTypeOK, Requeued, Row, Present
<1>3. LoadedItems \subseteq Items
  BY <1>1 DEF LoadedItems, Items, Row
<1>4. \A i \in LoadedItems : i.url \in Present
  BY <1>2 DEF LoadedItems
<1>5. \A i, j \in LoadedItems : i.url = j.url => i = j
  BY DEF LoadedItems
<1> QED BY <1>1, <1>2, <1>3, <1>4, <1>5

LEMMA LoadedItemsFinite == IsFiniteSet(LoadedItems)
<1> DEFINE Q == {v \in Urls : Requeued[v].state = "queued"}
           f == [u \in Q |-> [url |-> u, depth |-> Requeued[u].depth,
                              seq |-> Requeued[u].seq]]
<1>1. IsFiniteSet(Q)
  BY FrontierAssumption, FS_Subset
<1>2. f \in Surjection(Q, LoadedItems)
  BY DEF LoadedItems, Surjection
<1> QED BY <1>1, <1>2, FS_Surjection

(* The type invariant, group of variables by group.                        *)
LEMMA Untouched ==
  /\ NotifyTypeOK /\ UNCHANGED notifyVars => NotifyTypeOK'
  /\ StoreTypeOK /\ UNCHANGED storeVars => StoreTypeOK'
  /\ MemTypeOK /\ UNCHANGED memVars => MemTypeOK'
  /\ TaskTypeOK /\ UNCHANGED taskVars => TaskTypeOK'
  /\ HistTypeOK /\ UNCHANGED histVars => HistTypeOK'
<1>1. NotifyTypeOK /\ UNCHANGED notifyVars => NotifyTypeOK'
  BY DEF NotifyTypeOK, notifyVars
<1>2. StoreTypeOK /\ UNCHANGED storeVars => StoreTypeOK'
  BY DEF StoreTypeOK, storeVars
<1>3. MemTypeOK /\ UNCHANGED memVars => MemTypeOK'
  BY DEF MemTypeOK, memVars
<1>4. TaskTypeOK /\ UNCHANGED taskVars => TaskTypeOK'
  BY DEF TaskTypeOK, taskVars
<1>5. HistTypeOK /\ UNCHANGED histVars => HistTypeOK'
  BY DEF HistTypeOK, histVars
<1> QED BY <1>1, <1>2, <1>3, <1>4, <1>5

LEMMA Typed ==
  ASSUME TypeOK
  PROVE  /\ pc \in [Procs -> WorkerPcs \cup MainPcs]
         /\ arg \in [Procs -> Items \cup {NoItem}]
         /\ held \in [Workers -> Items \cup {NoItem}]
         /\ todo \in [Workers -> SUBSET Urls]
         /\ ticket \in [Workers -> TicketStates]
         /\ queue \subseteq Items
         /\ pending \in Int /\ nextSeq \in Nat
         /\ seenTable \subseteq Urls /\ rows \in [Urls -> Row]
         /\ \A w \in Workers : w \in Procs
BY DEF TypeOK, PcTypeOK, TaskTypeOK, MemTypeOK, NotifyTypeOK, StoreTypeOK, Procs

(* A worker may go to any of its places, a task in try_push to the next    *)
(* step or back to its caller.                                             *)
LEMMA WorkerMoves ==
  ASSUME PcTypeOK, NEW w \in Workers, NEW l \in WorkerPcs, Goto(w, l)
  PROVE  PcTypeOK'
BY FrontierAssumption DEF PcTypeOK, Procs, Goto

LEMMA PushMoves ==
  ASSUME PcTypeOK, NEW p \in Procs, NEW l \in PushPcs \cup {AfterPush(p)}, Goto(p, l)
  PROVE  PcTypeOK'
<1>1. PushPcs \subseteq WorkerPcs /\ PushPcs \subseteq MainPcs
  BY DEF PushPcs, WorkerPcs, MainPcs
<1>2. AfterPush(p) \in IF p = Main THEN MainPcs ELSE WorkerPcs
  BY DEF AfterPush, WorkerPcs, MainPcs
<1> QED BY <1>1, <1>2, FrontierAssumption DEF PcTypeOK, Procs, Goto

(* What the calls made on Notify and on the store do to their types.       *)
LEMMA NotifyTyped ==
  ASSUME NotifyTypeOK
  PROVE  /\ NotifyOne => NotifyTypeOK'
         /\ NotifyWaiters => NotifyTypeOK'
         /\ \A w \in Workers : Notified(w) \/ Drop(w) \/ ConsumePermit(w) \/ Register(w)
                                => NotifyTypeOK'
<1>1. NotifyOne => NotifyTypeOK'
  BY DEF NotifyTypeOK, NotifyOne, Waiting, TicketStates
<1>2. NotifyWaiters => NotifyTypeOK'
  BY DEF NotifyTypeOK, NotifyWaiters, Released, TicketStates
<1>3. ASSUME NEW w \in Workers, Notified(w) \/ Drop(w) \/ ConsumePermit(w) \/ Register(w)
      PROVE  NotifyTypeOK'
  BY <1>3 DEF NotifyTypeOK, Notified, Drop, ConsumePermit, Register, TicketStates
<1> QED BY <1>1, <1>2, <1>3

LEMMA StoreTyped ==
  ASSUME StoreTypeOK
  PROVE  /\ \A u \in Urls : MarkSeen(u) \/ MarkInflight(u) \/ DeleteRow(u) => StoreTypeOK'
         /\ \A i \in Items : EnqueueRow(i) => StoreTypeOK'
<1>1. ASSUME NEW u \in Urls, MarkSeen(u) PROVE StoreTypeOK'
  BY <1>1 DEF StoreTypeOK, MarkSeen
<1>2. ASSUME NEW u \in Urls, MarkInflight(u) PROVE StoreTypeOK'
  BY <1>2 DEF StoreTypeOK, MarkInflight, Row
<1>3. ASSUME NEW u \in Urls, DeleteRow(u) PROVE StoreTypeOK'
  BY <1>3, FrontierAssumption DEF StoreTypeOK, DeleteRow, Absent, Row
<1>4. ASSUME NEW i \in Items, EnqueueRow(i) PROVE StoreTypeOK'
  BY <1>4, ItemsFacts DEF StoreTypeOK, EnqueueRow, Row
<1> QED BY <1>1, <1>2, <1>3, <1>4

LEMMA HandFacts ==
  ASSUME TypeOK, HandsMatch, NEW w \in Workers
  PROVE  /\ pc[w] \in HandPcs => held[w] \in Items
         /\ held[w] # NoItem => held[w] \in Items
         /\ pc[w] \in {"work", "got", "lease", "delete_row", "count_down"} => held[w] \in Items
<1>1. held[w] \in Items \cup {NoItem}
  BY DEF TypeOK, TaskTypeOK
<1>2. pc[w] \in HandPcs => held[w] # NoItem
  BY DEF HandsMatch
<1> QED BY <1>1, <1>2 DEF HandPcs

(* The steps of Next, one by one.                                          *)
LEMMA Steps ==
  ASSUME [Next]_vars
  PROVE  \/ \E p \in Procs :
              \/ PushDuplicate(p) \/ PushFresh(p) \/ PushSeen(p) \/ PushRow(p)
              \/ PushCount(p) \/ PushQueue(p) \/ PushNotify(p)
         \/ \E w \in Workers :
              \/ PopListen(w) \/ PopStopCheck(w) \/ PopTake(w) \/ PopEmpty(w)
              \/ PopLease(w) \/ PopPendingCheck(w) \/ PopAwait(w)
              \/ CompleteRow(w) \/ CompleteCount(w) \/ CompleteNotify(w)
              \/ StopSet(w) \/ StopNotify(w)
              \/ BeginPop(w) \/ BeginStop(w) \/ GiveUp(w) \/ Discover(w)
              \/ BeginPush(w) \/ BeginComplete(w)
         \/ SpawnWorkers \/ Restart \/ UNCHANGED vars
BY DEF Next, MainTask, Worker, TryPush, Pop, Complete, Stop, Client, Finished, Procs

(* What a task works on where.                                             *)
LEMMA ArgFacts ==
  ASSUME TypeOK, ArgsMatch, NEW p \in Procs, pc[p] \in PushPcs \ {"push_notify"}
  PROVE  arg[p] \in Items
BY Typed DEF ArgsMatch

LEMMA TypeInductive ==
  ASSUME Shape, [Next]_vars
  PROVE  TypeOK'
<1> USE FrontierAssumption, Untouched DEF TypeOK
<1>0. /\ TypeOK /\ ArgsMatch /\ HandsMatch /\ TodoMatches
      /\ Workers \subseteq Procs
  BY DEF Shape, Procs
<1>a. \A p \in Procs : {"push_seen", "push_row", "push_count", "push_queue", "push_notify"}
                          \subseteq PushPcs \cup {AfterPush(p)}
  BY DEF PushPcs
<1>b. \A w \in Workers : CompleteStart \in WorkerPcs /\ AfterComplete(w) \in WorkerPcs
  BY DEF CompleteStart, AfterComplete, WorkerPcs
<1>1. ASSUME NEW p \in Procs, PushDuplicate(p) PROVE TypeOK'
  <2>1. TaskTypeOK'
    BY <1>0, <1>1 DEF PushDuplicate, TaskTypeOK
  <2>2. PcTypeOK'
    BY <1>0, <1>1, PushMoves DEF PushDuplicate
  <2> QED BY <1>0, <1>1, <2>1, <2>2 DEF PushDuplicate
<1>2. ASSUME NEW p \in Procs, PushFresh(p) PROVE TypeOK'
  <2>1. arg[p] \in Items
    BY <1>0, <1>2, ArgFacts DEF PushFresh, PushPcs
  <2>2. MemTypeOK' /\ TaskTypeOK'
    BY <1>0, <1>2, <2>1 DEF PushFresh, Admit, MemTypeOK, TaskTypeOK, Items
  <2>3. PcTypeOK'
    BY <1>0, <1>2, <1>a, PushMoves DEF PushFresh, Admit
  <2> QED BY <1>0, <1>2, <2>2, <2>3 DEF PushFresh, Admit
<1>3. ASSUME NEW p \in Procs, PushSeen(p) PROVE TypeOK'
  <2>1. arg[p] \in Items
    BY <1>0, <1>3, ArgFacts DEF PushSeen, PushPcs
  <2>2. StoreTypeOK'
    BY <1>0, <1>3, <2>1, ItemsFacts, StoreTyped DEF PushSeen
  <2>3. PcTypeOK'
    BY <1>0, <1>3, <1>a, PushMoves DEF PushSeen
  <2> QED BY <1>0, <1>3, <2>2, <2>3 DEF PushSeen
<1>4. ASSUME NEW p \in Procs, PushRow(p) PROVE TypeOK'
  <2>1. arg[p] \in Items
    BY <1>0, <1>4, ArgFacts DEF PushRow, PushPcs
  <2>2. StoreTypeOK'
    BY <1>0, <1>4, <2>1, StoreTyped DEF PushRow
  <2>3. PcTypeOK'
    BY <1>0, <1>4, <1>a, PushMoves DEF PushRow
  <2> QED BY <1>0, <1>4, <2>2, <2>3 DEF PushRow
<1>5. ASSUME NEW p \in Procs, PushCount(p) PROVE TypeOK'
  <2>1. MemTypeOK'
    BY <1>0, <1>5 DEF PushCount, MemTypeOK
  <2>2. PcTypeOK'
    BY <1>0, <1>5, <1>a, PushMoves DEF PushCount
  <2> QED BY <1>0, <1>5, <2>1, <2>2 DEF PushCount
<1>6. ASSUME NEW p \in Procs, PushQueue(p) PROVE TypeOK'
  <2>1. arg[p] \in Items
    BY <1>0, <1>6, ArgFacts DEF PushQueue, PushPcs
  <2>2. MemTypeOK' /\ TaskTypeOK'
    BY <1>0, <1>6, <2>1 DEF PushQueue, MemTypeOK, TaskTypeOK
  <2>3. PcTypeOK'
    BY <1>0, <1>6, <1>a, PushMoves DEF PushQueue
  <2> QED BY <1>0, <1>6, <2>2, <2>3 DEF PushQueue
<1>7. ASSUME NEW p \in Procs, PushNotify(p) PROVE TypeOK'
  <2>1. PcTypeOK'
    BY <1>0, <1>7, PushMoves DEF PushNotify
  <2> QED BY <1>0, <1>7, <2>1, NotifyTyped DEF PushNotify
<1>8. ASSUME NEW w \in Workers, PopListen(w) PROVE TypeOK'
  <2>1. PcTypeOK'
    BY <1>0, <1>8, <1>b, WorkerMoves DEF PopListen, WorkerPcs
  <2> QED BY <1>0, <1>8, <2>1, NotifyTyped DEF PopListen
<1>9. ASSUME NEW w \in Workers, PopStopCheck(w) PROVE TypeOK'
  <2>1. PcTypeOK'
    BY <1>0, <1>9, <1>b, WorkerMoves DEF PopStopCheck, WorkerPcs
  <2> QED BY <1>0, <1>9, <2>1, NotifyTyped DEF PopStopCheck
<1>10. ASSUME NEW w \in Workers, PopTake(w) PROVE TypeOK'
  <2>1. MemTypeOK' /\ TaskTypeOK'
    BY <1>0, <1>10 DEF PopTake, MemTypeOK, TaskTypeOK
  <2>2. PcTypeOK'
    BY <1>0, <1>10, WorkerMoves DEF PopTake, WorkerPcs
  <2> QED BY <1>0, <1>10, <2>1, <2>2, NotifyTyped DEF PopTake
<1>11. ASSUME NEW w \in Workers, PopEmpty(w) PROVE TypeOK'
  <2>1. PcTypeOK'
    BY <1>0, <1>11, <1>b, WorkerMoves DEF PopEmpty, WorkerPcs
  <2> QED BY <1>0, <1>11, <2>1 DEF PopEmpty
<1>12. ASSUME NEW w \in Workers, PopLease(w) PROVE TypeOK'
  <2>1. held[w].url \in Urls
    BY <1>0, <1>12, HandFacts, ItemsFacts DEF PopLease
  <2>2. PcTypeOK'
    BY <1>0, <1>12, WorkerMoves DEF PopLease, WorkerPcs
  <2> QED BY <1>0, <1>12, <2>1, <2>2, StoreTyped DEF PopLease
<1>13. ASSUME NEW w \in Workers, PopPendingCheck(w) PROVE TypeOK'
  <2>1. PcTypeOK'
    BY <1>0, <1>13, <1>b, WorkerMoves DEF PopPendingCheck, WorkerPcs
  <2> QED BY <1>0, <1>13, <2>1, NotifyTyped DEF PopPendingCheck
<1>14. ASSUME NEW w \in Workers, PopAwait(w) PROVE TypeOK'
  <2>1. PcTypeOK'
    BY <1>0, <1>14, WorkerMoves DEF PopAwait, WorkerPcs, PcTypeOK
  <2> QED BY <1>0, <1>14, <2>1, NotifyTyped DEF PopAwait
<1>15. ASSUME NEW w \in Workers, CompleteRow(w) PROVE TypeOK'
  <2>1. held[w].url \in Urls
    BY <1>0, <1>15, HandFacts, ItemsFacts DEF CompleteRow
  <2>2. StoreTypeOK' /\ HistTypeOK'
    BY <1>0, <1>15, <2>1, StoreTyped DEF CompleteRow, HistTypeOK
  <2>3. PcTypeOK'
    BY <1>0, <1>15, WorkerMoves DEF CompleteRow, WorkerPcs
  <2> QED BY <1>0, <1>15, <2>2, <2>3 DEF CompleteRow
<1>16. ASSUME NEW w \in Workers, CompleteCount(w) PROVE TypeOK'
  <2>1. MemTypeOK' /\ TaskTypeOK'
    BY <1>0, <1>16 DEF CompleteCount, CountDown, MemTypeOK, TaskTypeOK
  <2>2. PcTypeOK'
    BY <1>0, <1>16, <1>b, WorkerMoves DEF CompleteCount, CountDown, WorkerPcs
  <2> QED BY <1>0, <1>16, <2>1, <2>2 DEF CompleteCount, CountDown
<1>17. ASSUME NEW w \in Workers, CompleteNotify(w) PROVE TypeOK'
  <2>1. PcTypeOK'
    BY <1>0, <1>17, <1>b, WorkerMoves DEF CompleteNotify, WorkerPcs
  <2> QED BY <1>0, <1>17, <2>1, NotifyTyped DEF CompleteNotify
<1>18. ASSUME NEW w \in Workers, StopSet(w) PROVE TypeOK'
  <2>1. MemTypeOK'
    BY <1>0, <1>18 DEF StopSet, MemTypeOK
  <2>2. PcTypeOK'
    BY <1>0, <1>18, WorkerMoves DEF StopSet, WorkerPcs
  <2> QED BY <1>0, <1>18, <2>1, <2>2 DEF StopSet
<1>19. ASSUME NEW w \in Workers, StopNotify(w) PROVE TypeOK'
  <2>1. PcTypeOK'
    BY <1>0, <1>19, <1>b, WorkerMoves DEF StopNotify, WorkerPcs
  <2> QED BY <1>0, <1>19, <2>1, NotifyTyped DEF StopNotify
<1>20. ASSUME NEW w \in Workers, BeginPop(w) PROVE TypeOK'
  <2>1. PcTypeOK'
    BY <1>0, <1>20, <1>b, WorkerMoves DEF BeginPop, WorkerPcs
  <2> QED BY <1>0, <1>20, <2>1 DEF BeginPop
<1>21. ASSUME NEW w \in Workers, BeginStop(w) PROVE TypeOK'
  <2>1. TaskTypeOK'
    BY <1>0, <1>21 DEF BeginStop, TaskTypeOK
  <2>2. PcTypeOK'
    BY <1>0, <1>21, WorkerMoves DEF BeginStop, WorkerPcs
  <2> QED BY <1>0, <1>21, <2>1, <2>2 DEF BeginStop
<1>22. ASSUME NEW w \in Workers, GiveUp(w) PROVE TypeOK'
  <2>1. PcTypeOK'
    BY <1>0, <1>22, <1>b, WorkerMoves DEF GiveUp, WorkerPcs
  <2> QED BY <1>0, <1>22, <2>1 DEF GiveUp
<1>23. ASSUME NEW w \in Workers, Discover(w) PROVE TypeOK'
  <2>1. held[w].url \in Urls
    BY <1>0, <1>23, HandFacts, ItemsFacts DEF Discover
  <2>2. TaskTypeOK'
    BY <1>0, <1>23, <2>1 DEF Discover, TaskTypeOK
  <2>3. PcTypeOK'
    BY <1>0, <1>23, WorkerMoves DEF Discover, WorkerPcs
  <2> QED BY <1>0, <1>23, <2>2, <2>3 DEF Discover
<1>24. ASSUME NEW w \in Workers, BeginPush(w) PROVE TypeOK'
  <2>1. held[w] \in Items
    BY <1>0, <1>24, HandFacts DEF BeginPush
  <2>2. PICK u \in todo[w] :
          /\ todo' = [todo EXCEPT ![w] = @ \ {u}]
          /\ arg' = [arg EXCEPT ![w] =
                       [url |-> u, depth |-> held[w].depth + 1, seq |-> 0]]
    BY <1>24 DEF BeginPush
  <2>3. u \in Urls /\ held[w].depth < MaxDepth
    BY <1>0, <2>2 DEF TaskTypeOK, TodoMatches
  <2>4. [url |-> u, depth |-> held[w].depth + 1, seq |-> 0] \in Items
    BY <2>1, <2>3 DEF Items
  <2>5. TaskTypeOK'
    BY <1>0, <1>24, <2>2, <2>4 DEF BeginPush, TaskTypeOK
  <2>6. PcTypeOK'
    BY <1>0, <1>24, WorkerMoves DEF BeginPush, WorkerPcs
  <2> QED BY <1>0, <1>24, <2>5, <2>6 DEF BeginPush
<1>25. ASSUME NEW w \in Workers, BeginComplete(w) PROVE TypeOK'
  <2>1. held[w].url \in Urls
    BY <1>0, <1>25, HandFacts, ItemsFacts DEF BeginComplete
  <2>2. HistTypeOK'
    BY <1>0, <1>25, <2>1 DEF BeginComplete, MarkCrawled, HistTypeOK
  <2>3. PcTypeOK'
    BY <1>0, <1>25, <1>b, WorkerMoves DEF BeginComplete, MarkCrawled
  <2> QED BY <1>0, <1>25, <2>2, <2>3 DEF BeginComplete, MarkCrawled
<1>26. CASE SpawnWorkers
  <2>1. PcTypeOK'
    BY <1>26 DEF SpawnWorkers, PcTypeOK, WorkerPcs, MainPcs, Procs
  <2> QED BY <1>0, <1>26, <2>1 DEF SpawnWorkers
<1>27. CASE Restart
  <2>1. LoadedItems \subseteq Items /\ Requeued \in [Urls -> Row]
    BY <1>0, LoadedItemsFacts
  <2>2. NotifyTypeOK' /\ StoreTypeOK'
    BY <1>0, <1>27, <2>1 DEF Restart, NotifyTypeOK, StoreTypeOK, TicketStates
  <2>3. pending' \in Int /\ nextSeq' \in Nat
    <3>1. pending' \in Int
      BY <1>27, LoadedItemsFinite, FS_CardinalityType DEF Restart
    <3>2. nextSeq' \in Nat
      BY <1>27, <2>1, ItemsFacts DEF Restart, MaxSeqs
    <3> QED BY <3>1, <3>2
  <2>4. MemTypeOK'
    BY <1>0, <1>27, <2>1, <2>3 DEF Restart, MemTypeOK, LoadedSeen, StoreTypeOK
  <2>5. PcTypeOK'
    BY <1>27 DEF Restart, PcTypeOK, Procs, WorkerPcs, MainPcs
  <2>6. SeedItem \in Items
    BY DEF SeedItem, Items
  <2>7. TaskTypeOK' /\ HistTypeOK'
    BY <1>0, <1>27, <2>6 DEF Restart, TaskTypeOK, HistTypeOK
  <2> QED BY <2>2, <2>4, <2>5, <2>7
<1>28. CASE UNCHANGED vars
  BY <1>0, <1>28 DEF vars, PcTypeOK
<1> QED
  BY <1>1, <1>2, <1>3, <1>4, <1>5, <1>6, <1>7, <1>8, <1>9, <1>10, <1>11, <1>12,
     <1>13, <1>14, <1>15, <1>16, <1>17, <1>18, <1>19, <1>20, <1>21, <1>22, <1>23,
     <1>24, <1>25, <1>26, <1>27, <1>28, Steps

(* Where a task stands says what it has in hand.                           *)
TasksMatch == /\ ArgsMatch /\ HandsMatch /\ TodoMatches
              /\ MainFirst /\ LeaversStop

LEMMA TasksInductive ==
  ASSUME Shape, [Next]_vars
  PROVE  TasksMatch'
<1> USE FrontierAssumption DEF TasksMatch, ArgsMatch, HandsMatch, TodoMatches, MainFirst,
        LeaversStop, PushPcs, HandPcs, EmptyPcs, Procs,
        Goto, AfterPush, AfterComplete, CompleteStart, memVars, taskVars
<1>0. /\ pc \in [Procs -> WorkerPcs \cup MainPcs]
      /\ arg \in [Procs -> Items \cup {NoItem}]
      /\ held \in [Workers -> Items \cup {NoItem}]
      /\ todo \in [Workers -> SUBSET Urls]
      /\ TasksMatch
  BY Typed DEF Shape
<1>1. ASSUME NEW p \in Procs, PushDuplicate(p) PROVE TasksMatch'
  BY <1>0, <1>1 DEF PushDuplicate
<1>2. ASSUME NEW p \in Procs, PushFresh(p) PROVE TasksMatch'
  <2>1. arg[p] \in Items
    BY <1>0, <1>2 DEF PushFresh
  <2>2. [arg[p] EXCEPT !.seq = nextSeq] # NoItem
    <3>1. nextSeq \in Nat
      BY Typed DEF Shape
    <3>2. [arg[p] EXCEPT !.seq = nextSeq] \in Items
      BY <2>1, <3>1 DEF Items
    <3> QED BY <3>2, ItemsFacts
  <2>3. arg' = [arg EXCEPT ![p] = [arg[p] EXCEPT !.seq = nextSeq]]
    BY <1>2 DEF PushFresh, Admit
  <2> QED BY <1>0, <1>2, <2>2, <2>3 DEF PushFresh, Admit
<1>3. ASSUME NEW p \in Procs, PushSeen(p) PROVE TasksMatch'
  BY <1>0, <1>3 DEF PushSeen
<1>4. ASSUME NEW p \in Procs, PushRow(p) PROVE TasksMatch'
  BY <1>0, <1>4 DEF PushRow
<1>5. ASSUME NEW p \in Procs, PushCount(p) PROVE TasksMatch'
  BY <1>0, <1>5 DEF PushCount
<1>6. ASSUME NEW p \in Procs, PushQueue(p) PROVE TasksMatch'
  BY <1>0, <1>6 DEF PushQueue
<1>7. ASSUME NEW p \in Procs, PushNotify(p) PROVE TasksMatch'
  BY <1>0, <1>7 DEF PushNotify
<1>8. ASSUME NEW w \in Workers, PopListen(w) PROVE TasksMatch'
  BY <1>0, <1>8 DEF PopListen
<1>9. ASSUME NEW w \in Workers, PopStopCheck(w) PROVE TasksMatch'
  BY <1>0, <1>9 DEF PopStopCheck
<1>10. ASSUME NEW w \in Workers, PopTake(w) PROVE TasksMatch'
  <2>1. PICK i \in queue : held' = [held EXCEPT ![w] = i]
    BY <1>10 DEF PopTake
  <2>2. i # NoItem
    BY <2>1, Typed, ItemsFacts DEF Shape
  <2> QED BY <1>0, <1>10, <2>1, <2>2 DEF PopTake
<1>11. ASSUME NEW w \in Workers, PopEmpty(w) PROVE TasksMatch'
  BY <1>0, <1>11 DEF PopEmpty
<1>12. ASSUME NEW w \in Workers, PopLease(w) PROVE TasksMatch'
  BY <1>0, <1>12 DEF PopLease
<1>13. ASSUME NEW w \in Workers, PopPendingCheck(w) PROVE TasksMatch'
  BY <1>0, <1>13 DEF PopPendingCheck
<1>14. ASSUME NEW w \in Workers, PopAwait(w) PROVE TasksMatch'
  BY <1>0, <1>14 DEF PopAwait
<1>15. ASSUME NEW w \in Workers, CompleteRow(w) PROVE TasksMatch'
  BY <1>0, <1>15 DEF CompleteRow
<1>16. ASSUME NEW w \in Workers, CompleteCount(w) PROVE TasksMatch'
  BY <1>0, <1>16 DEF CompleteCount, CountDown
<1>17. ASSUME NEW w \in Workers, CompleteNotify(w) PROVE TasksMatch'
  BY <1>0, <1>17 DEF CompleteNotify
<1>18. ASSUME NEW w \in Workers, StopSet(w) PROVE TasksMatch'
  BY <1>0, <1>18 DEF StopSet
<1>19. ASSUME NEW w \in Workers, StopNotify(w) PROVE TasksMatch'
  BY <1>0, <1>19 DEF StopNotify
<1>20. ASSUME NEW w \in Workers, BeginPop(w) PROVE TasksMatch'
  BY <1>0, <1>20 DEF BeginPop
<1>21. ASSUME NEW w \in Workers, BeginStop(w) PROVE TasksMatch'
  BY <1>0, <1>21 DEF BeginStop
<1>22. ASSUME NEW w \in Workers, GiveUp(w) PROVE TasksMatch'
  BY <1>0, <1>22 DEF GiveUp
<1>23. ASSUME NEW w \in Workers, Discover(w) PROVE TasksMatch'
  BY <1>0, <1>23 DEF Discover
<1>24. ASSUME NEW w \in Workers, BeginPush(w) PROVE TasksMatch'
  <2>1. PICK u \in todo[w] :
          /\ todo' = [todo EXCEPT ![w] = @ \ {u}]
          /\ arg' = [arg EXCEPT ![w] =
                       [url |-> u, depth |-> held[w].depth + 1, seq |-> 0]]
    BY <1>24 DEF BeginPush
  <2>2. held[w] \in Items /\ held[w].depth < MaxDepth /\ u \in Urls
    BY <1>0, <1>24, <2>1 DEF BeginPush
  <2>3. [url |-> u, depth |-> held[w].depth + 1, seq |-> 0] # NoItem
    <3>1. [url |-> u, depth |-> held[w].depth + 1, seq |-> 0] \in Items
      BY <2>2 DEF Items
    <3> QED BY <3>1, ItemsFacts
  <2> QED BY <1>0, <1>24, <2>1, <2>2, <2>3 DEF BeginPush
<1>25. ASSUME NEW w \in Workers, BeginComplete(w) PROVE TasksMatch'
  BY <1>0, <1>25 DEF BeginComplete, MarkCrawled
<1>26. CASE SpawnWorkers
  BY <1>0, <1>26 DEF SpawnWorkers
<1>27. CASE Restart
  <2>1. SeedItem # NoItem
    <3>1. SeedItem \in Items
      BY DEF SeedItem, Items
    <3> QED BY <3>1, ItemsFacts
  <2> QED BY <1>27, <2>1 DEF Restart
<1>28. CASE UNCHANGED vars
  BY <1>0, <1>28 DEF vars
<1> QED
  BY <1>1, <1>2, <1>3, <1>4, <1>5, <1>6, <1>7, <1>8, <1>9, <1>10, <1>11, <1>12,
     <1>13, <1>14, <1>15, <1>16, <1>17, <1>18, <1>19, <1>20, <1>21, <1>22, <1>23,
     <1>24, <1>25, <1>26, <1>27, <1>28, Steps

(* No row without a seen mark: try_push writes the mark first, and nothing *)
(* takes one back.                                                         *)
LEMMA RowsInductive ==
  ASSUME Shape, [Next]_vars
  PROVE  RowsSeen'
<1> USE FrontierAssumption DEF RowsSeen, Present
<1>0. /\ pc \in [Procs -> WorkerPcs \cup MainPcs]
      /\ arg \in [Procs -> Items \cup {NoItem}]
      /\ rows \in [Urls -> Row]
      /\ RowsSeen
  BY Typed DEF Shape
<1>a. ASSUME NEW p \in Procs, NEW l, l # "push_row", Goto(p, l), UNCHANGED storeVars,
             \A q \in Procs \ {p} : arg'[q] = arg[q]
      PROVE  RowsSeen'
  BY <1>0, <1>a DEF Goto, storeVars
<1>1. ASSUME NEW p \in Procs, PushDuplicate(p) PROVE RowsSeen'
  BY <1>0, <1>1, <1>a DEF PushDuplicate, Procs, taskVars, AfterPush
<1>2. ASSUME NEW p \in Procs, PushFresh(p) PROVE RowsSeen'
  BY <1>0, <1>2, <1>a DEF PushFresh, Procs, taskVars, Admit
<1>3. ASSUME NEW p \in Procs, PushSeen(p) PROVE RowsSeen'
  <2>1. UNCHANGED <<arg, rows>> /\ seenTable \subseteq seenTable'
    BY <1>3 DEF PushSeen, MarkSeen, taskVars, storeVars
  <2>2. \A q \in Procs : pc'[q] = "push_row" => pc[q] = "push_row" \/ arg[q].url \in seenTable'
    BY <1>0, <1>3 DEF PushSeen, MarkSeen, Goto
  <2> QED BY <1>0, <2>1, <2>2
<1>4. ASSUME NEW p \in Procs, PushRow(p) PROVE RowsSeen'
  <2>1. /\ UNCHANGED <<arg, seenTable>>
        /\ \A u \in Urls \ {arg[p].url} : rows'[u] = rows[u]
    BY <1>0, <1>4 DEF PushRow, EnqueueRow, taskVars, storeVars
  <2>2. arg[p].url \in seenTable
    BY <1>0, <1>4 DEF PushRow
  <2>3. \A q \in Procs : pc'[q] = "push_row" => pc[q] = "push_row"
    BY <1>0, <1>4 DEF PushRow, Goto
  <2> QED BY <1>0, <2>1, <2>2, <2>3
<1>5. ASSUME NEW p \in Procs, PushCount(p) PROVE RowsSeen'
  BY <1>0, <1>5, <1>a DEF PushCount, Procs, taskVars
<1>6. ASSUME NEW p \in Procs, PushQueue(p) PROVE RowsSeen'
  BY <1>0, <1>6, <1>a DEF PushQueue, Procs, taskVars
<1>7. ASSUME NEW p \in Procs, PushNotify(p) PROVE RowsSeen'
  BY <1>0, <1>7, <1>a DEF PushNotify, Procs, taskVars, AfterPush
<1>8. ASSUME NEW w \in Workers, PopListen(w) PROVE RowsSeen'
  BY <1>0, <1>8, <1>a DEF PopListen, Procs, taskVars
<1>9. ASSUME NEW w \in Workers, PopStopCheck(w) PROVE RowsSeen'
  BY <1>0, <1>9, <1>a DEF PopStopCheck, Procs, taskVars
<1>10. ASSUME NEW w \in Workers, PopTake(w) PROVE RowsSeen'
  BY <1>0, <1>10, <1>a DEF PopTake, Procs, taskVars
<1>11. ASSUME NEW w \in Workers, PopEmpty(w) PROVE RowsSeen'
  BY <1>0, <1>11, <1>a DEF PopEmpty, Procs, taskVars
<1>12. ASSUME NEW w \in Workers, PopLease(w) PROVE RowsSeen'
  <2>1. /\ UNCHANGED <<arg, seenTable>>
        /\ \A u \in Urls : rows'[u].state # "absent" => rows[u].state # "absent"
    BY <1>0, <1>12 DEF PopLease, MarkInflight, taskVars, storeVars, Row
  <2>2. \A q \in Procs : pc'[q] = "push_row" => pc[q] = "push_row"
    BY <1>0, <1>12 DEF PopLease, Goto
  <2> QED BY <1>0, <2>1, <2>2
<1>13. ASSUME NEW w \in Workers, PopPendingCheck(w) PROVE RowsSeen'
  BY <1>0, <1>13, <1>a DEF PopPendingCheck, Procs, taskVars
<1>14. ASSUME NEW w \in Workers, PopAwait(w) PROVE RowsSeen'
  BY <1>0, <1>14 DEF PopAwait, Goto, storeVars, taskVars
<1>15. ASSUME NEW w \in Workers, CompleteRow(w) PROVE RowsSeen'
  <2>1. /\ UNCHANGED <<arg, seenTable>>
        /\ \A u \in Urls : rows'[u] = rows[u] \/ rows'[u] = Absent
    BY <1>0, <1>15 DEF CompleteRow, DeleteRow, taskVars, storeVars
  <2>2. \A q \in Procs : pc'[q] = "push_row" => pc[q] = "push_row"
    BY <1>0, <1>15 DEF CompleteRow, Goto
  <2> QED BY <1>0, <2>1, <2>2 DEF Absent
<1>16. ASSUME NEW w \in Workers, CompleteCount(w) PROVE RowsSeen'
  BY <1>0, <1>16, <1>a DEF CompleteCount, Procs, taskVars, CountDown, AfterComplete
<1>17. ASSUME NEW w \in Workers, CompleteNotify(w) PROVE RowsSeen'
  BY <1>0, <1>17, <1>a DEF CompleteNotify, Procs, taskVars, AfterComplete
<1>18. ASSUME NEW w \in Workers, StopSet(w) PROVE RowsSeen'
  BY <1>0, <1>18, <1>a DEF StopSet, Procs, taskVars
<1>19. ASSUME NEW w \in Workers, StopNotify(w) PROVE RowsSeen'
  BY <1>0, <1>19, <1>a DEF StopNotify, Procs, taskVars, CompleteStart
<1>20. ASSUME NEW w \in Workers, BeginPop(w) PROVE RowsSeen'
  BY <1>0, <1>20, <1>a DEF BeginPop, Procs, taskVars
<1>21. ASSUME NEW w \in Workers, BeginStop(w) PROVE RowsSeen'
  BY <1>0, <1>21, <1>a DEF BeginStop, Procs, taskVars
<1>22. ASSUME NEW w \in Workers, GiveUp(w) PROVE RowsSeen'
  BY <1>0, <1>22, <1>a DEF GiveUp, Procs, taskVars, CompleteStart
<1>23. ASSUME NEW w \in Workers, Discover(w) PROVE RowsSeen'
  BY <1>0, <1>23, <1>a DEF Discover, Procs, taskVars
<1>24. ASSUME NEW w \in Workers, BeginPush(w) PROVE RowsSeen'
  BY <1>0, <1>24, <1>a DEF BeginPush, Procs, taskVars
<1>25. ASSUME NEW w \in Workers, BeginComplete(w) PROVE RowsSeen'
  BY <1>0, <1>25, <1>a DEF BeginComplete, Procs, taskVars, MarkCrawled, CompleteStart
<1>26. CASE SpawnWorkers
  BY <1>0, <1>26 DEF SpawnWorkers, storeVars, taskVars
<1>27. CASE Restart
  <2>1. \A u \in Urls : (rows'[u].state # "absent") = (rows[u].state # "absent")
    BY <1>27, LoadedItemsFacts DEF Restart, Shape, TypeOK
  <2>2. UNCHANGED seenTable /\ \A p \in Procs : pc'[p] # "push_row"
    BY <1>27 DEF Restart
  <2> QED BY <1>0, <2>1, <2>2
<1>28. CASE UNCHANGED vars
  BY <1>0, <1>28 DEF vars, storeVars, taskVars
<1> QED
  BY <1>1, <1>2, <1>3, <1>4, <1>5, <1>6, <1>7, <1>8, <1>9, <1>10, <1>11, <1>12,
     <1>13, <1>14, <1>15, <1>16, <1>17, <1>18, <1>19, <1>20, <1>21, <1>22, <1>23,
     <1>24, <1>25, <1>26, <1>27, <1>28, Steps

LEMMA ShapeInductive == Shape /\ [Next]_vars => Shape'
BY TypeInductive, TasksInductive, RowsInductive DEF Shape, TasksMatch

(* Most steps move no item: only six kinds of step do.                     *)
Queueing == {p \in Procs : pc[p] = "push_queue"}

Quiet == /\ queue' = queue /\ held' = held
         /\ visited' = visited /\ pending' = pending
         /\ Pushing' = Pushing /\ Queueing' = Queueing
         /\ \A p \in Pushing : arg'[p] = arg[p]

LEMMA StepKinds ==
  ASSUME Shape, [Next]_vars
  PROVE  \/ Quiet
         \/ \E p \in Procs : PushFresh(p) \/ PushCount(p) \/ PushQueue(p)
         \/ \E w \in Workers : PopTake(w) \/ CompleteCount(w)
         \/ Restart
<1> USE FrontierAssumption
<1> USE DEF Quiet, Pushing, Queueing, Procs, Goto, AfterPush, AfterComplete,
            CompleteStart, memVars, taskVars
<1>0. pc \in [Procs -> WorkerPcs \cup MainPcs] /\ arg \in [Procs -> Items \cup {NoItem}]
  BY Typed DEF Shape
<1>1. ASSUME NEW p \in Procs, PushDuplicate(p) PROVE Quiet
  BY <1>0, <1>1 DEF PushDuplicate
<1>2. ASSUME NEW p \in Procs, PushSeen(p) PROVE Quiet
  BY <1>0, <1>2 DEF PushSeen
<1>3. ASSUME NEW p \in Procs, PushRow(p) PROVE Quiet
  BY <1>0, <1>3 DEF PushRow
<1>4. ASSUME NEW p \in Procs, PushNotify(p) PROVE Quiet
  BY <1>0, <1>4 DEF PushNotify
<1>5. ASSUME NEW w \in Workers, PopListen(w) PROVE Quiet
  BY <1>0, <1>5 DEF PopListen
<1>6. ASSUME NEW w \in Workers, PopStopCheck(w) PROVE Quiet
  BY <1>0, <1>6 DEF PopStopCheck
<1>7. ASSUME NEW w \in Workers, PopEmpty(w) PROVE Quiet
  BY <1>0, <1>7 DEF PopEmpty
<1>8. ASSUME NEW w \in Workers, PopLease(w) PROVE Quiet
  BY <1>0, <1>8 DEF PopLease
<1>9. ASSUME NEW w \in Workers, PopPendingCheck(w) PROVE Quiet
  BY <1>0, <1>9 DEF PopPendingCheck
<1>10. ASSUME NEW w \in Workers, PopAwait(w) PROVE Quiet
  BY <1>0, <1>10 DEF PopAwait
<1>11. ASSUME NEW w \in Workers, CompleteRow(w) PROVE Quiet
  BY <1>0, <1>11 DEF CompleteRow
<1>12. ASSUME NEW w \in Workers, CompleteNotify(w) PROVE Quiet
  BY <1>0, <1>12 DEF CompleteNotify
<1>13. ASSUME NEW w \in Workers, StopSet(w) PROVE Quiet
  BY <1>0, <1>13 DEF StopSet
<1>14. ASSUME NEW w \in Workers, StopNotify(w) PROVE Quiet
  BY <1>0, <1>14 DEF StopNotify
<1>15. ASSUME NEW w \in Workers, BeginPop(w) PROVE Quiet
  BY <1>0, <1>15 DEF BeginPop
<1>16. ASSUME NEW w \in Workers, BeginStop(w) PROVE Quiet
  BY <1>0, <1>16 DEF BeginStop
<1>17. ASSUME NEW w \in Workers, GiveUp(w) PROVE Quiet
  BY <1>0, <1>17 DEF GiveUp
<1>18. ASSUME NEW w \in Workers, Discover(w) PROVE Quiet
  BY <1>0, <1>18 DEF Discover
<1>19. ASSUME NEW w \in Workers, BeginPush(w) PROVE Quiet
  BY <1>0, <1>19 DEF BeginPush
<1>20. ASSUME NEW w \in Workers, BeginComplete(w) PROVE Quiet
  BY <1>0, <1>20 DEF BeginComplete, MarkCrawled
<1>21. CASE SpawnWorkers
  <2>1. \A w \in Workers : pc[w] = "off"
    BY <1>21 DEF SpawnWorkers, Shape, MainFirst
  <2> QED BY <1>0, <1>21, <2>1 DEF SpawnWorkers
<1>22. CASE UNCHANGED vars
  BY <1>22 DEF vars
<1> QED
  BY <1>1, <1>2, <1>3, <1>4, <1>5, <1>6, <1>7, <1>8, <1>9, <1>10, <1>11, <1>12,
     <1>13, <1>14, <1>15, <1>16, <1>17, <1>18, <1>19, <1>20, <1>21, <1>22, Steps

LEMMA ShapeArgs ==
  ASSUME Shape
  PROVE  /\ \A p \in Procs : pc[p] \in PushPcs \ {"push_notify"} => arg[p] \in Items
         /\ \A w \in Holding : held[w] \in Items
         /\ queue \subseteq Items
         /\ Pushing \subseteq Procs /\ Holding \subseteq Workers
         /\ Outstanding \subseteq Items
<1>1. /\ \A p \in Procs : arg[p] \in Items \cup {NoItem}
      /\ \A w \in Workers : held[w] \in Items \cup {NoItem}
      /\ queue \subseteq Items
  BY Typed DEF Shape
<1>2. \A p \in Procs : pc[p] \in PushPcs \ {"push_notify"} => arg[p] \in Items
  BY <1>1 DEF Shape, ArgsMatch
<1>3. \A w \in Holding : held[w] \in Items
  BY <1>1 DEF Holding
<1>4. \A p \in Procs : pc[p] = "push_queue" => arg[p] \in Items
  BY <1>2 DEF PushPcs
<1> QED BY <1>1, <1>2, <1>3, <1>4 DEF Pushing, Holding, Outstanding


LEMMA InPlayFacts ==
  ASSUME PlayVisited
  PROVE  /\ \A i \in queue : i.url \in visited
         /\ \A w \in Holding : held[w].url \in visited
         /\ \A p \in Pushing : arg[p].url \in visited
BY DEF PlayVisited, InPlay, Outstanding

LEMMA PlayInductive ==
  ASSUME Shape, PlayVisited, AtMostOnce, [Next]_vars
  PROVE  PlayVisited' /\ AtMostOnce'
<1> USE FrontierAssumption
<1>0. /\ pc \in [Procs -> WorkerPcs \cup MainPcs]
      /\ arg \in [Procs -> Items \cup {NoItem}]
      /\ held \in [Workers -> Items \cup {NoItem}]
      /\ \A w \in Workers : w \in Procs
  BY Typed DEF Shape
<1>1. CASE Quiet
  <2>1. Holding' = Holding /\ Outstanding' = Outstanding /\ InPlay' = InPlay
    <3>1. Queueing \subseteq Pushing
      BY DEF Queueing, Pushing
    <3>2. {arg'[p] : p \in Queueing'} = {arg[p] : p \in Queueing}
      BY <1>1, <3>1 DEF Quiet
    <3>3. Holding' = Holding
      BY <1>1 DEF Quiet, Holding
    <3>4. Outstanding' = Outstanding
      BY <1>1, <3>2, <3>3 DEF Quiet, Outstanding, Queueing
    <3> QED BY <1>1, <3>3, <3>4 DEF Quiet, InPlay
  <2> QED BY <1>1, <2>1 DEF Quiet, PlayVisited, AtMostOnce
<1>2. ASSUME NEW p \in Procs, PushFresh(p) PROVE PlayVisited' /\ AtMostOnce'
  <2>1. arg[p] \in Items /\ arg[p].url \notin visited
    BY <1>2, ShapeArgs DEF PushFresh, PushPcs
  <2>2. /\ arg'[p].url = arg[p].url
        /\ \A q \in Procs \ {p} : arg'[q] = arg[q] /\ pc'[q] = pc[q]
        /\ pc'[p] \in {"push_seen", "push_count"}
        /\ visited' = visited \cup {arg[p].url}
        /\ queue' = queue /\ held' = held
    BY <1>0, <1>2, <2>1 DEF PushFresh, Admit, Goto, Items
  <2>3. Pushing' = Pushing \cup {p} /\ p \notin Pushing
    BY <1>0, <1>2, <2>2 DEF Pushing, PushFresh
  <2>4. Holding' = Holding
    BY <2>2 DEF Holding
  <2>5. \A q \in Procs : pc'[q] = "push_queue" => q # p /\ pc[q] = "push_queue" /\ arg'[q] = arg[q]
    BY <2>2
  <2>6. Outstanding' \subseteq Outstanding
    BY <2>2, <2>4, <2>5 DEF Outstanding
  <2>7. PlayVisited'
    BY <2>2, <2>3, <2>6 DEF PlayVisited, InPlay, Pushing
  <2>8. AtMostOnce'
    BY <2>1, <2>2, <2>3, <2>4, InPlayFacts DEF AtMostOnce, Pushing
  <2> QED BY <2>7, <2>8
<1>3. ASSUME NEW p \in Procs, PushCount(p) PROVE PlayVisited' /\ AtMostOnce'
  <2>1. /\ queue' = queue /\ held' = held /\ arg' = arg /\ visited' = visited
        /\ Pushing' = Pushing /\ Holding' = Holding
    BY <1>0, <1>3 DEF PushCount, Goto, taskVars, Pushing, Holding
  <2>2. InPlay' \subseteq InPlay
    BY <2>1 DEF InPlay, Outstanding, Pushing
  <2> QED BY <2>1, <2>2 DEF PlayVisited, AtMostOnce
<1>4. ASSUME NEW p \in Procs, PushQueue(p) PROVE PlayVisited' /\ AtMostOnce'
  <2>1. /\ queue' = queue \cup {arg[p]} /\ held' = held /\ visited' = visited
        /\ \A q \in Procs \ {p} : arg'[q] = arg[q] /\ pc'[q] = pc[q]
        /\ Holding' = Holding
    BY <1>0, <1>4 DEF PushQueue, Goto, Holding
  <2>2. Pushing' = Pushing \ {p} /\ p \in Pushing
    BY <1>0, <1>4, <2>1 DEF PushQueue, Goto, Pushing
  <2>3. InPlay' \subseteq InPlay
    BY <2>1, <2>2 DEF InPlay, Outstanding, Pushing
  <2>4. \A q \in Pushing' : q \in Pushing /\ q # p /\ arg'[q] = arg[q]
    BY <2>1, <2>2 DEF Pushing
  <2>5. \A q \in Pushing' : arg'[q].url # arg[p].url
    BY <2>2, <2>4 DEF AtMostOnce
  <2>6. AtMostOnce'
    BY <2>1, <2>2, <2>4, <2>5 DEF AtMostOnce
  <2> QED BY <2>1, <2>3, <2>6 DEF PlayVisited
<1>5. ASSUME NEW w \in Workers, PopTake(w) PROVE PlayVisited' /\ AtMostOnce'
  <2>1. PICK i \in queue : queue' = queue \ {i} /\ held' = [held EXCEPT ![w] = i]
    BY <1>5 DEF PopTake
  <2>2. i \in Items /\ i # NoItem
    BY <2>1, ShapeArgs, ItemsFacts
  <2>3. held[w] = NoItem
    BY <1>5 DEF PopTake, Shape, HandsMatch, EmptyPcs
  <2>4. /\ Holding' = Holding \cup {w} /\ w \notin Holding
        /\ \A v \in Holding : held'[v] = held[v]
        /\ held'[w] = i
    BY <1>0, <2>1, <2>2, <2>3 DEF Holding
  <2>5. Pushing' = Pushing /\ arg' = arg /\ visited' = visited
    BY <1>0, <1>5 DEF PopTake, Goto, Pushing
  <2>6. \A q \in Procs : pc'[q] = "push_queue" => pc[q] = "push_queue"
    BY <1>0, <1>5 DEF PopTake, Goto
  <2>7. InPlay' \subseteq InPlay
    BY <2>1, <2>4, <2>5, <2>6 DEF InPlay, Outstanding
  <2> QED BY <2>1, <2>4, <2>5, <2>7 DEF PlayVisited, AtMostOnce
<1>6. ASSUME NEW w \in Workers, CompleteCount(w) PROVE PlayVisited' /\ AtMostOnce'
  <2>1. /\ Holding' = Holding \ {w} /\ queue' = queue
        /\ \A v \in Workers \ {w} : held'[v] = held[v]
    BY <1>0, <1>6 DEF CompleteCount, CountDown, Holding
  <2>2. Pushing' = Pushing /\ arg' = arg /\ visited' = visited
    BY <1>0, <1>6 DEF CompleteCount, CountDown, Goto, AfterComplete, Pushing
  <2>3. \A q \in Procs : pc'[q] = "push_queue" => pc[q] = "push_queue"
    BY <1>0, <1>6 DEF CompleteCount, CountDown, Goto, AfterComplete
  <2>4. Holding \subseteq Workers
    BY DEF Holding
  <2>5. InPlay' \subseteq InPlay
    BY <2>1, <2>2, <2>3, <2>4 DEF InPlay, Outstanding
  <2> QED BY <2>1, <2>2, <2>4, <2>5 DEF PlayVisited, AtMostOnce
<1>7. CASE Restart
  <2>1. queue' = LoadedItems /\ visited' = seenTable
    BY <1>7 DEF Restart, LoadedSeen
  <2>2. Holding' = {} /\ Pushing' = {} /\ {q \in Procs : pc'[q] = "push_queue"} = {}
    BY <1>7 DEF Restart, Holding, Pushing
  <2>3. Outstanding' = LoadedItems
    BY <2>1, <2>2 DEF Outstanding
  <2>4. \A i \in LoadedItems : i.url \in seenTable
    BY LoadedItemsFacts DEF Shape, TypeOK, RowsSeen
  <2>5. \A i, j \in LoadedItems : i.url = j.url => i = j
    BY LoadedItemsFacts DEF Shape, TypeOK
  <2>6. PlayVisited'
    BY <2>1, <2>2, <2>3, <2>4 DEF PlayVisited, InPlay
  <2> QED BY <2>1, <2>2, <2>5, <2>6 DEF AtMostOnce
<1> QED BY <1>1, <1>2, <1>3, <1>4, <1>5, <1>6, <1>7, StepKinds


(* Every step changes the outstanding items and `pending` alike.           *)
LEMMA CountInductive ==
  ASSUME Shape, PlayVisited, AtMostOnce, OutstandingFinite, PendingExact, [Next]_vars
  PROVE  OutstandingFinite' /\ PendingExact'
<1> USE FrontierAssumption
<1>0. /\ pc \in [Procs -> WorkerPcs \cup MainPcs]
      /\ arg \in [Procs -> Items \cup {NoItem}]
      /\ held \in [Workers -> Items \cup {NoItem}]
      /\ \A w \in Workers : w \in Procs
      /\ pending \in Int
  BY Typed DEF Shape
<1>1. ASSUME Outstanding' = Outstanding, pending' = pending
      PROVE  OutstandingFinite' /\ PendingExact'
  BY <1>1 DEF OutstandingFinite, PendingExact
<1>2. CASE Quiet
  <2>1. {arg'[p] : p \in Queueing'} = {arg[p] : p \in Queueing}
    BY <1>2 DEF Quiet, Queueing, Pushing
  <2>2. Holding' = Holding
    BY <1>2 DEF Quiet, Holding
  <2>3. Outstanding' = Outstanding /\ pending' = pending
    BY <1>2, <2>1, <2>2 DEF Quiet, Outstanding, Queueing
  <2> QED BY <1>1, <2>3
<1>3. ASSUME NEW p \in Procs, PushFresh(p)
      PROVE  OutstandingFinite' /\ PendingExact'
  <2>1. /\ \A q \in Procs \ {p} : arg'[q] = arg[q] /\ pc'[q] = pc[q]
        /\ pc'[p] # "push_queue" /\ pc[p] # "push_queue"
        /\ queue' = queue /\ held' = held /\ pending' = pending
    BY <1>0, <1>3 DEF PushFresh, Admit, Goto
  <2>2. Holding' = Holding /\ Queueing' = Queueing
    BY <2>1 DEF Holding, Queueing
  <2>3. {arg'[q] : q \in Queueing'} = {arg[q] : q \in Queueing}
    BY <2>1, <2>2 DEF Queueing
  <2>4. Outstanding' = Outstanding
    BY <2>1, <2>2, <2>3 DEF Outstanding, Queueing
  <2> QED BY <1>1, <2>1, <2>4
<1>4. ASSUME NEW p \in Procs, PushCount(p)
      PROVE  OutstandingFinite' /\ PendingExact'
  <2>1. /\ queue' = queue /\ held' = held /\ arg' = arg /\ pending' = pending + 1
        /\ Holding' = Holding /\ Queueing' = Queueing \cup {p}
    BY <1>0, <1>4 DEF PushCount, Goto, taskVars, Holding, Queueing
  <2>2. Outstanding' = Outstanding \cup {arg[p]}
    BY <2>1 DEF Outstanding, Queueing
  <2>3. p \in Pushing /\ p \notin Queueing
    BY <1>4 DEF PushCount, Pushing, Queueing
  <2>4. \A q \in Queueing : q \in Pushing /\ q # p
    BY <2>3 DEF Queueing, Pushing
  <2>5. arg[p] \notin Outstanding
    BY <2>3, <2>4 DEF AtMostOnce, Outstanding, Queueing
  <2>6. Cardinality(Outstanding') = Cardinality(Outstanding) + 1
    BY <2>2, <2>5, FS_AddElement DEF OutstandingFinite
  <2>7. IsFiniteSet(Outstanding')
    BY <2>2, FS_AddElement DEF OutstandingFinite
  <2> QED BY <2>1, <2>6, <2>7 DEF OutstandingFinite, PendingExact
<1>5. ASSUME NEW p \in Procs, PushQueue(p)
      PROVE  OutstandingFinite' /\ PendingExact'
  <2>1. /\ queue' = queue \cup {arg[p]} /\ held' = held /\ pending' = pending
        /\ \A q \in Procs \ {p} : arg'[q] = arg[q] /\ pc'[q] = pc[q]
        /\ Holding' = Holding
    BY <1>0, <1>5 DEF PushQueue, Goto, Holding
  <2>2. Queueing' = Queueing \ {p} /\ p \in Queueing
    BY <1>0, <1>5, <2>1 DEF PushQueue, Goto, Queueing
  <2>3. {arg'[q] : q \in Queueing'} = {arg[q] : q \in Queueing \ {p}}
    BY <2>1, <2>2 DEF Queueing
  <2>4. Outstanding' = Outstanding
    BY <2>1, <2>2, <2>3 DEF Outstanding, Queueing
  <2> QED BY <1>1, <2>1, <2>4
<1>6. ASSUME NEW w \in Workers, PopTake(w)
      PROVE  OutstandingFinite' /\ PendingExact'
  <2>1. PICK i \in queue : queue' = queue \ {i} /\ held' = [held EXCEPT ![w] = i]
    BY <1>6 DEF PopTake
  <2>2. i # NoItem
    BY <2>1, ShapeArgs, ItemsFacts
  <2>3. held[w] = NoItem
    BY <1>6 DEF PopTake, Shape, HandsMatch, EmptyPcs
  <2>4. /\ Holding' = Holding \cup {w} /\ w \notin Holding
        /\ \A v \in Holding : held'[v] = held[v]
        /\ held'[w] = i
    BY <1>0, <2>1, <2>2, <2>3 DEF Holding
  <2>5. Queueing' = Queueing /\ arg' = arg /\ pending' = pending
    BY <1>0, <1>6 DEF PopTake, Goto, Queueing
  <2>6. {held'[v] : v \in Holding'} = {held[v] : v \in Holding} \cup {i}
    BY <2>4
  <2>7. Outstanding' = Outstanding
    BY <2>1, <2>5, <2>6 DEF Outstanding, Queueing
  <2> QED BY <1>1, <2>5, <2>7
<1>7. ASSUME NEW w \in Workers, CompleteCount(w)
      PROVE  OutstandingFinite' /\ PendingExact'
  <2>1. w \in Holding
    BY <1>7 DEF CompleteCount, CountDown, Holding, Shape, HandsMatch, HandPcs
  <2>2. /\ Holding' = Holding \ {w} /\ queue' = queue /\ pending' = pending - 1
        /\ \A v \in Workers \ {w} : held'[v] = held[v]
        /\ Holding \subseteq Workers
    BY <1>0, <1>7 DEF CompleteCount, CountDown, Holding
  <2>3. Queueing' = Queueing /\ arg' = arg /\ Queueing \subseteq Pushing
    BY <1>0, <1>7 DEF CompleteCount, CountDown, Goto, AfterComplete, Queueing, Pushing
  <2>4. {held'[v] : v \in Holding'} = {held[v] : v \in Holding \ {w}}
    BY <2>2
  <2>5. /\ held[w] \notin queue
        /\ \A v \in Holding \ {w} : held[v] # held[w]
        /\ \A q \in Queueing : arg[q] # held[w]
    BY <2>1, <2>3 DEF AtMostOnce
  <2>6. Outstanding' = Outstanding \ {held[w]} /\ held[w] \in Outstanding
    BY <2>1, <2>2, <2>3, <2>4, <2>5 DEF Outstanding, Queueing
  <2>7. IsFiniteSet(Outstanding') /\ Cardinality(Outstanding') = Cardinality(Outstanding) - 1
    BY <2>6, FS_RemoveElement DEF OutstandingFinite
  <2> QED BY <2>2, <2>7 DEF OutstandingFinite, PendingExact
<1>8. CASE Restart
  <2>1. /\ queue' = LoadedItems /\ pending' = Cardinality(LoadedItems)
        /\ Holding' = {} /\ {q \in Procs : pc'[q] = "push_queue"} = {}
    BY <1>8 DEF Restart, Holding
  <2>2. Outstanding' = LoadedItems
    BY <2>1 DEF Outstanding
  <2> QED BY <2>1, <2>2, LoadedItemsFinite DEF OutstandingFinite, PendingExact
<1> QED BY <1>2, <1>3, <1>4, <1>5, <1>6, <1>7, <1>8, StepKinds


(* Who leaves when: the frontier is stopped, or pop saw pending at zero.   *)
LEMMA ExitKinds ==
  ASSUME Shape, [Next]_vars, NEW w \in Workers, pc[w] # "exit", pc'[w] = "exit"
  PROVE  stopped' \/ (PopPendingCheck(w) /\ pending = 0)
<1> DEFINE Outcome == stopped' \/ (PopPendingCheck(w) /\ pending = 0)
<1> USE FrontierAssumption
<1> USE DEF Goto, AfterPush, CompleteStart, Procs
<1>0. /\ pc \in [Procs -> WorkerPcs \cup MainPcs]
      /\ \A v \in Workers : /\ v \in leaving => stopped \/ pc[v] = "stop_set"
                            /\ pc[v] = "stop_notify" => v \in leaving
  BY Typed DEF Shape, LeaversStop
<1>1. ASSUME NEW p \in Procs, PushDuplicate(p) PROVE Outcome
  BY <1>0, <1>1 DEF PushDuplicate, memVars
<1>2. ASSUME NEW p \in Procs, PushFresh(p) PROVE Outcome
  BY <1>0, <1>2 DEF PushFresh, Admit, memVars
<1>3. ASSUME NEW p \in Procs, PushSeen(p) PROVE Outcome
  BY <1>0, <1>3 DEF PushSeen, memVars
<1>4. ASSUME NEW p \in Procs, PushRow(p) PROVE Outcome
  BY <1>0, <1>4 DEF PushRow, memVars
<1>5. ASSUME NEW p \in Procs, PushCount(p) PROVE Outcome
  BY <1>0, <1>5 DEF PushCount, memVars
<1>6. ASSUME NEW p \in Procs, PushQueue(p) PROVE Outcome
  BY <1>0, <1>6 DEF PushQueue, memVars
<1>7. ASSUME NEW p \in Procs, PushNotify(p) PROVE Outcome
  BY <1>0, <1>7 DEF PushNotify, memVars
<1>8. ASSUME NEW v \in Workers, PopListen(v) PROVE Outcome
  BY <1>0, <1>8 DEF PopListen, memVars
<1>9. ASSUME NEW v \in Workers, PopStopCheck(v) PROVE Outcome
  BY <1>0, <1>9 DEF PopStopCheck, AfterComplete, memVars
<1>10. ASSUME NEW v \in Workers, PopTake(v) PROVE Outcome
  BY <1>0, <1>10 DEF PopTake, memVars
<1>11. ASSUME NEW v \in Workers, PopEmpty(v) PROVE Outcome
  BY <1>0, <1>11 DEF PopEmpty, memVars
<1>12. ASSUME NEW v \in Workers, PopLease(v) PROVE Outcome
  BY <1>0, <1>12 DEF PopLease, memVars
<1>13. ASSUME NEW v \in Workers, PopPendingCheck(v) PROVE Outcome
  BY <1>0, <1>13 DEF PopPendingCheck, AfterComplete, memVars, taskVars
<1>14. ASSUME NEW v \in Workers, PopAwait(v) PROVE Outcome
  BY <1>0, <1>14 DEF PopAwait, memVars
<1>15. ASSUME NEW v \in Workers, CompleteRow(v) PROVE Outcome
  BY <1>0, <1>15 DEF CompleteRow, memVars
<1>16. ASSUME NEW v \in Workers, CompleteCount(v) PROVE Outcome
  BY <1>0, <1>16 DEF CompleteCount, CountDown, AfterComplete, memVars
<1>17. ASSUME NEW v \in Workers, CompleteNotify(v) PROVE Outcome
  BY <1>0, <1>17 DEF CompleteNotify, AfterComplete, memVars
<1>18. ASSUME NEW v \in Workers, StopSet(v) PROVE Outcome
  BY <1>0, <1>18 DEF StopSet, memVars
<1>19. ASSUME NEW v \in Workers, StopNotify(v) PROVE Outcome
  BY <1>0, <1>19 DEF StopNotify, AfterComplete, memVars
<1>20. ASSUME NEW v \in Workers, BeginPop(v) PROVE Outcome
  BY <1>0, <1>20 DEF BeginPop, memVars
<1>21. ASSUME NEW v \in Workers, BeginStop(v) PROVE Outcome
  BY <1>0, <1>21 DEF BeginStop, memVars
<1>22. ASSUME NEW v \in Workers, GiveUp(v) PROVE Outcome
  BY <1>0, <1>22 DEF GiveUp, memVars
<1>23. ASSUME NEW v \in Workers, Discover(v) PROVE Outcome
  BY <1>0, <1>23 DEF Discover, memVars
<1>24. ASSUME NEW v \in Workers, BeginPush(v) PROVE Outcome
  BY <1>0, <1>24 DEF BeginPush, memVars
<1>25. ASSUME NEW v \in Workers, BeginComplete(v) PROVE Outcome
  BY <1>0, <1>25 DEF BeginComplete, MarkCrawled, memVars
<1>26. CASE SpawnWorkers
  BY <1>26 DEF SpawnWorkers
<1>27. CASE Restart
  BY <1>27 DEF Restart
<1>28. CASE UNCHANGED vars
  BY <1>28 DEF vars
<1> QED
  BY <1>1, <1>2, <1>3, <1>4, <1>5, <1>6, <1>7, <1>8, <1>9, <1>10, <1>11, <1>12,
     <1>13, <1>14, <1>15, <1>16, <1>17, <1>18, <1>19, <1>20, <1>21, <1>22, <1>23,
     <1>24, <1>25, <1>26, <1>27, <1>28, Steps

LEMMA StoppedStays ==
  ASSUME [Next]_vars, stopped
  PROVE  stopped' \/ \A w \in Workers : pc'[w] # "exit"
<1>1. CASE Restart
  BY <1>1, FrontierAssumption DEF Restart, Procs
<1>2. CASE ~Restart
  BY <1>2, Steps
     DEF memVars, vars, PushDuplicate, PushFresh, PushSeen, PushRow, PushCount, PushQueue,
         PushNotify, PopListen, PopStopCheck, PopTake, PopEmpty, PopLease, PopPendingCheck,
         PopAwait, CompleteRow, CompleteCount, CompleteNotify, StopSet, StopNotify,
         BeginPop, BeginStop, GiveUp, Discover, BeginPush, BeginComplete, Admit,
         CountDown, MarkCrawled, SpawnWorkers
<1> QED BY <1>1, <1>2

(* Where nothing is outstanding nobody is pushing once workers run.        *)
LEMMA PushersHold ==
  ASSUME Shape, NEW p \in Procs, pc[p] \in PushPcs, NEW w \in Workers, pc[w] # "off"
  PROVE  Outstanding # {}
<1>1. pc[Main] = "join"
  BY DEF Shape, MainFirst
<1>2. p \in Workers
  BY <1>1 DEF Procs, PushPcs
<1>3. held[p] # NoItem
  BY <1>2 DEF Shape, HandsMatch, HandPcs
<1> QED BY <1>2, <1>3 DEF Outstanding, Holding

LEMMA EarlyExitInductive ==
  ASSUME Shape, Shape', OutstandingFinite, PendingExact, NoEarlyExit, [Next]_vars
  PROVE  NoEarlyExit'
<1> USE FrontierAssumption
<1>1. SUFFICES ASSUME ~stopped', NEW w \in Workers, pc'[w] = "exit"
               PROVE  Outstanding' = {} /\ Pushing' = {}
  BY DEF NoEarlyExit
<1>2. ~stopped
  BY <1>1, StoppedStays
<1>3. pc[w] # "off"
  <2>1. pc[w] # "exit" => PopPendingCheck(w)
    BY <1>1, ExitKinds
  <2> QED BY <2>1 DEF PopPendingCheck
<1>4. Outstanding = {} /\ Pushing = {}
  <2>1. CASE pc[w] = "exit"
    BY <1>2, <2>1 DEF NoEarlyExit
  <2>2. CASE pc[w] # "exit"
    <3>1. pending = 0
      BY <1>1, <2>2, ExitKinds
    <3>2. Outstanding = {}
      BY <3>1, FS_EmptySet DEF OutstandingFinite, PendingExact
    <3>3. Pushing = {}
      BY <1>3, <3>2, PushersHold DEF Pushing, PushPcs
    <3> QED BY <3>2, <3>3
  <2> QED BY <2>1, <2>2
<1>5. \A p \in Procs : pc[p] \notin PushPcs
  BY <1>3, <1>4, PushersHold
<1>6. CASE Quiet
  <2>1. Holding' = Holding
    BY <1>6 DEF Quiet, Holding
  <2>2. Queueing' = {}
    BY <1>4, <1>6 DEF Quiet, Queueing, Pushing
  <2> QED BY <1>4, <1>6, <2>1, <2>2 DEF Quiet, Outstanding, Queueing
<1>7. ASSUME NEW p \in Procs, PushFresh(p) \/ PushCount(p) \/ PushQueue(p)
      PROVE  FALSE
  BY <1>5, <1>7 DEF PushFresh, PushCount, PushQueue, PushPcs
<1>8. ASSUME NEW v \in Workers, PopTake(v) \/ CompleteCount(v)
      PROVE  FALSE
  <2>1. queue = {} /\ Holding = {}
    BY <1>4 DEF Outstanding
  <2>2. ~PopTake(v)
    BY <2>1 DEF PopTake
  <2>3. ~CompleteCount(v)
    BY <2>1 DEF CompleteCount, CountDown, Holding, Shape, HandsMatch, HandPcs
  <2> QED BY <1>8, <2>2, <2>3
<1>9. CASE Restart
  BY <1>1, <1>9 DEF Restart, Procs
<1> QED BY <1>6, <1>7, <1>8, <1>9, StepKinds


LEMMA StopSignalInductive ==
  ASSUME Shape, StopSignalled, [Next]_vars
  PROVE  StopSignalled'
<1> USE DEF StopSignalled
<1> USE FrontierAssumption
<1> USE DEF Goto, AfterPush, AfterComplete, CompleteStart, Procs,
            notifyVars, memVars, taskVars
<1>0. /\ pc \in [Procs -> WorkerPcs \cup MainPcs]
      /\ ticket \in [Workers -> TicketStates]
      /\ pending \in Int
  BY Typed DEF Shape
<1>1. ASSUME NEW p \in Procs, PushDuplicate(p) PROVE StopSignalled'
  BY <1>0, <1>1 DEF PushDuplicate
<1>2. ASSUME NEW p \in Procs, PushFresh(p) PROVE StopSignalled'
  BY <1>0, <1>2 DEF PushFresh, Admit
<1>3. ASSUME NEW p \in Procs, PushSeen(p) PROVE StopSignalled'
  BY <1>0, <1>3 DEF PushSeen, MarkSeen
<1>4. ASSUME NEW p \in Procs, PushRow(p) PROVE StopSignalled'
  BY <1>0, <1>4 DEF PushRow, EnqueueRow
<1>5. ASSUME NEW p \in Procs, PushCount(p) PROVE StopSignalled'
  BY <1>0, <1>5 DEF PushCount
<1>6. ASSUME NEW p \in Procs, PushQueue(p) PROVE StopSignalled'
  BY <1>0, <1>6 DEF PushQueue
<1>7. ASSUME NEW p \in Procs, PushNotify(p) PROVE StopSignalled'
  BY <1>0, <1>7 DEF PushNotify, NotifyOne, Waiting
<1>8. ASSUME NEW v \in Workers, PopListen(v) PROVE StopSignalled'
  BY <1>0, <1>8 DEF PopListen, Notified
<1>9. ASSUME NEW v \in Workers, PopStopCheck(v) PROVE StopSignalled'
  BY <1>0, <1>9 DEF PopStopCheck, Drop
<1>10. ASSUME NEW v \in Workers, PopTake(v) PROVE StopSignalled'
  BY <1>0, <1>10 DEF PopTake, Drop
<1>11. ASSUME NEW v \in Workers, PopEmpty(v) PROVE StopSignalled'
  BY <1>0, <1>11 DEF PopEmpty
<1>12. ASSUME NEW v \in Workers, PopLease(v) PROVE StopSignalled'
  BY <1>0, <1>12 DEF PopLease, MarkInflight
<1>13. ASSUME NEW v \in Workers, PopPendingCheck(v) PROVE StopSignalled'
  BY <1>0, <1>13 DEF PopPendingCheck, Drop
<1>14. ASSUME NEW v \in Workers, PopAwait(v) PROVE StopSignalled'
  BY <1>0, <1>14 DEF PopAwait, Register, ConsumePermit, Drop, PollReady
<1>15. ASSUME NEW v \in Workers, CompleteRow(v) PROVE StopSignalled'
  BY <1>0, <1>15 DEF CompleteRow, DeleteRow
<1>16. ASSUME NEW v \in Workers, CompleteCount(v) PROVE StopSignalled'
  BY <1>0, <1>16 DEF CompleteCount, CountDown
<1>17. ASSUME NEW v \in Workers, CompleteNotify(v) PROVE StopSignalled'
  BY <1>0, <1>17 DEF CompleteNotify, NotifyWaiters, Released
<1>18. ASSUME NEW v \in Workers, StopSet(v) PROVE StopSignalled'
  BY <1>0, <1>18 DEF StopSet
<1>19. ASSUME NEW v \in Workers, StopNotify(v) PROVE StopSignalled'
  BY <1>0, <1>19 DEF StopNotify, NotifyWaiters, Released
<1>20. ASSUME NEW v \in Workers, BeginPop(v) PROVE StopSignalled'
  BY <1>0, <1>20 DEF BeginPop
<1>21. ASSUME NEW v \in Workers, BeginStop(v) PROVE StopSignalled'
  BY <1>0, <1>21 DEF BeginStop
<1>22. ASSUME NEW v \in Workers, GiveUp(v) PROVE StopSignalled'
  BY <1>0, <1>22 DEF GiveUp
<1>23. ASSUME NEW v \in Workers, Discover(v) PROVE StopSignalled'
  BY <1>0, <1>23 DEF Discover
<1>24. ASSUME NEW v \in Workers, BeginPush(v) PROVE StopSignalled'
  BY <1>0, <1>24 DEF BeginPush
<1>25. ASSUME NEW v \in Workers, BeginComplete(v) PROVE StopSignalled'
  BY <1>0, <1>25 DEF BeginComplete, MarkCrawled
<1>26. CASE SpawnWorkers
  BY <1>0, <1>26 DEF SpawnWorkers
<1>27. CASE Restart
  BY <1>0, <1>27 DEF Restart
<1>28. CASE UNCHANGED vars
  BY <1>0, <1>28 DEF vars
<1> QED
  BY <1>1, <1>2, <1>3, <1>4, <1>5, <1>6, <1>7, <1>8, <1>9, <1>10, <1>11, <1>12,
     <1>13, <1>14, <1>15, <1>16, <1>17, <1>18, <1>19, <1>20, <1>21, <1>22, <1>23,
     <1>24, <1>25, <1>26, <1>27, <1>28, Steps

LEMMA WakeupInductive ==
  ASSUME Shape, OutstandingFinite, PendingExact,
         StopSignalled, NoLostWakeup, StopSignalled', [Next]_vars
  PROVE  NoLostWakeup'
<1> USE DEF NoLostWakeup, StopSignalled
<1> USE FrontierAssumption
<1> USE DEF Goto, AfterPush, AfterComplete, CompleteStart, Procs,
            notifyVars, memVars, taskVars
<1>0. /\ pc \in [Procs -> WorkerPcs \cup MainPcs]
      /\ ticket \in [Workers -> TicketStates]
      /\ pending \in Nat
  BY Typed, FS_CardinalityType DEF Shape, OutstandingFinite, PendingExact
<1>1. ASSUME NEW p \in Procs, PushDuplicate(p) PROVE NoLostWakeup'
  BY <1>0, <1>1 DEF PushDuplicate
<1>2. ASSUME NEW p \in Procs, PushFresh(p) PROVE NoLostWakeup'
  BY <1>0, <1>2 DEF PushFresh, Admit
<1>3. ASSUME NEW p \in Procs, PushSeen(p) PROVE NoLostWakeup'
  BY <1>0, <1>3 DEF PushSeen, MarkSeen
<1>4. ASSUME NEW p \in Procs, PushRow(p) PROVE NoLostWakeup'
  BY <1>0, <1>4 DEF PushRow, EnqueueRow
<1>5. ASSUME NEW p \in Procs, PushCount(p) PROVE NoLostWakeup'
  BY <1>0, <1>5 DEF PushCount
<1>6. ASSUME NEW p \in Procs, PushQueue(p) PROVE NoLostWakeup'
  BY <1>0, <1>6 DEF PushQueue
<1>7. ASSUME NEW p \in Procs, PushNotify(p) PROVE NoLostWakeup'
  BY <1>0, <1>7 DEF PushNotify, NotifyOne, Waiting
<1>8. ASSUME NEW v \in Workers, PopListen(v) PROVE NoLostWakeup'
  BY <1>0, <1>8 DEF PopListen, Notified
<1>9. ASSUME NEW v \in Workers, PopStopCheck(v) PROVE NoLostWakeup'
  BY <1>0, <1>9 DEF PopStopCheck, Drop
<1>10. ASSUME NEW v \in Workers, PopTake(v) PROVE NoLostWakeup'
  BY <1>0, <1>10 DEF PopTake, Drop
<1>11. ASSUME NEW v \in Workers, PopEmpty(v) PROVE NoLostWakeup'
  BY <1>0, <1>11 DEF PopEmpty
<1>12. ASSUME NEW v \in Workers, PopLease(v) PROVE NoLostWakeup'
  BY <1>0, <1>12 DEF PopLease, MarkInflight
<1>13. ASSUME NEW v \in Workers, PopPendingCheck(v) PROVE NoLostWakeup'
  BY <1>0, <1>13 DEF PopPendingCheck, Drop
<1>14. ASSUME NEW v \in Workers, PopAwait(v) PROVE NoLostWakeup'
  BY <1>0, <1>14 DEF PopAwait, Register, ConsumePermit, Drop, PollReady
<1>15. ASSUME NEW v \in Workers, CompleteRow(v) PROVE NoLostWakeup'
  BY <1>0, <1>15 DEF CompleteRow, DeleteRow
<1>16. ASSUME NEW v \in Workers, CompleteCount(v) PROVE NoLostWakeup'
  BY <1>0, <1>16 DEF CompleteCount, CountDown
<1>17. ASSUME NEW v \in Workers, CompleteNotify(v) PROVE NoLostWakeup'
  BY <1>0, <1>17 DEF CompleteNotify, NotifyWaiters, Released
<1>18. ASSUME NEW v \in Workers, StopSet(v) PROVE NoLostWakeup'
  BY <1>0, <1>18 DEF StopSet
<1>19. ASSUME NEW v \in Workers, StopNotify(v) PROVE NoLostWakeup'
  BY <1>0, <1>19 DEF StopNotify, NotifyWaiters, Released
<1>20. ASSUME NEW v \in Workers, BeginPop(v) PROVE NoLostWakeup'
  BY <1>0, <1>20 DEF BeginPop
<1>21. ASSUME NEW v \in Workers, BeginStop(v) PROVE NoLostWakeup'
  BY <1>0, <1>21 DEF BeginStop
<1>22. ASSUME NEW v \in Workers, GiveUp(v) PROVE NoLostWakeup'
  BY <1>0, <1>22 DEF GiveUp
<1>23. ASSUME NEW v \in Workers, Discover(v) PROVE NoLostWakeup'
  BY <1>0, <1>23 DEF Discover
<1>24. ASSUME NEW v \in Workers, BeginPush(v) PROVE NoLostWakeup'
  BY <1>0, <1>24 DEF BeginPush
<1>25. ASSUME NEW v \in Workers, BeginComplete(v) PROVE NoLostWakeup'
  BY <1>0, <1>25 DEF BeginComplete, MarkCrawled
<1>26. CASE SpawnWorkers
  BY <1>0, <1>26 DEF SpawnWorkers
<1>27. CASE Restart
  BY <1>0, <1>27 DEF Restart
<1>28. CASE UNCHANGED vars
  BY <1>0, <1>28 DEF vars
<1> QED
  BY <1>1, <1>2, <1>3, <1>4, <1>5, <1>6, <1>7, <1>8, <1>9, <1>10, <1>11, <1>12,
     <1>13, <1>14, <1>15, <1>16, <1>17, <1>18, <1>19, <1>20, <1>21, <1>22, <1>23,
     <1>24, <1>25, <1>26, <1>27, <1>28, Steps

LEMMA InitIndInv == Init => IndInv
<1> SUFFICES ASSUME Init PROVE IndInv
  OBVIOUS
<1> USE FrontierAssumption
<1> USE DEF Init, NotifyInit, StoreInit, TasksStart, Procs
<1>1. SeedItem \in Items
  BY DEF SeedItem, Items
<1>2. Shape
  <2>a. Absent \in Row
    BY DEF Absent, Row
  <2>b. StoreTypeOK
    BY <2>a DEF StoreTypeOK
  <2>c. NotifyTypeOK
    BY DEF NotifyTypeOK, TicketStates
  <2>1. /\ pc \in [Procs -> WorkerPcs \cup MainPcs]
        /\ pc[Main] \in MainPcs
        /\ \A w \in Workers : pc[w] \in WorkerPcs
    BY DEF MainPcs, WorkerPcs
  <2>d. arg \in [Procs -> Items \cup {NoItem}] /\ held \in [Workers -> Items \cup {NoItem}]
    BY <1>1
  <2>e. nextSeq \in Nat /\ pending \in Int /\ restarts \in 0..MaxRestarts
    OBVIOUS
  <2>2. TypeOK
    BY <2>b, <2>c, <2>1, <2>d, <2>e DEF TypeOK, MemTypeOK, PcTypeOK, TaskTypeOK, HistTypeOK
  <2>3. ArgsMatch
    BY <1>1, ItemsFacts DEF ArgsMatch, PushPcs
  <2>4. HandsMatch /\ MainFirst /\ TodoMatches /\ LeaversStop
    BY DEF HandsMatch, MainFirst, TodoMatches, LeaversStop, HandPcs, PushPcs, EmptyPcs
  <2>5. RowsSeen
    BY DEF RowsSeen, Present, Absent
  <2> QED BY <2>2, <2>3, <2>4, <2>5 DEF Shape
<1>3. Holding = {} /\ Pushing = {} /\ Outstanding = {}
  BY DEF Holding, Pushing, Outstanding
<1>4. PlayVisited /\ AtMostOnce
  BY <1>3 DEF PlayVisited, InPlay, AtMostOnce
<1>5. OutstandingFinite /\ PendingExact
  BY <1>3, FS_EmptySet DEF OutstandingFinite, PendingExact
<1>6. NoEarlyExit /\ StopSignalled /\ NoLostWakeup
  BY DEF NoEarlyExit, StopSignalled, NoLostWakeup
<1> QED BY <1>2, <1>4, <1>5, <1>6 DEF IndInv

LEMMA NextIndInv == IndInv /\ [Next]_vars => IndInv'
<1> SUFFICES ASSUME IndInv, [Next]_vars PROVE IndInv'
  OBVIOUS
<1> USE DEF IndInv
<1>1. Shape'
  BY ShapeInductive
<1>2. PlayVisited' /\ AtMostOnce'
  BY PlayInductive
<1>3. OutstandingFinite' /\ PendingExact'
  BY CountInductive
<1>4. NoEarlyExit'
  BY <1>1, EarlyExitInductive
<1>5. StopSignalled'
  BY StopSignalInductive
<1>6. NoLostWakeup'
  BY <1>5, WakeupInductive
<1> QED BY <1>1, <1>2, <1>3, <1>4, <1>5, <1>6

(* The inductive invariant holds in every reachable state.                 *)
THEOREM Invariance == Spec => []IndInv
BY InitIndInv, NextIndInv, PTL DEF Spec

(* Every variable keeps its type: frontier.rs's counters, sets and task    *)
(* positions stay in their domains, whatever is interleaved.               *)
THEOREM TypeCorrect == Spec => []TypeOK
<1>1. IndInv => TypeOK
  BY DEF IndInv, Shape
<1> QED BY <1>1, Invariance, PTL

(* No URL is ever in two places: try_push's dedup and pop's removal give   *)
(* each fingerprint one owner, for any number of workers and restarts.     *)
THEOREM OwnedOnce == Spec => []AtMostOnce
<1>1. IndInv => AtMostOnce
  BY DEF IndInv
<1> QED BY <1>1, Invariance, PTL

(* The atomic counter equals the number of outstanding items at every step.*)
THEOREM CounterExact == Spec => []PendingExact
<1>1. IndInv => PendingExact
  BY DEF IndInv
<1> QED BY <1>1, Invariance, PTL

(* pop answers None without a stop only when the crawl is really over.     *)
THEOREM NobodyLeavesEarly == Spec => []NoEarlyExit
<1>1. IndInv => NoEarlyExit
  BY DEF IndInv
<1> QED BY <1>1, Invariance, PTL

(* A worker about to sleep in pop, or asleep, is still owed the signal     *)
(* that ends the crawl.                                                    *)
THEOREM EndIsSignalled == Spec => []NoLostWakeup
<1>1. IndInv => NoLostWakeup
  BY DEF IndInv
<1> QED BY <1>1, Invariance, PTL

-----------------------------------------------------------------------------
(* The frontier implements the abstract pool: within one process every     *)
(* step of try_push, pop, complete and stop offers, takes or settles a     *)
(* URL, closes the pool, sends a worker home, or does none of these.       *)

(* What the pool shows of the frontier.                                    *)
Status == [u \in Urls |-> StatusOf(u)]
Gone == {w \in Workers \ leaving : pc[w] = "exit"}

Leased(u) == \E w \in Holding : held[w].url = u
Queued(u) == \/ \E i \in queue : i.url = u
             \/ \E p \in Queueing : arg[p].url = u
Coming(u) == \E p \in Pushing : arg[p].url = u

LEMMA StatusCases ==
  ASSUME NEW u
  PROVE  StatusOf(u) = IF Leased(u) THEN "leased"
                       ELSE IF Queued(u) THEN "queued"
                       ELSE IF u \in visited /\ ~Coming(u) THEN "done"
                       ELSE "new"
<1>1. ~Leased(u) => ((\E i \in Outstanding : i.url = u) <=> Queued(u))
  BY DEF Outstanding, Leased, Queued, Queueing
<1> QED BY <1>1 DEF StatusOf, Leased, Coming

(* The same of the next state.                                             *)
LEMMA StatusCasesNext ==
  ASSUME NEW u
  PROVE  StatusOf(u)' = IF Leased(u)' THEN "leased"
                        ELSE IF Queued(u)' THEN "queued"
                        ELSE IF u \in visited' /\ ~Coming(u)' THEN "done"
                        ELSE "new"
<1>1. ~Leased(u)' => ((\E i \in Outstanding' : i.url = u) <=> Queued(u)')
  BY DEF Outstanding, Leased, Queued, Queueing
<1> QED BY <1>1 DEF StatusOf, Leased, Coming

(* A step that leaves these alone for every URL shows nothing.             *)
LEMMA StatusStays ==
  ASSUME \A u \in Urls : StatusOf(u)' = StatusOf(u)
  PROVE  Status' = Status
BY DEF Status

LEMMA StatusMoves ==
  ASSUME NEW v \in Urls, NEW s, StatusOf(v)' = s,
         \A u \in Urls \ {v} : StatusOf(u)' = StatusOf(u)
  PROVE  Status' = [Status EXCEPT ![v] = s]
BY DEF Status
-----------------------------------------------------------------------------
(* Until the seed is counted there is nothing else.                        *)
Early == {"push_insert", "push_seen", "push_row", "push_count"}

SeedFirst == pc[Main] \in Early =>
               queue = {} /\ visited \subseteq {Seed} /\ arg[Main].url = Seed

(* Until it joins them, main alone takes steps.                            *)
LEMMA MainAlone ==
  ASSUME Shape, [Next]_vars, ~Restart
  PROVE  IF pc[Main] = "join" THEN pc'[Main] = "join"
         ELSE TryPush(Main) \/ SpawnWorkers \/ UNCHANGED vars
<1> USE FrontierAssumption DEF Goto, AfterPush
<1>0. /\ pc \in [Procs -> WorkerPcs \cup MainPcs]
      /\ Main \in Procs /\ \A w \in Workers : w \in Procs /\ w # Main
      /\ pc[Main] # "join" => \A w \in Workers : pc[w] = "off"
  BY Typed DEF Shape, MainFirst, Procs
<1>1. ASSUME NEW p \in Procs,
             \/ PushDuplicate(p) \/ PushFresh(p) \/ PushSeen(p) \/ PushRow(p)
             \/ PushCount(p) \/ PushQueue(p) \/ PushNotify(p)
      PROVE  IF pc[Main] = "join" THEN pc'[Main] = "join" ELSE TryPush(Main)
  <2>1. CASE p = Main
    BY <1>0, <1>1, <2>1
       DEF TryPush, PushDuplicate, PushFresh, PushSeen, PushRow, PushCount, PushQueue, PushNotify
  <2>2. CASE p # Main
    <3>1. p \in Workers
      BY <2>2 DEF Procs
    <3>2. pc[p] # "off" /\ pc'[Main] = pc[Main]
      BY <1>0, <1>1, <2>2
         DEF PushDuplicate, PushFresh, Admit, PushSeen, PushRow, PushCount, PushQueue, PushNotify
    <3> QED BY <1>0, <3>1, <3>2
  <2> QED BY <2>1, <2>2
<1>2. ASSUME NEW w \in Workers,
             \/ PopListen(w) \/ PopStopCheck(w) \/ PopTake(w) \/ PopEmpty(w)
             \/ PopLease(w) \/ PopPendingCheck(w) \/ PopAwait(w)
             \/ CompleteRow(w) \/ CompleteCount(w) \/ CompleteNotify(w)
             \/ StopSet(w) \/ StopNotify(w)
             \/ BeginPop(w) \/ BeginStop(w) \/ GiveUp(w) \/ Discover(w)
             \/ BeginPush(w) \/ BeginComplete(w)
      PROVE  pc[Main] = "join" /\ pc'[Main] = "join"
  <2>1. pc[w] # "off" /\ pc'[Main] = pc[Main]
    BY <1>0, <1>2
       DEF PopListen, PopStopCheck, PopTake, PopEmpty, PopLease, PopPendingCheck, PopAwait,
           CompleteRow, CompleteCount, CountDown, CompleteNotify, StopSet, StopNotify, BeginPop,
           BeginStop, GiveUp, Discover, BeginPush, BeginComplete, MarkCrawled
  <2> QED BY <1>0, <2>1
<1>3. SpawnWorkers => pc[Main] # "join"
  BY DEF SpawnWorkers
<1>4. UNCHANGED vars => pc' = pc
  BY DEF vars
<1> QED BY <1>1, <1>2, <1>3, <1>4, Steps

LEMMA SeedFirstInductive ==
  ASSUME Shape, SeedFirst, [Next]_vars, ~Restart
  PROVE  SeedFirst'
<1>1. SUFFICES ASSUME pc'[Main] \in Early
               PROVE  queue' = {} /\ visited' \subseteq {Seed} /\ arg'[Main].url = Seed
  BY DEF SeedFirst
<1>2. /\ arg \in [Procs -> Items \cup {NoItem}] /\ Main \in Procs
      /\ pc \in [Procs -> WorkerPcs \cup MainPcs]
  BY Typed DEF Procs, Shape
<1>3. /\ pc[Main] \in Early
      /\ PushFresh(Main) \/ UNCHANGED <<queue, visited, arg>>
  <2>1. pc[Main] # "join" /\ (TryPush(Main) \/ SpawnWorkers \/ UNCHANGED vars)
    BY <1>1, MainAlone DEF Early
  <2>2. /\ PushSeen(Main) \/ PushRow(Main) \/ PushCount(Main) =>
             pc[Main] \in Early /\ UNCHANGED <<queue, visited, arg>>
        /\ PushFresh(Main) => pc[Main] \in Early
        /\ UNCHANGED vars => pc' = pc /\ UNCHANGED <<queue, visited, arg>>
    BY DEF PushSeen, PushRow, PushCount, PushFresh, Early, vars, memVars, taskVars
  <2>3. PushDuplicate(Main) \/ PushQueue(Main) \/ PushNotify(Main) \/ SpawnWorkers =>
          pc'[Main] \notin Early
    BY <1>2 DEF PushDuplicate, PushQueue, PushNotify, SpawnWorkers, Goto, AfterPush, Early
  <2> QED BY <1>1, <2>1, <2>2, <2>3 DEF TryPush
<1>4. CASE PushFresh(Main)
  <2>1. arg[Main] \in Items
    BY <1>2, <1>4, ShapeArgs DEF PushFresh, PushPcs
  <2> QED BY <1>2, <1>3, <1>4, <2>1 DEF SeedFirst, PushFresh, Admit, Items
<1> QED BY <1>3, <1>4 DEF SeedFirst
-----------------------------------------------------------------------------
(* What each step that moves an item shows.                                *)

LEMMA QuietShows ==
  ASSUME Shape, Quiet
  PROVE  Status' = Status
<1>1. Queueing \subseteq Pushing /\ Holding' = Holding
  BY DEF Quiet, Queueing, Pushing, Holding
<1>2. ASSUME NEW u \in Urls PROVE StatusOf(u)' = StatusOf(u)
  <2>1. Leased(u)' = Leased(u) /\ Queued(u)' = Queued(u) /\ Coming(u)' = Coming(u)
    BY <1>1 DEF Quiet, Leased, Queued, Coming
  <2> QED BY <2>1, StatusCases, StatusCasesNext DEF Quiet
<1> QED BY <1>2, StatusStays

LEMMA FreshShows ==
  ASSUME IndInv, NEW p \in Procs, PushFresh(p)
  PROVE  Status' = Status
<1> DEFINE v == arg[p].url
<1>1. /\ arg[p] \in Items /\ v \notin visited
      /\ arg \in [Procs -> Items \cup {NoItem}] /\ pc \in [Procs -> WorkerPcs \cup MainPcs]
  BY ShapeArgs, Typed DEF PushFresh, PushPcs, IndInv, Shape
<1>2. /\ arg'[p].url = v
      /\ \A q \in Procs \ {p} : arg'[q] = arg[q] /\ pc'[q] = pc[q]
      /\ pc[p] = "push_insert" /\ pc'[p] \in {"push_seen", "push_count"}
      /\ visited' = visited \cup {v} /\ queue' = queue /\ held' = held
  BY <1>1 DEF PushFresh, Admit, Goto, Items
<1>3. /\ Pushing' = Pushing \cup {p} /\ p \notin Pushing
      /\ Queueing' = Queueing /\ Queueing \subseteq Pushing /\ Holding' = Holding
      /\ Pushing \subseteq Procs
  BY <1>2 DEF Pushing, Queueing, Holding
<1>4. ASSUME NEW u \in Urls PROVE StatusOf(u)' = StatusOf(u)
  <2>1. Leased(u)' = Leased(u)
    BY <1>2, <1>3 DEF Leased
  <2>2. Queued(u)' = Queued(u)
    BY <1>2, <1>3 DEF Queued
  <2>3. CASE u = v
    <3>1. u \notin visited /\ Coming(u)'
      BY <1>1, <1>2, <1>3, <2>3 DEF Coming
    <3> QED BY <2>1, <2>2, <3>1, StatusCases, StatusCasesNext
  <2>4. CASE u # v
    <3>1. Coming(u)' = Coming(u) /\ (u \in visited') = (u \in visited)
      BY <1>2, <1>3, <2>4 DEF Coming
    <3> QED BY <2>1, <2>2, <3>1, StatusCases, StatusCasesNext
  <2> QED BY <2>3, <2>4
<1> QED BY <1>4, StatusStays

(* The item is counted: its URL is offered, by a worker with an item in    *)
(* hand, or first of all by Main.                                          *)
LEMMA CountShows ==
  ASSUME IndInv, SeedFirst, NEW p \in Procs, PushCount(p)
  PROVE  \E v \in Urls :
           /\ StatusOf(v) = "new"
           /\ Status' = [Status EXCEPT ![v] = "queued"]
           /\ \/ \E u \in Urls : StatusOf(u) = "leased"
              \/ v = Seed /\ \A u \in Urls : StatusOf(u) = "new"
<1> USE FrontierAssumption
<1>1. /\ arg[p] \in Items /\ pc \in [Procs -> WorkerPcs \cup MainPcs]
      /\ pc[p] = "push_count" /\ p \in Pushing /\ p \notin Queueing
  BY ShapeArgs, Typed DEF PushCount, PushPcs, IndInv, Shape, Pushing, Queueing
<1>2. PICK v \in Urls : v = arg[p].url
  BY <1>1, ItemsFacts
<1>3. /\ \A i \in queue : i.url # v
      /\ \A w \in Holding : held[w].url # v
      /\ \A q \in Queueing : q \in Pushing /\ arg[q].url # v
  BY <1>1, <1>2 DEF IndInv, AtMostOnce, Queueing, Pushing
<1>4. /\ queue' = queue /\ held' = held /\ arg' = arg /\ visited' = visited
      /\ Pushing' = Pushing /\ Holding' = Holding /\ Queueing' = Queueing \cup {p}
  BY <1>1 DEF PushCount, Goto, taskVars, Pushing, Holding, Queueing
<1>5. StatusOf(v) = "new"
  <2>1. ~Leased(v) /\ ~Queued(v)
    BY <1>3 DEF Leased, Queued
  <2>2. Coming(v)
    BY <1>1, <1>2 DEF Coming
  <2> QED BY <2>1, <2>2, StatusCases
<1>6. StatusOf(v)' = "queued"
  <2>1. ~Leased(v)'
    BY <1>3, <1>4 DEF Leased
  <2>2. Queued(v)'
    BY <1>2, <1>4 DEF Queued
  <2> QED BY <2>1, <2>2, StatusCasesNext
<1>7. ASSUME NEW u \in Urls \ {v} PROVE StatusOf(u)' = StatusOf(u)
  <2>1. Leased(u)' = Leased(u) /\ Queued(u)' = Queued(u) /\ Coming(u)' = Coming(u)
    BY <1>2, <1>4 DEF Leased, Queued, Coming
  <2> QED BY <1>4, <2>1, StatusCases, StatusCasesNext
<1>8. CASE p = Main
  <2>1. /\ queue = {} /\ visited \subseteq {Seed} /\ v = Seed
        /\ \A w \in Workers : pc[w] = "off"
    BY <1>1, <1>2, <1>8 DEF SeedFirst, Early, IndInv, Shape, MainFirst
  <2>2. /\ \A w \in Workers : held[w] = NoItem
        /\ \A q \in Pushing : q = Main
    BY <2>1 DEF IndInv, Shape, HandsMatch, EmptyPcs, Pushing, Procs
  <2>3. ASSUME NEW u \in Urls, u # Seed PROVE StatusOf(u) = "new"
    <3>1. ~Leased(u) /\ ~Queued(u) /\ u \notin visited
      BY <2>1, <2>2, <2>3, <1>1, <1>8 DEF Leased, Queued, Holding, Queueing, Pushing
    <3> QED BY <3>1, StatusCases
  <2>4. Status' = [Status EXCEPT ![v] = "queued"]
    BY <1>6, <1>7, StatusMoves
  <2> QED BY <1>5, <2>1, <2>3, <2>4
<1>9. CASE p # Main
  <2>1. p \in Workers /\ held[p] # NoItem
    BY <1>1, <1>9 DEF Procs, IndInv, Shape, HandsMatch, HandPcs, PushPcs
  <2>2. p \in Holding /\ held[p].url \in Urls
    BY <2>1, ShapeArgs, ItemsFacts DEF Holding, IndInv
  <2>3. StatusOf(held[p].url) = "leased"
    BY <2>2, StatusCases DEF Leased
  <2>4. Status' = [Status EXCEPT ![v] = "queued"]
    BY <1>6, <1>7, StatusMoves
  <2> QED BY <1>5, <2>2, <2>3, <2>4
<1> QED BY <1>8, <1>9

LEMMA QueueShows ==
  ASSUME IndInv, NEW p \in Procs, PushQueue(p)
  PROVE  Status' = Status
<1>1. /\ arg \in [Procs -> Items \cup {NoItem}] /\ pc \in [Procs -> WorkerPcs \cup MainPcs]
  BY Typed DEF IndInv, Shape
<1>2. /\ queue' = queue \cup {arg[p]} /\ held' = held /\ visited' = visited
      /\ \A q \in Procs \ {p} : arg'[q] = arg[q] /\ pc'[q] = pc[q]
      /\ Holding' = Holding /\ pc[p] = "push_queue" /\ pc'[p] = "push_notify"
  BY <1>1 DEF PushQueue, Goto, Holding
<1>3. /\ Queueing' = Queueing \ {p} /\ p \in Queueing
      /\ Pushing' = Pushing \ {p} /\ p \in Pushing
  BY <1>2 DEF Queueing, Pushing
<1>4. ASSUME NEW u \in Urls PROVE StatusOf(u)' = StatusOf(u)
  <2>1. Leased(u)' = Leased(u)
    BY <1>2 DEF Leased
  <2>2. Queued(u)' = Queued(u)
    BY <1>2, <1>3 DEF Queued, Queueing
  <2>3. Queued(u) \/ Coming(u)' = Coming(u)
    BY <1>2, <1>3 DEF Queued, Coming, Pushing
  <2> QED BY <1>2, <2>1, <2>2, <2>3, StatusCases, StatusCasesNext
<1> QED BY <1>4, StatusStays

LEMMA TakeShows ==
  ASSUME IndInv, NEW w \in Workers, PopTake(w)
  PROVE  \E v \in Urls : StatusOf(v) = "queued" /\ Status' = [Status EXCEPT ![v] = "leased"]
<1>0. /\ held \in [Workers -> Items \cup {NoItem}] /\ pc \in [Procs -> WorkerPcs \cup MainPcs]
  BY Typed DEF IndInv, Shape
<1>1. PICK i \in queue : queue' = queue \ {i} /\ held' = [held EXCEPT ![w] = i]
  BY DEF PopTake
<1>2. i \in Items /\ i # NoItem /\ i.url \in Urls
  BY <1>1, ShapeArgs, ItemsFacts DEF IndInv
<1>3. held[w] = NoItem
  BY DEF PopTake, IndInv, Shape, HandsMatch, EmptyPcs
<1>4. /\ Holding' = Holding \cup {w} /\ w \notin Holding
      /\ \A v \in Holding : held'[v] = held[v]
      /\ held'[w] = i
  BY <1>0, <1>1, <1>2, <1>3 DEF Holding
<1>5. /\ arg' = arg /\ visited' = visited
      /\ Pushing' = Pushing /\ Queueing' = Queueing
  BY <1>0 DEF PopTake, Goto, Pushing, Queueing, Procs
<1>6. StatusOf(i.url) = "queued"
  <2>1. ~Leased(i.url) /\ Queued(i.url)
    BY DEF Leased, Queued, IndInv, AtMostOnce
  <2> QED BY <2>1, StatusCases
<1>7. StatusOf(i.url)' = "leased"
  <2>1. Leased(i.url)'
    BY <1>4 DEF Leased
  <2> QED BY <2>1, StatusCasesNext
<1>8. ASSUME NEW u \in Urls \ {i.url} PROVE StatusOf(u)' = StatusOf(u)
  <2>1. Leased(u)' = Leased(u)
    BY <1>4 DEF Leased
  <2>2. Queued(u)' = Queued(u) /\ Coming(u)' = Coming(u)
    BY <1>1, <1>5 DEF Queued, Coming
  <2> QED BY <1>5, <2>1, <2>2, StatusCases, StatusCasesNext
<1> QED BY <1>2, <1>6, <1>7, <1>8, StatusMoves

LEMMA SettleShows ==
  ASSUME IndInv, NEW w \in Workers, CompleteCount(w)
  PROVE  \E v \in Urls : StatusOf(v) = "leased" /\ Status' = [Status EXCEPT ![v] = "done"]
<1>0. /\ held \in [Workers -> Items \cup {NoItem}] /\ pc \in [Procs -> WorkerPcs \cup MainPcs]
  BY Typed DEF IndInv, Shape
<1>1. w \in Holding
  BY DEF CompleteCount, CountDown, Holding, IndInv, Shape, HandsMatch, HandPcs
<1> PICK v \in Urls : v = held[w].url
  BY <1>1, ShapeArgs, ItemsFacts DEF IndInv
<1>2. /\ Holding' = Holding \ {w} /\ queue' = queue
      /\ \A x \in Workers \ {w} : held'[x] = held[x]
      /\ Holding \subseteq Workers
  BY <1>0 DEF CompleteCount, CountDown, Holding
<1>3. /\ arg' = arg /\ visited' = visited
      /\ Pushing' = Pushing /\ Queueing' = Queueing /\ Queueing \subseteq Pushing
  BY <1>0 DEF CompleteCount, CountDown, Goto, AfterComplete, Pushing, Queueing, Procs
<1>4. /\ v \in visited
      /\ \A i \in queue : i.url # v
      /\ \A x \in Holding \ {w} : held[x].url # v
      /\ \A q \in Pushing : arg[q].url # v
  BY <1>1, InPlayFacts DEF IndInv, AtMostOnce
<1>5. StatusOf(v) = "leased"
  BY <1>1, StatusCases DEF Leased
<1>6. StatusOf(v)' = "done"
  <2>1. ~Leased(v)' /\ ~Queued(v)' /\ ~Coming(v)'
    BY <1>2, <1>3, <1>4 DEF Leased, Queued, Coming
  <2> QED BY <1>3, <1>4, <2>1, StatusCasesNext
<1>7. ASSUME NEW u \in Urls \ {v} PROVE StatusOf(u)' = StatusOf(u)
  <2>1. Leased(u)' = Leased(u)
    BY <1>2 DEF Leased
  <2>2. Queued(u)' = Queued(u) /\ Coming(u)' = Coming(u)
    BY <1>2, <1>3 DEF Queued, Coming
  <2> QED BY <1>3, <2>1, <2>2, StatusCases, StatusCasesNext
<1> QED BY <1>1, <1>5, <1>6, <1>7, StatusMoves
-----------------------------------------------------------------------------
(* What a step shows of the doors: stop() closes them, and pop sends a     *)
(* worker home that found them closed or nothing pending.                  *)
LEMMA DoorKinds ==
  ASSUME Shape, [Next]_vars, ~Restart
  PROVE  \/ stopped' = stopped /\ Gone' = Gone
         \/ stopped' = TRUE /\ Gone' = Gone
         \/ \E w \in Workers \ Gone :
              /\ stopped' = stopped /\ Gone' = Gone \cup {w}
              /\ stopped \/ pending = 0
<1> DEFINE Same == stopped' = stopped /\ Gone' = Gone
           Outcome == \/ Same
                      \/ \E w \in Workers \ Gone :
                           /\ stopped' = stopped /\ Gone' = Gone \cup {w}
                           /\ stopped \/ pending = 0
<1> USE FrontierAssumption
<1> USE DEF Gone, Goto, AfterPush, CompleteStart, memVars, taskVars
<1>0. /\ pc \in [Procs -> WorkerPcs \cup MainPcs]
      /\ \A w \in Workers : w \in Procs /\ w # Main
      /\ \A w \in Workers : pc[w] \in {"stop_set", "stop_notify"} => w \in leaving
  BY Typed DEF Shape, LeaversStop, Procs
<1>1. ASSUME NEW p \in Procs, PushDuplicate(p) PROVE Same
  BY <1>0, <1>1 DEF PushDuplicate
<1>2. ASSUME NEW p \in Procs, PushFresh(p) PROVE Same
  BY <1>0, <1>2 DEF PushFresh, Admit
<1>3. ASSUME NEW p \in Procs, PushSeen(p) PROVE Same
  BY <1>0, <1>3 DEF PushSeen
<1>4. ASSUME NEW p \in Procs, PushRow(p) PROVE Same
  BY <1>0, <1>4 DEF PushRow
<1>5. ASSUME NEW p \in Procs, PushCount(p) PROVE Same
  BY <1>0, <1>5 DEF PushCount
<1>6. ASSUME NEW p \in Procs, PushQueue(p) PROVE Same
  BY <1>0, <1>6 DEF PushQueue
<1>7. ASSUME NEW p \in Procs, PushNotify(p) PROVE Same
  BY <1>0, <1>7 DEF PushNotify
<1>8. ASSUME NEW w \in Workers, PopListen(w) PROVE Same
  BY <1>0, <1>8 DEF PopListen
<1>9. ASSUME NEW w \in Workers, PopStopCheck(w) PROVE Outcome
  <2>1. stopped' = stopped
    BY <1>9 DEF PopStopCheck
  <2>2. CASE stopped /\ w \notin leaving
    BY <1>0, <1>9, <2>1, <2>2 DEF PopStopCheck
  <2>3. CASE ~stopped \/ w \in leaving
    BY <1>0, <1>9, <2>1, <2>3 DEF PopStopCheck
  <2> QED BY <2>2, <2>3
<1>10. ASSUME NEW w \in Workers, PopTake(w) PROVE Same
  BY <1>0, <1>10 DEF PopTake
<1>11. ASSUME NEW w \in Workers, PopEmpty(w) PROVE Same
  BY <1>0, <1>11 DEF PopEmpty
<1>12. ASSUME NEW w \in Workers, PopLease(w) PROVE Same
  BY <1>0, <1>12 DEF PopLease
<1>13. ASSUME NEW w \in Workers, PopPendingCheck(w) PROVE Outcome
  <2>1. stopped' = stopped
    BY <1>13 DEF PopPendingCheck
  <2>2. CASE pending = 0 /\ w \notin leaving
    BY <1>0, <1>13, <2>1, <2>2 DEF PopPendingCheck
  <2>3. CASE pending # 0 \/ w \in leaving
    BY <1>0, <1>13, <2>1, <2>3 DEF PopPendingCheck
  <2> QED BY <2>2, <2>3
<1>14. ASSUME NEW w \in Workers, PopAwait(w) PROVE Same
  BY <1>0, <1>14 DEF PopAwait
<1>15. ASSUME NEW w \in Workers, CompleteRow(w) PROVE Same
  BY <1>0, <1>15 DEF CompleteRow
<1>16. ASSUME NEW w \in Workers, CompleteCount(w) PROVE Same
  BY <1>0, <1>16 DEF CompleteCount, CountDown, AfterComplete
<1>17. ASSUME NEW w \in Workers, CompleteNotify(w) PROVE Same
  BY <1>0, <1>17 DEF CompleteNotify, AfterComplete
<1>18. ASSUME NEW w \in Workers, StopSet(w) PROVE stopped' = TRUE /\ Gone' = Gone
  BY <1>0, <1>18 DEF StopSet
<1>19. ASSUME NEW w \in Workers, StopNotify(w) PROVE Same
  BY <1>0, <1>19 DEF StopNotify
<1>20. ASSUME NEW w \in Workers, BeginPop(w) PROVE Same
  BY <1>0, <1>20 DEF BeginPop
<1>21. ASSUME NEW w \in Workers, BeginStop(w) PROVE Same
  BY <1>0, <1>21 DEF BeginStop
<1>22. ASSUME NEW w \in Workers, GiveUp(w) PROVE Same
  BY <1>0, <1>22 DEF GiveUp
<1>23. ASSUME NEW w \in Workers, Discover(w) PROVE Same
  BY <1>0, <1>23 DEF Discover
<1>24. ASSUME NEW w \in Workers, BeginPush(w) PROVE Same
  BY <1>0, <1>24 DEF BeginPush
<1>25. ASSUME NEW w \in Workers, BeginComplete(w) PROVE Same
  BY <1>0, <1>25 DEF BeginComplete, MarkCrawled
<1>26. CASE SpawnWorkers
  <2>1. \A w \in Workers : pc[w] = "off"
    BY <1>26 DEF SpawnWorkers, Shape, MainFirst
  <2> QED BY <1>0, <1>26, <2>1 DEF SpawnWorkers
<1>27. CASE UNCHANGED vars
  BY <1>27 DEF vars
<1> QED
  BY <1>1, <1>2, <1>3, <1>4, <1>5, <1>6, <1>7, <1>8, <1>9, <1>10, <1>11, <1>12, <1>13,
     <1>14, <1>15, <1>16, <1>17, <1>18, <1>19, <1>20, <1>21, <1>22, <1>23, <1>24, <1>25,
     <1>26, <1>27, Steps

LEMMA DoorsStay ==
  ASSUME Shape
  PROVE  /\ \A p \in Procs : PushFresh(p) \/ PushRow(p) \/ PushCount(p) \/ PushQueue(p) =>
              stopped' = stopped /\ Gone' = Gone
         /\ \A w \in Workers : PopTake(w) \/ CompleteRow(w) \/ CompleteCount(w) =>
              stopped' = stopped /\ Gone' = Gone
<1> USE FrontierAssumption DEF Gone, Goto, taskVars
<1>0. /\ pc \in [Procs -> WorkerPcs \cup MainPcs]
      /\ \A w \in Workers : w \in Procs
  BY Typed DEF Shape
<1>1. ASSUME NEW p \in Procs, PushFresh(p) PROVE stopped' = stopped /\ Gone' = Gone
  BY <1>0, <1>1 DEF PushFresh, Admit
<1>2. ASSUME NEW p \in Procs, PushCount(p) PROVE stopped' = stopped /\ Gone' = Gone
  BY <1>0, <1>2 DEF PushCount
<1>3. ASSUME NEW p \in Procs, PushQueue(p) PROVE stopped' = stopped /\ Gone' = Gone
  BY <1>0, <1>3 DEF PushQueue
<1>4. ASSUME NEW w \in Workers, PopTake(w) PROVE stopped' = stopped /\ Gone' = Gone
  BY <1>0, <1>4 DEF PopTake
<1>5. ASSUME NEW w \in Workers, CompleteCount(w) PROVE stopped' = stopped /\ Gone' = Gone
  BY <1>0, <1>5 DEF CompleteCount, CountDown, AfterComplete
<1>6. ASSUME NEW p \in Procs, PushRow(p) PROVE stopped' = stopped /\ Gone' = Gone
  BY <1>0, <1>6 DEF PushRow, memVars
<1>7. ASSUME NEW w \in Workers, CompleteRow(w) PROVE stopped' = stopped /\ Gone' = Gone
  BY <1>0, <1>7 DEF CompleteRow, memVars
<1> QED BY <1>1, <1>2, <1>3, <1>4, <1>5, <1>6, <1>7
-----------------------------------------------------------------------------
(* The refinement.                                                         *)

LEMMA PoolInit == Init => Pool!Init
<1> SUFFICES ASSUME Init PROVE Pool!Init
  OBVIOUS
<1> USE FrontierAssumption
<1>1. /\ Holding = {} /\ Pushing = {} /\ Queueing = {}
      /\ queue = {} /\ visited = {}
  BY DEF Init, TasksStart, Holding, Pushing, Queueing, Procs
<1>2. \A u \in Urls : StatusOf(u) = "new"
  BY <1>1, StatusCases DEF Leased, Queued
<1>3. ~stopped /\ Gone = {}
  BY DEF Init, TasksStart, Gone, Procs
<1> QED BY <1>2, <1>3 DEF Pool!Init, Gone

LEMMA PoolStep ==
  ASSUME IndInv, SeedFirst, [Next]_vars, ~Restart
  PROVE  [Pool!Next]_Pool!vars
<1> USE DEF Status, Gone
<1>0. Shape
  BY DEF IndInv
<1>1. CASE Quiet
  <2>1. Status' = Status
    BY <1>0, <1>1, QuietShows
  <2>2. CASE stopped' = stopped /\ Gone' = Gone
    BY <2>1, <2>2 DEF Pool!vars
  <2>3. CASE stopped' = TRUE /\ Gone' = Gone
    BY <2>1, <2>3 DEF Pool!Next, Pool!Close
  <2>4. CASE \E w \in Workers \ Gone :
               /\ stopped' = stopped /\ Gone' = Gone \cup {w}
               /\ stopped \/ pending = 0
    <3>1. PICK w \in Workers \ Gone :
            /\ stopped' = stopped /\ Gone' = Gone \cup {w}
            /\ stopped \/ pending = 0
      BY <2>4
    <3>2. CASE stopped
      BY <2>1, <3>1, <3>2 DEF Pool!Next, Pool!Leave
    <3>3. CASE pending = 0
      <4>1. Outstanding = {}
        BY <3>3, FS_EmptySet DEF IndInv, PendingExact, OutstandingFinite
      <4>2. \A u \in Urls : StatusOf(u) \notin {"queued", "leased"}
        BY <4>1, StatusCases DEF Leased, Queued, Queueing, Outstanding
      <4>3. Pool!Idle
        BY <4>2 DEF Pool!Idle, Pool!In
      <4> QED BY <2>1, <3>1, <4>3 DEF Pool!Next, Pool!Leave
    <3> QED BY <3>1, <3>2, <3>3
  <2> QED BY <1>0, <2>2, <2>3, <2>4, DoorKinds
<1>2. ASSUME NEW p \in Procs, PushFresh(p) \/ PushQueue(p) PROVE [Pool!Next]_Pool!vars
  <2>1. Status' = Status /\ stopped' = stopped /\ Gone' = Gone
    BY <1>0, <1>2, FreshShows, QueueShows, DoorsStay
  <2> QED BY <2>1 DEF Pool!vars
<1>3. ASSUME NEW p \in Procs, PushCount(p) PROVE [Pool!Next]_Pool!vars
  <2>1. stopped' = stopped /\ Gone' = Gone
    BY <1>0, <1>3, DoorsStay
  <2>2. PICK v \in Urls :
          /\ StatusOf(v) = "new"
          /\ Status' = [Status EXCEPT ![v] = "queued"]
          /\ \/ \E u \in Urls : StatusOf(u) = "leased"
             \/ v = Seed /\ \A u \in Urls : StatusOf(u) = "new"
    BY <1>3, CountShows
  <2>3. Pool!Offer(v)
    BY <2>1, <2>2 DEF Pool!Offer, Pool!MayOffer, Pool!In
  <2> QED BY <2>3 DEF Pool!Next
<1>4. ASSUME NEW w \in Workers, PopTake(w) PROVE [Pool!Next]_Pool!vars
  <2>1. stopped' = stopped /\ Gone' = Gone
    BY <1>0, <1>4, DoorsStay
  <2>2. PICK v \in Urls : StatusOf(v) = "queued" /\ Status' = [Status EXCEPT ![v] = "leased"]
    BY <1>4, TakeShows
  <2>3. Pool!Take(v)
    BY <2>1, <2>2 DEF Pool!Take
  <2> QED BY <2>3 DEF Pool!Next
<1>5. ASSUME NEW w \in Workers, CompleteCount(w) PROVE [Pool!Next]_Pool!vars
  <2>1. stopped' = stopped /\ Gone' = Gone
    BY <1>0, <1>5, DoorsStay
  <2>2. PICK v \in Urls : StatusOf(v) = "leased" /\ Status' = [Status EXCEPT ![v] = "done"]
    BY <1>5, SettleShows
  <2>3. Pool!Settle(v)
    BY <2>1, <2>2 DEF Pool!Settle
  <2> QED BY <2>3 DEF Pool!Next
<1> QED BY <1>0, <1>1, <1>2, <1>3, <1>4, <1>5, StepKinds

LEMMA OneProcess ==
  ASSUME MaxRestarts = 0, Shape
  PROVE  ~Restart
BY DEF Restart, Shape, TypeOK, HistTypeOK

(* The frontier implements the abstract pool, in memory or over a file,    *)
(* also while store writes fail: a URL is offered, handed out and settled  *)
(* once, work is added only by somebody at work, and a worker is sent home *)
(* only when the frontier was stopped or when nothing is left.  It is said *)
(* of one process: the next one offers again what the file still holds.    *)
THEOREM FrontierIsAPool ==
  ASSUME MaxRestarts = 0
  PROVE  Spec => ImplementsPool
<1>1. Init => SeedFirst
  BY FrontierAssumption DEF Init, TasksStart, SeedItem, SeedFirst, Procs
<1>2. IndInv /\ SeedFirst /\ [Next]_vars => SeedFirst'
  BY OneProcess, SeedFirstInductive DEF IndInv
<1>3. IndInv /\ SeedFirst /\ [Next]_vars => [Pool!Next]_Pool!vars
  BY OneProcess, PoolStep DEF IndInv
<1> QED
  BY <1>1, <1>2, <1>3, PoolInit, Invariance, PTL DEF Spec, ImplementsPool, Pool!Spec
=============================================================================
