---------------------------- MODULE StoreProofs ----------------------------
(***************************************************************************)
(* What the file is good for, with a crash between any two steps: it can   *)
(* rebuild the frontier, what was completed stays completed, and what a    *)
(* completed page links to can be found again.                             *)
(***************************************************************************)
EXTENDS FrontierProofs

(* The writes of a persistent frontier succeed.                            *)
Reliable == Durable /\ ~WriteErrors

(* Completed work: for this, writes may fail.                              *)
LEMMA RetiredStay ==
  ASSUME IndInv, [Next]_vars
  PROVE  Retired \subseteq Retired'
<1> USE FrontierAssumption
<1>0. /\ pc \in [Procs -> WorkerPcs \cup MainPcs]
      /\ arg \in [Procs -> Items \cup {NoItem}]
      /\ held \in [Workers -> Items \cup {NoItem}]
      /\ rows \in [Urls -> Row] /\ seenTable \subseteq Urls
      /\ \A w \in Workers : w \in Procs
  BY Typed DEF IndInv, Shape
<1> SUFFICES ASSUME NEW u \in Retired PROVE u \in Retired'
  OBVIOUS
<1>1. u \in seenTable /\ u \in visited /\ u \notin InPlay /\ rows[u].state = "absent" /\ u \in Urls
  BY <1>0 DEF Retired
<1>2. u \in seenTable' /\ rows'[u].state = "absent"
  <2>1. ASSUME NEW p \in Procs, PushRow(p) PROVE u \in seenTable' /\ rows'[u].state = "absent"
    <3>1. p \in Pushing /\ arg[p] \in Items
      BY <2>1, ShapeArgs DEF PushRow, Pushing, PushPcs, IndInv
    <3>2. arg[p].url # u
      BY <1>1, <3>1 DEF InPlay
    <3> QED BY <1>0, <1>1, <2>1, <3>2 DEF PushRow, EnqueueRow, storeVars
  <2>2. ASSUME NEW p \in Procs, PushSeen(p) PROVE u \in seenTable' /\ rows'[u].state = "absent"
    BY <1>1, <2>2 DEF PushSeen, MarkSeen, storeVars
  <2>3. ASSUME NEW w \in Workers, PopLease(w) PROVE u \in seenTable' /\ rows'[u].state = "absent"
    BY <1>0, <1>1, <2>3 DEF PopLease, MarkInflight, storeVars, Row
  <2>4. ASSUME NEW w \in Workers, CompleteRow(w) PROVE u \in seenTable' /\ rows'[u].state = "absent"
    BY <1>0, <1>1, <2>4 DEF CompleteRow, DeleteRow, Absent, storeVars, Row
  <2>5. CASE Restart
    BY <1>0, <1>1, <2>5 DEF Restart, Requeued, Row
  <2> QED
    BY <1>1, <2>1, <2>2, <2>3, <2>4, <2>5, Steps
       DEF PushDuplicate, PushFresh, Admit, PushCount, PushQueue, PushNotify, PopListen,
           PopStopCheck, PopTake, PopEmpty, PopPendingCheck, PopAwait, CompleteCount, CountDown,
           CompleteNotify, StopSet, StopNotify, BeginPop, BeginStop, GiveUp, Discover, BeginPush,
           BeginComplete, MarkCrawled, SpawnWorkers, storeVars, vars
<1>3. u \in visited' /\ u \notin InPlay'
  <2>1. CASE Quiet
    <3>1. Queueing \subseteq Pushing /\ Holding' = Holding
      BY <2>1 DEF Quiet, Queueing, Pushing, Holding
    <3>2. {arg'[p] : p \in Queueing'} = {arg[p] : p \in Queueing}
      BY <2>1, <3>1 DEF Quiet
    <3>3. InPlay' = InPlay
      BY <2>1, <3>1, <3>2 DEF Quiet, InPlay, Outstanding, Queueing
    <3> QED BY <1>1, <2>1, <3>3 DEF Quiet
  <2>2. ASSUME NEW p \in Procs, PushFresh(p) PROVE u \in visited' /\ u \notin InPlay'
    <3>1. arg[p] \in Items /\ arg[p].url \notin visited
      BY <2>2, ShapeArgs DEF PushFresh, PushPcs, IndInv
    <3>2. /\ arg'[p].url = arg[p].url
          /\ \A q \in Procs \ {p} : arg'[q] = arg[q] /\ pc'[q] = pc[q]
          /\ pc'[p] \in {"push_seen", "push_count"}
          /\ visited' = visited \cup {arg[p].url} /\ queue' = queue /\ held' = held
      BY <1>0, <2>2, <3>1 DEF PushFresh, Admit, Goto, Items
    <3>3. Outstanding' \subseteq Outstanding
      BY <3>2 DEF Outstanding, Holding
    <3>4. \A q \in Pushing' : q = p \/ (q \in Pushing /\ arg'[q] = arg[q])
      BY <3>2 DEF Pushing
    <3>5. u # arg[p].url
      BY <1>1, <3>1
    <3> QED BY <1>1, <3>2, <3>3, <3>4, <3>5 DEF InPlay
  <2>3. ASSUME NEW p \in Procs, PushCount(p) \/ PushQueue(p) PROVE u \in visited' /\ u \notin InPlay'
    <3>1. /\ queue' \subseteq queue \cup {arg[p]} /\ held' = held /\ visited' = visited
          /\ p \in Pushing
          /\ \A q \in Procs \ {p} : arg'[q] = arg[q] /\ pc'[q] = pc[q]
          /\ pc'[p] \in {"push_queue", "push_notify"}
          /\ pc'[p] = "push_queue" => arg'[p] = arg[p]
      BY <1>0, <2>3 DEF PushCount, PushQueue, Goto, Pushing, taskVars
    <3>2. \A q \in Pushing' : q \in Pushing /\ arg'[q] = arg[q]
      BY <3>1 DEF Pushing
    <3>3. \A i \in Outstanding' : i \in Outstanding \/ i = arg[p]
      BY <3>1 DEF Outstanding, Holding
    <3> QED BY <1>1, <3>1, <3>2, <3>3 DEF InPlay
  <2>4. ASSUME NEW w \in Workers, PopTake(w) \/ CompleteCount(w)
        PROVE  u \in visited' /\ u \notin InPlay'
    <3>1. /\ visited' = visited /\ arg' = arg /\ queue' \subseteq queue
          /\ \A v \in Workers : held'[v] \in {held[v], NoItem} \cup queue
      BY <1>0, <2>4 DEF PopTake, CompleteCount, CountDown
    <3>2. \A q \in Procs : pc'[q] \in PushPcs => pc'[q] = pc[q]
      BY <1>0, <2>4 DEF PopTake, CompleteCount, CountDown, Goto, AfterComplete, PushPcs
    <3>3. \A i \in Outstanding' : i \in Outstanding
      BY <3>1, <3>2 DEF Outstanding, Holding, PushPcs
    <3>4. Pushing' \subseteq Pushing
      BY <3>2 DEF Pushing, PushPcs
    <3> QED BY <1>1, <3>1, <3>3, <3>4 DEF InPlay
  <2>5. CASE Restart
    <3>1. queue' = LoadedItems /\ visited' = seenTable
      BY <2>5 DEF Restart, LoadedSeen
    <3>2. Holding' = {} /\ Pushing' = {} /\ {q \in Procs : pc'[q] = "push_queue"} = {}
      BY <2>5 DEF Restart, Holding, Pushing
    <3>3. Outstanding' = LoadedItems
      BY <3>1, <3>2 DEF Outstanding
    <3>4. \A i \in LoadedItems : i.url \in Present
      BY LoadedItemsFacts DEF IndInv, Shape, TypeOK
    <3> QED BY <1>1, <3>1, <3>2, <3>3, <3>4 DEF InPlay, Present
  <2> QED BY <2>1, <2>2, <2>3, <2>4, <2>5, StepKinds DEF IndInv
<1> QED BY <1>2, <1>3 DEF Retired

(* A URL that was completed is never queued, leased or given a row again,  *)
(* in this process or a later one.                                         *)
THEOREM CompletedIsForever == Spec => CompletedStaysCompleted
<1>1. IndInv /\ [Next]_vars => [Retired \subseteq Retired']_vars
  BY RetiredStay
<1> QED BY <1>1, Invariance, PTL DEF Spec, CompletedStaysCompleted
-----------------------------------------------------------------------------
Placed == Outstanding \cup {arg[p] : p \in Pushing}

FileInv == FileExact /\ SeqsDistinct

(* Steps that neither move an item nor write a row.                        *)
Calm == /\ Quiet
        /\ rows' = rows /\ nextSeq' = nextSeq
        /\ RowWritten' = RowWritten /\ RowDeleted' = RowDeleted

LEMMA FileKinds ==
  ASSUME Reliable, Shape, [Next]_vars
  PROVE  \/ Calm
         \/ \E p \in Procs : PushFresh(p) \/ PushRow(p) \/ PushCount(p) \/ PushQueue(p)
         \/ \E w \in Workers : PopTake(w) \/ PopLease(w) \/ CompleteRow(w) \/ CompleteCount(w)
         \/ Restart
<1> DEFINE Still == /\ rows' = rows /\ nextSeq' = nextSeq
                    /\ RowWritten' = RowWritten /\ RowDeleted' = RowDeleted
<1>0. /\ pc \in [Procs -> WorkerPcs \cup MainPcs]
      /\ \A w \in Workers : w \in Procs
      /\ Durable /\ ~WriteErrors
  BY Typed DEF Shape, Reliable
<1>1. ASSUME NEW p \in Procs, NEW l, Goto(p, l), rows' = rows, nextSeq' = nextSeq,
             l \notin {"push_count", "push_queue", "count_down"},
             pc[p] \notin {"push_count", "push_queue", "count_down"}
      PROVE  Still
  BY <1>0, <1>1 DEF RowWritten, RowDeleted, Goto
<1>2. ASSUME NEW p \in Procs, PushDuplicate(p) \/ PushSeen(p) \/ PushNotify(p) PROVE Still
  BY <1>0, <1>1, <1>2 DEF PushDuplicate, PushSeen, PushNotify, MarkSeen, storeVars, memVars,
                          AfterPush
<1>3. ASSUME NEW w \in Workers,
             PopListen(w) \/ PopStopCheck(w) \/ PopEmpty(w) \/ PopPendingCheck(w)
      PROVE  Still
  BY <1>0, <1>1, <1>3 DEF PopListen, PopStopCheck, PopEmpty, PopPendingCheck, storeVars, memVars
<1>4. ASSUME NEW w \in Workers, PopAwait(w) PROVE Still
  <2>1. rows' = rows /\ nextSeq' = nextSeq
    BY <1>4 DEF PopAwait, storeVars, memVars
  <2>2. CASE UNCHANGED pc
    BY <2>1, <2>2 DEF RowWritten, RowDeleted
  <2>3. CASE Goto(w, "listen")
    BY <1>0, <1>1, <1>4, <2>1, <2>3 DEF PopAwait
  <2> QED BY <1>4, <2>2, <2>3 DEF PopAwait
<1>5. ASSUME NEW w \in Workers, CompleteNotify(w) \/ StopSet(w) \/ StopNotify(w)
      PROVE  Still
  BY <1>0, <1>1, <1>5 DEF CompleteNotify, StopSet, StopNotify, storeVars, memVars,
                          AfterComplete, CompleteStart
<1>6. ASSUME NEW w \in Workers, BeginPop(w) \/ BeginStop(w) \/ GiveUp(w) \/ Discover(w)
      PROVE  Still
  BY <1>0, <1>1, <1>6 DEF BeginPop, BeginStop, GiveUp, Discover, storeVars, memVars, CompleteStart
<1>7. ASSUME NEW w \in Workers, BeginPush(w) \/ BeginComplete(w) PROVE Still
  BY <1>0, <1>1, <1>7 DEF BeginPush, BeginComplete, MarkCrawled, storeVars, memVars, CompleteStart
<1>8. ASSUME SpawnWorkers PROVE Still
  <2>1. \A p \in Procs : pc[p] \notin {"push_count", "push_queue", "count_down"}
    BY <1>8 DEF SpawnWorkers, Shape, MainFirst, Procs
  <2>2. \A p \in Procs : pc'[p] \in {"join", "loop"}
    BY <1>8 DEF SpawnWorkers
  <2>3. rows' = rows /\ nextSeq' = nextSeq
    BY <1>8 DEF SpawnWorkers, storeVars, memVars
  <2>4. RowWritten = {} /\ RowDeleted = {}
    BY <1>0, <2>1 DEF RowWritten, RowDeleted
  <2>5. RowWritten' = {} /\ RowDeleted' = {}
    BY <1>0, <2>2 DEF RowWritten, RowDeleted
  <2> QED BY <2>3, <2>4, <2>5
<1>9. ASSUME UNCHANGED vars PROVE Still
  <2>1. rows' = rows /\ nextSeq' = nextSeq /\ pc' = pc
    BY <1>9 DEF vars, storeVars, memVars
  <2> QED BY <2>1 DEF RowWritten, RowDeleted
<1> HIDE DEF Still
<1>10. \/ Still
       \/ \E p \in Procs : PushFresh(p) \/ PushRow(p) \/ PushCount(p) \/ PushQueue(p)
       \/ \E w \in Workers : PopTake(w) \/ PopLease(w) \/ CompleteRow(w) \/ CompleteCount(w)
       \/ Restart
  BY <1>2, <1>3, <1>4, <1>5, <1>6, <1>7, <1>8, <1>9, Steps
<1> QED BY <1>10, StepKinds DEF Calm, Still
LEMMA WithRowFacts ==
  ASSUME Shape
  PROVE  /\ WithRow \subseteq Placed /\ Placed \subseteq Items
         /\ RowWritten \subseteq Pushing /\ Pushing \subseteq Procs
<1>1. RowWritten \subseteq Pushing /\ Pushing \subseteq Procs
  BY DEF RowWritten, Pushing
<1>2. WithRow \subseteq Placed
  BY <1>1 DEF WithRow, Placed, Outstanding
<1>3. Placed \subseteq Items
  BY ShapeArgs DEF Placed, Pushing, PushPcs
<1> QED BY <1>1, <1>2, <1>3

(* A loaded item is what its row says, before a step and after it.         *)
LEMMA LoadedIs ==
  ASSUME StoreTypeOK, StoreTypeOK'
  PROVE  /\ LoadedItems = {[url |-> u, depth |-> rows[u].depth, seq |-> rows[u].seq] :
                             u \in Present}
         /\ LoadedItems' = {[url |-> u, depth |-> rows'[u].depth, seq |-> rows'[u].seq] :
                              u \in Present'}
<1>1. LoadedItems = {[url |-> u, depth |-> rows[u].depth, seq |-> rows[u].seq] : u \in Present}
  BY DEF LoadedItems, Requeued, StoreTypeOK, Row, Present
<1>2. LoadedItems' = {[url |-> u, depth |-> rows'[u].depth, seq |-> rows'[u].seq] : u \in Present'}
  BY DEF LoadedItems, Requeued, StoreTypeOK, Row, Present
<1> QED BY <1>1, <1>2

(* Changing a row's state does not change the item it loads as.            *)
SameItem(u) == /\ rows'[u].state = "absent" <=> rows[u].state = "absent"
               /\ rows'[u].depth = rows[u].depth
               /\ rows'[u].seq = rows[u].seq

LEMMA LoadedKept ==
  ASSUME StoreTypeOK, StoreTypeOK', \A u \in Urls : SameItem(u)
  PROVE  LoadedItems' = LoadedItems
<1>1. Present' = Present
  BY DEF Present, SameItem
<1>2. \A u \in Present : rows'[u].depth = rows[u].depth /\ rows'[u].seq = rows[u].seq
  BY DEF Present, SameItem
<1> QED BY <1>1, <1>2, LoadedIs

LEMMA FileInductive ==
  ASSUME Reliable, IndInv, Shape', FileExact, [Next]_vars
  PROVE  FileExact'
<1>0. /\ pc \in [Procs -> WorkerPcs \cup MainPcs]
      /\ arg \in [Procs -> Items \cup {NoItem}]
      /\ held \in [Workers -> Items \cup {NoItem}]
      /\ rows \in [Urls -> Row]
      /\ \A w \in Workers : w \in Procs
      /\ Durable /\ ~WriteErrors
  BY Typed DEF IndInv, Shape, Reliable
<1>1. StoreTypeOK /\ StoreTypeOK' /\ Shape /\ AtMostOnce
  BY DEF IndInv, Shape, TypeOK
<1>2. ASSUME rows' = rows PROVE LoadedItems' = LoadedItems
  BY <1>2 DEF LoadedItems, Requeued
<1>3. RowWritten \subseteq Pushing
  BY <1>1, WithRowFacts
<1>4. CASE Calm
  <2>1. Holding' = Holding
    BY <1>4 DEF Calm, Quiet, Holding
  <2>2. {arg'[p] : p \in RowWritten'} = {arg[p] : p \in RowWritten}
    BY <1>3, <1>4 DEF Calm, Quiet
  <2>3. {held'[w] : w \in Holding' \ RowDeleted'} = {held[w] : w \in Holding \ RowDeleted}
    BY <1>4, <2>1 DEF Calm, Quiet
  <2>4. WithRow' = WithRow
    BY <1>4, <2>2, <2>3 DEF Calm, Quiet, WithRow
  <2> QED BY <1>2, <1>4, <2>4 DEF Calm, FileExact
<1>5. ASSUME NEW p \in Procs, PushFresh(p) PROVE FileExact'
  <2>1. /\ rows' = rows /\ queue' = queue /\ held' = held
        /\ \A q \in Procs \ {p} : arg'[q] = arg[q] /\ pc'[q] = pc[q]
        /\ pc[p] = "push_insert" /\ pc'[p] = "push_seen"
    BY <1>0, <1>5 DEF PushFresh, Admit, Goto, storeVars
  <2>2. RowWritten' = RowWritten /\ RowDeleted' = RowDeleted /\ Holding' = Holding
    BY <1>0, <2>1 DEF RowWritten, RowDeleted, Holding
  <2>3. {arg'[q] : q \in RowWritten'} = {arg[q] : q \in RowWritten}
    BY <2>1, <2>2 DEF RowWritten
  <2> QED BY <1>2, <2>1, <2>2, <2>3 DEF FileExact, WithRow
<1>6. ASSUME NEW p \in Procs, PushRow(p) PROVE FileExact'
  <2>1. p \in Pushing /\ p \notin RowWritten /\ arg[p] \in Items
    BY <1>1, <1>6, ShapeArgs DEF PushRow, Pushing, PushPcs, RowWritten
  <2>2. /\ queue' = queue /\ held' = held /\ arg' = arg
        /\ pc'[p] = "push_count"
        /\ \A q \in Procs \ {p} : pc'[q] = pc[q]
        /\ rows' = [rows EXCEPT ![arg[p].url] =
                      [state |-> "queued", depth |-> arg[p].depth, seq |-> arg[p].seq]]
    BY <1>0, <1>6 DEF PushRow, EnqueueRow, Goto, memVars, taskVars
  <2>3. RowWritten' = RowWritten \cup {p} /\ RowDeleted' = RowDeleted /\ Holding' = Holding
    BY <1>0, <1>6, <2>2 DEF RowWritten, RowDeleted, Holding, PushRow
  <2>4. WithRow' = WithRow \cup {arg[p]}
    BY <2>2, <2>3 DEF WithRow
  <2>5. \A i \in WithRow : i.url # arg[p].url
    BY <1>1, <1>3, <2>1 DEF WithRow, AtMostOnce
  <2>6. \A u \in Urls : u # arg[p].url => rows'[u] = rows[u]
    BY <1>0, <2>2
  <2>7. /\ arg[p].url \in Urls
        /\ arg[p] = [url |-> arg[p].url, depth |-> arg[p].depth, seq |-> arg[p].seq]
        /\ rows'[arg[p].url] = [state |-> "queued", depth |-> arg[p].depth, seq |-> arg[p].seq]
    BY <1>0, <2>1, <2>2 DEF Items
  <2>8. arg[p].url \notin Present
    <3>1. \A u \in Present :
            [url |-> u, depth |-> rows[u].depth, seq |-> rows[u].seq] \in LoadedItems
      BY <1>1, LoadedIs
    <3> QED BY <2>5, <3>1 DEF FileExact
  <2>9. Present' = Present \cup {arg[p].url}
    BY <2>6, <2>7 DEF Present
  <2>10. LoadedItems' = LoadedItems \cup {arg[p]}
    <3>1. LoadedItems' = {[url |-> u, depth |-> rows'[u].depth, seq |-> rows'[u].seq] : u \in Present'}
      BY <1>1, LoadedIs
    <3>2. LoadedItems = {[url |-> u, depth |-> rows[u].depth, seq |-> rows[u].seq] : u \in Present}
      BY <1>1, LoadedIs
    <3>3. \A u \in Present : rows'[u] = rows[u]
      BY <2>6, <2>8 DEF Present
    <3>4. arg[p] = [url |-> arg[p].url, depth |-> rows'[arg[p].url].depth, seq |-> rows'[arg[p].url].seq]
      BY <2>7
    <3> QED BY <2>9, <3>1, <3>2, <3>3, <3>4
  <2> QED BY <2>4, <2>10 DEF FileExact
<1>7. ASSUME NEW p \in Procs, PushCount(p) PROVE FileExact'
  <2>1. /\ rows' = rows /\ queue' = queue /\ held' = held /\ arg' = arg
        /\ \A q \in Procs \ {p} : pc'[q] = pc[q]
        /\ pc[p] = "push_count" /\ pc'[p] = "push_queue"
    BY <1>0, <1>7 DEF PushCount, Goto, storeVars, taskVars
  <2>2. RowWritten' = RowWritten /\ RowDeleted' = RowDeleted /\ Holding' = Holding
    BY <1>0, <2>1 DEF RowWritten, RowDeleted, Holding
  <2> QED BY <1>2, <2>1, <2>2 DEF FileExact, WithRow
<1>8. ASSUME NEW p \in Procs, PushQueue(p) PROVE FileExact'
  <2>1. /\ rows' = rows /\ queue' = queue \cup {arg[p]} /\ held' = held
        /\ \A q \in Procs \ {p} : arg'[q] = arg[q] /\ pc'[q] = pc[q]
        /\ pc[p] = "push_queue" /\ pc'[p] = "push_notify"
    BY <1>0, <1>8 DEF PushQueue, Goto, storeVars
  <2>2. RowWritten' = RowWritten \ {p} /\ RowDeleted' = RowDeleted /\ Holding' = Holding /\ p \in RowWritten
    BY <1>0, <2>1 DEF RowWritten, RowDeleted, Holding
  <2>3. {arg'[q] : q \in RowWritten'} = {arg[q] : q \in RowWritten \ {p}}
    BY <2>1, <2>2 DEF RowWritten
  <2>4. WithRow' = WithRow
    BY <2>1, <2>2, <2>3 DEF WithRow
  <2> QED BY <1>2, <2>1, <2>4 DEF FileExact
<1>9. ASSUME NEW w \in Workers, PopTake(w) PROVE FileExact'
  <2>1. PICK i \in queue : queue' = queue \ {i} /\ held' = [held EXCEPT ![w] = i]
    BY <1>9 DEF PopTake
  <2>2. i # NoItem /\ held[w] = NoItem
    BY <1>1, <1>9, <2>1, ShapeArgs, ItemsFacts DEF PopTake, Shape, HandsMatch, EmptyPcs
  <2>3. /\ rows' = rows /\ arg' = arg
        /\ \A q \in Procs \ {w} : pc'[q] = pc[q]
        /\ pc[w] = "take" /\ pc'[w] = "lease"
    BY <1>0, <1>9 DEF PopTake, Goto, storeVars
  <2>4. RowWritten' = RowWritten /\ RowDeleted' = RowDeleted /\ w \notin RowDeleted
    BY <1>0, <2>3 DEF RowWritten, RowDeleted
  <2>5. /\ Holding' = Holding \cup {w} /\ w \notin Holding
        /\ \A v \in Holding : held'[v] = held[v]
        /\ held'[w] = i
    BY <1>0, <2>1, <2>2 DEF Holding
  <2>6. {held'[v] : v \in Holding' \ RowDeleted'} = {held[v] : v \in Holding \ RowDeleted} \cup {i}
    BY <2>4, <2>5
  <2>7. WithRow' = WithRow
    BY <2>1, <2>3, <2>4, <2>6 DEF WithRow
  <2> QED BY <1>2, <2>3, <2>7 DEF FileExact
<1>10. ASSUME NEW w \in Workers, PopLease(w) PROVE FileExact'
  <2>1. /\ queue' = queue /\ arg' = arg /\ held' = held
        /\ \A q \in Procs \ {w} : pc'[q] = pc[q]
        /\ pc[w] = "lease" /\ pc'[w] = "got"
    BY <1>0, <1>10 DEF PopLease, Goto, memVars, taskVars
  <2>2. RowWritten' = RowWritten /\ RowDeleted' = RowDeleted /\ Holding' = Holding
    BY <1>0, <2>1 DEF RowWritten, RowDeleted, Holding
  <2>3. LoadedItems' = LoadedItems
    <3>1. \A u \in Urls : SameItem(u)
      BY <1>0, <1>10 DEF PopLease, MarkInflight, Row, SameItem
    <3> QED BY <1>1, <3>1, LoadedKept
  <2> QED BY <2>1, <2>2, <2>3 DEF FileExact, WithRow
<1>11. ASSUME NEW w \in Workers, CompleteRow(w) PROVE FileExact'
  <2>1. /\ queue' = queue /\ arg' = arg /\ held' = held
        /\ \A q \in Procs \ {w} : pc'[q] = pc[q]
        /\ pc[w] = "delete_row" /\ pc'[w] = "count_down"
        /\ rows' = [rows EXCEPT ![held[w].url] = Absent]
    BY <1>0, <1>11 DEF CompleteRow, DeleteRow, Goto, memVars, taskVars
  <2>2. w \in Holding /\ held[w] \in Items
    BY <1>0, <1>1, <2>1, ShapeArgs DEF Holding, Shape, HandsMatch, HandPcs
  <2>3. RowWritten' = RowWritten /\ RowDeleted' = RowDeleted \cup {w} /\ Holding' = Holding /\ w \notin RowDeleted
    BY <1>0, <2>1 DEF RowWritten, RowDeleted, Holding
  <2>4. /\ \A i \in queue : i.url # held[w].url
        /\ \A v \in Holding \ {w} : held[v].url # held[w].url
        /\ \A q \in RowWritten : arg[q].url # held[w].url
    BY <1>1, <1>3, <2>2 DEF AtMostOnce
  <2>5. {held'[v] : v \in Holding' \ RowDeleted'} = {held[v] : v \in (Holding \ RowDeleted) \ {w}}
    BY <2>1, <2>3
  <2>6. WithRow' = {i \in WithRow : i.url # held[w].url}
    BY <2>1, <2>3, <2>4, <2>5 DEF WithRow
  <2>7. \A u \in Urls : u # held[w].url => rows'[u] = rows[u]
    BY <1>0, <2>1
  <2>8. held[w].url \in Urls /\ rows'[held[w].url].state = "absent"
    BY <1>0, <2>1, <2>2 DEF Items, Absent
  <2>9. Present' = Present \ {held[w].url}
    BY <2>7, <2>8 DEF Present
  <2>10. LoadedItems' = {i \in LoadedItems : i.url # held[w].url}
    <3>1. LoadedItems' = {[url |-> u, depth |-> rows'[u].depth, seq |-> rows'[u].seq] : u \in Present'}
      BY <1>1, LoadedIs
    <3>2. LoadedItems = {[url |-> u, depth |-> rows[u].depth, seq |-> rows[u].seq] : u \in Present}
      BY <1>1, LoadedIs
    <3>3. \A u \in Present' : rows'[u] = rows[u]
      BY <2>7, <2>9 DEF Present
    <3> QED BY <2>9, <3>1, <3>2, <3>3
  <2> QED BY <2>6, <2>10 DEF FileExact
<1>12. ASSUME NEW w \in Workers, CompleteCount(w) PROVE FileExact'
  <2>1. /\ rows' = rows /\ queue' = queue /\ arg' = arg
        /\ held' = [held EXCEPT ![w] = NoItem]
        /\ \A q \in Procs \ {w} : pc'[q] = pc[q]
        /\ pc[w] = "count_down" /\ pc'[w] \in {"drain_notify", "exit", "loop"}
    BY <1>0, <1>12 DEF CompleteCount, CountDown, AfterComplete, Goto, storeVars
  <2>2. RowWritten' = RowWritten /\ RowDeleted' = RowDeleted \ {w} /\ w \in RowDeleted
    BY <1>0, <2>1 DEF RowWritten, RowDeleted
  <2>3. Holding' = Holding \ {w} /\ \A v \in Workers \ {w} : held'[v] = held[v]
    BY <1>0, <2>1 DEF Holding
  <2>4. Holding' \ RowDeleted' = Holding \ RowDeleted
    BY <2>2, <2>3
  <2>5. {held'[v] : v \in Holding' \ RowDeleted'} = {held[v] : v \in Holding \ RowDeleted}
    BY <2>2, <2>3, <2>4 DEF Holding
  <2> QED BY <1>2, <2>1, <2>2, <2>5 DEF FileExact, WithRow
<1>13. CASE Restart
  <2>1. queue' = LoadedItems
    BY <1>13 DEF Restart
  <2>2. Holding' = {} /\ RowWritten' = {}
    BY <1>13 DEF Restart, Holding, RowWritten
  <2>3. WithRow' = LoadedItems
    BY <2>1, <2>2 DEF WithRow
  <2>4. LoadedItems' = LoadedItems
    <3>1. \A u \in Urls : SameItem(u)
      BY <1>0, <1>13 DEF Restart, Requeued, Row, SameItem
    <3> QED BY <1>1, <3>1, LoadedKept
  <2> QED BY <2>3, <2>4 DEF FileExact
<1> QED
  BY <1>1, <1>4, <1>5, <1>6, <1>7, <1>8, <1>9, <1>10, <1>11, <1>12, <1>13, FileKinds
LEMMA SeqsInductive ==
  ASSUME Reliable, IndInv, FileInv, [Next]_vars
  PROVE  SeqsDistinct'
<1>0. /\ pc \in [Procs -> WorkerPcs \cup MainPcs]
      /\ arg \in [Procs -> Items \cup {NoItem}]
      /\ held \in [Workers -> Items \cup {NoItem}]
      /\ \A w \in Workers : w \in Procs
      /\ nextSeq \in Nat
      /\ Shape
  BY Typed DEF IndInv, Shape
<1>1. /\ \A i, j \in Placed : i.seq = j.seq => i = j
      /\ \A i \in Placed : i.seq < nextSeq /\ i.seq \in Nat
      /\ FileExact
  BY <1>0, WithRowFacts DEF FileInv, SeqsDistinct, Placed, Items
<1>2. ASSUME Placed' \subseteq Placed, nextSeq' = nextSeq
      PROVE  SeqsDistinct'
  <2>1. /\ \A i, j \in Placed' : i.seq = j.seq => i = j
        /\ \A i \in Placed' : i.seq < nextSeq'
    BY <1>1, <1>2
  <2> QED BY <2>1 DEF SeqsDistinct, Placed
<1>3. CASE Quiet /\ nextSeq' = nextSeq
  <2>1. Holding' = Holding /\ Queueing \subseteq Pushing
    BY <1>3 DEF Quiet, Holding, Queueing, Pushing
  <2>2. /\ {arg'[p] : p \in Queueing'} = {arg[p] : p \in Queueing}
        /\ {arg'[p] : p \in Pushing'} = {arg[p] : p \in Pushing}
    BY <1>3, <2>1 DEF Quiet
  <2>3. Outstanding' = Outstanding
    BY <1>3, <2>1, <2>2 DEF Quiet, Outstanding, Queueing
  <2>4. Placed' \subseteq Placed
    BY <2>2, <2>3 DEF Placed
  <2> QED BY <1>2, <1>3, <2>4
<1>4. ASSUME NEW p \in Procs, PushFresh(p) PROVE SeqsDistinct'
  <2>1. arg[p] \in Items
    BY <1>0, <1>4, ShapeArgs DEF PushFresh, PushPcs
  <2>2. /\ queue' = queue /\ held' = held /\ nextSeq' = nextSeq + 1
        /\ \A q \in Procs \ {p} : arg'[q] = arg[q] /\ pc'[q] = pc[q]
        /\ pc'[p] \in {"push_seen", "push_count"} /\ arg'[p].seq = nextSeq
    BY <1>0, <1>4, <2>1 DEF PushFresh, Admit, Goto, Items
  <2>3. \A q \in Procs : pc'[q] = "push_queue" => q # p /\ pc[q] = "push_queue" /\ arg'[q] = arg[q]
    BY <2>2
  <2>4. Outstanding' \subseteq Outstanding
    BY <2>2, <2>3 DEF Outstanding, Holding
  <2>5. \A q \in Pushing' : q = p \/ (q \in Pushing /\ arg'[q] = arg[q])
    BY <2>2 DEF Pushing
  <2>6. Placed' \subseteq Placed \cup {arg'[p]}
    BY <2>4, <2>5 DEF Placed
  <2>7. /\ \A i, j \in Placed' : i.seq = j.seq => i = j
        /\ \A i \in Placed' : i.seq < nextSeq'
    BY <1>0, <1>1, <2>2, <2>6
  <2> QED BY <2>7 DEF SeqsDistinct, Placed
<1>5. ASSUME NEW p \in Procs, PushCount(p) \/ PushQueue(p) PROVE SeqsDistinct'
  <2>1. /\ queue' \subseteq queue \cup {arg[p]} /\ held' = held /\ nextSeq' = nextSeq
        /\ p \in Pushing
        /\ \A q \in Procs \ {p} : arg'[q] = arg[q] /\ pc'[q] = pc[q]
        /\ pc'[p] \in {"push_queue", "push_notify"}
        /\ pc'[p] = "push_queue" => arg'[p] = arg[p]
    BY <1>0, <1>5 DEF PushCount, PushQueue, Goto, Pushing, taskVars
  <2>2. \A q \in Pushing' : q \in Pushing /\ arg'[q] = arg[q]
    BY <2>1 DEF Pushing
  <2>3. \A i \in Outstanding' : i \in Outstanding \/ i = arg[p]
    BY <2>1 DEF Outstanding, Holding
  <2>4. Placed' \subseteq Placed
    BY <2>1, <2>2, <2>3 DEF Placed
  <2> QED BY <1>2, <2>1, <2>4
<1>6. ASSUME NEW w \in Workers, PopTake(w) \/ CompleteCount(w) PROVE SeqsDistinct'
  <2>1. /\ nextSeq' = nextSeq /\ arg' = arg /\ queue' \subseteq queue
        /\ \A v \in Workers : held'[v] \in {held[v], NoItem} \cup queue
    BY <1>0, <1>6 DEF PopTake, CompleteCount, CountDown
  <2>2. \A q \in Procs : pc'[q] \in PushPcs => pc'[q] = pc[q]
    BY <1>0, <1>6 DEF PopTake, CompleteCount, CountDown, Goto, AfterComplete, PushPcs
  <2>3. Outstanding' \subseteq Outstanding
    BY <2>1, <2>2 DEF Outstanding, Holding, PushPcs
  <2>4. Pushing' \subseteq Pushing
    BY <2>2 DEF Pushing, PushPcs
  <2>5. Placed' \subseteq Placed
    BY <2>1, <2>3, <2>4 DEF Placed
  <2> QED BY <1>2, <2>1, <2>5
<1>7. CASE Restart
  <2>1. /\ queue' = LoadedItems /\ Holding' = {} /\ Pushing' = {}
        /\ {q \in Procs : pc'[q] = "push_queue"} = {}
    BY <1>7 DEF Restart, Holding, Pushing
  <2>2. Placed' = LoadedItems
    BY <2>1 DEF Placed, Outstanding
  <2>3. Placed' \subseteq Placed
    BY <1>0, <1>1, <2>2, WithRowFacts DEF FileExact
  <2>4. \A i \in Placed' : i.seq < nextSeq'
    <3>1. PICK m \in MaxSeqs : nextSeq' = m + 1
      BY <1>7 DEF Restart
    <3>2. \A i \in LoadedItems : i.seq <= m
      BY <3>1 DEF MaxSeqs
    <3>3. \A i \in LoadedItems : i.seq \in Nat
      BY <1>1, <2>2, <2>3
    <3>4. m \in Nat
      BY <3>1, <3>3 DEF MaxSeqs
    <3> QED BY <2>2, <3>1, <3>2, <3>3, <3>4
  <2>5. \A i, j \in Placed' : i.seq = j.seq => i = j
    BY <1>1, <2>3
  <2> QED BY <2>4, <2>5 DEF SeqsDistinct, Placed
<1>8. ASSUME NEW p \in Procs, PushRow(p) PROVE Quiet /\ nextSeq' = nextSeq
  BY <1>0, <1>8 DEF PushRow, Quiet, Pushing, Queueing, Goto, memVars, taskVars
<1>9. ASSUME NEW w \in Workers, PopLease(w) \/ CompleteRow(w) PROVE Quiet /\ nextSeq' = nextSeq
  BY <1>0, <1>9 DEF PopLease, CompleteRow, Quiet, Pushing, Queueing, Goto, memVars, taskVars
<1> QED
  BY <1>0, <1>3, <1>4, <1>5, <1>6, <1>7, <1>8, <1>9, FileKinds DEF Calm
LEMMA FileInit == Init => FileInv
<1> SUFFICES ASSUME Init PROVE FileInv
  OBVIOUS
<1> USE FrontierAssumption DEF Init, StoreInit, TasksStart
<1>1. Holding = {} /\ Pushing = {} /\ Outstanding = {} /\ RowWritten = {}
  BY DEF Holding, Pushing, Outstanding, RowWritten
<1>2. WithRow = {}
  BY <1>1 DEF WithRow
<1>3. LoadedItems = {}
  BY DEF LoadedItems, Requeued, Absent
<1> QED BY <1>1, <1>2, <1>3 DEF FileInv, FileExact, SeqsDistinct

(* A process started at any moment, after any number of crashes, loads     *)
(* exactly the items the dead one was still responsible for: nothing it    *)
(* was responsible for is missing and nothing completed comes back.        *)
THEOREM ResumeIsExact == ASSUME Reliable PROVE Spec => []FileRebuildsFrontier
<1>1. IndInv /\ FileInv /\ [Next]_vars /\ IndInv' => FileInv'
  BY FileInductive, SeqsInductive DEF FileInv, IndInv
<1>2. IndInv /\ FileInv => FileRebuildsFrontier
  BY DEF FileRebuildsFrontier, FileInv, IndInv, Shape, RowsSeen
<1>3. Init => FileInv
  BY FileInit
<1> HIDE DEF IndInv
<1> QED BY <1>1, <1>2, <1>3, Invariance, PTL DEF Spec
-----------------------------------------------------------------------------
(* Links: a URL entered in `visited` has a seen mark, or the task that     *)
(* entered it is about to write one.                                       *)
Marking == {p \in Procs : pc[p] = "push_seen"}

SeenSoon == /\ seenTable \subseteq visited
            /\ \A v \in visited \ seenTable : \E p \in Marking : arg[p].url = v

MarksKept == /\ visited' = visited /\ seenTable' = seenTable
             /\ Marking' = Marking
             /\ \A p \in Marking : arg'[p] = arg[p]

LEMMA MarkKinds ==
  ASSUME Shape, [Next]_vars
  PROVE  \/ MarksKept
         \/ \E p \in Procs : PushFresh(p) \/ PushSeen(p)
         \/ Restart
<1>0. pc \in [Procs -> WorkerPcs \cup MainPcs] /\ \A w \in Workers : w \in Procs
  BY Typed DEF Shape
<1>1. ASSUME NEW p \in Procs, NEW l, Goto(p, l), l # "push_seen", pc[p] # "push_seen",
             \A q \in Procs : arg'[q] = arg[q] \/ q = p,
             visited' = visited, seenTable' = seenTable
      PROVE  MarksKept
  BY <1>0, <1>1 DEF MarksKept, Marking, Goto
<1>2. ASSUME NEW p \in Procs, PushDuplicate(p) \/ PushRow(p) \/ PushCount(p)
                             \/ PushQueue(p) \/ PushNotify(p)
      PROVE  MarksKept
  <2>1. /\ \A q \in Procs : arg'[q] = arg[q] \/ q = p
        /\ visited' = visited /\ seenTable' = seenTable /\ pc[p] # "push_seen"
        /\ \E l \in {"spawn", "work", "push_count", "push_queue", "push_notify"} : Goto(p, l)
    BY <1>2, Typed DEF PushDuplicate, PushRow, PushCount, PushQueue, PushNotify, EnqueueRow,
                       storeVars, memVars, taskVars, AfterPush, Shape
  <2> QED BY <1>1, <2>1
<1>3. ASSUME NEW w \in Workers, PopListen(w) \/ PopStopCheck(w) \/ PopTake(w) \/ PopEmpty(w)
                               \/ PopLease(w) \/ PopPendingCheck(w)
      PROVE  MarksKept
  BY <1>0, <1>1, <1>3 DEF PopListen, PopStopCheck, PopTake, PopEmpty, PopLease, PopPendingCheck,
                          MarkInflight, storeVars, memVars, taskVars
<1>4. ASSUME NEW w \in Workers, PopAwait(w) PROVE MarksKept
  <2>1. visited' = visited /\ seenTable' = seenTable /\ arg' = arg /\ pc[w] = "await"
    BY <1>4 DEF PopAwait, storeVars, memVars, taskVars
  <2>2. CASE UNCHANGED pc
    BY <2>1, <2>2 DEF MarksKept, Marking
  <2>3. CASE Goto(w, "listen")
    BY <1>0, <1>1, <2>1, <2>3
  <2> QED BY <1>4, <2>2, <2>3 DEF PopAwait
<1>5. ASSUME NEW w \in Workers, CompleteRow(w) \/ CompleteCount(w) \/ CompleteNotify(w)
                               \/ StopSet(w) \/ StopNotify(w)
      PROVE  MarksKept
  BY <1>0, <1>1, <1>5 DEF CompleteRow, CompleteCount, CompleteNotify, StopSet, StopNotify,
                          CountDown, DeleteRow, AfterComplete, CompleteStart,
                          storeVars, memVars, taskVars
<1>6. ASSUME NEW w \in Workers, BeginPop(w) \/ BeginStop(w) \/ GiveUp(w) \/ Discover(w)
      PROVE  MarksKept
  BY <1>0, <1>1, <1>6 DEF BeginPop, BeginStop, GiveUp, Discover, CompleteStart,
                          storeVars, memVars, taskVars
<1>7. ASSUME NEW w \in Workers, BeginPush(w) \/ BeginComplete(w)
      PROVE  MarksKept
  <2>1. /\ visited' = visited /\ seenTable' = seenTable /\ pc[w] = "work"
        /\ \E l \in {"push_insert", "delete_row", "count_down"} : Goto(w, l)
    BY <1>7 DEF BeginPush, BeginComplete, MarkCrawled, CompleteStart, storeVars, memVars
  <2>2. \A q \in Procs : arg'[q] = arg[q] \/ q = w
    BY <1>7, Typed DEF BeginPush, BeginComplete, MarkCrawled, taskVars, Shape
  <2> QED BY <1>0, <1>1, <2>1, <2>2
<1>8. ASSUME SpawnWorkers PROVE MarksKept
  <2>1. /\ \A p \in Procs : pc[p] # "push_seen" /\ pc'[p] # "push_seen"
        /\ visited' = visited /\ seenTable' = seenTable
    BY <1>8 DEF SpawnWorkers, Shape, MainFirst, Procs, storeVars, memVars
  <2> QED BY <2>1 DEF MarksKept, Marking
<1>9. ASSUME UNCHANGED vars PROVE MarksKept
  <2>1. visited' = visited /\ seenTable' = seenTable /\ arg' = arg /\ pc' = pc
    BY <1>9 DEF vars, storeVars, memVars, taskVars
  <2> QED BY <2>1 DEF MarksKept, Marking
<1> QED BY <1>2, <1>3, <1>4, <1>5, <1>6, <1>7, <1>8, <1>9, Steps

LEMMA SeenInductive ==
  ASSUME Reliable, IndInv, SeenSoon, [Next]_vars
  PROVE  SeenSoon'
<1>0. /\ pc \in [Procs -> WorkerPcs \cup MainPcs]
      /\ arg \in [Procs -> Items \cup {NoItem}]
      /\ Shape /\ Durable /\ ~WriteErrors
  BY Typed DEF IndInv, Shape, Reliable
<1>1. CASE MarksKept
  BY <1>1 DEF MarksKept, SeenSoon
<1>2. ASSUME NEW p \in Procs, PushFresh(p) PROVE SeenSoon'
  <2>1. arg[p] \in Items
    BY <1>0, <1>2, ShapeArgs DEF PushFresh, PushPcs
  <2>2. /\ visited' = visited \cup {arg[p].url} /\ seenTable' = seenTable
        /\ arg'[p].url = arg[p].url
        /\ \A q \in Procs \ {p} : arg'[q] = arg[q] /\ pc'[q] = pc[q]
        /\ pc[p] = "push_insert" /\ pc'[p] = "push_seen"
    BY <1>0, <1>2, <2>1 DEF PushFresh, Admit, Goto, Items, storeVars
  <2>3. p \in Marking' /\ \A q \in Marking : q \in Marking' /\ arg'[q] = arg[q]
    BY <2>2 DEF Marking
  <2> QED BY <2>2, <2>3 DEF SeenSoon
<1>3. ASSUME NEW p \in Procs, PushSeen(p) PROVE SeenSoon'
  <2>1. /\ visited' = visited /\ seenTable' = seenTable \cup {arg[p].url} /\ arg' = arg
        /\ \A q \in Procs \ {p} : pc'[q] = pc[q]
        /\ pc[p] = "push_seen"
    BY <1>0, <1>3 DEF PushSeen, MarkSeen, Goto, memVars, taskVars
  <2>2. arg[p].url \in visited
    BY <2>1, InPlayFacts DEF IndInv, Pushing
  <2>3. \A q \in Marking : q \in Marking' \/ q = p
    BY <2>1 DEF Marking
  <2> QED BY <2>1, <2>2, <2>3 DEF SeenSoon
<1>4. CASE Restart
  BY <1>4 DEF Restart, LoadedSeen, SeenSoon
<1> QED BY <1>0, <1>1, <1>2, <1>3, <1>4, MarkKinds
(* The links of the page in hand: each is still to be pushed, is being     *)
(* pushed, or was entered in `visited`; and nothing else is pushed.        *)
AllTracked(w) ==
  pc[w] \in PushPcs \cup {"work"} /\ held[w].depth < MaxDepth =>
     \A v \in Links[held[w].url] :
        v \in todo[w] \/ v \in visited \/ (pc[w] = "push_insert" /\ arg[w].url = v)

OnlyLinks(w) ==
  /\ todo[w] \subseteq Links[held[w].url]
  /\ pc[w] \in PushPcs \ {"push_notify"} => arg[w].url \in Links[held[w].url]

LinksTracked == \A w \in Workers : AllTracked(w) /\ OnlyLinks(w)

LEMMA TrackedInductive ==
  ASSUME IndInv, LinksTracked, [Next]_vars
  PROVE  LinksTracked'
<1> USE DEF LinksTracked
<1>0. /\ pc \in [Procs -> WorkerPcs \cup MainPcs]
      /\ arg \in [Procs -> Items \cup {NoItem}]
      /\ held \in [Workers -> Items \cup {NoItem}]
      /\ todo \in [Workers -> SUBSET Urls]
      /\ \A w \in Workers : w \in Procs
      /\ Main \notin Workers
      /\ Shape
  BY Typed, FrontierAssumption DEF IndInv, Shape
<1>a. ASSUME NEW w \in Workers, pc'[w] = pc[w], held'[w] = held[w], todo'[w] = todo[w],
             arg'[w] = arg[w], visited \subseteq visited'
      PROVE  AllTracked(w)' /\ OnlyLinks(w)'
  BY <1>a DEF AllTracked, OnlyLinks, PushPcs
<1>b. ASSUME NEW w \in Workers, pc'[w] \notin PushPcs \cup {"work"},
             todo'[w] = {}
      PROVE  AllTracked(w)' /\ OnlyLinks(w)'
  BY <1>b DEF AllTracked, OnlyLinks, PushPcs
<1>c. \A w \in Workers : pc[w] \notin PushPcs \cup {"work"} => todo[w] = {}
  BY <1>0 DEF Shape, TodoMatches
<1>1. ASSUME NEW p \in Procs, NEW w \in Workers, w # p,
             \/ PushDuplicate(p) \/ PushFresh(p) \/ PushSeen(p) \/ PushRow(p)
             \/ PushCount(p) \/ PushQueue(p) \/ PushNotify(p)
      PROVE  AllTracked(w)' /\ OnlyLinks(w)'
  <2>1. pc'[w] = pc[w] /\ held'[w] = held[w] /\ todo'[w] = todo[w] /\ arg'[w] = arg[w]
    BY <1>0, <1>1 DEF PushDuplicate, PushFresh, Admit, PushSeen, PushRow, PushCount, PushQueue,
                      PushNotify, Goto, taskVars
  <2>2. visited \subseteq visited'
    BY <1>1 DEF PushDuplicate, PushFresh, Admit, PushSeen, PushRow, PushCount, PushQueue,
                PushNotify, memVars
  <2> QED BY <1>a, <2>1, <2>2
<1>2. ASSUME NEW w \in Workers, PushDuplicate(w) PROVE AllTracked(w)' /\ OnlyLinks(w)'
  <2>1. /\ pc[w] = "push_insert" /\ pc'[w] = "work" /\ arg[w].url \in visited
        /\ held' = held /\ todo' = todo /\ visited' = visited
    BY <1>0, <1>2 DEF PushDuplicate, Goto, AfterPush, memVars
  <2> QED BY <2>1 DEF AllTracked, OnlyLinks, PushPcs
<1>3. ASSUME NEW w \in Workers, PushFresh(w) PROVE AllTracked(w)' /\ OnlyLinks(w)'
  <2>1. arg[w] \in Items
    BY <1>0, <1>3, ShapeArgs DEF PushFresh, PushPcs
  <2>2. /\ pc[w] = "push_insert" /\ pc'[w] \in {"push_seen", "push_count"}
        /\ visited' = visited \cup {arg[w].url} /\ arg'[w].url = arg[w].url
        /\ held' = held /\ todo' = todo
    BY <1>0, <1>3, <2>1 DEF PushFresh, Admit, Goto, Items
  <2> QED BY <2>2 DEF AllTracked, OnlyLinks, PushPcs
<1>4. ASSUME NEW w \in Workers,
             PushSeen(w) \/ PushRow(w) \/ PushCount(w) \/ PushQueue(w) \/ PushNotify(w)
      PROVE  AllTracked(w)' /\ OnlyLinks(w)'
  <2>1. /\ pc[w] \in PushPcs /\ pc[w] # "push_insert"
        /\ pc'[w] \in {"push_row", "push_count", "push_queue", "push_notify", "work"}
        /\ held' = held /\ todo' = todo /\ visited' = visited
    BY <1>0, <1>4 DEF PushSeen, PushRow, PushCount, PushQueue, PushNotify, Goto, AfterPush,
                      PushPcs, memVars, taskVars
  <2>2. \/ pc'[w] \in {"push_notify", "work"}
        \/ pc[w] # "push_notify" /\ arg' = arg
    BY <1>0, <1>4 DEF PushSeen, PushRow, PushCount, PushQueue, PushNotify, Goto, AfterPush, taskVars
  <2> QED BY <2>1, <2>2 DEF AllTracked, OnlyLinks, PushPcs
<1>5. ASSUME NEW v \in Workers, NEW w \in Workers, w # v,
             \/ PopListen(v) \/ PopStopCheck(v) \/ PopTake(v) \/ PopEmpty(v) \/ PopLease(v)
             \/ PopPendingCheck(v) \/ PopAwait(v) \/ CompleteRow(v) \/ CompleteCount(v)
             \/ CompleteNotify(v) \/ StopSet(v) \/ StopNotify(v)
      PROVE  AllTracked(w)' /\ OnlyLinks(w)'
  <2>1. pc'[w] = pc[w] /\ held'[w] = held[w] /\ todo'[w] = todo[w] /\ arg'[w] = arg[w]
    BY <1>0, <1>5 DEF PopListen, PopStopCheck, PopTake, PopEmpty, PopLease, PopPendingCheck,
                      PopAwait, CompleteRow, CompleteCount, CountDown, CompleteNotify, StopSet,
                      StopNotify, Goto, taskVars
  <2>2. visited' = visited
    BY <1>5 DEF PopListen, PopStopCheck, PopTake, PopEmpty, PopLease, PopPendingCheck,
                PopAwait, CompleteRow, CompleteCount, CountDown, CompleteNotify, StopSet,
                StopNotify, memVars
  <2> QED BY <1>a, <2>1, <2>2
<1>6. ASSUME NEW w \in Workers,
             \/ PopListen(w) \/ PopStopCheck(w) \/ PopTake(w) \/ PopEmpty(w) \/ PopLease(w)
             \/ PopPendingCheck(w) \/ PopAwait(w) \/ CompleteRow(w) \/ CompleteCount(w)
             \/ CompleteNotify(w) \/ StopSet(w) \/ StopNotify(w)
      PROVE  AllTracked(w)' /\ OnlyLinks(w)'
  <2>1. todo' = todo /\ pc[w] \notin PushPcs \cup {"work"}
    BY <1>0, <1>6 DEF PopListen, PopStopCheck, PopTake, PopEmpty, PopLease, PopPendingCheck,
                      PopAwait, CompleteRow, CompleteCount, CountDown, CompleteNotify, StopSet,
                      StopNotify, taskVars, PushPcs
  <2>2. pc'[w] \notin PushPcs \cup {"work"}
    BY <1>0, <1>6, <2>1
       DEF PopListen, PopStopCheck, PopTake, PopEmpty, PopLease, PopPendingCheck,
           PopAwait, CompleteRow, CompleteCount, CountDown, CompleteNotify, StopSet,
           StopNotify, Goto, AfterComplete, CompleteStart, PushPcs
  <2> QED BY <1>b, <1>c, <2>1, <2>2
<1>7. ASSUME NEW v \in Workers, NEW w \in Workers, w # v,
             \/ BeginPop(v) \/ BeginStop(v) \/ GiveUp(v) \/ Discover(v)
             \/ BeginPush(v) \/ BeginComplete(v)
      PROVE  AllTracked(w)' /\ OnlyLinks(w)'
  <2>1. pc'[w] = pc[w] /\ held'[w] = held[w] /\ todo'[w] = todo[w] /\ arg'[w] = arg[w]
    BY <1>0, <1>7 DEF BeginPop, BeginStop, GiveUp, Discover, BeginPush, BeginComplete,
                      MarkCrawled, Goto, taskVars
  <2>2. visited' = visited
    BY <1>7 DEF BeginPop, BeginStop, GiveUp, Discover, BeginPush, BeginComplete,
                MarkCrawled, memVars
  <2> QED BY <1>a, <2>1, <2>2
<1>8. ASSUME NEW w \in Workers, BeginPop(w) \/ BeginStop(w) \/ GiveUp(w) \/ BeginComplete(w)
      PROVE  AllTracked(w)' /\ OnlyLinks(w)'
  <2>1. todo'[w] = {}
    BY <1>8, <1>c DEF BeginPop, BeginStop, GiveUp, BeginComplete, MarkCrawled, taskVars, PushPcs
  <2>2. pc'[w] \notin PushPcs \cup {"work"}
    BY <1>0, <1>8 DEF BeginPop, BeginStop, GiveUp, BeginComplete, MarkCrawled, Goto,
                      CompleteStart, PushPcs
  <2> QED BY <1>b, <2>1, <2>2
<1>9. ASSUME NEW w \in Workers, Discover(w) PROVE AllTracked(w)' /\ OnlyLinks(w)'
  <2>1. /\ pc'[w] = "work" /\ held' = held
        /\ todo'[w] = IF held[w].depth < MaxDepth THEN Links[held[w].url] ELSE {}
    BY <1>0, <1>9 DEF Discover, Goto
  <2> QED BY <2>1 DEF AllTracked, OnlyLinks, PushPcs
<1>10. ASSUME NEW w \in Workers, BeginPush(w) PROVE AllTracked(w)' /\ OnlyLinks(w)'
  <2>1. PICK u \in todo[w] :
          /\ todo' = [todo EXCEPT ![w] = @ \ {u}]
          /\ arg' = [arg EXCEPT ![w] =
                       [url |-> u, depth |-> held[w].depth + 1, seq |-> 0]]
    BY <1>10 DEF BeginPush
  <2>2. /\ pc[w] = "work" /\ pc'[w] = "push_insert" /\ held' = held /\ visited' = visited
        /\ todo'[w] = todo[w] \ {u} /\ arg'[w].url = u
    BY <1>0, <1>10, <2>1 DEF BeginPush, Goto, memVars
  <2> QED BY <2>1, <2>2 DEF AllTracked, OnlyLinks
<1>11. ASSUME SpawnWorkers \/ Restart, NEW w \in Workers
       PROVE  AllTracked(w)' /\ OnlyLinks(w)'
  <2>1. pc'[w] \in {"loop", "off"}
    BY <1>0, <1>11 DEF SpawnWorkers, Restart, Procs
  <2>2. todo'[w] = {}
    BY <1>0, <1>11, <1>c DEF SpawnWorkers, Restart, Shape, MainFirst, taskVars, PushPcs
  <2> QED BY <1>b, <2>1, <2>2 DEF PushPcs
<1>12. ASSUME UNCHANGED vars, NEW w \in Workers
       PROVE  AllTracked(w)' /\ OnlyLinks(w)'
  BY <1>a, <1>12 DEF vars, memVars, taskVars
<1>13. ASSUME NEW w \in Workers PROVE AllTracked(w)' /\ OnlyLinks(w)'
  BY <1>1, <1>2, <1>3, <1>4, <1>5, <1>6, <1>7, <1>8, <1>9, <1>10, <1>11, <1>12, Steps
<1> QED BY <1>13
(* A page still to be worked on is not among those gone through.           *)
Undone == {w \in Workers : pc[w] \in PushPcs \cup {"lease", "got", "work"}}

Uncrawled == /\ crawled \subseteq seenTable
             /\ \A i \in queue : i.url \notin crawled
             /\ \A w \in Undone : held[w].url \notin crawled
             /\ \A p \in Pushing : arg[p].url \notin crawled

LEMMA WorkingFacts ==
  ASSUME Reliable, IndInv, FileExact, NEW w \in Undone
  PROVE  w \in Holding /\ held[w] \in Items /\ held[w].url \in Present
<1>1. w \in Holding
  BY DEF IndInv, Shape, HandsMatch, HandPcs, Undone, Holding
<1>2. held[w] \in Items
  BY <1>1, ShapeArgs DEF IndInv
<1>3. held[w] \in WithRow
  BY <1>1 DEF WithRow, RowDeleted, Undone, PushPcs
<1> QED BY <1>1, <1>2, <1>3, LoadedItemsFacts DEF FileExact, IndInv, Shape, TypeOK

LEMMA UncrawledInductive ==
  ASSUME Reliable, IndInv, FileExact, SeenSoon, Uncrawled, [Next]_vars
  PROVE  Uncrawled'
<1>0. /\ pc \in [Procs -> WorkerPcs \cup MainPcs]
      /\ arg \in [Procs -> Items \cup {NoItem}]
      /\ held \in [Workers -> Items \cup {NoItem}]
      /\ \A w \in Workers : w \in Procs
      /\ Main \notin Workers
      /\ Shape /\ AtMostOnce /\ Durable /\ ~WriteErrors
      /\ crawled \subseteq seenTable /\ crawled \subseteq visited
  BY Typed, FrontierAssumption DEF IndInv, Shape, Reliable, SeenSoon, Uncrawled
<1>a. ASSUME crawled' = crawled, seenTable \subseteq seenTable', queue' \subseteq queue,
             \A w \in Undone' : w \in Undone /\ held'[w] = held[w],
             \A p \in Pushing' : p \in Pushing /\ arg'[p] = arg[p]
      PROVE  Uncrawled'
  BY <1>a DEF Uncrawled
<1>1. ASSUME NEW p \in Procs, PushDuplicate(p) \/ PushRow(p) \/ PushCount(p)
      PROVE  Uncrawled'
  <2>1. /\ crawled' = crawled /\ seenTable' = seenTable /\ queue' = queue /\ held' = held
        /\ \A q \in Procs \ {p} : pc'[q] = pc[q] /\ arg'[q] = arg[q]
        /\ pc[p] \in PushPcs
        /\ pc'[p] \in {"spawn", "work"} \/ (p \in Pushing /\ arg' = arg)
    BY <1>0, <1>1 DEF PushDuplicate, PushRow, PushCount, EnqueueRow, Goto, AfterPush, Pushing,
                      PushPcs, storeVars, memVars, taskVars, histVars
  <2>2. \A q \in Pushing' : q \in Pushing /\ arg'[q] = arg[q]
    BY <2>1 DEF Pushing
  <2>3. \A w \in Undone' : w \in Undone /\ held'[w] = held[w]
    BY <1>0, <2>1 DEF Undone
  <2> QED BY <1>a, <2>1, <2>2, <2>3
<1>2. ASSUME NEW p \in Procs, PushSeen(p) \/ PushNotify(p) PROVE Uncrawled'
  <2>1. /\ crawled' = crawled /\ seenTable \subseteq seenTable' /\ queue' = queue /\ held' = held
        /\ \A q \in Procs \ {p} : pc'[q] = pc[q]
        /\ arg' = arg /\ pc[p] \in PushPcs
        /\ pc'[p] \in {"spawn", "work"} \/ p \in Pushing
    BY <1>0, <1>2 DEF PushSeen, PushNotify, MarkSeen, Goto, AfterPush, Pushing, PushPcs,
                      storeVars, memVars, taskVars, histVars
  <2>2. \A q \in Pushing' : q \in Pushing /\ arg'[q] = arg[q]
    BY <2>1 DEF Pushing
  <2>3. \A w \in Undone' : w \in Undone /\ held'[w] = held[w]
    BY <1>0, <2>1 DEF Undone
  <2> QED BY <1>a, <2>1, <2>2, <2>3
<1>3. ASSUME NEW p \in Procs, PushFresh(p) PROVE Uncrawled'
  <2>1. arg[p] \in Items /\ arg[p].url \notin visited
    BY <1>0, <1>3, ShapeArgs DEF PushFresh, PushPcs
  <2>2. /\ crawled' = crawled /\ seenTable' = seenTable /\ queue' = queue /\ held' = held
        /\ \A q \in Procs \ {p} : pc'[q] = pc[q] /\ arg'[q] = arg[q]
        /\ pc[p] \in PushPcs /\ arg'[p].url = arg[p].url
    BY <1>0, <1>3, <2>1 DEF PushFresh, Admit, Goto, PushPcs, Items, storeVars, histVars
  <2>3. \A q \in Pushing' : q = p \/ (q \in Pushing /\ arg'[q] = arg[q])
    BY <2>2 DEF Pushing
  <2>4. \A w \in Undone' : w \in Undone /\ held'[w] = held[w]
    BY <1>0, <2>2 DEF Undone
  <2> QED BY <1>0, <2>1, <2>2, <2>3, <2>4 DEF Uncrawled
<1>4. ASSUME NEW p \in Procs, PushQueue(p) PROVE Uncrawled'
  <2>1. /\ crawled' = crawled /\ seenTable' = seenTable /\ queue' = queue \cup {arg[p]}
        /\ held' = held
        /\ \A q \in Procs \ {p} : pc'[q] = pc[q] /\ arg'[q] = arg[q]
        /\ pc[p] \in PushPcs /\ pc'[p] = "push_notify" /\ p \in Pushing
    BY <1>0, <1>4 DEF PushQueue, Goto, Pushing, PushPcs, storeVars, histVars
  <2>2. \A q \in Pushing' : q \in Pushing /\ arg'[q] = arg[q]
    BY <2>1 DEF Pushing
  <2>3. \A w \in Undone' : w \in Undone /\ held'[w] = held[w]
    BY <1>0, <2>1 DEF Undone
  <2> QED BY <2>1, <2>2, <2>3 DEF Uncrawled
<1>5. ASSUME NEW w \in Workers, PopTake(w) PROVE Uncrawled'
  <2>1. PICK i \in queue : queue' = queue \ {i} /\ held' = [held EXCEPT ![w] = i]
    BY <1>5 DEF PopTake
  <2>2. /\ crawled' = crawled /\ seenTable' = seenTable /\ arg' = arg
        /\ \A q \in Procs \ {w} : pc'[q] = pc[q]
        /\ pc'[w] = "lease"
    BY <1>0, <1>5 DEF PopTake, Goto, storeVars, histVars
  <2>3. \A q \in Pushing' : q \in Pushing /\ arg'[q] = arg[q]
    BY <2>2 DEF Pushing
  <2>4. \A v \in Undone' : (v = w /\ held'[v] = i) \/ (v \in Undone /\ held'[v] = held[v])
    BY <1>0, <2>1, <2>2 DEF Undone
  <2> QED BY <2>1, <2>2, <2>3, <2>4 DEF Uncrawled
<1>6. ASSUME NEW w \in Workers,
             \/ PopListen(w) \/ PopStopCheck(w) \/ PopEmpty(w) \/ PopLease(w)
             \/ PopPendingCheck(w) \/ PopAwait(w)
      PROVE  Uncrawled'
  <2>1. /\ crawled' = crawled /\ seenTable' = seenTable /\ queue' = queue
        /\ arg' = arg /\ held' = held
    BY <1>6 DEF PopListen, PopStopCheck, PopEmpty, PopLease, PopPendingCheck, PopAwait,
                MarkInflight, storeVars, memVars, taskVars, histVars
  <2>2. \A q \in Procs \ {w} : pc'[q] = pc[q]
    BY <1>0, <1>6 DEF PopListen, PopStopCheck, PopEmpty, PopLease, PopPendingCheck, PopAwait,
                      Goto
  <2>3. pc'[w] \notin PushPcs \cup {"lease", "got", "work"} \/ (w \in Undone /\ pc'[w] = "got")
    BY <1>0, <1>6 DEF PopListen, PopStopCheck, PopEmpty, PopLease, PopPendingCheck, PopAwait,
                      Goto, PushPcs, Undone
  <2>4. \A q \in Pushing' : q \in Pushing
    BY <2>2, <2>3 DEF Pushing, PushPcs
  <2>5. \A v \in Undone' : v \in Undone
    BY <1>0, <2>2, <2>3 DEF Undone
  <2> QED BY <1>a, <2>1, <2>4, <2>5
<1>7. ASSUME NEW w \in Workers,
             \/ CompleteRow(w) \/ CompleteCount(w) \/ CompleteNotify(w)
             \/ StopSet(w) \/ StopNotify(w)
      PROVE  Uncrawled'
  <2>1. /\ crawled' = crawled /\ seenTable' = seenTable /\ queue' = queue /\ arg' = arg
        /\ \A v \in Workers \ {w} : held'[v] = held[v]
        /\ \A q \in Procs \ {w} : pc'[q] = pc[q]
    BY <1>0, <1>7 DEF CompleteRow, CompleteCount, CompleteNotify, StopSet, StopNotify, CountDown,
                      DeleteRow, Goto, storeVars, memVars, taskVars, histVars
  <2>2. pc'[w] \notin PushPcs \cup {"lease", "got", "work"}
    BY <1>0, <1>7 DEF CompleteRow, CompleteCount, CompleteNotify, StopSet, StopNotify, CountDown,
                      AfterComplete, CompleteStart, Goto, PushPcs
  <2>3. \A q \in Pushing' : q \in Pushing
    BY <2>1, <2>2 DEF Pushing, PushPcs
  <2>4. \A v \in Undone' : v \in Undone /\ held'[v] = held[v]
    BY <1>0, <2>1, <2>2 DEF Undone
  <2> QED BY <1>a, <2>1, <2>3, <2>4
<1>8. ASSUME NEW w \in Workers,
             BeginPop(w) \/ BeginStop(w) \/ GiveUp(w) \/ Discover(w) \/ BeginPush(w)
      PROVE  Uncrawled'
  <2>1. /\ crawled' = crawled /\ seenTable' = seenTable /\ queue' = queue /\ held' = held
        /\ \A q \in Procs \ {w} : pc'[q] = pc[q] /\ arg'[q] = arg[q]
    BY <1>0, <1>8 DEF BeginPop, BeginStop, GiveUp, Discover, BeginPush, Goto,
                      storeVars, memVars, taskVars, histVars
  <2>2. \/ pc'[w] \notin PushPcs \cup {"lease", "got", "work"}
        \/ w \in Undone /\ pc'[w] \in {"work", "push_insert"}
    BY <1>0, <1>8 DEF BeginPop, BeginStop, GiveUp, Discover, BeginPush, Goto, CompleteStart,
                      PushPcs, Undone
  <2>3. \A q \in Pushing' : q \in Pushing /\ arg'[q] = arg[q]
    BY <2>1, <2>2 DEF Pushing, PushPcs
  <2>4. \A v \in Undone' : v \in Undone
    BY <1>0, <2>1, <2>2 DEF Undone
  <2> QED BY <1>a, <2>1, <2>3, <2>4
<1>9. ASSUME NEW w \in Workers, BeginComplete(w) PROVE Uncrawled'
  <2>1. /\ crawled' \subseteq crawled \cup {held[w].url}
        /\ seenTable' = seenTable /\ queue' = queue /\ held' = held /\ arg' = arg
        /\ \A q \in Procs \ {w} : pc'[q] = pc[q]
        /\ pc[w] = "work" /\ pc'[w] = "delete_row"
    BY <1>0, <1>9 DEF BeginComplete, MarkCrawled, CompleteStart, Goto,
                      storeVars, memVars, taskVars
  <2>2. w \in Undone
    BY <2>1 DEF Undone
  <2>3. w \in Holding /\ held[w].url \in seenTable
    BY <1>0, <2>2, WorkingFacts DEF Shape, RowsSeen
  <2>4. \A q \in Pushing' : q \in Pushing
    BY <2>1 DEF Pushing
  <2>5. \A v \in Undone' : v \in Undone /\ v # w
    BY <1>0, <2>1 DEF Undone, PushPcs
  <2>6. \A v \in Undone : v \in Holding
    BY WorkingFacts
  <2> QED BY <1>0, <2>1, <2>3, <2>4, <2>5, <2>6 DEF Uncrawled, AtMostOnce
<1>10. CASE SpawnWorkers
  <2>1. /\ crawled' = crawled /\ seenTable' = seenTable /\ queue' = queue
        /\ \A p \in Procs : pc'[p] \in {"join", "loop"}
    BY <1>10 DEF SpawnWorkers, storeVars, memVars, histVars
  <2>2. Undone' = {} /\ Pushing' = {}
    BY <1>0, <2>1 DEF Undone, Pushing, PushPcs
  <2> QED BY <1>a, <2>1, <2>2
<1>11. CASE Restart
  <2>1. /\ crawled' = crawled \ Present /\ seenTable' = seenTable /\ queue' = LoadedItems
        /\ \A p \in Procs : pc'[p] = IF p = Main THEN "push_insert" ELSE "off"
    BY <1>11 DEF Restart
  <2>2. Undone' = {} /\ Pushing' = {}
    BY <1>0, <2>1 DEF Undone, Pushing, PushPcs
  <2>3. \A i \in LoadedItems : i.url \in Present
    BY <1>0, LoadedItemsFacts DEF Shape, TypeOK
  <2> QED BY <1>0, <2>1, <2>2, <2>3 DEF Uncrawled
<1>12. CASE UNCHANGED vars
  <2>1. /\ crawled' = crawled /\ seenTable' = seenTable /\ queue' = queue /\ held' = held
        /\ arg' = arg /\ pc' = pc
    BY <1>12 DEF vars, storeVars, memVars, taskVars, histVars
  <2>2. Undone' = Undone /\ Pushing' = Pushing
    BY <2>1 DEF Undone, Pushing
  <2> QED BY <1>a, <2>1, <2>2
<1> QED
  BY <1>1, <1>2, <1>3, <1>4, <1>5, <1>6, <1>7, <1>8, <1>9, <1>10, <1>11, <1>12, Steps
(* LinksRecoverable, with the page that makes the link known named: one    *)
(* with a row, or given up, that nobody went through.                      *)
Sources == (Present \cup finished) \ crawled

LinksKept == \A u \in crawled : \A v \in Links[u] \ seenTable :
               \E x \in Sources : v \in Links[x]

LinksInv == SeenSoon /\ LinksTracked /\ Uncrawled /\ LinksKept

(* A URL without a seen mark is being pushed from a page with a row.       *)
LEMMA UnmarkedIsPushed ==
  ASSUME Reliable, IndInv, FileExact, LinksInv,
         NEW w \in Workers, pc[w] = "work", NEW v \in visited \ seenTable
  PROVE  \E x \in Sources \ {held[w].url} : v \in Links[x]
<1>1. PICK q \in Marking : arg[q].url = v
  BY DEF LinksInv, SeenSoon
<1>2. q \in Workers /\ pc[q] = "push_seen"
  <2>1. pc[Main] = "join"
    BY DEF IndInv, Shape, MainFirst
  <2> QED BY <2>1 DEF Marking, Procs
<1>3. q \in Undone /\ w \in Undone /\ q # w
  BY <1>2 DEF Undone, PushPcs
<1>4. /\ q \in Holding /\ w \in Holding /\ held[q].url \in Present
  BY <1>3, WorkingFacts
<1>5. held[q].url # held[w].url
  BY <1>3, <1>4 DEF IndInv, AtMostOnce
<1>6. held[q].url \notin crawled
  BY <1>3 DEF LinksInv, Uncrawled
<1>7. v \in Links[held[q].url]
  BY <1>1, <1>2 DEF LinksInv, LinksTracked, OnlyLinks, PushPcs
<1> QED BY <1>4, <1>5, <1>6, <1>7 DEF Sources

LEMMA LinksKeptInductive ==
  ASSUME Reliable, IndInv, FileExact, LinksInv, [Next]_vars
  PROVE  LinksKept'
<1>0. /\ arg \in [Procs -> Items \cup {NoItem}]
      /\ rows \in [Urls -> Row] /\ LinksKept /\ Shape
  BY Typed DEF IndInv, Shape, LinksInv
<1>a. ASSUME crawled' \subseteq crawled, seenTable \subseteq seenTable',
             \A u \in Present : u \in Present' \/ u \in finished', finished \subseteq finished'
      PROVE  LinksKept'
  <2>1. Sources \subseteq Sources'
    BY <1>a DEF Sources
  <2> QED BY <1>0, <1>a, <2>1 DEF LinksKept
<1>b. ASSUME UNCHANGED <<crawled, finished, rows>>, seenTable \subseteq seenTable'
      PROVE  LinksKept'
  BY <1>a, <1>b DEF Present
<1>1. ASSUME NEW p \in Procs,
             \/ PushDuplicate(p) \/ PushFresh(p) \/ PushSeen(p)
             \/ PushCount(p) \/ PushQueue(p) \/ PushNotify(p)
      PROVE  LinksKept'
  BY <1>b, <1>1 DEF PushDuplicate, PushFresh, Admit, PushSeen, MarkSeen, PushCount, PushQueue,
                    PushNotify, storeVars, histVars
<1>2. ASSUME NEW p \in Procs, PushRow(p) PROVE LinksKept'
  <2>1. arg[p] \in Items
    BY <1>0, <1>2, ShapeArgs DEF PushRow, PushPcs
  <2>2. UNCHANGED <<crawled, finished, seenTable>> /\ Present \subseteq Present'
    BY <1>0, <1>2, <2>1 DEF PushRow, EnqueueRow, storeVars, histVars, Present
  <2> QED BY <1>a, <2>2
<1>3. ASSUME NEW w \in Workers,
             \/ PopListen(w) \/ PopStopCheck(w) \/ PopTake(w) \/ PopEmpty(w)
             \/ PopPendingCheck(w) \/ PopAwait(w) \/ CompleteCount(w) \/ CompleteNotify(w)
             \/ StopSet(w) \/ StopNotify(w) \/ BeginPop(w) \/ BeginStop(w) \/ GiveUp(w)
             \/ Discover(w) \/ BeginPush(w)
      PROVE  LinksKept'
  BY <1>b, <1>3 DEF PopListen, PopStopCheck, PopTake, PopEmpty, PopPendingCheck, PopAwait,
                    CompleteCount, CountDown, CompleteNotify, StopSet, StopNotify, BeginPop,
                    BeginStop, GiveUp, Discover, BeginPush, storeVars, histVars
<1>4. ASSUME NEW w \in Workers, PopLease(w) PROVE LinksKept'
  <2>1. UNCHANGED <<crawled, finished, seenTable>> /\ Present \subseteq Present'
    BY <1>0, <1>4 DEF PopLease, MarkInflight, storeVars, histVars, Present, Row
  <2> QED BY <1>a, <2>1
<1>5. ASSUME NEW w \in Workers, CompleteRow(w) PROVE LinksKept'
  <2>1. /\ UNCHANGED <<crawled, seenTable>> /\ finished \subseteq finished'
        /\ \A u \in Present : u \in Present' \/ u \in finished'
    BY <1>0, <1>5 DEF CompleteRow, DeleteRow, storeVars, Present
  <2> QED BY <1>a, <2>1
<1>6. ASSUME NEW w \in Workers, BeginComplete(w) PROVE LinksKept'
  <2>1. /\ UNCHANGED <<seenTable, rows, finished>> /\ pc[w] = "work" /\ todo[w] = {}
        /\ crawled' = IF held[w].depth < MaxDepth THEN crawled \cup {held[w].url} ELSE crawled
    BY <1>6 DEF BeginComplete, MarkCrawled, storeVars
  <2>2. CASE crawled' = crawled
    BY <1>b, <2>1, <2>2
  <2>3. CASE held[w].depth < MaxDepth
    <3>1. Links[held[w].url] \subseteq visited
      BY <2>1, <2>3 DEF LinksInv, LinksTracked, AllTracked
    <3>2. \A v \in Links[held[w].url] \ seenTable :
             \E x \in Sources \ {held[w].url} : v \in Links[x]
      BY <2>1, <3>1, UnmarkedIsPushed
    <3>3. Sources \ {held[w].url} \subseteq Sources'
      BY <2>1, <2>3 DEF Sources, Present
    <3>4. \A u \in crawled : \A v \in Links[u] \ seenTable :
             \E x \in Sources \ {held[w].url} : v \in Links[x]
      BY <1>0, <3>2 DEF LinksKept
    <3> QED BY <2>1, <2>3, <3>2, <3>3, <3>4 DEF LinksKept
  <2> QED BY <2>1, <2>2, <2>3
<1>7. CASE SpawnWorkers
  BY <1>b, <1>7 DEF SpawnWorkers, storeVars, histVars
<1>8. CASE Restart
  <2>1. \A u \in Urls : (rows'[u].state # "absent") = (u \in Present)
    BY <1>8, LoadedItemsFacts DEF Restart, IndInv, Shape, TypeOK
  <2>2. crawled' \subseteq crawled /\ UNCHANGED <<seenTable, finished>> /\ Present' = Present
    BY <1>8, <2>1 DEF Restart, Present
  <2> QED BY <1>a, <2>2
<1>9. CASE UNCHANGED vars
  BY <1>b, <1>9 DEF vars, storeVars, histVars
<1> QED BY <1>1, <1>2, <1>3, <1>4, <1>5, <1>6, <1>7, <1>8, <1>9, Steps

LEMMA LinksInit == Init => LinksInv
<1> SUFFICES ASSUME Init PROVE LinksInv
  OBVIOUS
<1> USE FrontierAssumption DEF Init, StoreInit, TasksStart, Procs
<1>1. SeenSoon /\ LinksKept
  BY DEF SeenSoon, LinksKept
<1>2. LinksTracked
  BY DEF LinksTracked, AllTracked, OnlyLinks, PushPcs
<1>3. Uncrawled
  BY DEF Uncrawled, Undone, Pushing, PushPcs
<1> QED BY <1>1, <1>2, <1>3 DEF LinksInv

(* A page that was gone through stays good for its links: after any number *)
(* of crashes each of them is marked seen, or some page that leads to it   *)
(* is still in the file or was given up.                                   *)
THEOREM LinksAreKept == ASSUME Reliable PROVE Spec => []LinksRecoverable
<1>1. IndInv /\ FileInv /\ [Next]_vars /\ IndInv' => FileInv'
  BY FileInductive, SeqsInductive DEF FileInv, IndInv
<1>2. IndInv /\ FileInv /\ LinksInv /\ [Next]_vars => LinksInv'
  BY SeenInductive, TrackedInductive, UncrawledInductive, LinksKeptInductive
     DEF LinksInv, FileInv
<1>3. LinksInv => LinksRecoverable
  BY DEF LinksInv, LinksKept, Sources, LinksRecoverable
<1>4. Init => FileInv /\ LinksInv
  BY FileInit, LinksInit
<1> HIDE DEF IndInv
<1> QED BY <1>1, <1>2, <1>3, <1>4, Invariance, PTL DEF Spec
-----------------------------------------------------------------------------
(* The file is a pool that outlives its process.                           *)

(* The two writes of a push: one task at a time is between them, and what  *)
(* is about to be marked has no mark yet.                                  *)
Writing == {p \in Procs : pc[p] = "push_row"}

WritersApart == /\ \A p, q \in Writing : p = q
                /\ \A p \in Marking : arg[p].url \notin seenTable

(* The seed is the first URL marked, and the only one while main pushes it.*)
SeedStored == /\ pc[Main] \in Early => arg[Main].url = Seed
              /\ pc[Main] \in {"push_seen", "push_row"} => visited = {Seed}
              /\ (seenTable # {} \/ pc[Main] \notin {"push_insert", "push_seen"})
                    => Seed \in seenTable

DurableInv == FileExact /\ SeenSoon /\ WritersApart /\ SeedStored

LEMMA WriterKinds ==
  ASSUME Shape, [Next]_vars
  PROVE  Writing' \subseteq Writing \/ \E p \in Procs : PushSeen(p)
<1> USE FrontierAssumption DEF Goto, AfterPush, AfterComplete, CompleteStart
<1>0. /\ pc \in [Procs -> WorkerPcs \cup MainPcs]
      /\ \A w \in Workers : w \in Procs
  BY Typed DEF Shape
<1> DEFINE Fewer == \A p \in Procs : pc'[p] = "push_row" => pc[p] = "push_row"
<1>1. ASSUME NEW p \in Procs, PushDuplicate(p) \/ PushFresh(p) \/ PushRow(p)
                             \/ PushCount(p) \/ PushQueue(p) \/ PushNotify(p)
      PROVE  Fewer
  BY <1>0, <1>1 DEF PushDuplicate, PushFresh, Admit, PushRow, PushCount, PushQueue, PushNotify
<1>2. ASSUME NEW w \in Workers,
             \/ PopListen(w) \/ PopStopCheck(w) \/ PopTake(w) \/ PopEmpty(w)
             \/ PopLease(w) \/ PopPendingCheck(w) \/ PopAwait(w)
      PROVE  Fewer
  BY <1>0, <1>2 DEF PopListen, PopStopCheck, PopTake, PopEmpty, PopLease, PopPendingCheck, PopAwait
<1>3. ASSUME NEW w \in Workers,
             \/ CompleteRow(w) \/ CompleteCount(w) \/ CompleteNotify(w)
             \/ StopSet(w) \/ StopNotify(w)
      PROVE  Fewer
  BY <1>0, <1>3 DEF CompleteRow, CompleteCount, CountDown, CompleteNotify, StopSet, StopNotify
<1>4. ASSUME NEW w \in Workers,
             \/ BeginPop(w) \/ BeginStop(w) \/ GiveUp(w) \/ Discover(w)
             \/ BeginPush(w) \/ BeginComplete(w)
      PROVE  Fewer
  BY <1>0, <1>4 DEF BeginPop, BeginStop, GiveUp, Discover, BeginPush, BeginComplete, MarkCrawled
<1>5. ASSUME SpawnWorkers \/ Restart \/ UNCHANGED vars PROVE Fewer
  BY <1>5 DEF SpawnWorkers, Restart, vars
<1>6. Fewer => Writing' \subseteq Writing
  BY DEF Writing
<1> HIDE DEF Fewer
<1> QED BY <1>1, <1>2, <1>3, <1>4, <1>5, <1>6, Steps

LEMMA WritersInductive ==
  ASSUME Reliable, IndInv, SeenSoon, WritersApart, [Next]_vars
  PROVE  WritersApart'
<1>0. /\ pc \in [Procs -> WorkerPcs \cup MainPcs]
      /\ arg \in [Procs -> Items \cup {NoItem}]
      /\ Shape /\ Durable
  BY Typed DEF IndInv, Shape, Reliable
<1>1. ASSUME NEW p \in Procs, PushSeen(p) PROVE WritersApart'
  <2>1. /\ seenTable' \subseteq seenTable \cup {arg[p].url} /\ arg' = arg
        /\ pc' = [pc EXCEPT ![p] = pc'[p]] /\ pc'[p] # "push_seen" /\ pc[p] = "push_seen"
        /\ \A q \in Procs \ {p} : pc[q] # "push_row"
    BY <1>0, <1>1 DEF PushSeen, StoreFree, MarkSeen, Goto, taskVars, storeVars
  <2>2. Writing' \subseteq {p}
    BY <1>0, <2>1 DEF Writing
  <2>3. Marking' \subseteq Marking \ {p}
    BY <1>0, <2>1 DEF Marking
  <2>4. \A q \in Marking \ {p} : arg[q].url # arg[p].url
    BY <2>1 DEF Marking, Pushing, IndInv, AtMostOnce
  <2> QED BY <2>1, <2>2, <2>3, <2>4 DEF WritersApart
<1>2. ASSUME Writing' \subseteq Writing,
             \A p \in Marking' : arg'[p].url \notin seenTable'
      PROVE  WritersApart'
  BY <1>2 DEF WritersApart
<1>3. ASSUME NEW p \in Procs, PushFresh(p) PROVE \A q \in Marking' : arg'[q].url \notin seenTable'
  <2>1. arg[p] \in Items
    BY <1>0, <1>3, ShapeArgs DEF PushFresh, PushPcs
  <2>2. /\ arg[p].url \notin visited /\ seenTable' = seenTable
        /\ arg'[p].url = arg[p].url
        /\ \A q \in Procs \ {p} : arg'[q] = arg[q] /\ pc'[q] = pc[q]
    BY <1>0, <1>3, <2>1 DEF PushFresh, Admit, Goto, Items, storeVars
  <2>3. \A q \in Marking' : q = p \/ q \in Marking
    BY <2>2 DEF Marking
  <2> QED BY <2>2, <2>3 DEF SeenSoon, WritersApart, Marking
<1>4. CASE MarksKept
  BY <1>0, <1>1, <1>2, <1>4, WriterKinds DEF MarksKept, WritersApart
<1>5. CASE Restart
  <2>1. Writing' = {} /\ Marking' = {}
    BY <1>5 DEF Restart, Writing, Marking
  <2> QED BY <2>1 DEF WritersApart
<1> QED BY <1>0, <1>1, <1>2, <1>3, <1>4, <1>5, MarkKinds, WriterKinds

LEMMA SeedStoredInductive ==
  ASSUME Reliable, IndInv, SeenSoon, SeedStored, [Next]_vars
  PROVE  SeedStored'
<1> USE FrontierAssumption
<1>0. /\ pc \in [Procs -> WorkerPcs \cup MainPcs]
      /\ arg \in [Procs -> Items \cup {NoItem}]
      /\ Shape /\ Durable /\ ~WriteErrors
      /\ Main \in Procs
      /\ pc[Main] # "join" => \A w \in Workers : pc[w] = "off"
  BY Typed DEF IndInv, Shape, MainFirst, Reliable, Procs
<1>1. CASE Restart
  <2>1. /\ pc'[Main] = "push_insert" /\ arg'[Main].url = Seed
        /\ seenTable' = seenTable
    BY <1>0, <1>1 DEF Restart, SeedItem
  <2> QED BY <2>1 DEF SeedStored
<1>2. CASE ~Restart /\ pc[Main] = "join"
  <2>1. pc'[Main] = "join"
    BY <1>0, <1>2, MainAlone
  <2>2. seenTable \subseteq seenTable'
    BY <1>0, <1>2, MarkKinds DEF MarksKept, PushFresh, Admit, PushSeen, MarkSeen, storeVars
  <2> QED BY <1>2, <2>1, <2>2 DEF SeedStored, Early
<1>3. CASE PushFresh(Main)
  <2>1. arg[Main] \in Items
    BY <1>0, <1>3, ShapeArgs DEF PushFresh, PushPcs
  <2>2. /\ arg'[Main].url = arg[Main].url /\ seenTable' = seenTable
        /\ visited' = visited \cup {arg[Main].url} /\ arg[Main].url \notin visited
        /\ pc[Main] = "push_insert" /\ pc'[Main] = "push_seen"
    BY <1>0, <1>3, <2>1 DEF PushFresh, Admit, Goto, Items, storeVars
  <2>3. Marking = {}
    BY <1>0, <2>2 DEF Marking, Procs
  <2>4. visited = {}
    BY <2>2, <2>3 DEF SeenSoon, SeedStored, Early
  <2> QED BY <2>2, <2>4 DEF SeedStored, Early
<1>4. CASE PushSeen(Main)
  BY <1>0, <1>4 DEF PushSeen, MarkSeen, Goto, memVars, taskVars, SeedStored, Early
<1>5. CASE PushDuplicate(Main)
  <2>1. Marking = {}
    BY <1>0, <1>5 DEF PushDuplicate, Marking, Procs
  <2>2. Seed \in seenTable
    BY <1>5, <2>1 DEF PushDuplicate, SeenSoon, SeedStored, Early
  <2> QED BY <1>0, <1>5, <2>2 DEF PushDuplicate, Goto, AfterPush, storeVars, SeedStored, Early
<1>6. CASE PushRow(Main) \/ PushCount(Main) \/ PushQueue(Main) \/ PushNotify(Main)
           \/ SpawnWorkers
  <2>1. seenTable' = seenTable /\ pc[Main] \notin {"push_insert", "push_seen"}
    BY <1>6 DEF PushRow, EnqueueRow, PushCount, PushQueue, PushNotify, SpawnWorkers, storeVars
  <2>2. pc'[Main] \in Early => arg' = arg /\ pc[Main] \in Early
    BY <1>0, <1>6 DEF PushRow, PushCount, PushQueue, PushNotify, SpawnWorkers, Goto, AfterPush,
                      Early, taskVars
  <2>3. pc'[Main] \notin {"push_insert", "push_seen", "push_row"}
    BY <1>0, <1>6 DEF PushRow, PushCount, PushQueue, PushNotify, SpawnWorkers, Goto, AfterPush
  <2> QED BY <2>1, <2>2, <2>3 DEF SeedStored
<1>7. CASE UNCHANGED vars
  BY <1>7 DEF vars, storeVars, memVars, taskVars, SeedStored
<1> QED BY <1>0, <1>1, <1>2, <1>3, <1>4, <1>5, <1>6, <1>7, MainAlone DEF TryPush

LEMMA DurableInit == Init => DurableInv
<1> SUFFICES ASSUME Init PROVE DurableInv
  OBVIOUS
<1> USE FrontierAssumption DEF Init, StoreInit, TasksStart, Procs
<1>1. FileExact /\ SeenSoon
  BY FileInit DEF FileInv, SeenSoon
<1>2. Writing = {} /\ Marking = {}
  BY DEF Writing, Marking
<1>3. SeedStored
  BY DEF SeedStored, SeedItem, Early
<1> QED BY <1>1, <1>2, <1>3 DEF DurableInv, WritersApart
-----------------------------------------------------------------------------
(* What the file shows of each step.                                       *)
FiledRows == [u \in Urls |-> Stored(u)]

OnLease(u) == \E w \in Holding \ RowDeleted : held[w].url = u
Filed(u) == (\E i \in queue : i.url = u) \/ \E p \in RowWritten : arg[p].url = u

LEMMA StoredCases ==
  ASSUME NEW u
  PROVE  /\ Stored(u) = IF OnLease(u) THEN "leased"
                        ELSE IF Filed(u) THEN "queued"
                        ELSE IF u \in visited /\ ~Coming(u) THEN "done"
                        ELSE "new"
         /\ (\E i \in WithRow : i.url = u) <=> OnLease(u) \/ Filed(u)
<1>1. (\E i \in WithRow : i.url = u) <=> OnLease(u) \/ Filed(u)
  BY DEF WithRow, OnLease, Filed
<1> QED BY <1>1 DEF Stored, OnLease, Coming

LEMMA StoredCasesNext ==
  ASSUME NEW u
  PROVE  Stored(u)' = IF OnLease(u)' THEN "leased"
                      ELSE IF Filed(u)' THEN "queued"
                      ELSE IF u \in visited' /\ ~Coming(u)' THEN "done"
                      ELSE "new"
<1>1. ~OnLease(u)' => ((\E i \in WithRow' : i.url = u) <=> Filed(u)')
  BY DEF WithRow, OnLease, Filed
<1> QED BY <1>1 DEF Stored, OnLease, Coming

LEMMA StoredStays ==
  ASSUME \A u \in Urls : Stored(u)' = Stored(u)
  PROVE  FiledRows' = FiledRows
BY DEF FiledRows

LEMMA StoredMoves ==
  ASSUME NEW v \in Urls, NEW s, Stored(v)' = s,
         \A u \in Urls \ {v} : Stored(u)' = Stored(u)
  PROVE  FiledRows' = [FiledRows EXCEPT ![v] = s]
BY DEF FiledRows

(* A step that moves no item and neither writes nor deletes a row.         *)
LEMMA CalmKeeps ==
  ASSUME Quiet, RowWritten' = RowWritten, RowDeleted' = RowDeleted
  PROVE  FiledRows' = FiledRows
<1>1. RowWritten \subseteq Pushing /\ Holding' = Holding
  BY DEF Quiet, RowWritten, Pushing, Holding
<1>2. ASSUME NEW u \in Urls PROVE Stored(u)' = Stored(u)
  <2>1. OnLease(u)' = OnLease(u) /\ Filed(u)' = Filed(u) /\ Coming(u)' = Coming(u)
    BY <1>1 DEF Quiet, OnLease, Filed, Coming
  <2> QED BY <2>1, StoredCases, StoredCasesNext DEF Quiet
<1> QED BY <1>2, StoredStays

LEMMA FreshKeeps ==
  ASSUME Reliable, IndInv, NEW p \in Procs, PushFresh(p)
  PROVE  FiledRows' = FiledRows
<1> DEFINE v == arg[p].url
<1>1. /\ arg[p] \in Items /\ v \notin visited /\ Durable
      /\ arg \in [Procs -> Items \cup {NoItem}] /\ pc \in [Procs -> WorkerPcs \cup MainPcs]
  BY ShapeArgs, Typed DEF PushFresh, PushPcs, IndInv, Shape, Reliable
<1>2. /\ arg'[p].url = v
      /\ \A q \in Procs \ {p} : arg'[q] = arg[q] /\ pc'[q] = pc[q]
      /\ pc[p] = "push_insert" /\ pc'[p] = "push_seen"
      /\ visited' = visited \cup {v} /\ queue' = queue /\ held' = held
  BY <1>1 DEF PushFresh, Admit, Goto, Items
<1>3. /\ Pushing' = Pushing \cup {p} /\ p \notin Pushing
      /\ RowWritten' = RowWritten /\ RowWritten \subseteq Pushing
      /\ Holding' = Holding
  BY <1>2 DEF Pushing, RowWritten, Holding
<1>4. RowDeleted' = RowDeleted
  BY <1>2, Typed DEF RowDeleted, IndInv, Shape
<1>5. ~OnLease(v) /\ ~Filed(v)
  BY <1>1, <1>3, InPlayFacts DEF OnLease, Filed, IndInv
<1>6. ASSUME NEW u \in Urls PROVE Stored(u)' = Stored(u)
  <2>1. OnLease(u)' = OnLease(u)
    BY <1>2, <1>3, <1>4 DEF OnLease
  <2>2. Filed(u)' = Filed(u)
    BY <1>2, <1>3 DEF Filed, Pushing
  <2>3. CASE u = v
    BY <1>1, <1>2, <1>3, <1>5, <2>1, <2>2, <2>3, StoredCases, StoredCasesNext DEF Coming
  <2>4. CASE u # v
    <3>1. Coming(u)' = Coming(u) /\ (u \in visited' <=> u \in visited)
      BY <1>2, <1>3, <2>4 DEF Coming, Pushing
    <3> QED BY <2>1, <2>2, <3>1, StoredCases, StoredCasesNext
  <2> QED BY <2>3, <2>4
<1> QED BY <1>6, StoredStays

(* Counting an item and queueing it leave it in the file as it was.        *)
LEMMA QueueKeeps ==
  ASSUME IndInv, NEW p \in Procs, PushCount(p) \/ PushQueue(p)
  PROVE  FiledRows' = FiledRows
<1>1. /\ arg \in [Procs -> Items \cup {NoItem}] /\ pc \in [Procs -> WorkerPcs \cup MainPcs]
      /\ \A w \in Workers : w \in Procs
  BY Typed DEF IndInv, Shape
<1>2. /\ held' = held /\ visited' = visited /\ Holding' = Holding
      /\ \A q \in Procs \ {p} : arg'[q] = arg[q] /\ pc'[q] = pc[q]
      /\ \/ pc[p] = "push_count" /\ pc'[p] = "push_queue" /\ arg'[p] = arg[p] /\ queue' = queue
         \/ pc[p] = "push_queue" /\ pc'[p] = "push_notify" /\ queue' = queue \cup {arg[p]}
  BY <1>1 DEF PushCount, PushQueue, Goto, Holding, taskVars
<1>3. RowDeleted' = RowDeleted
  BY <1>1, <1>2 DEF RowDeleted
<1>4. /\ p \in RowWritten /\ RowWritten \ {p} = RowWritten' \ {p}
      /\ p \in RowWritten' => arg'[p] = arg[p] /\ queue' = queue
      /\ p \notin RowWritten' => queue' = queue \cup {arg[p]}
  BY <1>2 DEF RowWritten
<1>5. /\ p \in Pushing /\ Pushing \ {p} = Pushing' \ {p}
      /\ p \in Pushing' => arg'[p] = arg[p]
  BY <1>2 DEF Pushing
<1>6. ASSUME NEW u \in Urls PROVE Stored(u)' = Stored(u)
  <2>1. OnLease(u)' = OnLease(u)
    BY <1>2, <1>3 DEF OnLease
  <2>2. Filed(u)' = Filed(u)
    BY <1>2, <1>4 DEF Filed, RowWritten
  <2>3. Filed(u) \/ Coming(u)' = Coming(u)
    BY <1>2, <1>4, <1>5 DEF Filed, Coming, Pushing
  <2> QED BY <1>2, <2>1, <2>2, <2>3, StoredCases, StoredCasesNext
<1> QED BY <1>6, StoredStays

(* An item whose row is gone is settled already; subtracting it from       *)
(* `pending` shows nothing.                                                *)
LEMMA CountKeeps ==
  ASSUME IndInv, NEW w \in Workers, CompleteCount(w)
  PROVE  FiledRows' = FiledRows
<1> USE FrontierAssumption
<1>1. /\ held \in [Workers -> Items \cup {NoItem}] /\ pc \in [Procs -> WorkerPcs \cup MainPcs]
      /\ \A v \in Workers : v \in Procs
  BY Typed DEF IndInv, Shape
<1>2. /\ queue' = queue /\ visited' = visited /\ arg' = arg
      /\ held' = [held EXCEPT ![w] = NoItem]
      /\ pc[w] = "count_down" /\ pc'[w] \in {"drain_notify", "exit", "loop"}
      /\ \A q \in Procs \ {w} : pc'[q] = pc[q]
  BY <1>1 DEF CompleteCount, CountDown, Goto, AfterComplete
<1>3. /\ Pushing' = Pushing /\ RowWritten' = RowWritten
      /\ Holding' \ RowDeleted' = Holding \ RowDeleted
      /\ w \notin Holding \ RowDeleted
  BY <1>1, <1>2 DEF Pushing, RowWritten, Holding, RowDeleted
<1>4. ASSUME NEW u \in Urls PROVE Stored(u)' = Stored(u)
  <2>1. OnLease(u)' = OnLease(u)
    BY <1>1, <1>2, <1>3 DEF OnLease, Holding
  <2>2. Filed(u)' = Filed(u) /\ Coming(u)' = Coming(u)
    BY <1>2, <1>3 DEF Filed, Coming
  <2> QED BY <1>2, <2>1, <2>2, StoredCases, StoredCasesNext
<1> QED BY <1>4, StoredStays

(* Whoever is between the two writes may offer its URL: a worker that      *)
(* holds the page it is on, or main with the seed, before anything else.   *)
LEMMA WriterMayOffer ==
  ASSUME IndInv, SeedStored, NEW p \in Writing
  PROVE  /\ arg[p].url \in Urls /\ arg[p].url \in seenTable
         /\ ~OnLease(arg[p].url) /\ ~Filed(arg[p].url) /\ Coming(arg[p].url)
         /\ Stored(arg[p].url) = "new"
         /\ \/ \E u \in Urls : Stored(u) = "leased"
            \/ arg[p].url = Seed /\ \A u \in Urls : Stored(u) = "new"
<1>1. pc[p] = "push_row" /\ p \in Procs
  BY DEF Writing
<1>2. arg[p].url \in Urls /\ arg[p].url \in seenTable
  BY <1>1, ShapeArgs, ItemsFacts DEF PushPcs, IndInv, Shape, RowsSeen
<1>3. p \in Pushing /\ p \notin RowWritten /\ RowWritten \subseteq Pushing
  BY <1>1 DEF RowWritten, Pushing
<1>4. ~OnLease(arg[p].url) /\ ~Filed(arg[p].url) /\ Coming(arg[p].url)
  BY <1>3 DEF IndInv, AtMostOnce, OnLease, Filed, Coming
<1>5. Stored(arg[p].url) = "new"
  BY <1>4, StoredCases
<1>6. CASE p # Main
  <2>1. p \in Workers /\ held[p] # NoItem
    BY <1>1, <1>6 DEF Procs, IndInv, Shape, HandsMatch, HandPcs, PushPcs
  <2>2. p \in Holding \ RowDeleted
    BY <1>1, <2>1 DEF Holding, RowDeleted
  <2>3. held[p].url \in Urls /\ OnLease(held[p].url)
    BY <2>2, ShapeArgs, ItemsFacts DEF OnLease, IndInv
  <2>4. Stored(held[p].url) = "leased"
    BY <2>3, StoredCases
  <2> QED BY <1>2, <1>4, <1>5, <2>3, <2>4
<1>7. CASE p = Main
  <2>1. arg[p].url = Seed /\ visited = {Seed}
    BY <1>1, <1>7 DEF SeedStored, Early
  <2>2. ASSUME NEW u \in Urls, u # Seed PROVE Stored(u) = "new"
    <3>1. u \notin visited
      BY <2>1, <2>2
    <3>2. ~OnLease(u) /\ ~Filed(u)
      BY <1>3, <3>1, InPlayFacts DEF OnLease, Filed, IndInv
    <3> QED BY <3>1, <3>2, StoredCases
  <2> QED BY <1>2, <1>4, <1>5, <2>1, <2>2
<1> QED BY <1>6, <1>7

(* The write of a row offers its URL.                                      *)
LEMMA RowOffers ==
  ASSUME Reliable, IndInv, SeedStored, NEW p \in Procs, PushRow(p)
  PROVE  \E v \in Urls : /\ Stored(v) = "new"
                         /\ FiledRows' = [FiledRows EXCEPT ![v] = "queued"]
                         /\ \/ \E u \in Urls : Stored(u) = "leased"
                            \/ v = Seed /\ \A u \in Urls : Stored(u) = "new"
<1>1. /\ pc \in [Procs -> WorkerPcs \cup MainPcs] /\ \A w \in Workers : w \in Procs
      /\ pc[p] = "push_row" /\ p \in Writing /\ ~WriteErrors
  BY Typed DEF PushRow, IndInv, Shape, Reliable, Writing
<1>2. PICK v \in Urls : v = arg[p].url
  BY <1>1, WriterMayOffer
<1>3. /\ queue' = queue /\ held' = held /\ visited' = visited /\ arg' = arg
      /\ pc' = [pc EXCEPT ![p] = "push_count"]
  BY <1>1 DEF PushRow, Goto, memVars, taskVars
<1>4. /\ RowWritten' = RowWritten \cup {p}
      /\ RowDeleted' = RowDeleted /\ Holding' = Holding /\ Pushing' = Pushing
  BY <1>1, <1>3 DEF RowWritten, RowDeleted, Holding, Pushing
<1>5. Stored(v)' = "queued"
  <2>1. ~OnLease(v)' /\ Filed(v)'
    BY <1>1, <1>2, <1>3, <1>4, WriterMayOffer DEF OnLease, Filed
  <2> QED BY <2>1, StoredCasesNext
<1>6. ASSUME NEW u \in Urls \ {v} PROVE Stored(u)' = Stored(u)
  <2>1. OnLease(u)' = OnLease(u) /\ Coming(u)' = Coming(u)
    BY <1>3, <1>4 DEF OnLease, Coming
  <2>2. Filed(u)' = Filed(u)
    BY <1>2, <1>3, <1>4, <1>6 DEF Filed
  <2> QED BY <1>3, <2>1, <2>2, StoredCases, StoredCasesNext
<1>7. FiledRows' = [FiledRows EXCEPT ![v] = "queued"]
  BY <1>2, <1>5, <1>6, StoredMoves
<1> QED BY <1>1, <1>2, <1>7, WriterMayOffer

LEMMA TakeLeases ==
  ASSUME Reliable, IndInv, NEW w \in Workers, PopTake(w)
  PROVE  \E v \in Urls : Stored(v) = "queued" /\ FiledRows' = [FiledRows EXCEPT ![v] = "leased"]
<1>1. /\ pc \in [Procs -> WorkerPcs \cup MainPcs] /\ held \in [Workers -> Items \cup {NoItem}]
      /\ \A x \in Workers : x \in Procs
      /\ pc[w] = "take" /\ held[w] = NoItem /\ Durable
  BY Typed DEF PopTake, IndInv, Shape, HandsMatch, EmptyPcs, Reliable
<1>2. PICK i \in queue : queue' = queue \ {i} /\ held' = [held EXCEPT ![w] = i]
  BY DEF PopTake
<1>3. /\ arg' = arg /\ visited' = visited
      /\ pc' = [pc EXCEPT ![w] = "lease"]
  BY <1>1 DEF PopTake, Goto, memVars, taskVars
<1>4. i \in Items /\ i.url \in Urls /\ i # NoItem /\ held'[w] = i
  BY <1>1, <1>2, ShapeArgs, ItemsFacts, FrontierAssumption DEF IndInv
<1>5. /\ RowWritten' = RowWritten /\ RowDeleted' = RowDeleted /\ w \notin RowDeleted
      /\ Pushing' = Pushing /\ w \notin Holding /\ RowWritten \subseteq Pushing
  BY <1>1, <1>3 DEF RowWritten, RowDeleted, Pushing, Holding
<1>6. Holding' = Holding \cup {w}
  BY <1>1, <1>2, <1>4 DEF Holding
<1>7. /\ \A x \in Holding : held[x].url # i.url
      /\ \A q \in Pushing : arg[q].url # i.url
      /\ \A j \in queue \ {i} : j.url # i.url
  BY DEF IndInv, AtMostOnce
<1>8. Stored(i.url) = "queued" /\ Stored(i.url)' = "leased"
  <2>1. ~OnLease(i.url) /\ Filed(i.url)
    BY <1>7 DEF OnLease, Filed
  <2>2. OnLease(i.url)'
    BY <1>4, <1>5, <1>6 DEF OnLease
  <2> QED BY <2>1, <2>2, StoredCases, StoredCasesNext
<1>9. ASSUME NEW u \in Urls \ {i.url} PROVE Stored(u)' = Stored(u)
  <2>1. \A x \in Holding : held'[x] = held[x]
    BY <1>1, <1>2, <1>5 DEF Holding
  <2>2. OnLease(u)' = OnLease(u)
    BY <1>4, <1>5, <1>6, <1>9, <2>1 DEF OnLease
  <2>3. Filed(u)' = Filed(u) /\ Coming(u)' = Coming(u)
    BY <1>2, <1>3, <1>5, <1>9 DEF Filed, Coming
  <2> QED BY <1>3, <2>2, <2>3, StoredCases, StoredCasesNext
<1> QED BY <1>4, <1>8, <1>9, StoredMoves

(* Deleting the row settles its URL.                                       *)
LEMMA DeleteSettles ==
  ASSUME Reliable, IndInv, NEW w \in Workers, CompleteRow(w)
  PROVE  \E v \in Urls : Stored(v) = "leased" /\ FiledRows' = [FiledRows EXCEPT ![v] = "done"]
<1>1. /\ pc \in [Procs -> WorkerPcs \cup MainPcs] /\ \A x \in Workers : x \in Procs
      /\ pc[w] = "delete_row" /\ held[w] # NoItem /\ ~WriteErrors
  BY Typed DEF CompleteRow, IndInv, Shape, HandsMatch, HandPcs, Reliable
<1>2. /\ queue' = queue /\ held' = held /\ visited' = visited /\ arg' = arg
      /\ pc' = [pc EXCEPT ![w] = "count_down"]
  BY <1>1 DEF CompleteRow, Goto, memVars, taskVars
<1>3. /\ RowDeleted' = RowDeleted \cup {w} /\ w \notin RowDeleted
      /\ Holding' = Holding /\ w \in Holding
      /\ RowWritten' = RowWritten /\ Pushing' = Pushing /\ RowWritten \subseteq Pushing
  BY <1>1, <1>2 DEF RowDeleted, Holding, RowWritten, Pushing
<1>4. PICK v \in Urls : v = held[w].url /\ v \in visited
  BY <1>3, ShapeArgs, ItemsFacts, InPlayFacts DEF IndInv
<1>5. Stored(v) = "leased" /\ Stored(v)' = "done"
  <2>1. OnLease(v)
    BY <1>3, <1>4 DEF OnLease
  <2>2. ~OnLease(v)' /\ ~Filed(v)' /\ ~Coming(v)'
    BY <1>2, <1>3, <1>4 DEF OnLease, Filed, Coming, IndInv, AtMostOnce
  <2> QED BY <1>2, <1>4, <2>1, <2>2, StoredCases, StoredCasesNext
<1>6. ASSUME NEW u \in Urls \ {v} PROVE Stored(u)' = Stored(u)
  <2>1. OnLease(u)' = OnLease(u)
    BY <1>2, <1>3, <1>4, <1>6 DEF OnLease
  <2>2. Filed(u)' = Filed(u) /\ Coming(u)' = Coming(u)
    BY <1>2, <1>3 DEF Filed, Coming
  <2> QED BY <1>2, <2>1, <2>2, StoredCases, StoredCasesNext
<1>7. FiledRows' = [FiledRows EXCEPT ![v] = "done"]
  BY <1>4, <1>5, <1>6, StoredMoves
<1> QED BY <1>4, <1>5, <1>7

(* A restart queues whatever had a row; of the rest it remembers what was  *)
(* marked seen, which it takes for settled.                                *)
LEMMA CrashGivesBack ==
  ASSUME Reliable, IndInv, DurableInv, Restart
  PROVE  LET Back == [u \in Urls |-> IF Stored(u) = "leased" THEN "queued" ELSE Stored(u)]
         IN  \/ FiledRows' = Back
             \/ \E v \in Urls : /\ Stored(v) = "new"
                                /\ FiledRows' = [Back EXCEPT ![v] = "done"]
                                /\ \/ \E u \in Urls : Stored(u) = "leased"
                                   \/ v = Seed /\ \A u \in Urls : Stored(u) = "new"
<1> DEFINE Back == [u \in Urls |-> IF Stored(u) = "leased" THEN "queued" ELSE Stored(u)]
<1>1. /\ Holding' = {} /\ Pushing' = {} /\ RowWritten' = {}
      /\ queue' = WithRow /\ visited' = seenTable
  BY DEF Restart, Holding, Pushing, RowWritten, LoadedSeen, DurableInv, FileExact
<1>2. ASSUME NEW u \in Urls
      PROVE  Stored(u)' = IF OnLease(u) \/ Filed(u) THEN "queued"
                          ELSE IF u \in seenTable THEN "done" ELSE "new"
  <2>1. ~OnLease(u)' /\ ~Coming(u)' /\ (Filed(u)' <=> OnLease(u) \/ Filed(u))
    BY <1>1, StoredCases DEF OnLease, Coming, Filed
  <2> QED BY <1>1, <2>1, StoredCasesNext
<1>3. ASSUME NEW u \in Urls, \A p \in Writing : arg[p].url # u
      PROVE  Stored(u)' = IF Stored(u) = "leased" THEN "queued" ELSE Stored(u)
  <2>1. CASE OnLease(u) \/ Filed(u)
    BY <1>2, <2>1, StoredCases
  <2>2. CASE ~OnLease(u) /\ ~Filed(u) /\ u \in seenTable
    <3>1. u \in visited /\ \A p \in Marking : arg[p].url # u
      BY <2>2 DEF DurableInv, SeenSoon, WritersApart
    <3>2. \A p \in RowWritten : arg[p].url # u
      BY <2>2 DEF Filed
    <3>3. ~Coming(u)
      BY <1>3, <3>1, <3>2 DEF Coming, Pushing, Marking, Writing, RowWritten
    <3> QED BY <1>2, <2>2, <3>1, <3>3, StoredCases
  <2>3. CASE ~OnLease(u) /\ ~Filed(u) /\ u \notin seenTable
    <3>1. u \in visited => Coming(u)
      BY <2>3 DEF DurableInv, SeenSoon, Coming, Marking, Pushing
    <3> QED BY <1>2, <2>3, <3>1, StoredCases
  <2> QED BY <2>1, <2>2, <2>3
<1>4. CASE Writing = {}
  <2>1. FiledRows' = Back
    BY <1>3, <1>4 DEF FiledRows
  <2> QED BY <2>1
<1>5. ASSUME NEW p \in Writing
      PROVE  \E v \in Urls : /\ Stored(v) = "new"
                             /\ FiledRows' = [Back EXCEPT ![v] = "done"]
                             /\ \/ \E u \in Urls : Stored(u) = "leased"
                                \/ v = Seed /\ \A u \in Urls : Stored(u) = "new"
  <2>1. PICK v \in Urls : v = arg[p].url
    BY WriterMayOffer DEF DurableInv
  <2>2. Stored(v)' = "done"
    BY <1>2, <2>1, WriterMayOffer DEF DurableInv
  <2>3. \A q \in Writing : q = p
    BY DEF DurableInv, WritersApart
  <2>4. \A u \in Urls \ {v} : Stored(u)' = IF Stored(u) = "leased" THEN "queued" ELSE Stored(u)
    BY <1>3, <2>1, <2>3
  <2>5. FiledRows' = [Back EXCEPT ![v] = "done"]
    BY <2>2, <2>4 DEF FiledRows
  <2> QED BY <2>1, <2>5, WriterMayOffer DEF DurableInv
<1> QED BY <1>4, <1>5

LEMMA DurableInductive ==
  ASSUME Reliable, IndInv, IndInv', DurableInv, [Next]_vars
  PROVE  DurableInv'
BY FileInductive, SeenInductive, WritersInductive, SeedStoredInductive DEF DurableInv, IndInv

LEMMA DurablePoolInit == Init => Durably!Init
<1> SUFFICES ASSUME Init PROVE Durably!Init
  OBVIOUS
<1> USE FrontierAssumption
<1>1. Holding = {} /\ Pushing = {} /\ queue = {} /\ visited = {} /\ RowWritten = {}
  BY DEF Init, TasksStart, Holding, Pushing, RowWritten, Procs
<1>2. \A u \in Urls : Stored(u) = "new"
  BY <1>1, StoredCases DEF OnLease, Filed
<1>3. ~stopped /\ Gone = {}
  BY DEF Init, TasksStart, Gone, Procs
<1> QED BY <1>2, <1>3 DEF Durably!Init, Gone

(* A step that leaves the items alone closes the pool, sends a worker home *)
(* or shows nothing.                                                       *)
LEMMA DurableDoors ==
  ASSUME IndInv, IndInv', [Next]_vars, ~Restart, FiledRows' = FiledRows
  PROVE  [Durably!DurableNext]_Durably!vars
<1> USE DEF FiledRows, Gone, Durably!DurableNext, Durably!Next
<1>1. CASE stopped' = stopped /\ Gone' = Gone
  BY <1>1 DEF Durably!vars
<1>2. CASE stopped' = TRUE /\ Gone' = Gone
  BY <1>2 DEF Durably!Close
<1>3. CASE \E w \in Workers \ Gone :
             /\ stopped' = stopped /\ Gone' = Gone \cup {w}
             /\ stopped \/ pending = 0
  <2>1. PICK w \in Workers \ Gone :
          /\ stopped' = stopped /\ Gone' = Gone \cup {w}
          /\ stopped \/ pending = 0
    BY <1>3
  <2>2. CASE stopped
    BY <2>1, <2>2 DEF Durably!Leave
  <2>3. CASE ~stopped
    <3>1. Outstanding' = {} /\ Pushing' = {}
      BY <2>1, <2>3 DEF IndInv, NoEarlyExit
    <3>2. Holding' = {} /\ queue' = {} /\ RowWritten' = {}
      BY <3>1 DEF Outstanding, RowWritten, Pushing
    <3>3. \A u \in Urls : Stored(u)' \notin {"queued", "leased"}
      BY <3>2, StoredCasesNext DEF OnLease, Filed
    <3>4. \A u \in Urls : Stored(u) \notin {"queued", "leased"}
      BY <3>3
    <3> QED BY <2>1, <3>4 DEF Durably!Leave, Durably!Idle, Durably!In
  <2> QED BY <2>2, <2>3
<1> QED BY <1>1, <1>2, <1>3, DoorKinds DEF IndInv

LEMMA DurablePoolStep ==
  ASSUME Reliable, IndInv, IndInv', DurableInv, [Next]_vars
  PROVE  [Durably!DurableNext]_Durably!vars
<1> USE DEF FiledRows, Gone
<1>0. Shape /\ SeedStored
  BY DEF IndInv, DurableInv
<1>1. CASE Restart
  <2>1. ~stopped' /\ Gone' = {}
    BY <1>1, FrontierAssumption DEF Restart, Procs
  <2>2. Durably!Crash
    BY <1>1, <2>1, CrashGivesBack
       DEF Durably!Crash, Durably!GivenBack, Durably!MayOffer, Durably!In
  <2> QED BY <2>2 DEF Durably!DurableNext
<1>2. ASSUME ~Restart, FiledRows' = FiledRows PROVE [Durably!DurableNext]_Durably!vars
  BY <1>2, DurableDoors
<1>3. ASSUME NEW p \in Procs, PushRow(p) PROVE [Durably!DurableNext]_Durably!vars
  <2>1. stopped' = stopped /\ Gone' = Gone
    BY <1>0, <1>3, DoorsStay
  <2>2. PICK v \in Urls :
          /\ Stored(v) = "new"
          /\ FiledRows' = [FiledRows EXCEPT ![v] = "queued"]
          /\ \/ \E u \in Urls : Stored(u) = "leased"
             \/ v = Seed /\ \A u \in Urls : Stored(u) = "new"
    BY <1>0, <1>3, RowOffers
  <2>3. Durably!Offer(v)
    BY <2>1, <2>2 DEF Durably!Offer, Durably!MayOffer, Durably!In
  <2> QED BY <2>3 DEF Durably!DurableNext, Durably!Next
<1>4. ASSUME NEW w \in Workers, PopTake(w) PROVE [Durably!DurableNext]_Durably!vars
  <2>1. stopped' = stopped /\ Gone' = Gone
    BY <1>0, <1>4, DoorsStay
  <2>2. PICK v \in Urls : Stored(v) = "queued" /\ FiledRows' = [FiledRows EXCEPT ![v] = "leased"]
    BY <1>4, TakeLeases
  <2>3. Durably!Take(v)
    BY <2>1, <2>2 DEF Durably!Take
  <2> QED BY <2>3 DEF Durably!DurableNext, Durably!Next
<1>5. ASSUME NEW w \in Workers, CompleteRow(w) PROVE [Durably!DurableNext]_Durably!vars
  <2>1. stopped' = stopped /\ Gone' = Gone
    BY <1>0, <1>5, DoorsStay
  <2>2. PICK v \in Urls : Stored(v) = "leased" /\ FiledRows' = [FiledRows EXCEPT ![v] = "done"]
    BY <1>5, DeleteSettles
  <2>3. Durably!Settle(v)
    BY <2>1, <2>2 DEF Durably!Settle
  <2> QED BY <2>3 DEF Durably!DurableNext, Durably!Next
<1>6. ASSUME NEW p \in Procs, PushFresh(p) \/ PushCount(p) \/ PushQueue(p) PROVE FiledRows' = FiledRows
  BY <1>6, FreshKeeps, QueueKeeps
<1>7. ASSUME NEW w \in Workers, CompleteCount(w) PROVE FiledRows' = FiledRows
  BY <1>7, CountKeeps
<1>8. ASSUME NEW w \in Workers, PopLease(w) PROVE FiledRows' = FiledRows
  <2>1. pc \in [Procs -> WorkerPcs \cup MainPcs] /\ w \in Procs
    BY <1>0, Typed DEF Shape
  <2>2. Quiet /\ RowWritten' = RowWritten /\ RowDeleted' = RowDeleted
    BY <1>8, <2>1 DEF PopLease, Quiet, Pushing, Queueing, RowWritten, RowDeleted, Goto,
                      memVars, taskVars
  <2> QED BY <2>2, CalmKeeps
<1>9. ASSUME Calm PROVE FiledRows' = FiledRows
  <2>1. Quiet /\ RowWritten' = RowWritten /\ RowDeleted' = RowDeleted
    BY <1>9 DEF Calm
  <2> QED BY <2>1, CalmKeeps
<1> QED BY <1>0, <1>1, <1>2, <1>3, <1>4, <1>5, <1>6, <1>7, <1>8, <1>9, FileKinds

(* The persistent frontier implements the pool that outlives its process,  *)
(* for any number of workers and of crashes, each between any two steps: a *)
(* crash gives back what was in hand and undoes nothing else; no more than *)
(* one URL is lost by it, the one between try_push's two writes.           *)
THEOREM FrontierOutlivesCrashes ==
  ASSUME Reliable
  PROVE  Spec => ImplementsDurablePool
<1>1. Init => DurableInv /\ Durably!Init
  BY DurableInit, DurablePoolInit
<1>2. IndInv /\ IndInv' /\ DurableInv /\ [Next]_vars =>
        DurableInv' /\ [Durably!DurableNext]_Durably!vars
  BY DurableInductive, DurablePoolStep
<1> HIDE DEF IndInv, DurableInv
<1> QED BY <1>1, <1>2, Invariance, PTL DEF Spec, ImplementsDurablePool, Durably!DurableSpec
=============================================================================
