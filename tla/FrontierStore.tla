--------------------------- MODULE FrontierStore ---------------------------
(***************************************************************************)
(* store.rs: the SQLite tables behind a persistent frontier.  Every write  *)
(* is its own autocommitted statement, so each operation below is atomic   *)
(* and survives a crash; a sequence of two of them is not.  A URL stands   *)
(* for the fingerprint the tables are keyed by.                            *)
(***************************************************************************)
EXTENDS Integers, FiniteSets

CONSTANTS Urls, MaxDepth

VARIABLES seenTable,  \* the rows of table `seen`
          rows        \* rows[u]: the row of table `items` keyed by u

storeVars == <<seenTable, rows>>

Absent == [state |-> "absent", depth |-> 0, seq |-> 0]

Row == [state : {"absent", "queued", "inflight"},
        depth : 0..MaxDepth, seq : Nat]

StoreTypeOK == /\ seenTable \subseteq Urls
               /\ rows \in [Urls -> Row]

StoreInit == /\ seenTable = {}
             /\ rows = [u \in Urls |-> Absent]

Present == {u \in Urls : rows[u].state # "absent"}

MarkSeen(u) == /\ seenTable' = seenTable \cup {u}
               /\ UNCHANGED rows

EnqueueRow(item) ==
  /\ rows' = [rows EXCEPT ![item.url] =
                [state |-> "queued", depth |-> item.depth, seq |-> item.seq]]
  /\ UNCHANGED seenTable

MarkInflight(u) ==
  /\ rows' = [rows EXCEPT ![u].state = IF @ = "absent" THEN @ ELSE "inflight"]
  /\ UNCHANGED seenTable

DeleteRow(u) == /\ rows' = [rows EXCEPT ![u] = Absent]
                /\ UNCHANGED seenTable

(* load: what UPDATE ... SET state = 'queued' leaves in the table, the     *)
(* items then selected, and the seen set.                                  *)
Requeued == [u \in Urls |-> [rows[u] EXCEPT !.state =
                               IF @ = "inflight" THEN "queued" ELSE @]]

LoadedItems == {[url |-> u, depth |-> Requeued[u].depth, seq |-> Requeued[u].seq] :
                  u \in {v \in Urls : Requeued[v].state = "queued"}}

LoadedSeen == seenTable

(* load()'s max_seq, as the set of its one value: 0 when no row is queued. *)
MaxSeqs == {m \in {0} \cup {i.seq : i \in LoadedItems} :
              \A i \in LoadedItems : i.seq <= m}
=============================================================================
