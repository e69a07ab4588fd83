----------------------------- MODULE HostProofs -----------------------------
(***************************************************************************)
(* The requests to one host, for any number of workers, retries, proxies   *)
(* and permits: the proxy pool moves on, the composition obeys the circuit *)
(* breaker's module, so its theorems hold here, an open host is left       *)
(* alone, and so is one whose robots.txt forbids or cannot be had.         *)
(***************************************************************************)
EXTENDS HostRequests, FiniteSetTheorems, TLAPS

(* The breaker's module with the theorems about it.                        *)
HP == INSTANCE HealthProofs

-----------------------------------------------------------------------------
(* The fetcher.                                                            *)

(* The workers in a call of the pool: about to count the pick they made,   *)
(* to reset the count, or to move the index.                               *)
Counting == {w \in Workers : stage[w] = "count"}
Resetting == {w \in Workers : stage[w] = "reset"}
Moving == {w \in Workers : stage[w] \in {"advance", "markAdvance"}}

Counts == Cardinality(Counting)
Resets == Cardinality(Resetting)
Moves == Cardinality(Moving)

Lower(m, n) == IF m < n THEN m ELSE n

(* A reset is on its way for every use counted past the threshold; and the *)
(* picks of one proxy are those whose uses are still counted, those still  *)
(* to be counted, one for each reset begun, and RotateAfter for each reset *)
(* made since the index moved, all by workers who still have to move it.   *)
PoolInv == /\ used <= RotateAfter - 1 + Resets
           /\ picks <= RotateAfter * Moves + Lower(used, RotateAfter - 1)
                         + Resets + Counts
           /\ Moves = Cardinality(Workers) => used = 0

(* A retry is decided only when one is left; a call starts counting anew.  *)
RetryInv == \A w \in Workers :
  /\ stage[w] = "idle" => attempt[w] = 0
  /\ stage[w] \in {"mark", "markAdvance"} => attempt[w] < MaxRetries

FetchInv == FetchTypeOK /\ RetryInv /\ PoolInv

LEMMA OneMore ==
  ASSUME NEW S \in SUBSET Workers, NEW w \in Workers
  PROVE  /\ Cardinality(S) \in Nat /\ Cardinality(Workers) \in Nat
         /\ Cardinality(S) <= Cardinality(Workers)
         /\ w \notin S => Cardinality(S \cup {w}) = Cardinality(S) + 1
         /\ w \in S => Cardinality(S \ {w}) = Cardinality(S) - 1
<1>1. IsFiniteSet(Workers) /\ IsFiniteSet(S)
  BY FetchAssumption, FS_Subset
<1>2. Cardinality(S) <= Cardinality(Workers)
  BY <1>1, FS_Subset
<1>3. /\ w \notin S => Cardinality(S \cup {w}) = Cardinality(S) + 1
      /\ w \in S => Cardinality(S \ {w}) = Cardinality(S) - 1
  BY <1>1, FS_AddElement, FS_RemoveElement
<1> QED BY <1>1, <1>2, <1>3, FS_CardinalityType

LEMMA MemberMoves ==
  ASSUME NEW S \in SUBSET Workers, NEW w \in Workers
  PROVE  /\ Cardinality(S \cup {w}) = Cardinality(S) + 1 - (IF w \in S THEN 1 ELSE 0)
         /\ Cardinality(S \ {w}) = Cardinality(S) + 0 - (IF w \in S THEN 1 ELSE 0)
<1>1. CASE w \in S
  <2>1. Cardinality(S \cup {w}) = Cardinality(S)
    <3>1. S \cup {w} = S
      BY <1>1
    <3> QED BY <3>1
  <2> QED BY <1>1, <2>1, OneMore
<1>2. CASE w \notin S
  <2>1. Cardinality(S \ {w}) = Cardinality(S)
    <3>1. S \ {w} = S
      BY <1>2
    <3> QED BY <3>1
  <2> QED BY <1>2, <2>1, OneMore
<1> QED BY <1>1, <1>2

(* One worker's move changes each count by that worker.                    *)
LEMMA CountsMove ==
  ASSUME FetchTypeOK, NEW w \in Workers, NEW here, NEW there, At(w, here, there)
  PROVE  /\ Counts' = Counts + (IF there = "count" THEN 1 ELSE 0)
                            - (IF here = "count" THEN 1 ELSE 0)
         /\ Resets' = Resets + (IF there = "reset" THEN 1 ELSE 0)
                            - (IF here = "reset" THEN 1 ELSE 0)
         /\ Moves' = Moves + (IF there \in {"advance", "markAdvance"} THEN 1 ELSE 0)
                          - (IF here \in {"advance", "markAdvance"} THEN 1 ELSE 0)
<1>1. /\ DOMAIN stage = Workers /\ stage[w] = here
      /\ stage' = [stage EXCEPT ![w] = there]
  BY DEF FetchTypeOK, At
<1>2. Counting' = IF there = "count" THEN Counting \cup {w} ELSE Counting \ {w}
  BY <1>1 DEF Counting
<1>3. Resetting' = IF there = "reset" THEN Resetting \cup {w} ELSE Resetting \ {w}
  BY <1>1 DEF Resetting
<1>4. Moving' = IF there \in {"advance", "markAdvance"} THEN Moving \cup {w} ELSE Moving \ {w}
  BY <1>1 DEF Moving
<1>5. /\ w \in Counting <=> here = "count"
      /\ w \in Resetting <=> here = "reset"
      /\ w \in Moving <=> here \in {"advance", "markAdvance"}
  BY <1>1 DEF Counting, Resetting, Moving
<1>6. Counting \in SUBSET Workers /\ Resetting \in SUBSET Workers /\ Moving \in SUBSET Workers
  BY DEF Counting, Resetting, Moving
<1>7. Counts' = Counts + (IF there = "count" THEN 1 ELSE 0) - (IF here = "count" THEN 1 ELSE 0)
  BY <1>2, <1>5, <1>6, MemberMoves DEF Counts
<1>8. Resets' = Resets + (IF there = "reset" THEN 1 ELSE 0) - (IF here = "reset" THEN 1 ELSE 0)
  BY <1>3, <1>5, <1>6, MemberMoves DEF Resets
<1>9. Moves' = Moves + (IF there \in {"advance", "markAdvance"} THEN 1 ELSE 0)
                    - (IF here \in {"advance", "markAdvance"} THEN 1 ELSE 0)
  BY <1>4, <1>5, <1>6, MemberMoves DEF Moves
<1> QED BY <1>7, <1>8, <1>9

(* No worker is counted twice.                                             *)
LEMMA CountsFit ==
  /\ Counts \in Nat /\ Resets \in Nat /\ Moves \in Nat /\ Cardinality(Workers) \in Nat
  /\ Counts + Resets + Moves <= Cardinality(Workers)
<1>1. /\ IsFiniteSet(Workers) /\ IsFiniteSet(Counting) /\ IsFiniteSet(Resetting)
      /\ IsFiniteSet(Moving)
  BY FetchAssumption, FS_Subset DEF Counting, Resetting, Moving
<1>2. Counting \cap Resetting = {} /\ (Counting \cup Resetting) \cap Moving = {}
  BY DEF Counting, Resetting, Moving
<1> DEFINE Both == Counting \cup Resetting
<1>3. IsFiniteSet(Both) /\ Cardinality(Both) = Counts + Resets
  <2>1. /\ IsFiniteSet(Both)
        /\ Cardinality(Both) = Counts + Resets - Cardinality(Counting \cap Resetting)
    BY <1>1, FS_Union DEF Counts, Resets
  <2>2. Cardinality(Counting \cap Resetting) = 0
    BY <1>2, FS_EmptySet
  <2> QED BY <2>1, <2>2, <1>1, FS_CardinalityType DEF Counts, Resets
<1>4. Cardinality(Both \cup Moving) = Cardinality(Both) + Moves
  <2> HIDE DEF Both
  <2>1. Cardinality(Both \cap Moving) = 0
    <3>1. Both \cap Moving = {}
      BY <1>2 DEF Both
    <3> QED BY <3>1, FS_EmptySet
  <2>2. Cardinality(Both \cup Moving) = Cardinality(Both) + Moves - Cardinality(Both \cap Moving)
    BY <1>1, <1>3, FS_Union DEF Moves
  <2> QED BY <2>1, <2>2, <1>1, <1>3, FS_CardinalityType DEF Moves
<1>5. Cardinality(Both \cup Moving) <= Cardinality(Workers)
  <2>1. Both \cup Moving \subseteq Workers
    BY DEF Counting, Resetting, Moving
  <2> QED BY <2>1, <1>1, FS_Subset
<1> QED BY <1>1, <1>3, <1>4, <1>5, FS_CardinalityType DEF Counts, Resets, Moves

LEMMA CountsMoved == Counts' \in Nat /\ Resets' \in Nat /\ Moves' \in Nat
<1>1. /\ IsFiniteSet(Counting') /\ IsFiniteSet(Resetting') /\ IsFiniteSet(Moving')
  BY FetchAssumption, FS_Subset DEF Counting, Resetting, Moving
<1> QED BY <1>1, FS_CardinalityType DEF Counts, Resets, Moves

LEMMA RotateTimes ==
  \A n \in Nat : /\ RotateAfter * n \in Nat
                 /\ RotateAfter * (n + 1) = RotateAfter * n + RotateAfter
BY FetchAssumption

(* Stages outside the pool.                                                *)
Outside == {"idle", "try", "flight", "body", "mark", "asleep", "done"}

LEMMA OutsideKeepsPool ==
  ASSUME FetchTypeOK, PoolInv, NEW w \in Workers, NEW here \in Outside, NEW there \in Outside,
         At(w, here, there), UNCHANGED poolVars
  PROVE  PoolInv'
<1>1. Counts' = Counts /\ Resets' = Resets /\ Moves' = Moves
  BY CountsMove, CountsFit DEF Outside
<1> QED BY <1>1 DEF PoolInv, poolVars, Lower

LEMMA PickKeepsPool ==
  ASSUME FetchTypeOK, PoolInv, NEW w \in Workers, LoadIndex(w)
  PROVE  PoolInv'
<1>1. Counts' = Counts + 1 /\ Resets' = Resets /\ Moves' = Moves
  BY CountsMove, CountsFit DEF LoadIndex
<1>2. used' = used /\ picks' = picks + 1
  BY DEF LoadIndex
<1> DEFINE earned == RotateAfter * Moves
<1>3. earned' = earned /\ earned \in Nat
  BY <1>1, RotateTimes, CountsFit
<1> HIDE DEF earned
<1>4. picks <= earned + Lower(used, RotateAfter - 1) + Resets + Counts
  BY DEF PoolInv, earned
<1>5. picks' <= earned' + Lower(used, RotateAfter - 1)' + Resets' + Counts'
  BY <1>1, <1>2, <1>3, <1>4, CountsFit, FetchAssumption DEF FetchTypeOK, Lower
<1> QED BY <1>1, <1>2, <1>5 DEF PoolInv, earned

LEMMA CountKeepsPool ==
  ASSUME FetchTypeOK, PoolInv, NEW w \in Workers, CountUse(w)
  PROVE  PoolInv'
<1> USE FetchAssumption DEF FetchTypeOK
<1>1. /\ Counts' = Counts - 1 /\ Moves' = Moves
      /\ Resets' = Resets + (IF used + 1 >= RotateAfter THEN 1 ELSE 0)
  BY CountsMove, CountsFit DEF CountUse, CountUseFrom
<1>2. used' = used + 1 /\ picks' = picks
  BY DEF CountUse, CountUseFrom
<1> DEFINE earned == RotateAfter * Moves
<1>3. earned' = earned /\ earned \in Nat
  BY <1>1, RotateTimes, CountsFit
<1> HIDE DEF earned
<1>4. /\ picks <= earned + Lower(used, RotateAfter - 1) + Resets + Counts
      /\ used <= RotateAfter - 1 + Resets
  BY DEF PoolInv, earned
<1>5. picks' <= earned' + Lower(used, RotateAfter - 1)' + Resets' + Counts'
  BY <1>1, <1>2, <1>3, <1>4, CountsFit DEF Lower
<1>6. used' <= RotateAfter - 1 + Resets'
  BY <1>1, <1>2, <1>4, CountsFit
<1>7. Moves' # Cardinality(Workers)
  <2>1. Counts >= 1
    BY <1>1, CountsFit, CountsMoved
  <2> QED BY <1>1, <2>1, CountsFit
<1> QED BY <1>5, <1>6, <1>7 DEF PoolInv, earned

LEMMA ResetKeepsPool ==
  ASSUME FetchTypeOK, PoolInv, NEW w \in Workers, NEW here \in {"reset", "mark"},
         NEW there \in {"advance", "markAdvance"}, ResetUse(w, here, there)
  PROVE  PoolInv'
<1>0. used \in Nat /\ picks \in Nat /\ RotateAfter \in Nat /\ RotateAfter >= 1
  BY FetchAssumption DEF FetchTypeOK
<1>1. /\ Counts' = Counts /\ Moves' = Moves + 1
      /\ Resets' = Resets \/ Resets' = Resets - 1
  BY CountsMove, CountsFit DEF ResetUse
<1>2. used' = 0 /\ picks' = picks
  BY DEF ResetUse
<1>3. PICK earned \in Nat, low \in Nat :
        /\ earned = RotateAfter * Moves /\ RotateAfter * Moves' = earned + RotateAfter
        /\ low = Lower(used, RotateAfter - 1) /\ low <= RotateAfter - 1
  <2>1. Lower(used, RotateAfter - 1) \in 0..RotateAfter - 1
    BY <1>0 DEF Lower
  <2>2. Moves \in Nat
    BY CountsFit
  <2>3. RotateAfter * Moves \in Nat /\ RotateAfter * Moves' = RotateAfter * Moves + RotateAfter
    BY <1>1, <2>2, RotateTimes
  <2>4. /\ Lower(used, RotateAfter - 1) \in Nat
        /\ Lower(used, RotateAfter - 1) <= RotateAfter - 1
    BY <1>0, <2>1
  <2> QED BY <2>3, <2>4, Zenon
<1>4. picks <= earned + low + Resets + Counts
  BY <1>3 DEF PoolInv
<1>5. Resets' \in Nat
  BY CountsMoved
<1>6. picks' <= (earned + RotateAfter) + 0 + Resets' + Counts'
  <2>1. low <= RotateAfter - 1
    BY <1>3
  <2> QED BY <2>1, <1>0, <1>1, <1>2, <1>4, <1>5, CountsFit DEF Counts, Resets
<1>7. used' <= RotateAfter - 1 + Resets' /\ Lower(used, RotateAfter - 1)' = 0
  BY <1>0, <1>2, <1>5 DEF Lower, Resets
<1>8. picks' <= RotateAfter * Moves' + Lower(used, RotateAfter - 1)' + Resets' + Counts'
  <2>1. RotateAfter * Moves' = earned + RotateAfter
    BY <1>3
  <2> QED BY <2>1, <1>6, <1>7, Zenon
<1> QED BY <1>2, <1>7, <1>8 DEF PoolInv

LEMMA MoveKeepsPool ==
  ASSUME FetchTypeOK, PoolInv, NEW w \in Workers, NEW here \in {"advance", "markAdvance"},
         NEW there \in {"flight", "asleep"}, MoveOn(w, here, there)
  PROVE  PoolInv'
<1>0. used \in Nat /\ picks \in Nat /\ RotateAfter \in Nat /\ RotateAfter >= 1
  BY FetchAssumption DEF FetchTypeOK
<1>1. Counts' = Counts /\ Moves' = Moves - 1 /\ Resets' = Resets
  BY CountsMove, CountsFit DEF MoveOn
<1>2. used' = used /\ picks' = 0
  BY DEF MoveOn
<1> DEFINE earned == RotateAfter * Moves
<1>3. Moves' \in Nat
  BY CountsMoved
<1>4. earned' \in Nat
  BY <1>3, RotateTimes
<1> HIDE DEF earned
<1>5. picks' <= earned' + Lower(used, RotateAfter - 1)' + Resets' + Counts'
  BY <1>0, <1>1, <1>2, <1>4, CountsFit DEF Lower, Counts, Resets
<1>6. Moves' # Cardinality(Workers)
  BY <1>1, CountsFit
<1>7. used' <= RotateAfter - 1 + Resets'
  BY <1>1, <1>2 DEF PoolInv
<1> QED BY <1>5, <1>6, <1>7 DEF PoolInv, earned

LEMMA ClientsFacts ==
  ASSUME FetchTypeOK
  PROVE  /\ Clients \in Nat /\ Clients >= 1
         /\ 0 \in 0..Clients - 1 /\ current \in 0..Clients - 1
         /\ (current + 1) % Clients \in 0..Clients - 1
<1>1. Clients \in Nat /\ Clients >= 1
  BY FetchAssumption DEF FetchTypeOK, Clients, Pooled
<1>2. current \in Nat /\ current < Clients
  BY DEF FetchTypeOK
<1> HIDE DEF Clients
<1> QED BY <1>1, <1>2

Stages == {"idle", "try", "count", "reset", "advance", "flight", "body", "mark",
           "markAdvance", "asleep", "done"}

Results == Statuses \cup Errors \cup {"none"}

LEMMA FetchTypes ==
  FetchTypeOK <=> /\ refused \in BOOLEAN /\ proxies \in Pools
                  /\ current \in Nat /\ current < Clients
                  /\ used \in Nat /\ picks \in Nat
                  /\ stage \in [Workers -> Stages]
                  /\ attempt \in [Workers -> 0..MaxRetries]
                  /\ outcome \in [Workers -> Results]
                  /\ proxy \in [Workers -> 0..Clients - 1]
                  /\ buf \in [Workers -> 0..Limit]
BY DEF FetchTypeOK, Stages, Results

(* Every action moves one worker; what it may have changed keeps its type. *)
LEMMA MovedTypes ==
  ASSUME FetchTypeOK, RetryInv, NEW w \in Workers, NEW here \in Stages, NEW there \in Stages,
         At(w, here, there), UNCHANGED config,
         current' = current \/ current' = (current + 1) % Clients,
         used' \in Nat, picks' \in Nat,
         \A v \in Workers \ {w} : attempt'[v] = attempt[v],
         attempt' \in [Workers -> 0..MaxRetries],
         there = "idle" => attempt'[w] = 0,
         there \in {"mark", "markAdvance"} => attempt'[w] < MaxRetries,
         outcome' \in [Workers -> Results],
         proxy' \in [Workers -> 0..Clients - 1],
         buf' \in [Workers -> 0..Limit]
  PROVE  FetchTypeOK' /\ RetryInv'
<1>1. stage \in [Workers -> Stages] /\ stage' = [stage EXCEPT ![w] = there]
  BY FetchTypes DEF At
<1>2. RetryInv'
  BY <1>1 DEF RetryInv
<1>3. stage' \in [Workers -> Stages]
  BY <1>1
<1>4. proxies \in Pools /\ refused \in BOOLEAN /\ proxies' = proxies /\ refused' = refused
  BY DEF FetchTypeOK, config
<1>5. Clients' = Clients
  BY <1>4 DEF Clients, Pooled
<1>6. current' \in Nat /\ current' < Clients'
  BY <1>5, ClientsFacts
<1> QED BY <1>2, <1>3, <1>4, <1>5, <1>6 DEF FetchTypeOK, Stages, Results

LEMMA EndKeeps ==
  ASSUME FetchInv, NEW w \in Workers, NEW here \in {"try", "flight", "body"},
         NEW result \in Results, EndAttempt(w, here, result)
  PROVE  FetchInv'
<1> DEFINE there == IF RetriesLeft(w) /\ Retryable(result) THEN "mark" ELSE "done"
<1>1. At(w, here, there) /\ UNCHANGED <<config, poolVars, attempt>>
  BY DEF EndAttempt
<1>2. /\ outcome' = [outcome EXCEPT ![w] = result]
      /\ buf' = [buf EXCEPT ![w] = 0] /\ proxy' = [proxy EXCEPT ![w] = 0]
  BY DEF EndAttempt
<1>3. there \in {"mark", "done"} /\ (there = "mark" => attempt[w] < MaxRetries)
  BY DEF RetriesLeft
<1> HIDE DEF there
<1>4. FetchTypeOK' /\ RetryInv'
  <2>1. /\ outcome' \in [Workers -> Results] /\ buf' \in [Workers -> 0..Limit]
        /\ proxy' \in [Workers -> 0..Clients - 1]
    BY <1>2, FetchTypes, ClientsFacts, FetchAssumption DEF FetchInv
  <2>2. /\ current' = current /\ used' \in Nat /\ picks' \in Nat /\ attempt' = attempt
        /\ attempt \in [Workers -> 0..MaxRetries] /\ UNCHANGED config
    BY <1>1, FetchTypes DEF FetchInv, poolVars
  <2>3. here \in Stages /\ there \in Stages /\ there # "idle" /\ there # "markAdvance"
    BY <1>3 DEF Stages
  <2> QED BY <1>1, <1>3, <2>1, <2>2, <2>3, MovedTypes DEF FetchInv
<1>5. PoolInv'
  BY <1>1, <1>3, OutsideKeepsPool DEF FetchInv, Outside
<1> QED BY <1>4, <1>5 DEF FetchInv

(* Steps that move one worker outside the pool and keep its locals.        *)
LEMMA PlainKeeps ==
  ASSUME FetchInv, NEW w \in Workers, NEW here \in Outside, NEW there \in Outside \ {"idle", "mark"},
         At(w, here, there), UNCHANGED <<config, poolVars, attempt, proxy>>,
         outcome' \in [Workers -> Results], buf' \in [Workers -> 0..Limit]
  PROVE  FetchInv'
<1>1. FetchTypeOK' /\ RetryInv'
  <2>1. /\ current' = current /\ used' \in Nat /\ picks' \in Nat /\ attempt' = attempt
        /\ attempt \in [Workers -> 0..MaxRetries] /\ UNCHANGED config
        /\ proxy' \in [Workers -> 0..Clients - 1]
    BY FetchTypes DEF FetchInv, poolVars
  <2>2. /\ here \in Stages /\ there \in Stages
        /\ there # "idle" /\ there \notin {"mark", "markAdvance"}
    BY DEF Stages, Outside
  <2> QED BY <2>1, <2>2, MovedTypes DEF FetchInv
<1>2. PoolInv'
  BY OutsideKeepsPool DEF FetchInv
<1> QED BY <1>1, <1>2 DEF FetchInv

LEMMA SelectKeeps ==
  ASSUME FetchInv, NEW w \in Workers, Select(w)
  PROVE  FetchInv'
<1> USE DEF FetchInv
<1>1. CASE SelectSingle(w)
  <2>1. /\ outcome' \in [Workers -> Results] /\ buf' \in [Workers -> 0..Limit]
    BY <1>1, FetchTypes DEF SelectSingle
  <2> QED BY <1>1, <2>1, PlainKeeps DEF SelectSingle, Outside
<1>2. CASE LoadIndex(w)
  <2>1. /\ At(w, "try", "count") /\ UNCHANGED config /\ UNCHANGED <<current, used>>
        /\ picks' = picks + 1 /\ proxy' = [proxy EXCEPT ![w] = current]
        /\ UNCHANGED <<attempt, outcome, buf>>
    BY <1>2 DEF LoadIndex
  <2>2. /\ used' \in Nat /\ picks' \in Nat /\ attempt' \in [Workers -> 0..MaxRetries]
        /\ outcome' \in [Workers -> Results] /\ buf' \in [Workers -> 0..Limit]
        /\ proxy' \in [Workers -> 0..Clients - 1]
    BY <2>1, FetchTypes, ClientsFacts
  <2>3. FetchTypeOK' /\ RetryInv'
    BY <2>1, <2>2, MovedTypes DEF Stages
  <2> QED BY <1>2, <2>3, PickKeepsPool
<1>3. CASE CountUse(w)
  <2>1. PICK there \in {"reset", "flight"} :
          /\ At(w, "count", there) /\ used' = used + 1
          /\ UNCHANGED <<config, current, picks, attempt, outcome, proxy, buf>>
    BY <1>3 DEF CountUse, CountUseFrom
  <2>2. /\ used' \in Nat /\ picks' \in Nat /\ attempt' \in [Workers -> 0..MaxRetries]
        /\ outcome' \in [Workers -> Results] /\ buf' \in [Workers -> 0..Limit]
        /\ proxy' \in [Workers -> 0..Clients - 1]
    BY <2>1, FetchTypes
  <2>3. FetchTypeOK' /\ RetryInv'
    BY <2>1, <2>2, MovedTypes DEF Stages
  <2> QED BY <1>3, <2>3, CountKeepsPool
<1>4. CASE /\ ResetUse(w, "reset", "advance")
           /\ UNCHANGED <<config, attempt, outcome, proxy, buf>>
  <2>2. /\ At(w, "reset", "advance") /\ UNCHANGED config /\ current' = current
        /\ used' \in Nat /\ picks' \in Nat /\ attempt' \in [Workers -> 0..MaxRetries]
        /\ outcome' \in [Workers -> Results] /\ buf' \in [Workers -> 0..Limit]
        /\ proxy' \in [Workers -> 0..Clients - 1] /\ attempt' = attempt
    BY <1>4, FetchTypes DEF ResetUse
  <2>3. FetchTypeOK' /\ RetryInv'
    BY <2>2, MovedTypes DEF Stages
  <2> QED BY <1>4, <2>3, ResetKeepsPool
<1>5. CASE /\ MoveOn(w, "advance", "flight")
           /\ UNCHANGED <<config, attempt, outcome, proxy, buf>>
  <2>2. /\ At(w, "advance", "flight") /\ UNCHANGED config
        /\ current' = (current + 1) % Clients
        /\ used' \in Nat /\ picks' \in Nat /\ attempt' \in [Workers -> 0..MaxRetries]
        /\ outcome' \in [Workers -> Results] /\ buf' \in [Workers -> 0..Limit]
        /\ proxy' \in [Workers -> 0..Clients - 1] /\ attempt' = attempt
    BY <1>5, FetchTypes DEF MoveOn
  <2>3. FetchTypeOK' /\ RetryInv'
    BY <2>2, MovedTypes DEF Stages
  <2> QED BY <1>5, <2>3, MoveKeepsPool
<1> QED BY <1>1, <1>2, <1>3, <1>4, <1>5 DEF Select

LEMMA MarkKeeps ==
  ASSUME FetchInv, NEW w \in Workers, MarkFailure(w)
  PROVE  FetchInv'
<1> USE DEF FetchInv
<1>0. UNCHANGED <<config, outcome, proxy, buf>>
  BY DEF MarkFailure, MarkFailureWith
<1>1. /\ outcome' \in [Workers -> Results] /\ buf' \in [Workers -> 0..Limit]
      /\ proxy' \in [Workers -> 0..Clients - 1]
  BY <1>0, FetchTypes
<1>2. ASSUME stage[w] \in {"mark", "markAdvance"}, Attempted(w, attempt[w] + 1)
      PROVE  /\ attempt' \in [Workers -> 0..MaxRetries]
             /\ \A v \in Workers \ {w} : attempt'[v] = attempt[v]
  <2>1. attempt \in [Workers -> 0..MaxRetries] /\ attempt[w] < MaxRetries
    BY <1>2, FetchTypes DEF RetryInv
  <2>2. attempt[w] + 1 \in 0..MaxRetries
    BY <2>1, FetchAssumption
  <2> QED BY <1>2, <2>1, <2>2 DEF Attempted
<1>3. CASE ResetUse(w, "mark", "markAdvance") /\ UNCHANGED attempt
  <2>1. /\ At(w, "mark", "markAdvance") /\ current' = current
        /\ used' \in Nat /\ picks' \in Nat
        /\ attempt' \in [Workers -> 0..MaxRetries]
    BY <1>3, FetchTypes DEF ResetUse
  <2>2. attempt'[w] < MaxRetries
    BY <1>3, <2>1 DEF RetryInv, At
  <2>3. FetchTypeOK' /\ RetryInv'
    BY <1>0, <1>1, <1>3, <2>1, <2>2, MovedTypes DEF Stages
  <2> QED BY <1>3, <2>3, ResetKeepsPool
<1>4. CASE MoveOn(w, "markAdvance", "asleep") /\ Attempted(w, attempt[w] + 1)
  <2>1. /\ At(w, "markAdvance", "asleep") /\ current' = (current + 1) % Clients
        /\ used' \in Nat /\ picks' \in Nat
    BY <1>4, FetchTypes DEF MoveOn
  <2>2. FetchTypeOK' /\ RetryInv'
    BY <1>0, <1>1, <1>2, <1>4, <2>1, MovedTypes DEF Stages, At
  <2> QED BY <1>4, <2>2, MoveKeepsPool
<1>5. CASE At(w, "mark", "asleep") /\ Attempted(w, attempt[w] + 1) /\ UNCHANGED poolVars
  <2>1. current' = current /\ used' \in Nat /\ picks' \in Nat
    BY <1>5, FetchTypes DEF poolVars
  <2>2. FetchTypeOK' /\ RetryInv'
    BY <1>0, <1>1, <1>2, <1>5, <2>1, MovedTypes DEF Stages, At
  <2> QED BY <1>5, <2>2, OutsideKeepsPool DEF Outside
<1> QED BY <1>3, <1>4, <1>5 DEF MarkFailure, MarkFailureWith

LEMMA AnswerKeeps ==
  ASSUME FetchInv, NEW w \in Workers, Answer(w)
  PROVE  FetchInv'
<1> USE DEF FetchInv
<1>1. CASE Fail(w)
  BY <1>1, EndKeeps DEF Fail, Results, Errors
<1>2. CASE DeclaredTooLarge(w)
  BY <1>2, EndKeeps DEF DeclaredTooLarge, Results, Errors
<1>3. CASE Head(w)
  <2>1. PICK status \in Statuses :
          /\ At(w, "flight", "body") /\ outcome' = [outcome EXCEPT ![w] = status]
          /\ UNCHANGED <<config, poolVars, attempt, proxy, buf>>
    BY <1>3 DEF Head
  <2>2. /\ outcome' \in [Workers -> Results] /\ buf' \in [Workers -> 0..Limit]
    BY <2>1, FetchTypes DEF Results
  <2> QED BY <2>1, <2>2, PlainKeeps DEF Outside
<1>4. CASE ReadChunk(w)
  <2>1. PICK n \in 1..Limit + 1 :
          \/ /\ buf[w] + n > Limit
             /\ EndAttempt(w, "body", "too large")
          \/ /\ buf[w] + n <= Limit
             /\ At(w, "body", "body")
             /\ buf' = [buf EXCEPT ![w] = @ + n]
             /\ UNCHANGED <<config, poolVars, attempt, outcome, proxy>>
    BY <1>4 DEF ReadChunk
  <2>2. CASE EndAttempt(w, "body", "too large")
    BY <2>2, EndKeeps DEF Results, Errors
  <2>3. CASE /\ buf[w] + n <= Limit
             /\ At(w, "body", "body")
             /\ buf' = [buf EXCEPT ![w] = @ + n]
             /\ UNCHANGED <<config, poolVars, attempt, outcome, proxy>>
    <3>1. /\ outcome \in [Workers -> Results] /\ buf \in [Workers -> 0..Limit]
      BY FetchTypes
    <3>2. buf[w] + n \in 0..Limit
      BY <2>3, <3>1, FetchAssumption
    <3>3. outcome' \in [Workers -> Results] /\ buf' \in [Workers -> 0..Limit]
      BY <2>3, <3>1, <3>2
    <3> QED BY <2>3, <3>3, PlainKeeps DEF Outside
  <2> QED BY <2>1, <2>2, <2>3
<1>5. CASE EndBody(w)
  <2>1. outcome[w] \in Results
    BY FetchTypes
  <2> QED BY <1>5, <2>1, EndKeeps DEF EndBody
<1> QED BY <1>1, <1>2, <1>3, <1>4, <1>5 DEF Answer

LEMMA FetchInitInv == FetchInit => FetchInv
<1> SUFFICES ASSUME FetchInit PROVE FetchInv
  OBVIOUS
<1>1. Clients \in Nat /\ Clients >= 1
  BY FetchAssumption DEF FetchInit, Clients, Pooled
<1>2. 0 \in 0..Clients - 1 /\ 0 < Clients /\ 0 \in 0..Limit /\ 0 \in 0..MaxRetries
  BY <1>1, FetchAssumption
<1>3. FetchTypeOK
  BY <1>2 DEF FetchInit, FetchTypeOK
<1>4. RetryInv
  BY DEF FetchInit, RetryInv
<1>5. PoolInv
  <2>1. used = 0 /\ picks = 0
    BY DEF FetchInit
  <2>2. RotateAfter * Moves \in Nat /\ Lower(used, RotateAfter - 1) \in Nat
    BY <2>1, RotateTimes, CountsFit, FetchAssumption DEF Lower
  <2>3. picks <= RotateAfter * Moves + Lower(used, RotateAfter - 1) + Resets + Counts
    BY <2>1, <2>2, CountsFit DEF Resets, Counts
  <2> QED BY <2>1, <2>3, CountsFit, FetchAssumption DEF PoolInv, Resets
<1> QED BY <1>3, <1>4, <1>5 DEF FetchInv

LEMMA FetchStepInv == FetchInv /\ [FetchNext]_fetchVars => FetchInv'
<1> SUFFICES ASSUME FetchInv, [FetchNext]_fetchVars PROVE FetchInv'
  OBVIOUS
<1>1. CASE UNCHANGED fetchVars
  BY <1>1 DEF fetchVars, config, poolVars, callVars, FetchInv, FetchTypeOK, Clients, Pooled,
              RetryInv, PoolInv, Counts, Resets, Moves, Counting, Resetting, Moving, Lower
<1>2. ASSUME NEW w \in Workers, Begin(w) PROVE FetchInv'
  <2>1. /\ outcome' \in [Workers -> Results] /\ buf' \in [Workers -> 0..Limit]
    BY <1>2, FetchTypes DEF Begin, FetchInv
  <2> QED BY <1>2, <2>1, PlainKeeps DEF Begin, Outside
<1>3. ASSUME NEW w \in Workers, Refuse(w) PROVE FetchInv'
  BY <1>3, EndKeeps DEF Refuse, Results, Errors
<1>4. ASSUME NEW w \in Workers, Wake(w) PROVE FetchInv'
  <2>1. /\ outcome' \in [Workers -> Results] /\ buf' \in [Workers -> 0..Limit]
    BY <1>4, FetchTypes DEF Wake, FetchInv
  <2> QED BY <1>4, <2>1, PlainKeeps DEF Wake, Outside
<1>5. ASSUME NEW w \in Workers, Return(w) PROVE FetchInv'
  <2>1. /\ At(w, "done", "idle") /\ UNCHANGED <<config, poolVars, proxy, buf>>
        /\ attempt' = [attempt EXCEPT ![w] = 0] /\ outcome' = [outcome EXCEPT ![w] = "none"]
    BY <1>5 DEF Return
  <2>2. /\ used' \in Nat /\ picks' \in Nat /\ current' = current
        /\ attempt' \in [Workers -> 0..MaxRetries] /\ attempt'[w] = 0
        /\ \A v \in Workers \ {w} : attempt'[v] = attempt[v]
        /\ outcome' \in [Workers -> Results] /\ buf' \in [Workers -> 0..Limit]
        /\ proxy' \in [Workers -> 0..Clients - 1]
    BY <2>1, FetchTypes, FetchAssumption DEF FetchInv, poolVars, Results
  <2>3. FetchTypeOK' /\ RetryInv'
    BY <2>1, <2>2, MovedTypes DEF FetchInv, Stages
  <2> QED BY <2>1, <2>3, OutsideKeepsPool DEF FetchInv, Outside
<1> QED BY <1>1, <1>2, <1>3, <1>4, <1>5, SelectKeeps, AnswerKeeps, MarkKeeps
        DEF FetchNext, FetchStep

LEMMA FetchAlways == FetchInit /\ [][FetchNext]_fetchVars => []FetchInv
BY FetchInitInv, FetchStepInv, PTL

(* At most RotateAfter picks of one proxy for each worker: a worker whose  *)
(* move is still to come stands for RotateAfter of them, every other for   *)
(* one at most, and the uses still counted are fewer than RotateAfter.     *)
LEMMA PicksFit == FetchInv => PoolMovesOn
<1> SUFFICES ASSUME FetchInv PROVE PoolMovesOn
  OBVIOUS
<1>1. /\ used \in Nat /\ picks \in Nat /\ RotateAfter \in Nat /\ RotateAfter >= 1
  BY FetchTypes, FetchAssumption DEF FetchInv
<1>2. PICK n \in Nat, c \in Nat, r \in Nat, m \in Nat :
        /\ n = Cardinality(Workers) /\ c = Counts /\ r = Resets /\ m = Moves
        /\ c + r + m <= n
  BY CountsFit
<1>3. used < RotateAfter + Cardinality(Workers)
  BY <1>1, <1>2 DEF FetchInv, PoolInv
<1>4. PICK low \in Nat, earned \in Nat :
        /\ low = Lower(used, RotateAfter - 1) /\ low <= RotateAfter - 1 /\ low <= used
        /\ earned = RotateAfter * m /\ picks <= earned + low + r + c
  <2>1. Lower(used, RotateAfter - 1) \in 0..RotateAfter - 1 /\ Lower(used, RotateAfter - 1) <= used
    BY <1>1 DEF Lower
  <2> QED BY <1>2, <2>1, RotateTimes DEF FetchInv, PoolInv
<1>5. CASE m = n
  <2>1. low = 0 /\ r = 0 /\ c = 0
    <3>1. used = 0
      BY <1>2, <1>5 DEF FetchInv, PoolInv
    <3> QED BY <3>1, <1>1, <1>2, <1>4, <1>5
  <2> QED BY <1>1, <1>2, <1>3, <1>4, <1>5, <2>1 DEF PoolMovesOn
<1>6. CASE m < n
  <2>1. RotateAfter * n >= earned + RotateAfter + (n - m - 1)
    <3>1. PICK d \in Nat : n = m + 1 + d
      <4>1. n - m - 1 \in Nat /\ n = m + 1 + (n - m - 1)
        BY <1>2, <1>6
      <4> QED BY <4>1
    <3>2. RotateAfter * n = RotateAfter * m + RotateAfter + RotateAfter * d
      BY <1>1, <1>2, <3>1
    <3>3. RotateAfter * d >= d
      BY <1>1, <3>1
    <3> QED BY <1>1, <1>2, <1>4, <3>1, <3>2, <3>3
  <2>2. picks <= RotateAfter * n
    <3> DEFINE all == RotateAfter * n
    <3>1. all \in Nat /\ all >= earned + RotateAfter + (n - m - 1)
      BY <1>1, <1>2, <2>1
    <3> HIDE DEF all
    <3>2. picks <= earned + low + r + c /\ low <= RotateAfter - 1
      BY <1>4
    <3>3. picks <= all
      BY <1>1, <1>2, <3>1, <3>2
    <3> QED BY <3>3 DEF all
  <2>3. Cardinality(Workers) * RotateAfter = RotateAfter * n
    BY <1>1, <1>2
  <2> QED BY <1>3, <2>2, <2>3 DEF PoolMovesOn
<1> QED BY <1>2, <1>5, <1>6

(* The pool moves on, however many workers use it, and however calls end.  *)
THEOREM PoolAlwaysMovesOn == FetchSpec => []PoolMovesOn
BY FetchAlways, PicksFit, PTL DEF FetchSpec

-----------------------------------------------------------------------------
(* The requests of one host.                                               *)

Places == {"idle", "robots", "rules", "permit", "page", "finish"}

WorkerTypeOK == /\ respect \in BOOLEAN
                /\ pc \in [Workers -> Places]
                /\ late \in [Workers -> Nat]
                /\ Cardinality(Holders) <= PerHost

(* A fetch is in progress exactly while its caller waits for it.           *)
CallInv == \A w \in Workers : stage[w] # "idle" <=> pc[w] \in {"rules", "page"}

(* Requests of the fetch in progress, counting the one about to be decided;*)
(* and those the worker may have made for its URL before that fetch.       *)
Tried == {"flight", "body", "mark", "markAdvance", "done"}

Attempts(w) == IF stage[w] \in Tried THEN attempt[w] + 1 ELSE attempt[w]

Earlier(w) == CASE pc[w] \in {"robots", "rules"} -> 0
                [] pc[w] \in {"permit", "page"}  -> MaxRetries + 1
                [] OTHER                         -> 2 * (MaxRetries + 1)

(* Once the circuit is open each worker has sent what it began before, and *)
(* the one whose report opened it nothing: it cannot begin again.          *)
LateInv ==
  /\ circuit # "Open" => late = NoneLate
  /\ \A w \in Workers : late[w] <= Earlier(w) + Attempts(w)
  /\ circuit = "Open" => \E w \in Workers : late[w] = 0 /\ pc[w] \in {"idle", "finish"}

(* An entry is in force only where robots.txt is respected.  While it      *)
(* forbids nobody is let through: whoever waits for a permit has it from   *)
(* before and has begun no page since, and once begun it is at its last.   *)
StrayInv ==
  /\ strays \in [Workers -> Nat]
  /\ fresh => respect
  /\ cache.answer \in {"deny", "failed"} => ~Allows(cache.robot)
  /\ ~Forbidding => strays = NoStrays
  /\ \A w \in Workers : /\ pc[w] \in {"robots", "rules"} => respect
                        /\ strays[w] <= 1
                        /\ pc[w] = "permit" => strays[w] = 0
  /\ Forbidding => \E w \in Workers : strays[w] = 0 /\ pc[w] # "permit"

(* A worker that missed the entry does not ask again before it is fresh.   *)
MissInv == \A w \in Workers :
  misses[w] <= 1 /\ (misses[w] = 1 /\ ~fresh => pc[w] = "rules")

HostInv == /\ FetchInv /\ RobotsTypeOK /\ WorkerTypeOK
           /\ CallInv /\ LateInv /\ StrayInv /\ MissInv

(* What a step of a fetch does to its worker: it stays in the fetch, and a *)
(* request is sent by the step that counts it.                             *)
LEMMA FetchStepMoves ==
  ASSUME FetchInv, NEW w \in Workers, FetchStep(w)
  PROVE  /\ stage[w] # "idle" /\ stage'[w] # "idle"
         /\ \A v \in Workers \ {w} : stage'[v] = stage[v] /\ attempt'[v] = attempt[v]
         /\ Attempts(w) <= Attempts(w)'
         /\ stage[w] # "flight" /\ stage'[w] = "flight" => Attempts(w) + 1 <= Attempts(w)'
<1>0. /\ stage \in [Workers -> Stages] /\ attempt \in [Workers -> Nat]
  BY FetchTypes, FetchAssumption DEF FetchInv
<1> DEFINE Moved(here, there) ==
             /\ At(w, here, there)
             /\ here # "idle" /\ there # "idle"
             /\ attempt' = attempt
             /\ here \in Tried => there \in Tried
             /\ there = "flight" => here \notin Tried
<1>1. ASSUME NEW here, NEW there, Moved(here, there)
      PROVE  /\ stage[w] # "idle" /\ stage'[w] # "idle"
             /\ \A v \in Workers \ {w} : stage'[v] = stage[v] /\ attempt'[v] = attempt[v]
             /\ Attempts(w) <= Attempts(w)'
             /\ stage[w] # "flight" /\ stage'[w] = "flight" => Attempts(w) + 1 <= Attempts(w)'
  BY <1>0, <1>1 DEF At, Attempts, Tried
<1>2. CASE \E here, there : Moved(here, there)
  BY <1>1, <1>2
<1>3. ASSUME NEW here, NEW there, At(w, here, there), here \in {"mark", "markAdvance"},
             there = "asleep", Attempted(w, attempt[w] + 1)
      PROVE  /\ stage[w] # "idle" /\ stage'[w] # "idle"
             /\ \A v \in Workers \ {w} : stage'[v] = stage[v] /\ attempt'[v] = attempt[v]
             /\ Attempts(w) <= Attempts(w)'
             /\ stage[w] # "flight" /\ stage'[w] = "flight" => Attempts(w) + 1 <= Attempts(w)'
  BY <1>0, <1>3 DEF At, Attempted, Attempts, Tried
<1>4. ASSUME NEW here \in {"try", "flight", "body"}, NEW result, EndAttempt(w, here, result)
      PROVE  \E there : Moved(here, there)
  <2>1. PICK there \in {"mark", "done"} : At(w, here, there) /\ attempt' = attempt
    BY <1>4 DEF EndAttempt
  <2> QED BY <2>1 DEF Tried
<1>5. CASE Refuse(w)
  BY <1>2, <1>4, <1>5 DEF Refuse
<1>6. CASE Select(w)
  <2>1. CASE SelectSingle(w)
    <3>1. Moved("try", "flight")
      BY <2>1 DEF SelectSingle, Tried
    <3> QED BY <1>1, <3>1
  <2>2. CASE LoadIndex(w)
    <3>1. Moved("try", "count")
      BY <2>2 DEF LoadIndex, Tried
    <3> QED BY <1>1, <3>1
  <2>3. CASE CountUse(w)
    <3>1. Moved("count", "reset") \/ Moved("count", "flight")
      BY <2>3 DEF CountUse, CountUseFrom, Tried
    <3> QED BY <1>1, <3>1
  <2>4. CASE ResetUse(w, "reset", "advance") /\ UNCHANGED attempt
    <3>1. Moved("reset", "advance")
      BY <2>4 DEF ResetUse, Tried
    <3> QED BY <1>1, <3>1
  <2>5. CASE MoveOn(w, "advance", "flight") /\ UNCHANGED attempt
    <3>1. Moved("advance", "flight")
      BY <2>5 DEF MoveOn, Tried
    <3> QED BY <1>1, <3>1
  <2> QED BY <1>6, <2>1, <2>2, <2>3, <2>4, <2>5 DEF Select
<1>7. CASE Answer(w)
  <2>1. CASE Fail(w)
    BY <1>2, <1>4, <2>1 DEF Fail
  <2>2. CASE DeclaredTooLarge(w)
    BY <1>2, <1>4, <2>2 DEF DeclaredTooLarge
  <2>3. CASE Head(w)
    <3>1. Moved("flight", "body")
      BY <2>3 DEF Head, Tried
    <3> QED BY <1>1, <3>1
  <2>4. CASE ReadChunk(w)
    <3>1. CASE EndAttempt(w, "body", "too large")
      BY <1>2, <1>4, <3>1
    <3>2. CASE At(w, "body", "body") /\ UNCHANGED attempt
      <4>1. Moved("body", "body")
        BY <3>2 DEF Tried
      <4> QED BY <1>1, <4>1
    <3> QED BY <2>4, <3>1, <3>2 DEF ReadChunk
  <2>5. CASE EndBody(w)
    BY <1>2, <1>4, <2>5 DEF EndBody
  <2> QED BY <1>7, <2>1, <2>2, <2>3, <2>4, <2>5 DEF Answer
<1>8. CASE MarkFailure(w)
  <2>1. CASE ResetUse(w, "mark", "markAdvance") /\ UNCHANGED attempt
    <3>1. Moved("mark", "markAdvance")
      BY <2>1 DEF ResetUse, Tried
    <3> QED BY <1>1, <3>1
  <2>2. CASE MoveOn(w, "markAdvance", "asleep") /\ Attempted(w, attempt[w] + 1)
    BY <1>3, <2>2 DEF MoveOn
  <2>3. CASE At(w, "mark", "asleep") /\ Attempted(w, attempt[w] + 1)
    BY <1>3, <2>3
  <2> QED BY <1>8, <2>1, <2>2, <2>3 DEF MarkFailure, MarkFailureWith
<1>9. CASE Wake(w)
  <2>1. Moved("asleep", "try")
    BY <1>9 DEF Wake, Tried
  <2> QED BY <1>1, <2>1
<1> QED BY <1>5, <1>6, <1>7, <1>8, <1>9 DEF FetchStep

(* Every step of the host is a step of the breaker and of the fetcher, or  *)
(* leaves it alone.                                                        *)
LEMMA BreakerStep == HostNext => [HP!HealthNext]_(HP!healthVars)
<1> SUFFICES ASSUME HostNext PROVE HP!HealthNext \/ UNCHANGED HP!healthVars
  OBVIOUS
<1> USE DEF healthVars, HP!healthVars, HP!breakerVars, B!healthVars, B!breakerVars
<1>1. CASE Cooldown
  BY <1>1 DEF Cooldown, B!Tick, HP!HealthNext, HP!Tick
<1>2. CASE RobotsExpire
  BY <1>2 DEF RobotsExpire, KeepHealth
<1>3. ASSUME NEW w \in Workers, AskBreaker(w) PROVE HP!HealthNext
  BY <1>3 DEF AskBreaker, HP!HealthNext, HP!Ask, B!AskClosedOrHalfOpen, HP!AskClosedOrHalfOpen,
              B!AskAfterCooldown, HP!AskAfterCooldown, B!HalfOpenWith, HP!HalfOpenWith,
              B!AskOpen, HP!AskOpen
<1>4. ASSUME NEW w \in Workers, NEW from, NEW allowed, Judged(w, from, allowed)
      PROVE  HP!HealthNext \/ UNCHANGED HP!healthVars
  BY <1>4 DEF Judged, KeepHealth, B!RecordNoise, HP!RecordNoise, B!Answered, HP!Answered,
              HP!HealthNext, HP!Record
<1>5. ASSUME NEW w \in Workers, Report(w) PROVE HP!HealthNext
  <2>1. B!RecordSuccess(w) \/ B!RecordBlocked(w) \/ B!RecordNoise(w)
    BY <1>5 DEF Report
  <2>2. B!RecordSuccess(w) => HP!RecordSuccess(w)
    BY DEF B!RecordSuccess, HP!RecordSuccess, B!Answered, HP!Answered
  <2>3. B!RecordNoise(w) => HP!RecordNoise(w)
    BY DEF B!RecordNoise, HP!RecordNoise, B!Answered, HP!Answered
  <2>4. B!RecordBlocked(w) => HP!RecordBlocked(w)
    BY DEF B!RecordBlocked, HP!RecordBlocked, B!BlockedWith, HP!BlockedWith, B!Opens, HP!Opens,
           B!AtMost, HP!AtMost, B!Answered, HP!Answered
  <2> QED BY <2>1, <2>2, <2>3, <2>4 DEF HP!HealthNext, HP!Record
<1>6. ASSUME NEW w \in Workers, RobotsMiss(w) \/ AcquireHost(w) \/ Fetching(w) \/ Finish(w)
      PROVE  UNCHANGED HP!healthVars
  BY <1>6 DEF RobotsMiss, AcquireHost, Fetching, Finish, KeepHealth
<1> QED BY <1>1, <1>2, <1>3, <1>4, <1>5, <1>6
        DEF HostNext, Step, RobotsHit, RobotsInsert

LEMMA FetcherStep == HostNext => [FetchNext]_fetchVars
<1> SUFFICES ASSUME HostNext PROVE FetchNext \/ UNCHANGED fetchVars
  OBVIOUS
<1>1. CASE Cooldown \/ RobotsExpire
  BY <1>1 DEF Cooldown, RobotsExpire, KeepFetch
<1>2. ASSUME NEW w \in Workers, AskBreaker(w) \/ RobotsHit(w) \/ Finish(w)
      PROVE  UNCHANGED fetchVars
  BY <1>2 DEF AskBreaker, RobotsHit, Finish, KeepFetch
<1>3. ASSUME NEW w \in Workers, AcquireHost(w) \/ RobotsMiss(w) PROVE FetchNext
  BY <1>3 DEF AcquireHost, RobotsMiss, FetchNext
<1>4. ASSUME NEW w \in Workers, RobotsInsert(w) \/ Report(w) PROVE FetchNext
  BY <1>4 DEF RobotsInsert, Report, FetchNext
<1>5. ASSUME NEW w \in Workers, Fetching(w) PROVE FetchNext
  BY <1>5 DEF Fetching, FetchNext
<1> QED BY <1>1, <1>2, <1>3, <1>4, <1>5 DEF HostNext, Step

LEMMA WorkersFinite == HP!HealthConstants
<1>1. IsFiniteSet(Workers) => HP!IsFiniteSet(Workers)
  BY DEF IsFiniteSet, HP!IsFiniteSet
<1> QED BY <1>1, HostAssumption, FetchAssumption DEF HP!HealthConstants, B!HealthConstants

LEMMA BreakerStutters == UNCHANGED hostVars => UNCHANGED HP!healthVars /\ UNCHANGED fetchVars
BY DEF hostVars, healthVars, HP!healthVars, HP!breakerVars

(* The crawl loop uses the breaker of a host as its module describes it,   *)
(* so every theorem about the breaker holds of the requests to a host.     *)
THEOREM HostImplementsBreaker == HostSpec => HP!HealthSpec
<1>1. HostInit => HP!HealthInit
  BY DEF HostInit, B!HealthInit, HP!HealthInit
<1>2. [HostNext]_hostVars => [HP!HealthNext]_(HP!healthVars)
  BY BreakerStep, BreakerStutters
<1> QED BY <1>1, <1>2, PTL DEF HostSpec, HP!HealthSpec

(* Among them: the state of the circuit and the failure counter agree, and *)
(* the circuit is open exactly when the host has blocked often enough.     *)
THEOREM HostBreakerConsistent ==
  HostSpec => []((B!HealthTypeOK /\ B!BreakerConsistent) /\ B!OpenMeansBlocked)
<1>1. HP!HealthSpec => [](HP!HealthTypeOK /\ HP!BreakerConsistent)
  BY WorkersFinite, HP!BreakerIsConsistent
<1>2. HP!HealthSpec => []HP!OpenMeansBlocked
  BY WorkersFinite, HP!OpensExactlyWhenBlocked
<1>3. /\ HP!HealthTypeOK => B!HealthTypeOK
      /\ HP!BreakerConsistent => B!BreakerConsistent
      /\ HP!OpenMeansBlocked => B!OpenMeansBlocked
  BY DEF HP!HealthTypeOK, B!HealthTypeOK, HP!BreakerConsistent, B!BreakerConsistent,
         HP!OpenMeansBlocked, B!OpenMeansBlocked
<1> QED BY <1>1, <1>2, <1>3, HostImplementsBreaker, PTL

(* And it uses the fetcher as its module does.                             *)
LEMMA HostFetches == HostSpec => []FetchInv
<1>1. [HostNext]_hostVars => [FetchNext]_fetchVars
  BY FetcherStep, BreakerStutters
<1>2. HostInit => FetchInit
  BY DEF HostInit
<1> QED BY <1>1, <1>2, FetchAlways, PTL DEF HostSpec

-----------------------------------------------------------------------------
(* What each action does to the loop, the fetch and the robots cache.      *)

(* A worker moves from one place to another while its fetch stands still.  *)
Walk(w, from, to) == /\ Go(w, from, to)
                     /\ UNCHANGED <<stage, attempt, respect>>

LEMMA AskEffect ==
  ASSUME NEW w \in Workers, AskBreaker(w)
  PROVE  /\ KeepRobots /\ strays' = strays
         /\ \/ /\ (Walk(w, "idle", "robots") /\ respect) \/ (Walk(w, "idle", "permit") /\ ~respect)
               /\ circuit' # "Open" /\ late' = NoneLate
            \/ /\ UNCHANGED <<circuit, pc, late, stage, attempt, respect>>
<1>0. UNCHANGED <<stage, attempt, respect, strays>> /\ KeepRobots
  BY DEF AskBreaker, KeepFetch, fetchVars, callVars
<1>1. CASE /\ B!AskClosedOrHalfOpen(w) \/ B!AskAfterCooldown(w)
           /\ Go(w, "idle", IF respect THEN "robots" ELSE "permit")
  <2>1. circuit' # "Open"
    BY <1>1 DEF B!AskClosedOrHalfOpen, B!breakerVars, B!AskAfterCooldown, B!HalfOpenWith
  <2>2. late' = NoneLate
    BY <2>1 DEF AskBreaker
  <2> QED BY <1>0, <1>1, <2>1, <2>2 DEF Walk
<1>2. CASE B!AskOpen(w) /\ pc[w] = "idle" /\ UNCHANGED pc
  <2>1. circuit = "Open" /\ circuit' = circuit
    BY <1>2 DEF B!AskOpen, B!healthVars, B!breakerVars
  <2>2. late' = late
    BY <2>1 DEF AskBreaker
  <2> QED BY <1>0, <1>2, <2>1, <2>2
<1> QED BY <1>1, <1>2 DEF AskBreaker

LEMMA JudgedEffect ==
  ASSUME NEW w \in Workers, NEW from, NEW allowed \in BOOLEAN, Judged(w, from, allowed)
  PROVE  /\ allowed => Go(w, from, "permit")
         /\ ~allowed => Go(w, from, "idle")
         /\ circuit' = circuit
BY DEF Judged, KeepHealth, healthVars, B!RecordNoise, B!breakerVars

LEMMA HitEffect ==
  ASSUME NEW w \in Workers, RobotsHit(w)
  PROVE  /\ \/ Walk(w, "robots", "permit") /\ Allows(cache.robot)
            \/ Walk(w, "robots", "idle")
         /\ fresh /\ UNCHANGED <<circuit, late, strays, cache, fresh, misses>>
<1>1. PICK allowed \in BOOLEAN : Hit(allowed) /\ Judged(w, "robots", allowed)
  BY DEF RobotsHit
<1>2. UNCHANGED <<stage, attempt, respect, late, strays>>
  BY DEF RobotsHit, KeepFetch, fetchVars, callVars
<1> QED BY <1>1, <1>2, JudgedEffect DEF Hit, robotsVars, Walk

LEMMA MissEffect ==
  ASSUME NEW w \in Workers, RobotsMiss(w)
  PROVE  /\ Go(w, "robots", "rules") /\ At(w, "idle", "try")
         /\ ~fresh /\ misses' = [misses EXCEPT ![w] = @ + 1]
         /\ UNCHANGED <<attempt, respect, circuit, late, strays, cache, fresh>>
BY DEF RobotsMiss, Miss, Begin, KeepHealth, healthVars

LEMMA InsertEffect ==
  ASSUME NEW w \in Workers, RobotsInsert(w)
  PROVE  /\ At(w, "done", "idle") /\ attempt' = [attempt EXCEPT ![w] = 0]
         /\ fresh' /\ UNCHANGED <<circuit, late, misses, respect>>
         /\ strays' = IF Forbidding' THEN strays ELSE NoStrays
         /\ \E robot \in Robot, answer \in Answers :
              /\ answer \in {"deny", "failed"} => ~Allows(robot)
              /\ cache' = [robot |-> robot, answer |-> answer]
              /\ \/ Go(w, "rules", "permit") /\ Allows(robot)
                 \/ Go(w, "rules", "idle")
<1>1. PICK allowed \in BOOLEAN : Insert(outcome[w], allowed) /\ Judged(w, "rules", allowed)
  BY DEF RobotsInsert
<1> DEFINE Made(file) == Parsed(outcome[w], file)
           Gave(file) == AnswerOf(outcome[w], file)
<1>2. PICK file \in Files :
        /\ allowed = Allows(Made(file))
        /\ cache' = [robot |-> Made(file), answer |-> Gave(file)]
        /\ fresh' = TRUE /\ UNCHANGED misses
  BY <1>1 DEF Insert, InsertIf
<1>3. /\ Made(file) \in Robot /\ Gave(file) \in Answers
      /\ Gave(file) \in {"deny", "failed"} => ~Allows(Made(file))
  BY DEF Parsed, AnswerOf, Allows, Robot, Answers, Files
<1>4. At(w, "done", "idle") /\ attempt' = [attempt EXCEPT ![w] = 0] /\ UNCHANGED <<respect, late>>
  BY DEF RobotsInsert, Return
<1>5. strays' = IF Forbidding' THEN strays ELSE NoStrays
  BY DEF RobotsInsert
<1>6. /\ UNCHANGED circuit
      /\ \/ Go(w, "rules", "permit") /\ Allows(Made(file))
         \/ Go(w, "rules", "idle")
  BY <1>1, <1>2, JudgedEffect
<1> HIDE DEF Made, Gave
<1> QED BY <1>2, <1>3, <1>4, <1>5, <1>6

LEMMA AcquireEffect ==
  ASSUME NEW w \in Workers, AcquireHost(w)
  PROVE  /\ Go(w, "permit", "page") /\ At(w, "idle", "try") /\ Cardinality(Holders) < PerHost
         /\ strays' = IF Forbidding THEN [strays EXCEPT ![w] = @ + 1] ELSE strays
         /\ KeepRobots /\ UNCHANGED <<attempt, respect, circuit, late>>
BY DEF AcquireHost, Begin, KeepHealth, healthVars

LEMMA FetchingEffect ==
  ASSUME FetchInv, NEW w \in Workers, Fetching(w)
  PROVE  /\ UNCHANGED <<pc, respect, circuit, strays>> /\ KeepRobots
         /\ stage[w] # "idle" /\ stage'[w] # "idle"
         /\ \A v \in Workers \ {w} : stage'[v] = stage[v] /\ attempt'[v] = attempt[v]
         /\ \/ late' = late /\ Attempts(w) <= Attempts(w)'
            \/ /\ circuit = "Open" /\ late' = [late EXCEPT ![w] = @ + 1]
               /\ Attempts(w) + 1 <= Attempts(w)'
<1>1. UNCHANGED <<pc, respect, circuit, strays>> /\ KeepRobots
  BY DEF Fetching, KeepHealth, healthVars
<1> QED BY <1>1, FetchStepMoves DEF Fetching

LEMMA ReportEffect ==
  ASSUME NEW w \in Workers, Report(w)
  PROVE  /\ Go(w, "page", "finish")
         /\ At(w, "done", "idle") /\ attempt' = [attempt EXCEPT ![w] = 0]
         /\ KeepRobots /\ UNCHANGED <<respect, strays>>
         /\ late' = IF circuit = "Open" /\ circuit' = "Open" THEN late ELSE NoneLate
BY DEF Report, Return

LEMMA FinishEffect ==
  ASSUME NEW w \in Workers, Finish(w)
  PROVE  Walk(w, "finish", "idle") /\ KeepRobots /\ UNCHANGED <<circuit, late, strays>>
BY DEF Finish, Walk, KeepHealth, healthVars, KeepFetch, fetchVars, callVars

LEMMA ClockEffect ==
  ASSUME Cooldown \/ RobotsExpire
  PROVE  /\ UNCHANGED <<circuit, pc, late, stage, attempt, respect>>
         /\ \/ KeepRobots /\ strays' = strays
            \/ Expire /\ strays' = NoStrays
BY DEF Cooldown, RobotsExpire, B!Tick, KeepHealth, healthVars, KeepFetch, fetchVars, callVars

LEMMA StutterEffect ==
  ASSUME UNCHANGED hostVars
  PROVE  UNCHANGED <<circuit, pc, late, stage, attempt, respect, strays>> /\ KeepRobots
BY DEF hostVars, healthVars, fetchVars, callVars, KeepRobots

-----------------------------------------------------------------------------
(* The invariants.                                                         *)

LEMMA GoTypes ==
  ASSUME WorkerTypeOK, NEW w \in Workers, NEW from \in Places, NEW to \in Places, Go(w, from, to)
  PROVE  /\ pc' \in [Workers -> Places] /\ pc[w] = from /\ pc'[w] = to
         /\ \A v \in Workers \ {w} : pc'[v] = pc[v]
BY DEF WorkerTypeOK, Go

(* The permits of the host: a worker takes one only while one is free.     *)
LEMMA PermitsKept ==
  ASSUME WorkerTypeOK, NEW w \in Workers, NEW from \in Places, NEW to \in Places, Go(w, from, to),
         \/ to \notin {"page", "finish"} \/ from \in {"page", "finish"}
         \/ Cardinality(Holders) < PerHost
  PROVE  Cardinality(Holders') <= PerHost
<1>0. Cardinality(Holders) <= PerHost /\ PerHost \in Nat
  BY HostAssumption DEF WorkerTypeOK
<1>1. Holders \in SUBSET Workers /\ Holders' \in SUBSET Workers
  BY DEF Holders
<1>2. CASE to \notin {"page", "finish"} \/ from \in {"page", "finish"}
  <2>1. Holders' \subseteq Holders
    BY <1>2, GoTypes DEF Holders
  <2>2. IsFiniteSet(Holders)
    BY <1>1, FetchAssumption, FS_Subset
  <2>3. Cardinality(Holders') <= Cardinality(Holders)
    BY <2>1, <2>2, FS_Subset
  <2>4. Cardinality(Holders) \in Nat /\ Cardinality(Holders') \in Nat
    BY <1>1, OneMore
  <2> QED BY <1>0, <2>3, <2>4
<1>3. CASE /\ to \in {"page", "finish"} /\ from \notin {"page", "finish"}
           /\ Cardinality(Holders) < PerHost
  <2>1. Holders' = Holders \cup {w} /\ w \notin Holders
    BY <1>3, GoTypes DEF Holders
  <2>2. Cardinality(Holders \cup {w}) = Cardinality(Holders) + 1 /\ Cardinality(Holders) \in Nat
    BY <1>1, <2>1, OneMore
  <2>3. Cardinality(Holders') = Cardinality(Holders) + 1
    BY <2>1, <2>2
  <2> QED BY <1>0, <1>3, <2>2, <2>3
<1> QED BY <1>2, <1>3

LEMMA WorkerTypesKept ==
  ASSUME HostInv, HostNext
  PROVE  WorkerTypeOK'
<1> USE DEF HostInv
<1>0. NoneLate \in [Workers -> Nat] /\ late \in [Workers -> Nat] /\ respect \in BOOLEAN
  BY DEF NoneLate, WorkerTypeOK
<1>1. ASSUME NEW w \in Workers, NEW from \in Places, NEW to \in Places, Go(w, from, to),
             \/ to \notin {"page", "finish"} \/ from \in {"page", "finish"}
             \/ Cardinality(Holders) < PerHost,
             late' = late \/ late' = NoneLate, UNCHANGED respect
      PROVE  WorkerTypeOK'
  BY <1>0, <1>1, GoTypes, PermitsKept DEF WorkerTypeOK
<1>2. ASSUME UNCHANGED <<pc, respect>>, late' \in [Workers -> Nat]
      PROVE  WorkerTypeOK'
  BY <1>0, <1>2 DEF WorkerTypeOK, Holders
<1> USE DEF Places
<1>3. ASSUME NEW w \in Workers, AskBreaker(w) PROVE WorkerTypeOK'
  BY <1>0, <1>1, <1>2, <1>3, AskEffect DEF Walk
<1>4. ASSUME NEW w \in Workers, RobotsHit(w) PROVE WorkerTypeOK'
  BY <1>1, <1>4, HitEffect DEF Walk
<1>5. ASSUME NEW w \in Workers, RobotsMiss(w) PROVE WorkerTypeOK'
  BY <1>1, <1>5, MissEffect
<1>6. ASSUME NEW w \in Workers, RobotsInsert(w) PROVE WorkerTypeOK'
  BY <1>1, <1>6, InsertEffect
<1>7. ASSUME NEW w \in Workers, AcquireHost(w) PROVE WorkerTypeOK'
  BY <1>1, <1>7, AcquireEffect
<1>8. ASSUME NEW w \in Workers, Fetching(w) PROVE WorkerTypeOK'
  BY <1>0, <1>2, <1>8, FetchingEffect
<1>9. ASSUME NEW w \in Workers, Report(w) PROVE WorkerTypeOK'
  BY <1>1, <1>9, ReportEffect
<1>10. ASSUME NEW w \in Workers, Finish(w) PROVE WorkerTypeOK'
  BY <1>1, <1>10, FinishEffect DEF Walk
<1>11. CASE Cooldown \/ RobotsExpire
  BY <1>0, <1>2, <1>11, ClockEffect
<1> QED BY <1>3, <1>4, <1>5, <1>6, <1>7, <1>8, <1>9, <1>10, <1>11 DEF HostNext, Step

LEMMA CallKept ==
  ASSUME HostInv, HostNext
  PROVE  CallInv'
<1> USE DEF HostInv, Places
<1>0. stage \in [Workers -> Stages]
  BY FetchTypes DEF FetchInv
<1>1. ASSUME NEW w \in Workers, NEW from \in Places, NEW to \in Places, Go(w, from, to),
             NEW here, NEW there, At(w, here, there),
             there # "idle" <=> to \in {"rules", "page"}
      PROVE  CallInv'
  BY <1>0, <1>1, GoTypes DEF CallInv, At
<1>2. ASSUME NEW w \in Workers, NEW from \in Places, NEW to \in Places, Go(w, from, to),
             from \notin {"rules", "page"}, to \notin {"rules", "page"}, UNCHANGED stage
      PROVE  CallInv'
  BY <1>2, GoTypes DEF CallInv
<1>3. ASSUME NEW w \in Workers, AskBreaker(w) PROVE CallInv'
  BY <1>2, <1>3, AskEffect DEF Walk, CallInv
<1>4. ASSUME NEW w \in Workers, RobotsHit(w) PROVE CallInv'
  BY <1>2, <1>4, HitEffect DEF Walk
<1>5. ASSUME NEW w \in Workers, RobotsMiss(w) PROVE CallInv'
  BY <1>1, <1>5, MissEffect
<1>6. ASSUME NEW w \in Workers, RobotsInsert(w) PROVE CallInv'
  BY <1>1, <1>6, InsertEffect
<1>7. ASSUME NEW w \in Workers, AcquireHost(w) PROVE CallInv'
  BY <1>1, <1>7, AcquireEffect
<1>8. ASSUME NEW w \in Workers, Fetching(w) PROVE CallInv'
  BY <1>8, FetchingEffect DEF CallInv
<1>9. ASSUME NEW w \in Workers, Report(w) PROVE CallInv'
  BY <1>1, <1>9, ReportEffect
<1>10. ASSUME NEW w \in Workers, Finish(w) PROVE CallInv'
  BY <1>2, <1>10, FinishEffect DEF Walk
<1>11. CASE Cooldown \/ RobotsExpire
  BY <1>11, ClockEffect DEF CallInv
<1> QED BY <1>3, <1>4, <1>5, <1>6, <1>7, <1>8, <1>9, <1>10, <1>11 DEF HostNext, Step

(* A step that sends no request leaves the history as it was: the others'  *)
(* bounds stand, and the worker's own must not shrink.                     *)
LEMMA LateKept ==
  ASSUME HostInv, NEW w \in Workers,
         \A v \in Workers \ {w} : pc'[v] = pc[v] /\ stage'[v] = stage[v] /\ attempt'[v] = attempt[v],
         late' = late, circuit' = circuit,
         Earlier(w) + Attempts(w) <= (Earlier(w) + Attempts(w))',
         (Earlier(w) + Attempts(w))' \in Nat,
         pc[w] \in {"idle", "finish"} => pc'[w] \in {"idle", "finish"}
  PROVE  LateInv'
<1> USE DEF HostInv
<1>0. late \in [Workers -> Nat] /\ attempt \in [Workers -> Nat] /\ MaxRetries \in Nat
  BY FetchTypes, FetchAssumption DEF WorkerTypeOK, FetchInv
<1>1. Earlier(w) + Attempts(w) \in Nat
  BY <1>0 DEF Earlier, Attempts
<1>2. late'[w] <= (Earlier(w) + Attempts(w))'
  <2>1. late[w] <= Earlier(w) + Attempts(w) /\ late'[w] = late[w] /\ late[w] \in Nat
    BY <1>0 DEF LateInv
  <2>2. PICK m \in Nat, n \in Nat : /\ m = Earlier(w) + Attempts(w)
                                    /\ n = (Earlier(w) + Attempts(w))'
    BY <1>1
  <2> QED BY <2>1, <2>2
<1>3. ASSUME NEW v \in Workers \ {w} PROVE late'[v] <= (Earlier(v) + Attempts(v))'
  BY <1>3 DEF LateInv, Earlier, Attempts
<1>4. circuit' = "Open" => \E v \in Workers : late'[v] = 0 /\ pc'[v] \in {"idle", "finish"}
  BY DEF LateInv
<1>5. circuit' # "Open" => late' = NoneLate
  BY DEF LateInv
<1> QED BY <1>2, <1>3, <1>4, <1>5 DEF LateInv, NoneLate

(* A step after which nothing is held against anybody.                     *)
LEMMA LateForgotten ==
  ASSUME FetchInv', WorkerTypeOK', late' = NoneLate,
         circuit' = "Open" => \E w \in Workers : pc'[w] \in {"idle", "finish"}
  PROVE  LateInv'
<1>0. pc' \in [Workers -> Places] /\ attempt' \in [Workers -> 0..MaxRetries] /\ MaxRetries \in Nat
  BY FetchAssumption DEF WorkerTypeOK, FetchInv, FetchTypeOK
<1>1. ASSUME NEW v \in Workers PROVE 0 <= (Earlier(v) + Attempts(v))'
  BY <1>0 DEF Earlier, Attempts
<1> QED BY <1>1 DEF LateInv, NoneLate

LEMMA LateStep ==
  ASSUME HostInv, HostNext, FetchInv', WorkerTypeOK'
  PROVE  LateInv'
<1> USE DEF HostInv
<1>0. /\ late \in [Workers -> Nat] /\ attempt \in [Workers -> 0..MaxRetries] /\ MaxRetries \in Nat
      /\ stage \in [Workers -> Stages] /\ pc \in [Workers -> Places]
  BY FetchTypes, FetchAssumption DEF WorkerTypeOK, FetchInv
<1>1. \A w \in Workers : stage[w] = "idle" => attempt[w] = 0
  BY DEF FetchInv, RetryInv
<1> DEFINE Calm(w) == /\ late' = late /\ circuit' = circuit
                      /\ \A v \in Workers \ {w} :
                           pc'[v] = pc[v] /\ stage'[v] = stage[v] /\ attempt'[v] = attempt[v]
           Room(w) == /\ Earlier(w) + Attempts(w) <= (Earlier(w) + Attempts(w))'
                      /\ (Earlier(w) + Attempts(w))' \in Nat
<1>2. ASSUME NEW w \in Workers, NEW from \in Places, NEW to \in Places,
             Walk(w, from, to), UNCHANGED <<late, circuit>>,
             <<from, to>> \in {<<"robots", "permit">>, <<"robots", "idle">>, <<"finish", "idle">>}
      PROVE  LateInv'
  <2>1. Go(w, from, to) /\ stage' = stage /\ attempt' = attempt
    BY <1>2 DEF Walk
  <2>2. pc[w] = from /\ pc'[w] = to /\ \A v \in Workers \ {w} : pc'[v] = pc[v]
    BY <2>1, GoTypes
  <2>3. Calm(w) /\ Room(w)
    BY <1>0, <1>2, <2>1, <2>2 DEF Earlier, Attempts
  <2> QED BY <1>2, <2>2, <2>3, LateKept
<1>3. ASSUME NEW w \in Workers, NEW from \in {"robots", "permit"}, NEW to \in {"rules", "page"},
             Go(w, from, to), from = "robots" <=> to = "rules",
             At(w, "idle", "try"), UNCHANGED <<attempt, late, circuit>>
      PROVE  LateInv'
  <2>1. pc[w] = from /\ pc'[w] = to /\ \A v \in Workers \ {w} : pc'[v] = pc[v]
    BY <1>3, GoTypes DEF Places
  <2>2. Calm(w) /\ Room(w)
    BY <1>0, <1>3, <2>1 DEF Earlier, Attempts, At, Tried
  <2> QED BY <1>3, <2>1, <2>2, LateKept
<1>4. ASSUME NEW w \in Workers, NEW from \in {"rules", "page"}, NEW to \in {"permit", "idle", "finish"},
             Go(w, from, to), from = "page" => to = "finish",
             At(w, "done", "idle"), attempt' = [attempt EXCEPT ![w] = 0],
             UNCHANGED <<late, circuit>>
      PROVE  LateInv'
  <2>1. pc[w] = from /\ pc'[w] = to /\ \A v \in Workers \ {w} : pc'[v] = pc[v]
    BY <1>4, GoTypes DEF Places
  <2>2. Calm(w) /\ Room(w)
    BY <1>0, <1>4, <2>1 DEF Earlier, Attempts, At, Tried
  <2> QED BY <1>4, <2>1, <2>2, LateKept
<1> USE DEF Places
<1>5. ASSUME NEW w \in Workers, AskBreaker(w) PROVE LateInv'
  <2>1. CASE circuit' # "Open" /\ late' = NoneLate
    BY <2>1, LateForgotten
  <2>2. CASE UNCHANGED <<circuit, pc, late, stage, attempt, respect>>
    BY <2>2 DEF LateInv, Earlier, Attempts
  <2> QED BY <1>5, <2>1, <2>2, AskEffect
<1>6. ASSUME NEW w \in Workers, RobotsHit(w) PROVE LateInv'
  BY <1>2, <1>6, HitEffect
<1>7. ASSUME NEW w \in Workers, RobotsMiss(w) PROVE LateInv'
  BY <1>3, <1>7, MissEffect
<1>8. ASSUME NEW w \in Workers, RobotsInsert(w) PROVE LateInv'
  BY <1>4, <1>8, InsertEffect
<1>9. ASSUME NEW w \in Workers, AcquireHost(w) PROVE LateInv'
  BY <1>3, <1>9, AcquireEffect
<1>10. ASSUME NEW w \in Workers, Fetching(w) PROVE LateInv'
  <2>0. /\ pc' = pc /\ circuit' = circuit
        /\ \A v \in Workers \ {w} : stage'[v] = stage[v] /\ attempt'[v] = attempt[v]
    BY <1>10, FetchingEffect
  <2>1. PICK e \in Nat, m \in Nat, n \in Nat : /\ e = Earlier(w) /\ e = Earlier(w)'
                                               /\ m = Attempts(w) /\ n = Attempts(w)'
    <3>1. Earlier(w) \in Nat /\ Attempts(w) \in Nat /\ Earlier(w)' = Earlier(w)
      BY <1>0, <2>0 DEF Earlier, Attempts
    <3>2. Attempts(w)' \in Nat
      <4>1. attempt' \in [Workers -> 0..MaxRetries]
        BY DEF FetchInv, FetchTypeOK
      <4> QED BY <4>1, <1>0 DEF Attempts
    <3> QED BY <3>1, <3>2
  <2>2. CASE late' = late /\ Attempts(w) <= Attempts(w)'
    <3>1. Calm(w) /\ Room(w)
      BY <2>0, <2>1, <2>2
    <3>2. pc[w] \in {"idle", "finish"} => pc'[w] \in {"idle", "finish"}
      BY <2>0
    <3> QED BY <3>1, <3>2, LateKept
  <2>3. CASE /\ circuit = "Open" /\ late' = [late EXCEPT ![w] = @ + 1]
             /\ Attempts(w) + 1 <= Attempts(w)'
    <3>1. late'[w] <= Earlier(w)' + Attempts(w)'
      <4>1. late[w] <= e + m /\ late[w] \in Nat /\ late'[w] = late[w] + 1
        BY <1>0, <2>1, <2>3 DEF LateInv
      <4>2. m + 1 <= n
        BY <2>1, <2>3
      <4>3. late'[w] <= e + n
        BY <2>1, <4>1, <4>2
      <4> QED BY <4>3, <2>1
    <3>2. ASSUME NEW v \in Workers \ {w} PROVE late'[v] <= Earlier(v)' + Attempts(v)'
      BY <1>0, <2>0, <2>3, <3>2 DEF LateInv, Earlier, Attempts
    <3>3. \E v \in Workers : late'[v] = 0 /\ pc'[v] \in {"idle", "finish"}
      <4>1. PICK v \in Workers : late[v] = 0 /\ pc[v] \in {"idle", "finish"}
        BY <2>3 DEF LateInv
      <4>2. v # w
        BY <4>1, <1>10, FetchingEffect DEF CallInv
      <4> QED BY <1>0, <2>0, <2>3, <4>1, <4>2
    <3> QED BY <2>0, <2>3, <3>1, <3>2, <3>3 DEF LateInv
  <2> QED BY <1>10, <2>2, <2>3, FetchingEffect
<1>11. ASSUME NEW w \in Workers, Report(w) PROVE LateInv'
  <2>1. CASE circuit = "Open" /\ circuit' = "Open"
    BY <1>4, <1>11, <2>1, ReportEffect
  <2>2. CASE ~(circuit = "Open" /\ circuit' = "Open")
    <3>1. pc'[w] = "finish"
      BY <1>11, ReportEffect, GoTypes
    <3> QED BY <1>11, <2>2, <3>1, ReportEffect, LateForgotten
  <2> QED BY <2>1, <2>2
<1>12. ASSUME NEW w \in Workers, Finish(w) PROVE LateInv'
  BY <1>2, <1>12, FinishEffect
<1>13. CASE Cooldown \/ RobotsExpire
  BY <1>13, ClockEffect DEF LateInv, Earlier, Attempts
<1> QED BY <1>5, <1>6, <1>7, <1>8, <1>9, <1>10, <1>11, <1>12, <1>13 DEF HostNext, Step

LEMMA RobotsTypesKept ==
  ASSUME HostInv, HostNext
  PROVE  RobotsTypeOK'
<1> USE DEF HostInv
<1>0. /\ cache \in [robot : Robot, answer : Answers \cup {"none"}] /\ fresh \in BOOLEAN
      /\ misses \in [Workers -> Nat]
  BY DEF RobotsTypeOK
<1>1. CASE KeepRobots
  BY <1>0, <1>1 DEF KeepRobots, robotsVars, RobotsTypeOK
<1>2. ASSUME NEW w \in Workers, RobotsHit(w) PROVE RobotsTypeOK'
  BY <1>0, <1>2, HitEffect DEF RobotsTypeOK
<1>3. ASSUME NEW w \in Workers, RobotsMiss(w) PROVE RobotsTypeOK'
  BY <1>0, <1>3, MissEffect DEF RobotsTypeOK
<1>4. ASSUME NEW w \in Workers, RobotsInsert(w) PROVE RobotsTypeOK'
  <2>1. fresh' \in BOOLEAN
    BY <1>4 DEF RobotsInsert, Insert, InsertIf
  <2>2. cache' \in [robot : Robot, answer : Answers \cup {"none"}] /\ misses' = misses
    BY <1>0, <1>4, InsertEffect
  <2> QED BY <1>0, <2>1, <2>2 DEF RobotsTypeOK
<1>5. CASE Expire
  BY <1>0, <1>5 DEF Expire, RobotsTypeOK
<1>6. CASE Cooldown \/ RobotsExpire
  BY <1>1, <1>5, <1>6, ClockEffect
<1>7. ASSUME NEW w \in Workers,
             AskBreaker(w) \/ AcquireHost(w) \/ Fetching(w) \/ Report(w) \/ Finish(w)
      PROVE  KeepRobots
  BY <1>7, AskEffect, AcquireEffect, FetchingEffect, ReportEffect, FinishEffect
<1> QED BY <1>1, <1>2, <1>3, <1>4, <1>6, <1>7 DEF HostNext, Step

(* A worker that moves on without a page or an answer: to the permits it   *)
(* goes only while nothing forbids.                                        *)
LEMMA StraysStay ==
  ASSUME HostInv, NEW w \in Workers, NEW from \in Places, NEW to \in Places, Go(w, from, to),
         UNCHANGED <<fresh, cache, respect, strays>>,
         to \in {"robots", "rules"} => respect,
         to = "permit" => ~Forbidding
  PROVE  StrayInv'
<1>1. pc'[w] = to /\ \A v \in Workers \ {w} : pc'[v] = pc[v]
  BY GoTypes DEF HostInv
<1>2. (Forbidding' <=> Forbidding) /\ (Allows(cache'.robot) <=> Allows(cache.robot))
  BY DEF Forbidding, Allows
<1>3. Forbidding' => \E v \in Workers : strays'[v] = 0 /\ pc'[v] # "permit"
  BY <1>1, <1>2 DEF HostInv, StrayInv
<1>4. ASSUME NEW v \in Workers
      PROVE  /\ pc'[v] \in {"robots", "rules"} => respect'
             /\ strays'[v] <= 1
             /\ pc'[v] = "permit" => strays'[v] = 0
  BY <1>1, <1>4 DEF HostInv, StrayInv, NoStrays
<1> QED BY <1>2, <1>3, <1>4 DEF HostInv, StrayInv, Allows

LEMMA StraysKept ==
  ASSUME HostInv, HostNext
  PROVE  StrayInv'
<1> USE DEF HostInv, Places
<1>1. ASSUME KeepRobots PROVE UNCHANGED <<fresh, cache>>
  BY <1>1 DEF KeepRobots, robotsVars
<1>2. ASSUME UNCHANGED <<pc, respect, strays>>, KeepRobots PROVE StrayInv'
  BY <1>1, <1>2 DEF StrayInv, Forbidding, Allows, NoStrays
<1>3. ASSUME strays' = NoStrays, ~Forbidding', fresh' => respect',
             cache'.answer \in {"deny", "failed"} => ~Allows(cache'.robot),
             \A v \in Workers : pc'[v] \in {"robots", "rules"} => respect'
      PROVE  StrayInv'
  BY <1>3 DEF StrayInv, NoStrays, Allows
<1>4. ASSUME NEW w \in Workers, AskBreaker(w) PROVE StrayInv'
  <2>1. KeepRobots /\ UNCHANGED <<fresh, cache, strays>>
    BY <1>1, <1>4, AskEffect
  <2>2. CASE Walk(w, "idle", "robots") /\ respect
    BY <2>1, <2>2, StraysStay DEF Walk
  <2>3. CASE Walk(w, "idle", "permit") /\ ~respect
    BY <2>1, <2>3, StraysStay DEF Walk, StrayInv, Forbidding
  <2>4. CASE UNCHANGED <<pc, respect>>
    BY <1>2, <2>1, <2>4
  <2> QED BY <1>4, <2>2, <2>3, <2>4, AskEffect
<1>5. ASSUME NEW w \in Workers, RobotsHit(w) PROVE StrayInv'
  <2>1. UNCHANGED <<fresh, cache, strays>>
    BY <1>5, HitEffect
  <2>2. CASE Walk(w, "robots", "permit") /\ Allows(cache.robot)
    BY <2>1, <2>2, StraysStay DEF Walk, StrayInv, Forbidding
  <2>3. CASE Walk(w, "robots", "idle")
    BY <2>1, <2>3, StraysStay DEF Walk
  <2> QED BY <1>5, <2>2, <2>3, HitEffect
<1>6. ASSUME NEW w \in Workers, RobotsMiss(w) PROVE StrayInv'
  <2>1. Go(w, "robots", "rules") /\ UNCHANGED <<fresh, cache, respect, strays>>
    BY <1>6, MissEffect
  <2>2. respect
    BY <2>1 DEF Go, StrayInv
  <2> QED BY <2>1, <2>2, StraysStay
<1>7. ASSUME NEW w \in Workers, RobotsInsert(w) PROVE StrayInv'
  <2>1. PICK robot \in Robot, answer \in Answers :
          /\ answer \in {"deny", "failed"} => ~Allows(robot)
          /\ cache' = [robot |-> robot, answer |-> answer]
          /\ \/ Go(w, "rules", "permit") /\ Allows(robot)
             \/ Go(w, "rules", "idle")
    BY <1>7, InsertEffect
  <2>2. fresh' /\ UNCHANGED respect /\ strays' = IF Forbidding' THEN strays ELSE NoStrays
    BY <1>7, InsertEffect
  <2>3. PICK to \in {"permit", "idle"} : Go(w, "rules", to) /\ (to = "permit" => Allows(robot))
    BY <2>1
  <2>4. /\ pc[w] = "rules" /\ pc'[w] = to
        /\ \A v \in Workers \ {w} : pc'[v] = pc[v]
    BY <2>3, GoTypes
  <2>5. respect /\ \A v \in Workers : pc'[v] \in {"robots", "rules"} => respect'
    BY <2>2, <2>4 DEF StrayInv
  <2>6. cache'.answer \in {"deny", "failed"} => ~Allows(cache'.robot)
    BY <2>1
  <2>7. CASE ~Forbidding'
    BY <1>3, <2>2, <2>5, <2>6, <2>7
  <2>8. CASE Forbidding'
    <3>1. to = "idle" /\ strays' = strays
      BY <2>1, <2>2, <2>3, <2>8 DEF Forbidding
    <3>2. ASSUME NEW v \in Workers
          PROVE  strays'[v] <= 1 /\ (pc'[v] = "permit" => strays'[v] = 0)
      BY <2>4, <3>1, <3>2 DEF StrayInv
    <3>3. \E v \in Workers : strays'[v] = 0 /\ pc'[v] # "permit"
      <4>1. CASE Forbidding
        BY <2>4, <3>1, <4>1 DEF StrayInv
      <4>2. CASE ~Forbidding
        BY <2>4, <3>1, <4>2 DEF StrayInv, NoStrays
      <4> QED BY <4>1, <4>2
    <3> QED BY <2>2, <2>5, <2>6, <2>8, <3>1, <3>2, <3>3 DEF StrayInv, Allows
  <2> QED BY <2>7, <2>8
<1>8. ASSUME NEW w \in Workers, AcquireHost(w) PROVE StrayInv'
  <2>1. /\ Go(w, "permit", "page") /\ UNCHANGED <<fresh, cache, respect>>
        /\ strays' = IF Forbidding THEN [strays EXCEPT ![w] = @ + 1] ELSE strays
    BY <1>1, <1>8, AcquireEffect
  <2>2. CASE ~Forbidding
    BY <2>1, <2>2, StraysStay
  <2>3. CASE Forbidding
    <3>1. /\ pc[w] = "permit" /\ pc'[w] = "page"
          /\ \A v \in Workers \ {w} : pc'[v] = pc[v]
      BY <2>1, GoTypes
    <3>2. strays' = [strays EXCEPT ![w] = 1] /\ strays \in [Workers -> Nat]
      <4>1. strays \in [Workers -> Nat] /\ strays[w] = 0
        BY <3>1 DEF StrayInv
      <4>2. strays' = [strays EXCEPT ![w] = strays[w] + 1]
        BY <2>1, <2>3
      <4> QED BY <4>1, <4>2
    <3>3. ASSUME NEW v \in Workers
          PROVE  /\ strays'[v] <= 1
                 /\ pc'[v] = "permit" => strays'[v] = 0
                 /\ pc'[v] \in {"robots", "rules"} => respect'
      BY <2>1, <3>1, <3>2, <3>3 DEF StrayInv
    <3>4. \E v \in Workers : strays'[v] = 0 /\ pc'[v] # "permit"
      BY <2>3, <3>1, <3>2 DEF StrayInv
    <3>5. Forbidding'
      BY <2>1, <2>3 DEF Forbidding
    <3> QED BY <2>1, <3>2, <3>3, <3>4, <3>5 DEF StrayInv, Allows
  <2> QED BY <2>2, <2>3
<1>9. ASSUME NEW w \in Workers, Fetching(w) PROVE StrayInv'
  BY <1>2, <1>9, FetchingEffect
<1>10. ASSUME NEW w \in Workers, Report(w) PROVE StrayInv'
  BY <1>1, <1>10, ReportEffect, StraysStay
<1>11. ASSUME NEW w \in Workers, Finish(w) PROVE StrayInv'
  BY <1>1, <1>11, FinishEffect, StraysStay DEF Walk
<1>12. CASE Expire /\ strays' = NoStrays /\ UNCHANGED <<pc, respect>>
  BY <1>3, <1>12 DEF Expire, Forbidding, StrayInv, Allows
<1>13. CASE Cooldown \/ RobotsExpire
  BY <1>2, <1>12, <1>13, ClockEffect
<1> QED BY <1>4, <1>5, <1>6, <1>7, <1>8, <1>9, <1>10, <1>11, <1>13 DEF HostNext, Step

LEMMA MissKept ==
  ASSUME HostInv, HostNext
  PROVE  MissInv'
<1> USE DEF HostInv, Places
<1>0. misses \in [Workers -> Nat]
  BY DEF RobotsTypeOK
<1>1. ASSUME NEW w \in Workers, NEW from \in Places \ {"rules"}, NEW to \in Places, Go(w, from, to),
             UNCHANGED <<fresh, misses>>
      PROVE  MissInv'
  BY <1>1, GoTypes DEF MissInv
<1>2. ASSUME UNCHANGED <<pc, fresh, misses>> PROVE MissInv'
  BY <1>2 DEF MissInv
<1>3. ASSUME KeepRobots PROVE UNCHANGED <<fresh, misses>>
  BY <1>3 DEF KeepRobots, robotsVars
<1>4. ASSUME NEW w \in Workers, AskBreaker(w) PROVE MissInv'
  BY <1>1, <1>2, <1>3, <1>4, AskEffect DEF Walk
<1>5. ASSUME NEW w \in Workers, RobotsHit(w) PROVE MissInv'
  BY <1>1, <1>5, HitEffect DEF Walk
<1>6. ASSUME NEW w \in Workers, RobotsMiss(w) PROVE MissInv'
  <2>1. /\ Go(w, "robots", "rules") /\ ~fresh /\ UNCHANGED fresh
        /\ misses' = [misses EXCEPT ![w] = @ + 1]
    BY <1>6, MissEffect
  <2>2. misses[w] = 0
    BY <1>0, <2>1 DEF MissInv, Go
  <2> QED BY <1>0, <2>1, <2>2, GoTypes DEF MissInv
<1>7. ASSUME NEW w \in Workers, RobotsInsert(w) PROVE MissInv'
  BY <1>7, InsertEffect DEF MissInv
<1>8. ASSUME NEW w \in Workers, AcquireHost(w) PROVE MissInv'
  BY <1>1, <1>3, <1>8, AcquireEffect
<1>9. ASSUME NEW w \in Workers, Fetching(w) PROVE MissInv'
  BY <1>2, <1>3, <1>9, FetchingEffect
<1>10. ASSUME NEW w \in Workers, Report(w) PROVE MissInv'
  BY <1>1, <1>3, <1>10, ReportEffect
<1>11. ASSUME NEW w \in Workers, Finish(w) PROVE MissInv'
  BY <1>1, <1>3, <1>11, FinishEffect DEF Walk
<1>12. CASE Expire
  BY <1>12 DEF Expire, MissInv
<1>13. CASE Cooldown \/ RobotsExpire
  BY <1>2, <1>3, <1>12, <1>13, ClockEffect
<1> QED BY <1>4, <1>5, <1>6, <1>7, <1>8, <1>9, <1>10, <1>11, <1>13 DEF HostNext, Step

LEMMA HostInitInv == HostInit => HostInv
<1> SUFFICES ASSUME HostInit PROVE HostInv
  OBVIOUS
<1> USE DEF HostInit
<1>1. FetchInv
  BY FetchInitInv
<1>2. /\ pc = [w \in Workers |-> "idle"] /\ stage = [w \in Workers |-> "idle"]
      /\ attempt = [w \in Workers |-> 0] /\ late = NoneLate /\ circuit = "Closed"
      /\ misses = [w \in Workers |-> 0] /\ fresh = FALSE
  BY DEF FetchInit, RobotsInit, B!HealthInit
<1>3. WorkerTypeOK
  <2>1. Holders = {}
    BY <1>2 DEF Holders
  <2>2. Cardinality(Holders) <= PerHost
    BY <2>1, FS_EmptySet, HostAssumption
  <2> QED BY <1>2, <2>2 DEF WorkerTypeOK, Places, NoneLate
<1>4. RobotsTypeOK
  BY DEF RobotsInit, RobotsTypeOK, Robot
<1>5. CallInv /\ MissInv
  BY <1>2 DEF CallInv, MissInv
<1>6. LateInv
  BY <1>2, FetchAssumption DEF LateInv, NoneLate, Earlier, Attempts, Tried
<1>7. StrayInv
  BY <1>2 DEF RobotsInit, StrayInv, NoStrays, Forbidding
<1> QED BY <1>1, <1>3, <1>4, <1>5, <1>6, <1>7 DEF HostInv

LEMMA HostStepInv == HostInv /\ [HostNext]_hostVars => HostInv'
<1> SUFFICES ASSUME HostInv, [HostNext]_hostVars PROVE HostInv'
  OBVIOUS
<1>1. FetchInv'
  BY FetcherStep, BreakerStutters, FetchStepInv DEF HostInv
<1>2. CASE HostNext
  BY <1>1, <1>2, WorkerTypesKept, CallKept, LateStep, RobotsTypesKept, StraysKept, MissKept
  DEF HostInv
<1>3. CASE UNCHANGED hostVars
  <2>1. UNCHANGED <<circuit, pc, late, stage, attempt, respect, strays,
                  cache, fresh, misses>>
    BY <1>3, StutterEffect DEF KeepRobots, robotsVars
  <2> QED BY <1>1, <2>1 DEF HostInv, RobotsTypeOK, WorkerTypeOK, Holders, CallInv, LateInv,
                            Earlier, Attempts, StrayInv, Forbidding, Allows,
                            NoStrays, MissInv
<1> QED BY <1>2, <1>3

LEMMA HostAlways == HostSpec => []HostInv
BY HostInitInv, HostStepInv, PTL DEF HostSpec

(* Types, and the host's permits are never overdrawn.                      *)
THEOREM HostTypeCorrect == HostSpec => []HostTypeOK
<1>1. HostInv /\ B!HealthTypeOK => HostTypeOK
  BY DEF HostInv, FetchInv, WorkerTypeOK, StrayInv, Places, HostTypeOK
<1> QED BY <1>1, HostAlways, HostBreakerConsistent, PTL

(* Once its circuit is open a host gets, from each worker, at most the     *)
(* attempts of a robots.txt and of a page, and none from one of them.      *)
THEOREM OpenHostIsLeftAlone == HostSpec => []OpenHostLeftAlone
<1>1. HostInv => OpenHostLeftAlone
  <2> SUFFICES ASSUME HostInv PROVE OpenHostLeftAlone
    OBVIOUS
  <2>1. /\ late \in [Workers -> Nat] /\ attempt \in [Workers -> 0..MaxRetries]
        /\ pc \in [Workers -> Places] /\ MaxRetries \in Nat
    BY FetchTypes, FetchAssumption DEF HostInv, WorkerTypeOK, FetchInv
  <2>2. ASSUME NEW w \in Workers PROVE late[w] <= 2 * (MaxRetries + 1)
    <3>1. pc[w] \notin {"rules", "page"} => attempt[w] = 0 /\ stage[w] = "idle"
      BY DEF HostInv, CallInv, FetchInv, RetryInv
    <3>2. Earlier(w) + Attempts(w) <= 2 * (MaxRetries + 1)
      BY <2>1, <3>1 DEF Earlier, Attempts, Tried
    <3>3. late[w] <= Earlier(w) + Attempts(w)
      BY DEF HostInv, LateInv
    <3>4. Earlier(w) + Attempts(w) \in Nat
      BY <2>1 DEF Earlier, Attempts
    <3>5. PICK n \in Nat : n = Earlier(w) + Attempts(w)
      BY <3>4
    <3> QED BY <2>1, <3>2, <3>3, <3>5
  <2> QED BY <2>2 DEF HostInv, LateInv, OpenHostLeftAlone
<1> QED BY <1>1, HostAlways, PTL

(* While robots.txt forbids the pages of the host, or could not be had,    *)
(* each worker begins at most the page it was let through to before, and   *)
(* some worker none, for any number of workers and permits.                *)
THEOREM ForbiddenIsLeftAlone == HostSpec => []ForbiddenLeftAlone
<1>1. HostInv => ForbiddenLeftAlone
  BY DEF HostInv, StrayInv, ForbiddenLeftAlone
<1> QED BY <1>1, HostAlways, PTL

(* A worker fetches robots.txt at most once between two expiries.          *)
THEOREM RobotsMissedOnce == HostSpec => []MissedOnce
<1>1. HostInv => MissedOnce
  BY DEF HostInv, MissInv, MissedOnce
<1> QED BY <1>1, HostAlways, PTL

=============================================================================
