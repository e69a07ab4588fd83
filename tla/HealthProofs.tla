---------------------------- MODULE HealthProofs ----------------------------
(***************************************************************************)
(* The circuit breaker's invariants, for any threshold, cooldowns and      *)
(* number of workers.                                                      *)
(***************************************************************************)
EXTENDS Health, FiniteSetTheorems, TLAPS

(* Beside the properties: the counter and the history agree while the      *)
(* circuit is closed, and a running cooldown is never longer than the next.*)
HealthInv == /\ HealthTypeOK
             /\ BreakerConsistent
             /\ OpenMeansBlocked
             /\ circuit = "Closed" => streak = consecutive
             /\ remaining <= cooldown
             /\ OvershootBounded

(* What doubling with a cap does, and that a count cut at a limit is below *)
(* the limit exactly when the count is.                                    *)
LEMMA AtMostFacts ==
  ASSUME NEW n \in Nat, NEW limit \in Nat
  PROVE  /\ AtMost(n, limit) \in 0..limit
         /\ AtMost(n, limit) <= n
         /\ n <= limit => AtMost(n, limit) = n
         /\ n >= limit => AtMost(n, limit) = limit
BY DEF AtMost

LEMMA DoublingGrows ==
  ASSUME NEW c \in BaseCooldown..MaxCooldown
  PROVE  /\ AtMost(2 * c, MaxCooldown) \in BaseCooldown..MaxCooldown
         /\ c <= AtMost(2 * c, MaxCooldown)
BY HealthAssumption DEF AtMost, HealthConstants

(* Letting one more worker in, or seeing one leave.                        *)
LEMMA InflightCounts ==
  ASSUME inflight \subseteq Workers, NEW w \in Workers
  PROVE  /\ Cardinality(inflight) \in Nat
         /\ Cardinality(Workers) \in Nat
         /\ Cardinality(inflight \cup {w}) \in Nat
         /\ Cardinality(inflight \cup {w}) <= Cardinality(Workers)
         /\ w \in inflight => /\ Cardinality(inflight \ {w}) \in Nat
                              /\ Cardinality(inflight \ {w}) = Cardinality(inflight) - 1
<1>1. /\ IsFiniteSet(inflight) /\ IsFiniteSet(inflight \cup {w})
      /\ inflight \cup {w} \subseteq Workers
  BY HealthAssumption, FS_Subset DEF HealthConstants
<1>2. Cardinality(inflight \cup {w}) <= Cardinality(Workers)
  BY <1>1, HealthAssumption, FS_Subset DEF HealthConstants
<1>3. w \in inflight => Cardinality(inflight \ {w}) = Cardinality(inflight) - 1
  BY <1>1, FS_RemoveElement
<1>4. IsFiniteSet(inflight \ {w})
  BY <1>1, FS_Subset
<1> QED BY <1>1, <1>2, <1>3, <1>4, HealthAssumption, FS_CardinalityType DEF HealthConstants

LEMMA HealthInitInv == HealthInit => HealthInv
<1> SUFFICES ASSUME HealthInit PROVE HealthInv
  OBVIOUS
<1>1. Cardinality(inflight) = 0 /\ Cardinality(Workers) \in Nat
  BY HealthAssumption, FS_EmptySet, FS_CardinalityType DEF HealthInit, HealthConstants
<1> QED
  BY <1>1, HealthAssumption
  DEF HealthConstants, HealthInit, HealthInv, HealthTypeOK, BreakerConsistent,
      OpenMeansBlocked, OvershootBounded

LEMMA HealthStepInv == HealthInv /\ [HealthNext]_healthVars => HealthInv'
<1> SUFFICES ASSUME HealthInv, [HealthNext]_healthVars PROVE HealthInv'
  OBVIOUS
<1> USE HealthAssumption
        DEF HealthConstants, HealthInv, HealthTypeOK, BreakerConsistent,
            OpenMeansBlocked, OvershootBounded, breakerVars
<1>1. CASE UNCHANGED healthVars
  BY <1>1 DEF healthVars
<1>2. CASE Tick
  BY <1>2 DEF Tick
<1>3. ASSUME NEW w \in Workers, AskClosedOrHalfOpen(w) PROVE HealthInv'
  BY <1>3, InflightCounts DEF AskClosedOrHalfOpen
<1>4. ASSUME NEW w \in Workers, AskAfterCooldown(w) PROVE HealthInv'
  BY <1>4, InflightCounts DEF AskAfterCooldown, HalfOpenWith
<1>5. ASSUME NEW w \in Workers, AskOpen(w) PROVE HealthInv'
  BY <1>5 DEF AskOpen, healthVars
<1>6. ASSUME NEW w \in Workers, RecordSuccess(w) PROVE HealthInv'
  BY <1>6, InflightCounts DEF RecordSuccess, Answered
<1>7. ASSUME NEW w \in Workers, RecordNoise(w) PROVE HealthInv'
  BY <1>7, InflightCounts DEF RecordNoise, Answered
<1>8. ASSUME NEW w \in Workers, RecordBlocked(w) PROVE HealthInv'
  <2>1. /\ AtMost(streak + 1, Threshold) \in 0..Threshold
        /\ streak + 1 <= Threshold => AtMost(streak + 1, Threshold) = streak + 1
        /\ streak + 1 >= Threshold => AtMost(streak + 1, Threshold) = Threshold
    BY AtMostFacts
  <2>2. /\ Cardinality(inflight) \in Nat /\ Cardinality(Workers) \in Nat
        /\ Cardinality(inflight') = Cardinality(inflight) - 1
        /\ inflight' \subseteq Workers
    BY <1>8, InflightCounts DEF RecordBlocked, BlockedWith, Answered
  <2>3. /\ consecutive' = consecutive + 1
        /\ streak' = AtMost(streak + 1, Threshold)
    BY <1>8 DEF RecordBlocked, BlockedWith
  <2>4. CASE consecutive + 1 >= Threshold
    <3>1. /\ circuit' = "Open" /\ remaining' = cooldown
          /\ cooldown' = AtMost(2 * cooldown, MaxCooldown)
      BY <1>8, <2>4 DEF RecordBlocked, BlockedWith, Opens
    <3>2. streak + 1 >= Threshold
      BY <2>4
    <3>3. cooldown' \in BaseCooldown..MaxCooldown /\ cooldown <= cooldown'
      BY <3>1, DoublingGrows
    <3>4. streak' = Threshold
      BY <2>1, <2>3, <3>2
    <3> QED BY <2>2, <2>3, <2>4, <3>1, <3>3, <3>4
  <2>5. CASE ~(consecutive + 1 >= Threshold)
    <3>1. UNCHANGED <<circuit, remaining, cooldown>>
      BY <1>8, <2>5 DEF RecordBlocked, BlockedWith
    <3>2. circuit = "Closed" /\ streak + 1 < Threshold
      BY <2>5
    <3> QED BY <2>1, <2>2, <2>3, <3>1, <3>2
  <2> QED BY <2>4, <2>5
<1> QED BY <1>1, <1>2, <1>3, <1>4, <1>5, <1>6, <1>7, <1>8
        DEF HealthNext, Ask, Record

LEMMA HealthAlways == HealthSpec => []HealthInv
BY HealthInitInv, HealthStepInv, PTL DEF HealthSpec

(* The circuit's state, its failure counter and its cooldown agree.        *)
THEOREM BreakerIsConsistent == HealthSpec => [](HealthTypeOK /\ BreakerConsistent)
<1>1. HealthInv => HealthTypeOK /\ BreakerConsistent
  BY DEF HealthInv
<1> QED BY <1>1, HealthAlways, PTL

(* The circuit is closed exactly while fewer than Threshold blocks in a    *)
(* row have been recorded.                                                 *)
THEOREM OpensExactlyWhenBlocked == HealthSpec => []OpenMeansBlocked
<1>1. HealthInv => OpenMeansBlocked
  BY DEF HealthInv
<1> QED BY <1>1, HealthAlways, PTL

(* The failure counter never runs further past the threshold than there    *)
(* are workers to report late.                                             *)
THEOREM CounterIsBounded == HealthSpec => []OvershootBounded
<1>1. HealthInv => OvershootBounded
  BY DEF HealthInv
<1> QED BY <1>1, HealthAlways, PTL

(* Late blocks only ever lengthen a cooldown.                              *)
THEOREM OnlyTimeShortensCooldown == HealthSpec => CooldownNeverShortened
<1>1. HealthInv /\ [HealthNext]_healthVars
        => [(circuit = "Open" /\ circuit' = "Open") => remaining' >= remaining - 1]_healthVars
  <2> SUFFICES ASSUME HealthInv, [HealthNext]_healthVars,
                      circuit = "Open", circuit' = "Open",
                      ~(UNCHANGED healthVars)
               PROVE  remaining' >= remaining - 1
    OBVIOUS
  <2> USE HealthAssumption DEF HealthConstants, HealthInv, HealthTypeOK
  <2>1. CASE Tick
    BY <2>1 DEF Tick
  <2>2. ASSUME NEW w \in Workers, Ask(w) PROVE remaining' >= remaining - 1
    BY <2>2 DEF Ask, AskClosedOrHalfOpen, AskAfterCooldown, HalfOpenWith, AskOpen,
                healthVars, breakerVars
  <2>3. ASSUME NEW w \in Workers, Record(w) PROVE remaining' >= remaining - 1
    BY <2>3 DEF Record, RecordSuccess, RecordNoise, RecordBlocked, BlockedWith,
                Opens, breakerVars
  <2> QED BY <2>1, <2>2, <2>3 DEF HealthNext
<1> QED BY <1>1, HealthAlways, PTL DEF HealthSpec, CooldownNeverShortened
=============================================================================
