------------------------------- MODULE Health -------------------------------
(***************************************************************************)
(* health.rs: the circuit breaker of one host (hosts share nothing), under *)
(* several workers that ask is_available, fetch, and report the response   *)
(* with record_response.  Each call holds the host's map entry throughout, *)
(* so a call is one action; between the two calls anything may happen.     *)
(* Time is the cooldown left, counted down by Tick.                        *)
(***************************************************************************)
EXTENDS Integers, FiniteSets

CONSTANTS Workers,
          Threshold,     \* open_threshold
          BaseCooldown,  \* base_cooldown
          MaxCooldown    \* MAX_COOLDOWN

HealthConstants ==
  /\ IsFiniteSet(Workers)
  /\ Threshold \in Nat \ {0}
  /\ BaseCooldown \in Nat \ {0} /\ MaxCooldown \in Nat
  /\ BaseCooldown <= MaxCooldown

ASSUME HealthAssumption == HealthConstants

VARIABLES circuit,
          consecutive,  \* consecutive_failures
          remaining,    \* cooldown_remaining, 0 for None
          cooldown,     \* cooldown_duration: of the next opening
          inflight,     \* workers between is_available and record_response
          streak        \* history: failures since the last success, cut at Threshold

breakerVars == <<circuit, consecutive, remaining, cooldown>>
healthVars == <<breakerVars, inflight, streak>>

HealthTypeOK ==
  /\ circuit \in {"Closed", "Open", "HalfOpen"}
  /\ consecutive \in Nat
  /\ remaining \in 0..MaxCooldown
  /\ cooldown \in BaseCooldown..MaxCooldown
  /\ inflight \subseteq Workers
  /\ streak \in 0..Threshold

HealthInit == /\ circuit = "Closed" /\ consecutive = 0
              /\ remaining = 0 /\ cooldown = BaseCooldown
              /\ inflight = {} /\ streak = 0

AtMost(n, limit) == IF n <= limit THEN n ELSE limit
-----------------------------------------------------------------------------
(* is_available(host) answers true: the caller goes on to fetch.           *)

AskClosedOrHalfOpen(w) ==
  /\ w \notin inflight
  /\ circuit # "Open"
  /\ inflight' = inflight \cup {w}
  /\ UNCHANGED <<breakerVars, streak>>

HalfOpenWith(w, failures) ==
  /\ w \notin inflight
  /\ circuit = "Open" /\ remaining = 0
  /\ circuit' = "HalfOpen"
  /\ consecutive' = failures
  /\ inflight' = inflight \cup {w}
  /\ UNCHANGED <<remaining, cooldown, streak>>

(* Bug variant: an open circuit is never tried again.                      *)
AskAfterCooldownNever(w) == FALSE

AskAfterCooldown(w) == HalfOpenWith(w, Threshold - 1)

(* It answers false while the cooldown runs: the URL is skipped.           *)
AskOpen(w) == /\ w \notin inflight
              /\ circuit = "Open" /\ remaining > 0
              /\ UNCHANGED healthVars
-----------------------------------------------------------------------------
(* record_response(host, status), by class of status.                      *)

Answered(w) == /\ w \in inflight
               /\ inflight' = inflight \ {w}

(* 2xx and 3xx.                                                            *)
RecordSuccess(w) ==
  /\ Answered(w)
  /\ circuit' = "Closed" /\ consecutive' = 0
  /\ remaining' = 0 /\ cooldown' = BaseCooldown
  /\ streak' = 0

(* Bug variant: dead links count towards the threshold as well.            *)
RecordNoiseCounted(w) == /\ Answered(w)
                         /\ consecutive' = consecutive + 1
                         /\ UNCHANGED <<circuit, remaining, cooldown, streak>>

(* Every other status, and a fetch that ended without a response.          *)
RecordNoise(w) == /\ Answered(w)
                  /\ UNCHANGED <<breakerVars, streak>>

Opens(length) == /\ circuit' = "Open"
                 /\ remaining' = length
                 /\ cooldown' = AtMost(2 * cooldown, MaxCooldown)

BlockedWith(w, limit, length) ==
  /\ Answered(w)
  /\ consecutive' = consecutive + 1
  /\ IF consecutive + 1 >= limit THEN Opens(length)
     ELSE UNCHANGED <<circuit, remaining, cooldown>>
  /\ streak' = AtMost(streak + 1, Threshold)

(* Bug variants: the count passes the threshold before the circuit opens;  *)
(* a late block starts the cooldown of an open circuit over.               *)
RecordBlockedLate(w) == BlockedWith(w, Threshold + 1, cooldown)
RecordBlockedRestarts(w) ==
  BlockedWith(w, Threshold, IF circuit = "Open" THEN BaseCooldown ELSE cooldown)

(* 429, 403 and 5xx.                                                       *)
RecordBlocked(w) == BlockedWith(w, Threshold, cooldown)
-----------------------------------------------------------------------------
Tick == /\ remaining > 0
        /\ remaining' = remaining - 1
        /\ UNCHANGED <<circuit, consecutive, cooldown, inflight, streak>>

Ask(w) == AskClosedOrHalfOpen(w) \/ AskAfterCooldown(w) \/ AskOpen(w)

Record(w) == RecordSuccess(w) \/ RecordNoise(w) \/ RecordBlocked(w)

HealthNext == Tick \/ \E w \in Workers : Ask(w) \/ Record(w)

HealthSpec == HealthInit /\ [][HealthNext]_healthVars

(* Time passes, every fetch ends, and as long as the frontier has URLs of  *)
(* the host some worker keeps asking.                                      *)
HealthFairSpec == /\ HealthSpec
                  /\ WF_healthVars(Tick)
                  /\ \A w \in Workers : /\ WF_healthVars(Record(w))
                                        /\ WF_healthVars(Ask(w))
-----------------------------------------------------------------------------
(* Correctness.                                                            *)

(* The three states and the failure counter agree whatever late responses  *)
(* arrive: closed below the threshold with a fresh cooldown, open at or    *)
(* past it, and half open exactly one failure short of it with the cooldown*)
(* over, so that one more blocked response reopens the circuit.            *)
BreakerConsistent ==
  /\ circuit = "Closed" => /\ consecutive < Threshold
                           /\ remaining = 0 /\ cooldown = BaseCooldown
  /\ circuit = "Open" => consecutive >= Threshold
  /\ circuit = "HalfOpen" => consecutive = Threshold - 1 /\ remaining = 0

(* The circuit is closed if and only if the host has not yet answered      *)
(* Threshold times in a row (noise aside) with a block, however requests   *)
(* overlap: no host is given up early, and none is missed.  A half-open one*)
(* is a single block away from opening again, however far late blocks had  *)
(* pushed the count.                                                       *)
OpenMeansBlocked ==
  /\ (circuit = "Closed") <=> (streak < Threshold)
  /\ circuit = "HalfOpen" => consecutive + 1 = Threshold

(* The failure counter runs past the threshold by the requests that were   *)
(* already in flight, and by no more: it cannot creep up over a long crawl.*)
OvershootBounded ==
  consecutive + Cardinality(inflight) <= Threshold - 1 + Cardinality(Workers)

(* While the circuit stays open, a late block may lengthen the cooldown;   *)
(* nothing but the passing of time shortens it.                            *)
CooldownNeverShortened ==
  [][(circuit = "Open" /\ circuit' = "Open") => remaining' >= remaining - 1]_healthVars

(* A host is not written off: an open circuit is eventually tried again.   *)
Recovers == (circuit = "Open") ~> (circuit # "Open")
=============================================================================
