------------------------------ MODULE Fetcher -------------------------------
(***************************************************************************)
(* fetcher.rs: the calls of fetch by concurrent workers that share one     *)
(* HttpFetcher.  A call repeats fetch_once while the outcome is transient  *)
(* and retries are left.  The proxy pool keeps two atomics, each access to *)
(* them a step; without proxies there is a single client.  The server, the *)
(* network and the sizes of chunks are the environment's.                  *)
(***************************************************************************)
EXTENDS Integers, FiniteSets

CONSTANTS Workers,
          MaxRetries,
          Pools,        \* pool sizes to explore; 0 for ClientSet::Single
          RotateAfter,  \* rotate_after, already at least 1
          Limit         \* max_response_bytes, in chunks of the smallest size

ASSUME FetchAssumption ==
  /\ IsFiniteSet(Workers)
  /\ MaxRetries \in Nat /\ Limit \in Nat
  /\ Pools \subseteq Nat /\ RotateAfter \in Nat \ {0}

VARIABLES refused,   \* the SSRF guard is on and the host is a blocked address
          proxies,   \* how many clients the pool has
          current, used,
          stage, attempt, outcome,
          proxy,     \* the client select returned
          buf,       \* length of the body read so far
          picks      \* history: selections since current last moved

config == <<refused, proxies>>
poolVars == <<current, used, picks>>
callVars == <<stage, attempt, outcome, proxy, buf>>
fetchVars == <<config, poolVars, callVars>>

(* Statuses by what the code tells apart, and errors by whether they are   *)
(* transient (timeout, connect, body, request) or final.                   *)
Statuses == {"2xx", "3xx", "403", "429", "4xx", "5xx"}
Errors == {"transient", "final", "too large", "policy"}
Retryable(result) == result \in {"429", "5xx", "transient"}

Pooled == proxies > 0
Clients == IF Pooled THEN proxies ELSE 1

FetchTypeOK ==
  /\ refused \in BOOLEAN /\ proxies \in Pools
  /\ current \in Nat /\ current < Clients
  /\ used \in Nat /\ picks \in Nat
  /\ stage \in [Workers -> {"idle", "try", "count", "reset", "advance", "flight",
                            "body", "mark", "markAdvance", "asleep", "done"}]
  /\ attempt \in [Workers -> 0..MaxRetries]
  /\ outcome \in [Workers -> Statuses \cup Errors \cup {"none"}]
  /\ proxy \in [Workers -> 0..Clients - 1]
  /\ buf \in [Workers -> 0..Limit]

FetchInit ==
  /\ refused \in BOOLEAN /\ proxies \in Pools
  /\ current = 0 /\ used = 0 /\ picks = 0
  /\ stage = [w \in Workers |-> "idle"]
  /\ attempt = [w \in Workers |-> 0]
  /\ outcome = [w \in Workers |-> "none"]
  /\ proxy = [w \in Workers |-> 0]
  /\ buf = [w \in Workers |-> 0]
-----------------------------------------------------------------------------
At(w, here, there) == stage[w] = here /\ stage' = [stage EXCEPT ![w] = there]

Begin(w) == /\ At(w, "idle", "try")
            /\ UNCHANGED <<config, poolVars, attempt, outcome, proxy, buf>>

(* What fetch does with the result of one fetch_once.                      *)
RetriesLeft(w) == attempt[w] < MaxRetries

Attempted(w, counted) == attempt' = [attempt EXCEPT ![w] = counted]

EndAttempt(w, here, result) ==
  /\ outcome' = [outcome EXCEPT ![w] = result]
  /\ buf' = [buf EXCEPT ![w] = 0]
  /\ proxy' = [proxy EXCEPT ![w] = 0]
  /\ At(w, here, IF RetriesLeft(w) /\ Retryable(result) THEN "mark" ELSE "done")
  /\ UNCHANGED <<config, poolVars, attempt>>

(* An address the guard blocks is refused before any client is asked.      *)
Refuse(w) == refused /\ EndAttempt(w, "try", "policy")

SelectSingle(w) == /\ ~refused /\ ~Pooled
                   /\ At(w, "try", "flight")
                   /\ UNCHANGED <<config, poolVars, attempt, outcome, proxy, buf>>

(* ProxyPool::select.                                                      *)
LoadIndex(w) ==
  /\ ~refused /\ Pooled
  /\ At(w, "try", "count")
  /\ proxy' = [proxy EXCEPT ![w] = current]
  /\ picks' = picks + 1
  /\ UNCHANGED <<config, current, used, attempt, outcome, buf>>

CountUseFrom(w, full) ==
  /\ At(w, "count", IF used + 1 >= full THEN "reset" ELSE "flight")
  /\ used' = used + 1
  /\ UNCHANGED <<config, current, picks, attempt, outcome, proxy, buf>>

(* Bug variant: the proxy is left one request late.                        *)
CountUseLate(w) == CountUseFrom(w, RotateAfter + 1)

CountUse(w) == CountUseFrom(w, RotateAfter)

ResetUse(w, here, there) == /\ At(w, here, there)
                            /\ used' = 0
                            /\ UNCHANGED <<current, picks>>

MoveOn(w, here, there) == /\ At(w, here, there)
                          /\ current' = (current + 1) % Clients
                          /\ picks' = 0
                          /\ UNCHANGED used

Select(w) == \/ SelectSingle(w) \/ LoadIndex(w) \/ CountUse(w)
             \/ /\ ResetUse(w, "reset", "advance") \/ MoveOn(w, "advance", "flight")
                /\ UNCHANGED <<config, attempt, outcome, proxy, buf>>

Fail(w) == \E here \in {"flight", "body"}, error \in {"transient", "final"} :
             EndAttempt(w, here, error)

(* The head of the answer: a declared length over the limit ends it.       *)
DeclaredTooLarge(w) == EndAttempt(w, "flight", "too large")

Head(w) == \E status \in Statuses :
  /\ At(w, "flight", "body")
  /\ outcome' = [outcome EXCEPT ![w] = status]
  /\ UNCHANGED <<config, poolVars, attempt, proxy, buf>>

(* read_body_capped, whatever length was declared.                         *)
ReadChunk(w) == \E n \in 1..Limit + 1 :
  \/ /\ buf[w] + n > Limit
     /\ EndAttempt(w, "body", "too large")
  \/ /\ buf[w] + n <= Limit
     /\ At(w, "body", "body")
     /\ buf' = [buf EXCEPT ![w] = @ + n]
     /\ UNCHANGED <<config, poolVars, attempt, outcome, proxy>>

EndBody(w) == EndAttempt(w, "body", outcome[w])

(* mark_failure of the pool, then the sleep until the next attempt.        *)
MarkFailureWith(w, counted) ==
  /\ \/ Pooled /\ ResetUse(w, "mark", "markAdvance") /\ UNCHANGED attempt
     \/ Pooled /\ MoveOn(w, "markAdvance", "asleep") /\ Attempted(w, counted)
     \/ ~Pooled /\ At(w, "mark", "asleep") /\ Attempted(w, counted) /\ UNCHANGED poolVars
  /\ UNCHANGED <<config, outcome, proxy, buf>>

(* Bug variant: the attempt is not counted.                                *)
MarkFailureUncounted(w) == MarkFailureWith(w, attempt[w])

MarkFailure(w) == MarkFailureWith(w, attempt[w] + 1)

Wake(w) == At(w, "asleep", "try") /\ UNCHANGED <<config, poolVars, attempt, outcome, proxy, buf>>

(* The caller takes the result; the call's locals are gone.                *)
Return(w) == /\ At(w, "done", "idle")
             /\ attempt' = [attempt EXCEPT ![w] = 0]
             /\ outcome' = [outcome EXCEPT ![w] = "none"]
             /\ UNCHANGED <<config, poolVars, proxy, buf>>

Answer(w) == Fail(w) \/ DeclaredTooLarge(w) \/ Head(w) \/ ReadChunk(w) \/ EndBody(w)

FetchStep(w) == Refuse(w) \/ Select(w) \/ Answer(w) \/ MarkFailure(w) \/ Wake(w)
FetchNext == \E w \in Workers : Begin(w) \/ FetchStep(w) \/ Return(w)

(* The request timeout ends what the server does not, sleeps end, and the  *)
(* crawl never drops a fetch half-way.                                     *)
FetchSpec == /\ FetchInit /\ [][FetchNext]_fetchVars
             /\ \A w \in Workers : WF_fetchVars(FetchStep(w) \/ Return(w))
-----------------------------------------------------------------------------
(* Correctness.                                                            *)

(* The pool moves on: between two moves of the index at most               *)
(* Cardinality(Workers) * RotateAfter requests pick the same proxy, though *)
(* a late reset may erase the uses counted since; and the count stays near *)
(* the threshold however many workers count at once.                       *)
PoolMovesOn == /\ picks <= Cardinality(Workers) * RotateAfter
               /\ used < RotateAfter + Cardinality(Workers)

(* Every fetch ends, however the attempts fail and whoever rotates the     *)
(* pool meanwhile.                                                         *)
FetchEnds == \A w \in Workers : stage[w] # "idle" ~> stage[w] = "idle"
=============================================================================
