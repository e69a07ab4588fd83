---------------------------- MODULE HostRequests ----------------------------
(***************************************************************************)
(* The requests the crawl loop (engine lib.rs) sends to one host: for each *)
(* URL a worker asks the circuit breaker, then robots.txt, takes one of    *)
(* the host's permits, fetches the page, reports its status, and gives the *)
(* permit back.  The breaker, the robots cache and the fetcher are the     *)
(* modules of those names; robots.txt goes through the same fetcher but    *)
(* under no permit.  The frontier and the budget are in Crawl.             *)
(***************************************************************************)
EXTENDS Robots

CONSTANTS Threshold, BaseCooldown, MaxCooldown,
          PerHost  \* per_host_concurrency

VARIABLES circuit, consecutive, remaining, cooldown, inflight, streak,
          respect,  \* respect_robots
          pc,
          late,     \* history: each worker's requests since the circuit opened
          strays    \* history: each worker's pages since robots.txt forbids them

B == INSTANCE Health

ASSUME HostAssumption == B!HealthConstants /\ PerHost \in Nat \ {0}

healthVars == <<circuit, consecutive, remaining, cooldown, inflight, streak>>

hostVars == <<healthVars, fetchVars, robotsVars, respect, pc, late, strays>>

NoneLate == [w \in Workers |-> 0]
NoStrays == [w \in Workers |-> 0]

Holders == {w \in Workers : pc[w] \in {"page", "finish"}}

HostTypeOK == /\ B!HealthTypeOK /\ FetchTypeOK /\ RobotsTypeOK
              /\ respect \in BOOLEAN
              /\ pc \in [Workers -> {"idle", "robots", "rules", "permit", "page", "finish"}]
              /\ Cardinality(Holders) <= PerHost
              /\ late \in [Workers -> Nat] /\ strays \in [Workers -> Nat]

HostInit == /\ B!HealthInit /\ FetchInit /\ RobotsInit
            /\ respect \in BOOLEAN
            /\ pc = [w \in Workers |-> "idle"]
            /\ late = NoneLate /\ strays = NoStrays
-----------------------------------------------------------------------------
Go(w, from, to) == pc[w] = from /\ pc' = [pc EXCEPT ![w] = to]

KeepHealth == UNCHANGED healthVars
KeepFetch == UNCHANGED fetchVars
KeepRobots == UNCHANGED robotsVars

(* The breaker is asked; a URL it turns down is skipped.                   *)
AskBreaker(w) ==
  /\ \/ /\ B!AskClosedOrHalfOpen(w) \/ B!AskAfterCooldown(w)
        /\ Go(w, "idle", IF respect THEN "robots" ELSE "permit")
     \/ B!AskOpen(w) /\ pc[w] = "idle" /\ UNCHANGED pc
  /\ late' = IF circuit' = "Open" THEN late ELSE NoneLate
  /\ KeepFetch /\ KeepRobots /\ UNCHANGED <<respect, strays>>

(* A page robots.txt forbids is skipped: the breaker hears nothing of it.  *)
Judged(w, from, allowed) ==
  IF allowed THEN Go(w, from, "permit") /\ KeepHealth
             ELSE Go(w, from, "idle") /\ B!RecordNoise(w)

RobotsHit(w) == /\ \E allowed \in BOOLEAN : Hit(allowed) /\ Judged(w, "robots", allowed)
                /\ KeepFetch /\ UNCHANGED <<respect, late, strays>>

RobotsMiss(w) == /\ Go(w, "robots", "rules")
                 /\ Miss(w) /\ Begin(w)
                 /\ KeepHealth /\ UNCHANGED <<respect, late, strays>>

RobotsInsert(w) ==
  /\ Return(w)
  /\ \E allowed \in BOOLEAN : Insert(outcome[w], allowed) /\ Judged(w, "rules", allowed)
  /\ strays' = IF Forbidding' THEN strays ELSE NoStrays
  /\ UNCHANGED <<respect, late>>

(* The semaphore of the host is fair; a politeness slot is any wait.       *)
AcquireHost(w) == /\ Cardinality(Holders) < PerHost
                  /\ Go(w, "permit", "page")
                  /\ Begin(w)
                  /\ strays' = IF Forbidding THEN [strays EXCEPT ![w] = @ + 1] ELSE strays
                  /\ KeepHealth /\ KeepRobots /\ UNCHANGED <<respect, late>>

(* One step of a fetch, of robots.txt or of the page; a request is sent    *)
(* when the client was selected.                                           *)
Fetching(w) ==
  /\ FetchStep(w)
  /\ late' = IF stage[w] # "flight" /\ stage'[w] = "flight" /\ circuit = "Open"
             THEN [late EXCEPT ![w] = @ + 1] ELSE late
  /\ KeepHealth /\ KeepRobots /\ UNCHANGED <<respect, pc, strays>>

(* record_response, for a fetch that brought a response.                   *)
Report(w) ==
  /\ Go(w, "page", "finish")
  /\ Return(w)
  /\ CASE outcome[w] \in {"2xx", "3xx"}        -> B!RecordSuccess(w)
       [] outcome[w] \in {"403", "429", "5xx"} -> B!RecordBlocked(w)
       [] OTHER                                -> B!RecordNoise(w)
  /\ late' = IF circuit = "Open" /\ circuit' = "Open" THEN late ELSE NoneLate
  /\ KeepRobots /\ UNCHANGED <<respect, strays>>

Finish(w) == /\ Go(w, "finish", "idle")
             /\ KeepHealth /\ KeepFetch /\ KeepRobots /\ UNCHANGED <<respect, late, strays>>

Cooldown == B!Tick /\ KeepFetch /\ KeepRobots /\ UNCHANGED <<respect, pc, late, strays>>

RobotsExpire == /\ Expire
                /\ strays' = NoStrays
                /\ KeepHealth /\ KeepFetch /\ UNCHANGED <<respect, pc, late>>

Step(w) == \/ RobotsHit(w) \/ RobotsMiss(w) \/ RobotsInsert(w)
           \/ Fetching(w) \/ Report(w) \/ Finish(w)

HostNext == \/ Cooldown \/ RobotsExpire
            \/ \E w \in Workers : AskBreaker(w) \/ AcquireHost(w) \/ Step(w)

HostSpec == HostInit /\ [][HostNext]_hostVars
-----------------------------------------------------------------------------
(* Correctness.                                                            *)

(* A host that blocks the crawl is left alone: once its circuit is open    *)
(* each worker finishes at most what it had begun, one page and one        *)
(* robots.txt with their retries, however long it waited for a permit, and *)
(* the one that opened the circuit sends nothing.                          *)
OpenHostLeftAlone ==
  /\ \A w \in Workers : late[w] <= 2 * (MaxRetries + 1)
  /\ circuit = "Open" => \E w \in Workers : late[w] = 0

(* A robots.txt that forbids the page, or that could not be had, is obeyed *)
(* however late it comes: until the entry expires or a later answer lifts  *)
(* it, each worker begins at most the page it was let through to before,   *)
(* and some worker, the one that was told, none.  Of a file that came but  *)
(* cannot be parsed this says nothing: the code takes it for permission.   *)
ForbiddenLeftAlone ==
  /\ \A w \in Workers : strays[w] <= 1
  /\ Forbidding => \E w \in Workers : strays[w] = 0

=============================================================================
