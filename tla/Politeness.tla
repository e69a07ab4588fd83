----------------------------- MODULE Politeness -----------------------------
(***************************************************************************)
(* politeness.rs: the calls of wait_for_slot for one host (every map is    *)
(* keyed by host).  A caller reads the clock, reserves an instant under    *)
(* the map entry's lock, and sleeps until it: first for the minimum delay, *)
(* then for a token of the bucket.  The clock is read before the lock is   *)
(* taken, so it may be stale when it is used, and a sleep may end late; a  *)
(* caller falls at most Lateness behind the instant it is entitled to.     *)
(***************************************************************************)
EXTENDS Integers, Sequences, FiniteSets

CONSTANTS Workers,
          Delays, Intervals, Bursts,  \* the configured values; 0 is "no limit"
          Lateness,                   \* how far a caller falls behind
          MaxCalls, MaxTime           \* bounds on calls and clock, for TLC

ASSUME PolitenessAssumption ==
  /\ IsFiniteSet(Workers)
  /\ Delays \subseteq Nat /\ Intervals \subseteq Nat /\ Bursts \subseteq Nat
  /\ Lateness \in Nat /\ MaxCalls \in Nat /\ MaxTime \in Nat

VARIABLES delay, interval, burst,  \* the manager's fields
          now,
          last_request,    \* the host's entry: the last delay slot given away
          next_available,  \* the host's bucket
          pc,
          at,       \* the clock as the caller read it
          until,    \* when its sleep ends
          ready,    \* history: the instant it is entitled to
          tokens,   \* history: tokens in the order taken, [at, slot]
          holds,    \* history: the number of the caller's token
          sent      \* history: requests in the order sent, [time, token]

config == <<delay, interval, burst>>
history == <<tokens, holds, sent>>
vars == <<config, now, last_request, next_available, pc, at, until, ready, history>>

Stages == {"idle", "reserve", "delayed", "paced", "token", "queued", "go"}

(* A token taken (history): the clock reading it was asked for with, and   *)
(* the instant it is for.                                                  *)
Token == [at : Int, slot : Int]

PolitenessTypeOK ==
  /\ delay \in Nat /\ interval \in Nat /\ burst \in Nat \ {0}
  /\ now \in Nat /\ last_request \in Int /\ next_available \in Int
  /\ pc \in [Workers -> Stages]
  /\ at \in [Workers -> Int] /\ until \in [Workers -> Int] /\ ready \in [Workers -> Int]
  /\ tokens \in Seq(Token)
  /\ holds \in [Workers -> Nat]
  /\ sent \in Seq([time : Int, token : Nat])

Later(x, y) == IF x >= y THEN x ELSE y

(* The lag of a full bucket: burst tokens may be taken at once.            *)
Credit == interval * (burst - 1)

Clamped(b) == Later(b, 1)

(* with_rate_limit.  The entries or_insert creates on a first call give    *)
(* that call the slot these initial values give it.                        *)
Init ==
  /\ delay \in Delays /\ interval \in Intervals
  /\ burst \in {Clamped(b) : b \in Bursts}
  /\ now = 0
  /\ last_request = -delay
  /\ next_available = -Credit
  /\ pc = [w \in Workers |-> "idle"]
  /\ at = [w \in Workers |-> 0] /\ until = at /\ ready = at
  /\ tokens = <<>> /\ holds = [w \in Workers |-> 0] /\ sent = <<>>
-----------------------------------------------------------------------------
Move(w, from, to) == pc[w] = from /\ pc' = [pc EXCEPT ![w] = to]

Callers == {w \in Workers : pc[w] # "idle"}

(* wait_for_slot is called: the first clock read, if there is a delay.     *)
Call(w) ==
  /\ Len(sent) + Cardinality(Callers) < MaxCalls
  /\ Move(w, "idle", IF delay > 0 THEN "reserve" ELSE "paced")
  /\ at' = [at EXCEPT ![w] = now]
  /\ ready' = [ready EXCEPT ![w] = now]
  /\ UNCHANGED <<config, now, last_request, next_available, until, history>>

(* Sleeps for what is left from the clock as it was read to the slot.      *)
SleepUntil(w, slot, stage, asleep, awake) ==
  IF slot > at[w]
  THEN /\ Move(w, stage, asleep)
       /\ until' = [until EXCEPT ![w] = now + slot - at[w]]
       /\ ready' = [ready EXCEPT ![w] = Later(ready[w], slot)]
  ELSE Move(w, stage, awake) /\ UNCHANGED <<until, ready>>

ReserveAt(w, slot, entry) ==
  /\ SleepUntil(w, slot, "reserve", "delayed", "paced")
  /\ last_request' = entry
  /\ UNCHANGED <<config, now, next_available, at, history>>

DelaySlot(w) == Later(last_request + delay, at[w])

(* Bug variants: the entry keeps the clock instead of the slot given away; *)
(* it keeps the slot after that.                                           *)
ReserveClock(w) == ReserveAt(w, DelaySlot(w), at[w])
ReserveTwice(w) == ReserveAt(w, DelaySlot(w), DelaySlot(w) + delay)

Reserve(w) == ReserveAt(w, DelaySlot(w), DelaySlot(w))

WakeFrom(w, stage, next) ==
  /\ now >= until[w]
  /\ Move(w, stage, next)
  /\ UNCHANGED <<config, now, last_request, next_available, at, until, ready, history>>

WakeDelayed(w) == WakeFrom(w, "delayed", "paced")

(* Without a rate the call returns here; else the clock is read again.     *)
ReadRateClock(w) ==
  /\ Move(w, "paced", IF interval > 0 THEN "token" ELSE "go")
  /\ at' = [at EXCEPT ![w] = now]
  /\ UNCHANGED <<config, now, last_request, next_available, until, ready, history>>

(* Bug variant: an idle bucket is never moved up.                          *)
TokenSlotUncapped(clock) == next_available

(* TokenBucket::reserve.  A bucket idle for longer than its credit is      *)
(* moved up, so that it never holds more than burst tokens.                *)
TokenSlot(clock) ==
  IF clock - next_available > Credit THEN clock - Credit ELSE next_available

TakeToken(w) ==
  LET slot == TokenSlot(at[w]) IN
  /\ SleepUntil(w, slot, "token", "queued", "go")
  /\ next_available' = slot + interval
  /\ tokens' = Append(tokens, [at |-> at[w], slot |-> slot])
  /\ holds' = [holds EXCEPT ![w] = Len(tokens) + 1]
  /\ UNCHANGED <<config, now, last_request, at, sent>>

WakeQueued(w) == WakeFrom(w, "queued", "go")

(* The call has returned, and the request leaves.                          *)
Send(w) ==
  /\ Move(w, "go", "idle")
  /\ sent' = Append(sent, [time |-> now, token |-> holds[w]])
  /\ UNCHANGED <<config, now, last_request, next_available, at, until, ready, tokens, holds>>

Tick == /\ now < MaxTime
        /\ \A w \in Callers : now < ready[w] + Lateness
        /\ now' = now + 1
        /\ UNCHANGED <<config, last_request, next_available, pc, at, until, ready, history>>

WaitForSlot(w) == \/ Call(w) \/ Reserve(w) \/ WakeDelayed(w)
                  \/ ReadRateClock(w) \/ TakeToken(w) \/ WakeQueued(w)

Next == Tick \/ \E w \in Workers : WaitForSlot(w) \/ Send(w)

Spec == Init /\ [][Next]_vars
-----------------------------------------------------------------------------
(* Correctness.                                                            *)

(* A rate faster than the delay leaves the tokens a late caller's lateness *)
(* behind, and the next caller waits for its token past its delay slot.    *)
TokenLag == IF interval >= delay THEN 0 ELSE Later(0, Lateness - (delay - interval))

(* Two requests leave at least the delay apart, less what a caller may have*)
(* fallen behind and what the token bucket shifts between the slot and the *)
(* request: stale clocks, races for the two locks and late wake-ups add    *)
(* nothing more.                                                           *)
SendsSpaced == \A i \in 2..Len(sent) :
  sent[i].time - sent[i - 1].time >= delay - Lateness - TokenLag

(* The rate: counted from any caller's reading of the clock, the request   *)
(* with the n-th token after its own waits n intervals less the burst,     *)
(* however idle the host was before and in whatever order clocks are read, *)
(* tokens taken and requests sent.                                         *)
RateBound == \A i \in 1..Len(sent) : \A k \in 1..sent[i].token :
  sent[i].time >= tokens[k].at + (sent[i].token - k - burst + 1) * interval

(* Nobody queues for longer than the callers before it explain: each       *)
(* instant given away and not yet used belongs to a caller still waiting.  *)
QueueIsShort ==
  /\ last_request <= now + delay * Cardinality({w \in Callers : ready[w] > now})
  /\ next_available <= now + interval * (1 + Cardinality({w \in Callers : ready[w] > now}))
=============================================================================
