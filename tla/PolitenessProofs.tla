-------------------------- MODULE PolitenessProofs --------------------------
(***************************************************************************)
(* The token bucket keeps its rate, requests keep their distance, and the  *)
(* queue for slots is no longer than those who wait in it: for any delay,  *)
(* interval and burst, any number of callers, any lateness and any order   *)
(* of their steps.                                                         *)
(***************************************************************************)
EXTENDS Politeness, FiniteSetTheorems, TLAPS

(* The tokens as a sequence of reservations: each lies an interval after   *)
(* the one before, the next free instant an interval after the last, and   *)
(* none further before its caller's clock than the credit.                 *)
BucketInv ==
  /\ \A k \in 1..Len(tokens) : tokens[k].slot >= tokens[k].at - Credit
  /\ \A k \in 1..Len(tokens) : \A l \in k..Len(tokens) :
       tokens[l].slot >= tokens[k].slot + (l - k) * interval
  /\ \A k \in 1..Len(tokens) :
       next_available >= tokens[k].slot + (Len(tokens) + 1 - k) * interval

(* A caller uses a clock of the past, and leaves its token's queue, and    *)
(* sends its request, no earlier than the token says.                      *)
CallersInv ==
  /\ \A w \in Workers : at[w] <= now
  /\ \A w \in Workers : holds[w] <= Len(tokens)
  /\ \A w \in Workers : pc[w] = "queued" =>
       holds[w] > 0 /\ until[w] >= tokens[holds[w]].slot
  /\ \A w \in Workers : pc[w] # "queued" /\ holds[w] > 0 =>
       now >= tokens[holds[w]].slot
  /\ \A i \in 1..Len(sent) : sent[i].token <= Len(tokens)
  /\ \A i \in 1..Len(sent) : sent[i].token > 0 =>
       sent[i].time >= tokens[sent[i].token].slot

PolitenessInv == PolitenessTypeOK /\ BucketInv /\ CallersInv

(* The credit is a length of time.                                         *)
LEMMA CreditType ==
  ASSUME PolitenessTypeOK PROVE Credit \in Nat
BY DEF PolitenessTypeOK, Credit

(* The instants of the tokens.                                             *)
LEMMA TokenTypes ==
  ASSUME PolitenessTypeOK
  PROVE  /\ Len(tokens) \in Nat
         /\ \A k \in 1..Len(tokens) : tokens[k].at \in Int /\ tokens[k].slot \in Int
<1>1. tokens \in Seq(Token)
  BY DEF PolitenessTypeOK
<1>2. \A k \in 1..Len(tokens) : tokens[k] \in Token
  BY <1>1
<1> QED BY <1>1, <1>2 DEF Token

LEMMA SentTypes ==
  ASSUME PolitenessTypeOK
  PROVE  /\ Len(sent) \in Nat
         /\ \A i \in 1..Len(sent) : sent[i].time \in Int /\ sent[i].token \in Nat
<1> DEFINE Request == [time : Int, token : Nat]
<1>1. \A r \in Request : r.time \in Int /\ r.token \in Nat
  OBVIOUS
<1>2. sent \in Seq(Request)
  BY DEF PolitenessTypeOK
<1> HIDE DEF Request
<1>3. Len(sent) \in Nat /\ \A i \in 1..Len(sent) : sent[i] \in Request
  BY <1>2
<1> QED BY <1>1, <1>3

(* What falling asleep, or not, leaves behind.                             *)
LEMMA SleepTypes ==
  ASSUME PolitenessTypeOK, NEW w \in Workers, NEW slot \in Int,
         NEW stage, NEW asleep \in Stages, NEW awake \in Stages,
         SleepUntil(w, slot, stage, asleep, awake)
  PROVE  /\ pc' \in [Workers -> Stages]
         /\ until' \in [Workers -> Int] /\ ready' \in [Workers -> Int]
<1>1. /\ pc \in [Workers -> Stages] /\ at \in [Workers -> Int] /\ now \in Nat
      /\ until \in [Workers -> Int] /\ ready \in [Workers -> Int]
  BY DEF PolitenessTypeOK
<1>2. now + slot - at[w] \in Int /\ Later(ready[w], slot) \in Int
  BY <1>1 DEF Later
<1>3. CASE slot > at[w]
  BY <1>1, <1>2, <1>3 DEF SleepUntil, Move
<1>4. CASE ~(slot > at[w])
  BY <1>1, <1>4 DEF SleepUntil, Move
<1> QED BY <1>3, <1>4

LEMMA PolitenessInitInv == Init => PolitenessInv
<1> SUFFICES ASSUME Init PROVE PolitenessInv
  OBVIOUS
<1>1. delay \in Nat /\ interval \in Nat
  BY PolitenessAssumption DEF Init
<1>2. burst \in Nat \ {0}
  <2>1. PICK b \in Bursts : burst = Clamped(b)
    BY DEF Init
  <2> QED BY <2>1, PolitenessAssumption DEF Clamped, Later
<1>3. /\ now = 0 /\ last_request = -delay /\ next_available = -Credit
      /\ pc = [w \in Workers |-> "idle"]
      /\ at = [w \in Workers |-> 0] /\ until = at /\ ready = at
      /\ tokens = <<>> /\ holds = [w \in Workers |-> 0] /\ sent = <<>>
  BY DEF Init
<1>4. Credit \in Int
  BY <1>1, <1>2 DEF Credit
<1>5. PolitenessTypeOK
  BY <1>1, <1>2, <1>3, <1>4 DEF PolitenessTypeOK, Stages
<1> QED BY <1>3, <1>5 DEF PolitenessInv, BucketInv, CallersInv

(* A step of one caller that takes no token and sends nothing, and does    *)
(* not touch a running sleep for a token, keeps the invariant.             *)
LEMMA QuietStep ==
  ASSUME PolitenessInv, NEW w \in Workers, PolitenessTypeOK',
         UNCHANGED <<config, now, next_available, history>>,
         at' = at \/ at' = [at EXCEPT ![w] = now],
         \E stage \in Stages : pc' = [pc EXCEPT ![w] = stage],
         pc'[w] # "queued",
         pc[w] # "queued" \/ now >= until[w],
         \A v \in Workers \ {w} : until'[v] = until[v]
  PROVE  PolitenessInv'
<1>1. /\ at \in [Workers -> Int] /\ pc \in [Workers -> Stages] /\ now \in Nat
      /\ holds \in [Workers -> Nat] /\ until \in [Workers -> Int]
      /\ tokens \in Seq(Token)
  BY DEF PolitenessInv, PolitenessTypeOK
<1>2. /\ delay' = delay /\ interval' = interval /\ burst' = burst /\ now' = now
      /\ tokens' = tokens /\ holds' = holds /\ sent' = sent
      /\ next_available' = next_available
  BY DEF config, history
<1>3. BucketInv'
  BY <1>2 DEF PolitenessInv, BucketInv, Credit
<1>4. \A v \in Workers : at'[v] <= now'
  <2>1. \A v \in Workers : at[v] <= now
    BY DEF PolitenessInv, CallersInv
  <2>2. \A v \in Workers : at'[v] = at[v] \/ at'[v] = now
    BY <1>1
  <2> QED BY <1>1, <1>2, <2>1, <2>2
<1>5. \A v \in Workers \ {w} : pc'[v] = pc[v]
  BY <1>1
<1>6. ASSUME NEW v \in Workers, pc'[v] = "queued"
      PROVE  holds'[v] > 0 /\ until'[v] >= tokens'[holds'[v]].slot
  BY <1>2, <1>5, <1>6 DEF PolitenessInv, CallersInv
<1>7. ASSUME NEW v \in Workers, pc'[v] # "queued", holds'[v] > 0
      PROVE  now' >= tokens'[holds'[v]].slot
  <2>1. CASE pc[v] # "queued"
    BY <1>2, <1>7, <2>1 DEF PolitenessInv, CallersInv
  <2>2. CASE pc[v] = "queued"
    <3>1. v = w /\ now >= until[v]
      BY <1>5, <1>7, <2>2
    <3>2. until[v] >= tokens[holds[v]].slot /\ holds[v] \in 1..Len(tokens)
      BY <2>2, <1>1 DEF PolitenessInv, CallersInv
    <3>3. tokens[holds[v]].slot \in Int /\ until[v] \in Int
      BY <3>2, <1>1, TokenTypes DEF PolitenessInv
    <3> QED BY <1>1, <1>2, <3>1, <3>2, <3>3
  <2> QED BY <2>1, <2>2
<1> QED BY <1>2, <1>3, <1>4, <1>6, <1>7 DEF PolitenessInv, CallersInv
-----------------------------------------------------------------------------
(* One step per action.                                                    *)

LEMMA CallInv == ASSUME NEW w \in Workers, PolitenessInv, Call(w) PROVE PolitenessInv'
<1>1. PolitenessTypeOK'
  BY DEF PolitenessInv, PolitenessTypeOK, Call, Move, config, history, Stages
<1>2. /\ \E stage \in Stages : pc' = [pc EXCEPT ![w] = stage]
      /\ pc'[w] # "queued" /\ pc[w] # "queued"
  BY DEF PolitenessInv, PolitenessTypeOK, Call, Move, Stages
<1> QED BY <1>1, <1>2, QuietStep DEF Call

LEMMA ReserveInv == ASSUME NEW w \in Workers, PolitenessInv, Reserve(w) PROVE PolitenessInv'
<1>1. DelaySlot(w) \in Int
  BY DEF PolitenessInv, PolitenessTypeOK, DelaySlot, Later
<1>2. PolitenessTypeOK'
  <2>1. /\ pc' \in [Workers -> Stages]
        /\ until' \in [Workers -> Int] /\ ready' \in [Workers -> Int]
    BY <1>1, SleepTypes DEF PolitenessInv, Reserve, ReserveAt, Stages
  <2> QED BY <1>1, <2>1 DEF PolitenessInv, PolitenessTypeOK, Reserve, ReserveAt, config, history
<1>3. /\ \E stage \in Stages : pc' = [pc EXCEPT ![w] = stage]
      /\ pc'[w] # "queued" /\ pc[w] # "queued"
      /\ \A v \in Workers \ {w} : until'[v] = until[v]
  BY DEF PolitenessInv, PolitenessTypeOK, Reserve, ReserveAt, SleepUntil, Move, Stages
<1> QED BY <1>2, <1>3, QuietStep DEF Reserve, ReserveAt

LEMMA WakeInv ==
  ASSUME NEW w \in Workers, PolitenessInv, WakeDelayed(w) \/ WakeQueued(w)
  PROVE  PolitenessInv'
<1>1. PolitenessTypeOK'
  BY DEF PolitenessInv, PolitenessTypeOK, WakeDelayed, WakeQueued, WakeFrom, Move,
         config, history, Stages
<1>2. /\ \E stage \in Stages : pc' = [pc EXCEPT ![w] = stage]
      /\ pc'[w] # "queued" /\ now >= until[w] /\ until' = until /\ at' = at
      /\ UNCHANGED <<config, now, next_available, history>>
  BY DEF PolitenessInv, PolitenessTypeOK, WakeDelayed, WakeQueued, WakeFrom, Move, Stages
<1> QED BY <1>1, <1>2, QuietStep

LEMMA ReadRateClockInv ==
  ASSUME NEW w \in Workers, PolitenessInv, ReadRateClock(w) PROVE PolitenessInv'
<1>1. PolitenessTypeOK'
  BY DEF PolitenessInv, PolitenessTypeOK, ReadRateClock, Move, config, history, Stages
<1>2. /\ \E stage \in Stages : pc' = [pc EXCEPT ![w] = stage]
      /\ pc'[w] # "queued" /\ pc[w] # "queued"
  BY DEF PolitenessInv, PolitenessTypeOK, ReadRateClock, Move, Stages
<1> QED BY <1>1, <1>2, QuietStep DEF ReadRateClock

(* The slot given away is the next free one, or later, and the bucket's    *)
(* credit before the caller's clock at the earliest.                       *)
LEMMA TokenSlotFacts ==
  ASSUME PolitenessTypeOK, NEW clock \in Int
  PROVE  /\ TokenSlot(clock) \in Int
         /\ TokenSlot(clock) >= next_available
         /\ TokenSlot(clock) >= clock - Credit
BY CreditType DEF TokenSlot, PolitenessTypeOK

LEMMA TakeTokenInv == ASSUME NEW w \in Workers, PolitenessInv, TakeToken(w) PROVE PolitenessInv'
<1> DEFINE n == Len(tokens)
           slot == TokenSlot(at[w])
           token == [at |-> at[w], slot |-> slot]
<1>1. /\ PolitenessTypeOK /\ at[w] \in Int /\ now \in Nat /\ interval \in Nat
      /\ at \in [Workers -> Int] /\ pc \in [Workers -> Stages] /\ holds \in [Workers -> Nat]
      /\ until \in [Workers -> Int] /\ tokens \in Seq(Token) /\ next_available \in Int
  BY DEF PolitenessInv, PolitenessTypeOK
<1>2. slot \in Int /\ slot >= next_available /\ slot >= at[w] - Credit
  BY <1>1, TokenSlotFacts
<1>3. n \in Nat /\ \A k \in 1..n : tokens[k].at \in Int /\ tokens[k].slot \in Int
  BY <1>1, TokenTypes
<1>4. Credit \in Nat /\ Credit' = Credit
  BY <1>1, CreditType DEF Credit, TakeToken, config
<1>5. token \in Token
  BY <1>1, <1>2 DEF Token
<1>6. /\ next_available' = slot + interval /\ tokens' = Append(tokens, token)
      /\ holds' = [holds EXCEPT ![w] = n + 1]
      /\ interval' = interval /\ now' = now /\ at' = at /\ sent' = sent
      /\ SleepUntil(w, slot, "token", "queued", "go")
  BY DEF TakeToken, config
<1> HIDE DEF slot
<1>7. /\ tokens' \in Seq(Token) /\ Len(tokens') = n + 1
      /\ \A k \in 1..n : tokens'[k] = tokens[k]
      /\ tokens'[n + 1].slot = slot /\ tokens'[n + 1].at = at[w]
  BY <1>1, <1>5, <1>6
<1> HIDE DEF token
<1>8. PolitenessTypeOK'
  <2>1. pc' \in [Workers -> Stages] /\ until' \in [Workers -> Int] /\ ready' \in [Workers -> Int]
    BY <1>1, <1>2, <1>6, SleepTypes DEF Stages
  <2>2. holds' \in [Workers -> Nat] /\ next_available' \in Int
    BY <1>1, <1>2, <1>3, <1>6
  <2> QED BY <1>1, <1>6, <1>7, <2>1, <2>2 DEF PolitenessTypeOK, TakeToken, config
<1>9. BucketInv'
  <2>1. \A k \in 1..n + 1 : tokens'[k].slot >= tokens'[k].at - Credit
    <3>1. \A k \in 1..n : tokens[k].slot >= tokens[k].at - Credit
      BY DEF PolitenessInv, BucketInv
    <3> QED BY <3>1, <1>2, <1>3, <1>7
  <2>2. ASSUME NEW k \in 1..n
        PROVE  slot >= tokens[k].slot + (n + 1 - k) * interval
    <3> DEFINE lead == (n + 1 - k) * interval
    <3>1. next_available >= tokens[k].slot + lead
      BY DEF PolitenessInv, BucketInv
    <3>2. lead \in Int
      BY <1>1, <1>3
    <3> SUFFICES slot >= tokens[k].slot + lead
      OBVIOUS
    <3> HIDE DEF lead
    <3> QED BY <1>1, <1>2, <1>3, <3>1, <3>2
  <2>3. ASSUME NEW k \in 1..n + 1, NEW l \in k..n + 1
        PROVE  tokens'[l].slot >= tokens'[k].slot + (l - k) * interval
    <3>1. CASE l \in 1..n
      <4>1. k \in 1..n /\ l \in k..n
        BY <3>1, <1>3
      <4>2. tokens[l].slot >= tokens[k].slot + (l - k) * interval
        BY <4>1 DEF PolitenessInv, BucketInv
      <4> QED BY <3>1, <4>1, <4>2, <1>7
    <3>2. CASE l = n + 1 /\ k \in 1..n
      BY <3>2, <2>2, <1>7
    <3>3. CASE l = n + 1 /\ k = n + 1
      <4>1. (l - k) * interval = 0
        BY <3>3, <1>1, <1>3
      <4> QED BY <3>3, <4>1, <1>2, <1>7
    <3> QED BY <3>1, <3>2, <3>3, <1>3
  <2>4. ASSUME NEW k \in 1..n + 1
        PROVE  slot + interval >= tokens'[k].slot + (n + 2 - k) * interval
    <3>1. CASE k = n + 1
      <4>1. (n + 2 - k) * interval = interval
        BY <3>1, <1>1, <1>3
      <4> QED BY <3>1, <4>1, <1>1, <1>2, <1>7
    <3>2. CASE k \in 1..n
      <4>1. (n + 2 - k) * interval = (n + 1 - k) * interval + interval
        BY <3>2, <1>1, <1>3
      <4>2. (n + 1 - k) * interval \in Int /\ tokens[k].slot \in Int
        BY <3>2, <1>1, <1>3
      <4>3. slot >= tokens[k].slot + (n + 1 - k) * interval
        BY <3>2, <2>2
      <4>4. tokens'[k] = tokens[k]
        BY <3>2, <1>7
      <4> DEFINE lead == (n + 1 - k) * interval
      <4>5. (n + 2 - k) * interval = lead + interval
        BY <4>1
      <4>6. lead \in Int /\ tokens[k].slot \in Int /\ slot >= tokens[k].slot + lead
        BY <4>2, <4>3, Zenon
      <4>7. interval \in Int /\ slot \in Int
        BY <1>1, <1>2
      <4> HIDE DEF lead
      <4>8. slot + interval >= tokens[k].slot + (lead + interval)
        BY <4>6, <4>7
      <4> QED BY <4>4, <4>5, <4>8, Zenon
    <3> QED BY <3>1, <3>2, <1>3
  <2>5. \A k \in 1..Len(tokens') : tokens'[k].slot >= tokens'[k].at - Credit'
    BY <2>1, <1>4, <1>7
  <2>6. \A k \in 1..Len(tokens') : \A l \in k..Len(tokens') :
          tokens'[l].slot >= tokens'[k].slot + (l - k) * interval'
    <3>1. Len(tokens') = n + 1 /\ interval' = interval
      BY <1>6, <1>7
    <3> QED BY <2>3, <3>1, Zenon
  <2>7. ASSUME NEW k \in 1..Len(tokens')
        PROVE  next_available' >= tokens'[k].slot + (Len(tokens') + 1 - k) * interval'
    <3>1. k \in 1..n + 1 /\ k \in Int /\ Len(tokens') + 1 - k = n + 2 - k
      BY <1>3, <1>7
    <3>2. interval' = interval /\ next_available' = slot + interval
      BY <1>6
    <3> QED BY <2>4, <3>1, <3>2, Zenon
  <2> QED BY <2>5, <2>6, <2>7, Zenon DEF BucketInv
<1>10. CallersInv'
  <2>1. \A v \in Workers : holds'[v] = (IF v = w THEN n + 1 ELSE holds[v]) /\ holds[v] <= n
    BY <1>1, <1>6 DEF PolitenessInv, CallersInv
  <2>2. \A v \in Workers \ {w} : pc'[v] = pc[v] /\ until'[v] = until[v]
    BY <1>1, <1>6 DEF SleepUntil, Move
  <2>3. \/ pc'[w] = "queued" /\ until'[w] >= slot
        \/ pc'[w] = "go" /\ now >= slot
    <3>1. at[w] <= now
      BY DEF PolitenessInv, CallersInv
    <3> QED BY <3>1, <1>1, <1>2, <1>6 DEF SleepUntil, Move
  <2>4. ASSUME NEW v \in Workers \ {w}, holds[v] > 0
        PROVE  tokens'[holds'[v]] = tokens[holds[v]]
    BY <2>1, <2>4, <1>1, <1>3, <1>7
  <2>5. \A v \in Workers : pc'[v] = "queued" =>
          holds'[v] > 0 /\ until'[v] >= tokens'[holds'[v]].slot
    BY <2>1, <2>2, <2>3, <2>4, <1>3, <1>7 DEF PolitenessInv, CallersInv
  <2>6. \A v \in Workers : pc'[v] # "queued" /\ holds'[v] > 0 =>
          now >= tokens'[holds'[v]].slot
    BY <2>1, <2>2, <2>3, <2>4, <1>3, <1>7 DEF PolitenessInv, CallersInv
  <2>7. \A i \in 1..Len(sent) : sent[i].token \in Nat
    BY <1>1, SentTypes
  <2>8. ASSUME NEW i \in 1..Len(sent)
        PROVE  /\ sent[i].token <= n + 1
               /\ sent[i].token > 0 => sent[i].time >= tokens'[sent[i].token].slot
    BY <2>7, <1>3, <1>7 DEF PolitenessInv, CallersInv
  <2>9. \A v \in Workers : holds'[v] <= n + 1
    <3>1. \A v \in Workers : holds[v] \in Nat
      BY <1>1
    <3> QED BY <2>1, <3>1, <1>3
  <2> QED BY <2>5, <2>6, <2>8, <2>9, <1>6, <1>7 DEF PolitenessInv, CallersInv
<1> QED BY <1>8, <1>9, <1>10 DEF PolitenessInv

LEMMA SendInv == ASSUME NEW w \in Workers, PolitenessInv, Send(w) PROVE PolitenessInv'
<1> DEFINE request == [time |-> now, token |-> holds[w]]
<1>1. /\ PolitenessTypeOK /\ now \in Nat /\ holds \in [Workers -> Nat]
      /\ pc \in [Workers -> Stages] /\ sent \in Seq([time : Int, token : Nat])
  BY DEF PolitenessInv, PolitenessTypeOK
<1>2. /\ pc[w] = "go" /\ pc' = [pc EXCEPT ![w] = "idle"]
      /\ sent' = Append(sent, request)
      /\ UNCHANGED <<config, now, last_request, next_available, at, until, ready, tokens, holds>>
  BY DEF Send, Move
<1>3. request \in [time : Int, token : Nat]
  BY <1>1
<1>4. /\ sent' \in Seq([time : Int, token : Nat]) /\ Len(sent') = Len(sent) + 1
      /\ Len(sent) \in Nat
      /\ \A i \in 1..Len(sent) : sent'[i] = sent[i]
      /\ sent'[Len(sent) + 1].time = now /\ sent'[Len(sent) + 1].token = holds[w]
  BY <1>1, <1>2, <1>3
<1> HIDE DEF request
<1>5. PolitenessTypeOK'
  BY <1>1, <1>2, <1>4 DEF PolitenessTypeOK, config, Stages
<1>6. BucketInv'
  BY <1>2 DEF PolitenessInv, BucketInv, Credit, config
<1>7. ASSUME NEW i \in 1..Len(sent) + 1
      PROVE  /\ sent'[i].token <= Len(tokens)
             /\ sent'[i].token > 0 => sent'[i].time >= tokens[sent'[i].token].slot
  <2>1. CASE i \in 1..Len(sent)
    BY <2>1, <1>4 DEF PolitenessInv, CallersInv
  <2>2. CASE i = Len(sent) + 1
    BY <2>2, <1>2, <1>4 DEF PolitenessInv, CallersInv
  <2> QED BY <2>1, <2>2, <1>4
<1>8. \A v \in Workers : pc'[v] = "queued" <=> pc[v] = "queued"
  BY <1>1, <1>2
<1> QED BY <1>2, <1>4, <1>5, <1>6, <1>7, <1>8 DEF PolitenessInv, CallersInv

LEMMA TickInv == PolitenessInv /\ Tick => PolitenessInv'
<1> SUFFICES ASSUME PolitenessInv, Tick PROVE PolitenessInv'
  OBVIOUS
<1>1. /\ now \in Nat /\ now' = now + 1
      /\ UNCHANGED <<delay, interval, burst, last_request, next_available, pc, at, until, ready,
                     tokens, holds, sent>>
  BY DEF PolitenessInv, PolitenessTypeOK, Tick, config, history
<1>2. PolitenessTypeOK' /\ BucketInv'
  <2>1. PolitenessTypeOK'
    BY <1>1 DEF PolitenessInv, PolitenessTypeOK
  <2>2. BucketInv'
    BY <1>1 DEF PolitenessInv, BucketInv, Credit
  <2> QED BY <2>1, <2>2
<1>3. \A x \in Int : now >= x => now' >= x
  BY <1>1
<1>4. \A w \in Workers : at'[w] <= now'
  BY <1>1 DEF PolitenessInv, PolitenessTypeOK, CallersInv
<1>5. ASSUME NEW w \in Workers, pc[w] # "queued", holds[w] > 0
      PROVE  now' >= tokens[holds[w]].slot
  <2>1. holds[w] \in 1..Len(tokens)
    BY <1>5, TokenTypes DEF PolitenessInv, PolitenessTypeOK, CallersInv
  <2>2. tokens[holds[w]].slot \in Int
    BY <2>1, TokenTypes DEF PolitenessInv
  <2> QED BY <1>3, <1>5, <2>2 DEF PolitenessInv, CallersInv
<1> QED BY <1>1, <1>2, <1>4, <1>5 DEF PolitenessInv, CallersInv

LEMMA PolitenessStepInv == PolitenessInv /\ [Next]_vars => PolitenessInv'
<1> SUFFICES ASSUME PolitenessInv, [Next]_vars PROVE PolitenessInv'
  OBVIOUS
<1>1. CASE UNCHANGED vars
  BY <1>1 DEF PolitenessInv, PolitenessTypeOK, BucketInv, CallersInv, Credit, vars, config, history
<1>2. CASE Tick
  BY <1>2, TickInv
<1>3. ASSUME NEW w \in Workers, WaitForSlot(w) \/ Send(w) PROVE PolitenessInv'
  BY <1>3, CallInv, ReserveInv, WakeInv, ReadRateClockInv, TakeTokenInv, SendInv DEF WaitForSlot
<1> QED BY <1>1, <1>2, <1>3 DEF Next

LEMMA PolitenessInvariance == Spec => []PolitenessInv
BY PolitenessInitInv, PolitenessStepInv, PTL DEF Spec

(* The host's entries, the callers and the two histories keep their types. *)
THEOREM PolitenessTypeCorrect == Spec => []PolitenessTypeOK
<1>1. PolitenessInv => PolitenessTypeOK
  BY DEF PolitenessInv
<1> QED BY <1>1, PolitenessInvariance, PTL

(* The rate the bucket of politeness.rs enforces: a request waits an       *)
(* interval for every token taken since any caller read its clock, less    *)
(* the burst, whatever the order in which callers take tokens and send.    *)
THEOREM RateHolds == Spec => []RateBound
<1>1. PolitenessInv => RateBound
  <2> SUFFICES ASSUME PolitenessInv, NEW i \in 1..Len(sent), NEW k \in 1..sent[i].token
               PROVE  sent[i].time >= tokens[k].at + (sent[i].token - k - burst + 1) * interval
    BY DEF RateBound
  <2> DEFINE l == sent[i].token
  <2>1. l \in Nat /\ sent[i].time \in Int
    BY SentTypes DEF PolitenessInv
  <2>2. l > 0 /\ k \in 1..Len(tokens) /\ l \in k..Len(tokens) /\ l \in 1..Len(tokens)
    BY <2>1, TokenTypes DEF PolitenessInv, CallersInv
  <2>3. sent[i].time >= tokens[l].slot
    BY <2>2 DEF PolitenessInv, CallersInv
  <2> HIDE DEF l
  <2>4. tokens[l].slot >= tokens[k].slot + (l - k) * interval
    BY <2>2 DEF PolitenessInv, BucketInv
  <2>5. tokens[k].slot >= tokens[k].at - interval * (burst - 1)
    BY <2>2 DEF PolitenessInv, BucketInv, Credit
  <2>6. interval \in Nat /\ burst \in Nat
    BY DEF PolitenessInv, PolitenessTypeOK
  <2>7. (l - k - burst + 1) * interval = (l - k) * interval - interval * (burst - 1)
    BY <2>1, <2>6
  <2>8. /\ (l - k) * interval \in Int /\ interval * (burst - 1) \in Int
        /\ tokens[k].at \in Int /\ tokens[k].slot \in Int /\ tokens[l].slot \in Int
    BY <2>1, <2>2, <2>6, TokenTypes DEF PolitenessInv
  <2> DEFINE time == sent[i].time
             first == tokens[k]
             last == tokens[l]
             apart == (l - k) * interval
             credit == interval * (burst - 1)
  <2>9. /\ time \in Int /\ last.slot \in Int /\ first.slot \in Int /\ first.at \in Int
        /\ apart \in Int /\ credit \in Int
        /\ time >= last.slot /\ last.slot >= first.slot + apart
        /\ first.slot >= first.at - credit
    BY <2>1, <2>3, <2>4, <2>5, <2>8
  <2>10. (l - k - burst + 1) * interval = apart - credit
    BY <2>7
  <2> HIDE DEF time, first, last, apart, credit
  <2>11. time >= first.at + (apart - credit)
    BY <2>9
  <2> QED BY <2>10, <2>11 DEF time, first, l
<1> QED BY <1>1, PolitenessInvariance, PTL
-----------------------------------------------------------------------------
(* Sleeps and entitlements.                                                *)

(* What a caller is entitled to at each stage, and that it falls no further*)
(* behind than Lateness.                                                   *)
TimesInv == \A w \in Workers :
  /\ pc[w] # "idle" => now <= ready[w] + Lateness
  /\ pc[w] = "reserve" => ready[w] = at[w]
  /\ pc[w] \in {"reserve", "paced", "token", "go"} => ready[w] <= now
  /\ pc[w] \in {"delayed", "queued"} => ready[w] <= until[w]

(* A sleep ends when the slot comes, and no wait at all if it has come.    *)
LEMMA SleepTimes ==
  ASSUME PolitenessInv, TimesInv, NEW w \in Workers, NEW slot \in Int,
         NEW stage \in {"reserve", "token"}, NEW asleep \in {"delayed", "queued"},
         NEW awake \in {"paced", "go"},
         SleepUntil(w, slot, stage, asleep, awake), now' = now, at' = at
  PROVE  /\ TimesInv'
         /\ \A v \in Workers \ {w} : pc'[v] = pc[v] /\ ready'[v] = ready[v]
         /\ pc[w] = stage /\ pc'[w] \in {asleep, awake}
         /\ ready'[w] = IF slot > at[w] THEN Later(ready[w], slot) ELSE ready[w]
         /\ ready'[w] >= ready[w]
<1>1. /\ now \in Nat /\ at \in [Workers -> Int] /\ until \in [Workers -> Int]
      /\ ready \in [Workers -> Int] /\ pc \in [Workers -> Stages] /\ Lateness \in Nat
      /\ at[w] <= now
  BY PolitenessAssumption DEF PolitenessInv, PolitenessTypeOK, CallersInv
<1>2. ready[w] <= now /\ now <= ready[w] + Lateness /\ pc[w] = stage
  BY DEF TimesInv, SleepUntil, Move
<1>3. CASE slot > at[w]
  <2>1. /\ pc' = [pc EXCEPT ![w] = asleep]
        /\ until' = [until EXCEPT ![w] = now + slot - at[w]]
        /\ ready' = [ready EXCEPT ![w] = Later(ready[w], slot)]
    BY <1>3 DEF SleepUntil, Move
  <2>2. /\ Later(ready[w], slot) >= ready[w]
        /\ Later(ready[w], slot) <= now + slot - at[w]
    BY <1>1, <1>2, <1>3 DEF Later
  <2>3. /\ pc'[w] = asleep /\ until'[w] = now + slot - at[w]
        /\ ready'[w] = Later(ready[w], slot) /\ ready'[w] \in Int
        /\ \A v \in Workers \ {w} :
             pc'[v] = pc[v] /\ until'[v] = until[v] /\ ready'[v] = ready[v]
    BY <1>1, <2>1 DEF Later
  <2> QED BY <1>1, <1>2, <1>3, <2>2, <2>3 DEF TimesInv
<1>4. CASE ~(slot > at[w])
  <2>1. pc' = [pc EXCEPT ![w] = awake] /\ until' = until /\ ready' = ready
    BY <1>4 DEF SleepUntil, Move
  <2> QED BY <1>1, <1>2, <1>4, <2>1 DEF TimesInv
<1> QED BY <1>3, <1>4

LEMMA TimesInitInv == Init => TimesInv
BY DEF Init, TimesInv

LEMMA TimesStepInv ==
  ASSUME PolitenessInv, TimesInv, [Next]_vars
  PROVE  TimesInv'
<1>1. /\ now \in Nat /\ at \in [Workers -> Int] /\ until \in [Workers -> Int]
      /\ ready \in [Workers -> Int] /\ pc \in [Workers -> Stages] /\ Lateness \in Nat
      /\ \A w \in Workers : at[w] <= now
  BY PolitenessAssumption DEF PolitenessInv, PolitenessTypeOK, CallersInv
<1>2. CASE UNCHANGED vars
  BY <1>2 DEF TimesInv, vars, config, history
<1>3. CASE Tick
  <2>1. /\ now' = now + 1 /\ pc' = pc /\ at' = at /\ until' = until /\ ready' = ready
        /\ \A w \in Workers : pc[w] # "idle" => now < ready[w] + Lateness
    BY <1>3 DEF Tick, Callers
  <2> QED BY <1>1, <2>1 DEF TimesInv
<1>4. ASSUME NEW w \in Workers, Call(w) PROVE TimesInv'
  <2>1. /\ now' = now /\ until' = until
        /\ at' = [at EXCEPT ![w] = now] /\ ready' = [ready EXCEPT ![w] = now]
        /\ \A v \in Workers \ {w} : pc'[v] = pc[v]
        /\ pc'[w] \in {"reserve", "paced"}
    BY <1>1, <1>4 DEF Call, Move
  <2> QED BY <1>1, <2>1 DEF TimesInv
<1>5. ASSUME NEW w \in Workers, Reserve(w) PROVE TimesInv'
  <2>1. DelaySlot(w) \in Int
    BY DEF PolitenessInv, PolitenessTypeOK, DelaySlot, Later
  <2> QED BY <1>5, <2>1, SleepTimes DEF Reserve, ReserveAt
<1>6. ASSUME NEW w \in Workers, WakeDelayed(w) \/ WakeQueued(w) PROVE TimesInv'
  <2>1. /\ now' = now /\ at' = at /\ until' = until /\ ready' = ready
        /\ now >= until[w] /\ pc[w] \in {"delayed", "queued"}
        /\ \A v \in Workers \ {w} : pc'[v] = pc[v]
        /\ pc'[w] \in {"paced", "go"}
    BY <1>1, <1>6 DEF WakeDelayed, WakeQueued, WakeFrom, Move
  <2> QED BY <1>1, <2>1 DEF TimesInv
<1>7. ASSUME NEW w \in Workers, ReadRateClock(w) PROVE TimesInv'
  <2>1. /\ now' = now /\ until' = until /\ ready' = ready
        /\ at' = [at EXCEPT ![w] = now]
        /\ \A v \in Workers \ {w} : pc'[v] = pc[v]
        /\ pc[w] = "paced" /\ pc'[w] \in {"token", "go"}
    BY <1>1, <1>7 DEF ReadRateClock, Move
  <2> QED BY <1>1, <2>1 DEF TimesInv
<1>8. ASSUME NEW w \in Workers, TakeToken(w) PROVE TimesInv'
  <2>1. TokenSlot(at[w]) \in Int
    BY <1>1, TokenSlotFacts DEF PolitenessInv
  <2> QED BY <1>8, <2>1, SleepTimes DEF TakeToken
<1>9. ASSUME NEW w \in Workers, Send(w) PROVE TimesInv'
  <2>1. /\ now' = now /\ at' = at /\ until' = until /\ ready' = ready
        /\ pc' = [pc EXCEPT ![w] = "idle"]
    BY <1>9 DEF Send, Move
  <2> QED BY <1>1, <2>1 DEF TimesInv
<1> QED BY <1>2, <1>3, <1>4, <1>5, <1>6, <1>7, <1>8, <1>9 DEF Next, WaitForSlot
-----------------------------------------------------------------------------
(* Spacing.  A caller holds its delay slot until it has its token; then it *)
(* is on its way out.                                                      *)

Pending == {"delayed", "paced", "token"}
Leaving == {"queued", "go"}

Gap == delay - TokenLag

(* The instants no request may follow too closely: those of the callers on *)
(* their way out, and of the requests sent, as early as they may have been *)
(* due.                                                                    *)
Instants == {ready[v] : v \in {u \in Workers : pc[u] \in Leaving}}
            \cup {sent[i].time - Lateness : i \in 1..Len(sent)}

(* The next delay slot lies far enough behind x, or the next token does,   *)
(* which matters when the rate is the slower of the two limits.            *)
TokenBehind(x) == interval >= delay /\ x + interval <= next_available

LeavesAfter(w, x) == \/ x + Gap <= ready[w]
                     \/ holds[w] > 0 /\ x + Gap <= tokens[holds[w]].slot

(* Delay slots are a delay apart; a faster rate keeps no more than its lag *)
(* ahead of them.                                                          *)
SlotsInv ==
  /\ \A w \in Workers : pc[w] \in Pending => ready[w] <= last_request
  /\ \A v, w \in Workers : v # w /\ pc[v] \in Pending /\ pc[w] \in Pending =>
       ready[v] + delay <= ready[w] \/ ready[w] + delay <= ready[v]
  /\ interval < delay =>
       /\ next_available <= last_request + delay + TokenLag
       /\ \A w \in Workers : pc[w] \in Pending => next_available <= ready[w] + TokenLag

PassedInv == \A x \in Instants :
  /\ x + Gap <= last_request + delay \/ TokenBehind(x)
  /\ \A w \in Workers : pc[w] \in Pending => x + Gap <= ready[w] \/ TokenBehind(x)

LeaveInv == \A w \in Workers : pc[w] \in Leaving =>
  /\ \A i \in 1..Len(sent) : LeavesAfter(w, sent[i].time - Lateness)
  /\ \A v \in Workers \ {w} : pc[v] \in Leaving =>
       LeavesAfter(w, ready[v]) \/ LeavesAfter(v, ready[w])

SentInv == \A i \in 1..Len(sent) : \A j \in 1..i - 1 :
  sent[i].time - sent[j].time >= Gap - Lateness

(* Were the delay within what callers fall behind, they might overtake each*)
(* other; then all there is to say is that time goes forward.              *)
Tight == delay > Lateness + TokenLag

SpacingInv == Tight => SlotsInv /\ PassedInv /\ LeaveInv /\ SentInv

(* The numbers the steps compute with.                                     *)
LEMMA SpacingTypes ==
  ASSUME PolitenessTypeOK
  PROVE  /\ delay \in Nat /\ interval \in Nat /\ Lateness \in Nat
         /\ now \in Nat /\ last_request \in Int /\ next_available \in Int
         /\ TokenLag \in Nat /\ Gap \in Int /\ Gap <= delay
         /\ interval >= delay => TokenLag = 0
         /\ interval < delay => /\ TokenLag >= Lateness + interval - delay
                                /\ TokenLag <= Lateness
         /\ Gap + TokenLag = delay
         /\ \A w \in Workers : ready[w] \in Int /\ at[w] \in Int /\ holds[w] \in Nat
BY PolitenessAssumption DEF PolitenessTypeOK, TokenLag, Gap, Later

LEMMA InstantTypes ==
  ASSUME PolitenessTypeOK PROVE Instants \subseteq Int
<1>1. \A v \in Workers : ready[v] \in Int
  BY DEF PolitenessTypeOK
<1>2. \A i \in 1..Len(sent) : sent[i].time - Lateness \in Int
  BY PolitenessAssumption, SentTypes
<1> QED BY <1>1, <1>2 DEF Instants

LEMMA SpacingInitInv == Init => SpacingInv
<1> SUFFICES ASSUME Init PROVE SpacingInv
  OBVIOUS
<1>1. PolitenessTypeOK
  BY PolitenessInitInv DEF PolitenessInv
<1>2. /\ last_request = -delay /\ next_available = -Credit /\ sent = <<>>
      /\ \A w \in Workers : pc[w] \notin Pending /\ pc[w] \notin Leaving
  BY DEF Init, Pending, Leaving
<1>3. Instants = {} /\ Credit \in Nat
  BY <1>1, <1>2, CreditType DEF Instants
<1>4. SlotsInv
  <2>1. last_request + delay + TokenLag = TokenLag /\ TokenLag \in Nat
    <3>1. delay \in Nat /\ TokenLag \in Nat
      BY <1>1, SpacingTypes
    <3> QED BY <1>2, <3>1
  <2>2. next_available <= TokenLag
    BY <1>2, <1>3, <2>1
  <2> QED BY <1>2, <2>1, <2>2 DEF SlotsInv
<1>5. PassedInv /\ LeaveInv
  BY <1>2, <1>3 DEF PassedInv, LeaveInv
<1>6. SentInv
  BY <1>2 DEF SentInv
<1> QED BY <1>4, <1>5, <1>6 DEF SpacingInv

(* Most steps move nobody between the three groups, and give nothing away. *)
LEMMA SpacingFrame ==
  ASSUME SpacingInv,
         UNCHANGED <<config, last_request, next_available, history>>,
         \A w \in Workers : /\ pc'[w] \in Pending <=> pc[w] \in Pending
                            /\ pc'[w] \in Leaving <=> pc[w] \in Leaving
                            /\ pc[w] \in Pending \/ pc[w] \in Leaving => ready'[w] = ready[w]
  PROVE  SpacingInv'
<1>1. /\ delay' = delay /\ interval' = interval
      /\ last_request' = last_request /\ next_available' = next_available
      /\ tokens' = tokens /\ holds' = holds /\ sent' = sent
  BY DEF config, history
<1>2. Tight' = Tight /\ Gap' = Gap /\ TokenLag' = TokenLag
  BY <1>1 DEF Tight, Gap, TokenLag
<1>3. Instants' = Instants /\ \A x : TokenBehind(x)' <=> TokenBehind(x)
  BY <1>1 DEF Instants, TokenBehind
<1>4. \A w \in Workers : \A x : pc[w] \in Leaving => (LeavesAfter(w, x)' <=> LeavesAfter(w, x))
  BY <1>1, <1>2 DEF LeavesAfter
<1>5. SlotsInv => SlotsInv'
  BY <1>1, <1>2 DEF SlotsInv
<1>6. PassedInv => PassedInv'
  BY <1>1, <1>2, <1>3 DEF PassedInv
<1>7. LeaveInv => LeaveInv'
  BY <1>1, <1>4 DEF LeaveInv
<1>8. SentInv => SentInv'
  BY <1>1, <1>2 DEF SentInv
<1> QED BY <1>2, <1>5, <1>6, <1>7, <1>8 DEF SpacingInv

(* A new delay slot lies a delay behind the last one, so behind every      *)
(* caller and request that had one.                                        *)
LEMMA ReserveSpaces ==
  ASSUME PolitenessInv, TimesInv, SpacingInv, NEW w \in Workers, Reserve(w)
  PROVE  SpacingInv'
<1> DEFINE slot == DelaySlot(w)
<1>1. /\ PolitenessTypeOK /\ ready \in [Workers -> Int] /\ pc \in [Workers -> Stages]
  BY DEF PolitenessInv, PolitenessTypeOK
<1>2. slot \in Int /\ slot >= last_request + delay /\ slot >= at[w]
  BY <1>1, SpacingTypes DEF DelaySlot, Later
<1>3. /\ pc[w] = "reserve" /\ pc'[w] \in {"delayed", "paced"}
      /\ ready'[w] = slot /\ last_request' = slot
      /\ \A v \in Workers \ {w} : pc'[v] = pc[v] /\ ready'[v] = ready[v]
  <2>1. /\ SleepUntil(w, slot, "reserve", "delayed", "paced")
        /\ last_request' = slot /\ now' = now /\ at' = at
    BY DEF Reserve, ReserveAt
  <2> HIDE DEF slot
  <2>2. /\ \A v \in Workers \ {w} : pc'[v] = pc[v] /\ ready'[v] = ready[v]
        /\ pc[w] = "reserve" /\ pc'[w] \in {"delayed", "paced"}
        /\ ready'[w] = IF slot > at[w] THEN Later(ready[w], slot) ELSE ready[w]
    BY <1>2, <2>1, SleepTimes
  <2>3. ready[w] = at[w] /\ at[w] \in Int
    BY <1>1, <2>2, SpacingTypes DEF TimesInv
  <2> QED BY <1>2, <2>1, <2>2, <2>3 DEF Later
<1> HIDE DEF slot
<1>4. /\ delay' = delay /\ interval' = interval /\ next_available' = next_available
      /\ tokens' = tokens /\ holds' = holds /\ sent' = sent
  BY DEF Reserve, ReserveAt, config, history
<1>5. Tight' = Tight /\ Gap' = Gap /\ TokenLag' = TokenLag
  BY <1>4 DEF Tight, Gap, TokenLag
<1>6. /\ pc[w] \notin Pending /\ pc[w] \notin Leaving /\ pc'[w] \in Pending /\ pc'[w] \notin Leaving
      /\ \A v \in Workers \ {w} : /\ pc'[v] \in Pending <=> pc[v] \in Pending
                                  /\ pc'[v] \in Leaving <=> pc[v] \in Leaving
  BY <1>3 DEF Pending, Leaving
<1>7. Instants' = Instants /\ \A x : TokenBehind(x)' <=> TokenBehind(x)
  BY <1>3, <1>4, <1>6 DEF Instants, TokenBehind
<1>8. SlotsInv => SlotsInv'
  <2> SUFFICES ASSUME SlotsInv PROVE SlotsInv'
    OBVIOUS
  <2>1. \A v \in Workers : pc'[v] \in Pending => ready'[v] <= last_request'
    BY <1>1, <1>2, <1>3, <1>6, SpacingTypes DEF SlotsInv
  <2>2. \A v \in Workers \ {w} : pc'[v] \in Pending => ready'[v] + delay <= ready'[w]
    BY <1>1, <1>2, <1>3, <1>6, SpacingTypes DEF SlotsInv
  <2>3. interval < delay =>
          /\ next_available <= last_request' + delay + TokenLag
          /\ \A v \in Workers : pc'[v] \in Pending => next_available <= ready'[v] + TokenLag
    BY <1>1, <1>2, <1>3, <1>6, SpacingTypes DEF SlotsInv
  <2> QED BY <1>3, <1>4, <1>5, <1>6, <2>1, <2>2, <2>3 DEF SlotsInv
<1>9. PassedInv => PassedInv'
  BY <1>1, <1>2, <1>3, <1>4, <1>5, <1>6, <1>7, SpacingTypes, InstantTypes DEF PassedInv
<1>10. LeaveInv => LeaveInv'
  <2>1. \A v \in Workers : \A x : pc[v] \in Leaving => (LeavesAfter(v, x)' <=> LeavesAfter(v, x))
    BY <1>3, <1>4, <1>5, <1>6 DEF LeavesAfter
  <2> QED BY <1>3, <1>4, <1>6, <2>1 DEF LeaveInv
<1>11. SentInv => SentInv'
  BY <1>4, <1>5 DEF SentInv
<1> QED BY <1>5, <1>8, <1>9, <1>10, <1>11 DEF SpacingInv

(* A caller on its way out: those that still wait for a token have later   *)
(* slots, or it would have fallen too far behind; it leaves after everybody*)
(* that is out already; and the bucket it leaves is not too far ahead.     *)
LEMMA LeaveSpaces ==
  ASSUME PolitenessInv, TimesInv, SpacingInv, NEW w \in Workers,
         UNCHANGED <<config, last_request, sent>>,
         pc[w] \in Pending, pc'[w] \in Leaving, ready[w] <= now,
         \A v \in Workers \ {w} : pc'[v] = pc[v] /\ ready'[v] = ready[v],
         \A v \in Workers \ {w} : holds[v] > 0 =>
           holds'[v] = holds[v] /\ tokens'[holds[v]] = tokens[holds[v]],
         \A v \in Workers \ {w} : holds[v] = 0 => holds'[v] = 0,
         next_available' \in Int, next_available' >= next_available,
         next_available' <= now + interval \/ next_available' <= next_available + interval,
         \/ ready'[w] = ready[w]
         \/ /\ ready'[w] = next_available /\ ready'[w] >= ready[w]
            /\ next_available' = next_available + interval,
         \/ interval = 0
         \/ holds'[w] > 0 /\ tokens'[holds'[w]].slot >= next_available
            /\ tokens'[holds'[w]].slot \in Int
  PROVE  SpacingInv'
<1>1. /\ delay' = delay /\ interval' = interval
      /\ last_request' = last_request /\ sent' = sent
  BY DEF config
<1>2. Tight' = Tight /\ Gap' = Gap /\ TokenLag' = TokenLag
  BY <1>1 DEF Tight, Gap, TokenLag
<1> SUFFICES ASSUME Tight PROVE SlotsInv' /\ PassedInv' /\ LeaveInv' /\ SentInv'
  BY <1>2 DEF SpacingInv
<1>3. PolitenessTypeOK /\ SlotsInv /\ PassedInv /\ LeaveInv /\ SentInv
  BY DEF PolitenessInv, SpacingInv
<1>4. /\ pc[w] \notin Leaving /\ pc'[w] \notin Pending
      /\ delay > Lateness + TokenLag /\ delay > 0
      /\ ready[w] <= last_request /\ now <= ready[w] + Lateness
      /\ interval < delay => next_available <= ready[w] + TokenLag
  <2>1. pc[w] # "idle" /\ pc[w] \notin Leaving /\ pc'[w] \notin Pending
    BY DEF Pending, Leaving
  <2>2. now <= ready[w] + Lateness
    BY <2>1 DEF TimesInv
  <2> QED BY <1>3, <2>1, <2>2, SpacingTypes DEF Tight, SlotsInv
<1>5. ASSUME NEW v \in Workers \ {w}, pc[v] \in Pending
      PROVE  ready[w] + delay <= ready[v]
  <2>1. pc[v] # "idle"
    BY <1>5 DEF Pending
  <2>2. now <= ready[v] + Lateness
    BY <2>1 DEF TimesInv
  <2>3. ready[v] + delay <= ready[w] \/ ready[w] + delay <= ready[v]
    BY <1>3, <1>5 DEF SlotsInv
  <2> QED BY <1>3, <1>4, <2>2, <2>3, SpacingTypes
<1>6. SlotsInv'
  <2>1. ASSUME interval < delay
        PROVE  next_available' <= ready[w] + delay + TokenLag
    BY <1>3, <1>4, <2>1, SpacingTypes
  <2>2. \A v \in Workers : pc'[v] \in Pending =>
          v # w /\ pc[v] \in Pending /\ ready'[v] = ready[v]
    BY <1>4
  <2>3. interval < delay =>
          /\ next_available' <= last_request + delay + TokenLag
          /\ \A v \in Workers : pc'[v] \in Pending => next_available' <= ready[v] + TokenLag
    BY <1>3, <1>4, <1>5, <2>1, <2>2, SpacingTypes
  <2> QED BY <1>1, <1>2, <1>3, <2>2, <2>3 DEF SlotsInv
<1>7. \A x \in Int : TokenBehind(x) => interval' >= delay' /\ x + interval' <= next_available'
  BY <1>1, <1>3, SpacingTypes DEF TokenBehind
<1>8. \A x \in Instants' : x \in Instants \/ x = ready'[w]
  BY <1>1 DEF Instants
<1>9. PassedInv'
  <2>1. ASSUME NEW x \in Instants
        PROVE  /\ \/ x + Gap <= last_request + delay
                  \/ interval' >= delay' /\ x + interval' <= next_available'
               /\ \A v \in Workers : pc'[v] \in Pending =>
                    \/ x + Gap <= ready'[v]
                    \/ interval' >= delay' /\ x + interval' <= next_available'
    <3>1. x \in Int
      BY <1>3, InstantTypes
    <3>2. /\ x + Gap <= last_request + delay \/ TokenBehind(x)
          /\ \A v \in Workers : pc[v] \in Pending => x + Gap <= ready[v] \/ TokenBehind(x)
      BY <1>3 DEF PassedInv
    <3>3. \A v \in Workers : pc'[v] \in Pending => pc[v] \in Pending /\ ready'[v] = ready[v]
      BY <1>4
    <3>4. TokenBehind(x) => interval' >= delay' /\ x + interval' <= next_available'
      BY <1>7, <3>1
    <3> QED BY <3>2, <3>3, <3>4
  <2>2. \/ ready'[w] + Gap <= ready[w] + delay
        \/ interval' >= delay' /\ ready'[w] + interval' <= next_available'
    BY <1>1, <1>3, <1>4, SpacingTypes
  <2>3. \/ ready'[w] + Gap <= last_request + delay
        \/ interval' >= delay' /\ ready'[w] + interval' <= next_available'
    BY <1>3, <1>4, <2>2, SpacingTypes
  <2>4. \A v \in Workers : pc'[v] \in Pending =>
          \/ ready'[w] + Gap <= ready'[v]
          \/ interval' >= delay' /\ ready'[w] + interval' <= next_available'
    BY <1>3, <1>4, <1>5, <2>2, SpacingTypes
  <2> QED BY <1>1, <1>2, <1>8, <2>1, <2>3, <2>4 DEF PassedInv, TokenBehind
<1>10. LeaveInv'
  <2>1. ASSUME NEW x \in Instants
        PROVE  \/ x + Gap <= ready'[w]
               \/ holds'[w] > 0 /\ x + Gap <= tokens'[holds'[w]].slot
    <3>1. x \in Int /\ (x + Gap <= ready[w] \/ TokenBehind(x))
      BY <1>3, InstantTypes DEF PassedInv
    <3>2. CASE x + Gap <= ready[w]
      BY <1>3, <3>1, <3>2, SpacingTypes
    <3>3. CASE TokenBehind(x)
      BY <1>3, <1>4, <3>1, <3>3, SpacingTypes DEF TokenBehind
    <3> QED BY <3>1, <3>2, <3>3
  <2>2. \A v \in Workers \ {w} : \A x : LeavesAfter(v, x) =>
          \/ x + Gap <= ready'[v]
          \/ holds'[v] > 0 /\ x + Gap <= tokens'[holds'[v]].slot
    BY DEF LeavesAfter
  <2>3. \A i \in 1..Len(sent) : sent[i].time - Lateness \in Instants
    BY DEF Instants
  <2>4. \A v \in Workers : pc[v] \in Leaving => ready[v] \in Instants
    BY DEF Instants
  <2>5. ASSUME NEW v \in Workers, pc'[v] \in Leaving, NEW i \in 1..Len(sent)
        PROVE  LeavesAfter(v, sent[i].time - Lateness)'
    <3>1. CASE v = w
      BY <1>1, <1>2, <2>1, <2>3, <3>1 DEF LeavesAfter
    <3>2. CASE v # w
      BY <1>1, <1>2, <1>3, <2>2, <2>5, <3>2 DEF LeaveInv, LeavesAfter
    <3> QED BY <3>1, <3>2
  <2>6. ASSUME NEW v \in Workers, pc'[v] \in Leaving, NEW u \in Workers \ {v}, pc'[u] \in Leaving
        PROVE  LeavesAfter(v, ready[u])' \/ LeavesAfter(u, ready[v])'
    <3>1. CASE v = w
      BY <1>2, <2>1, <2>4, <2>6, <3>1 DEF LeavesAfter
    <3>2. CASE u = w
      BY <1>2, <2>1, <2>4, <2>6, <3>2 DEF LeavesAfter
    <3>3. CASE v # w /\ u # w
      BY <1>2, <1>3, <2>2, <2>6, <3>3 DEF LeaveInv, LeavesAfter
    <3> QED BY <3>1, <3>2, <3>3
  <2> QED BY <1>1, <2>5, <2>6 DEF LeaveInv
<1>11. SentInv'
  BY <1>1, <1>2, <1>3 DEF SentInv
<1> QED BY <1>6, <1>9, <1>10, <1>11

LEMMA TokenSpaces ==
  ASSUME PolitenessInv, TimesInv, SpacingInv, NEW w \in Workers, TakeToken(w)
  PROVE  SpacingInv'
<1> DEFINE n == Len(tokens)
           slot == TokenSlot(at[w])
<1>1. /\ PolitenessTypeOK /\ n \in Nat /\ at[w] \in Int /\ at[w] <= now
      /\ tokens \in Seq(Token) /\ holds \in [Workers -> Nat]
      /\ \A v \in Workers : holds[v] <= n
      /\ next_available \in Int /\ now \in Nat /\ interval \in Nat /\ ready[w] \in Int
  BY TokenTypes DEF PolitenessInv, PolitenessTypeOK, CallersInv
<1>2. slot \in Int /\ slot >= next_available /\ (slot <= at[w] \/ slot = next_available)
  <2>1. Credit \in Nat
    BY <1>1, CreditType
  <2> QED BY <1>1, <2>1 DEF TokenSlot
<1>3. /\ next_available' = slot + interval
      /\ tokens' = Append(tokens, [at |-> at[w], slot |-> slot])
      /\ holds' = [holds EXCEPT ![w] = n + 1]
      /\ now' = now /\ at' = at
      /\ UNCHANGED <<config, last_request, sent>>
      /\ SleepUntil(w, slot, "token", "queued", "go")
  BY DEF TakeToken
<1> HIDE DEF slot
<1>4. [at |-> at[w], slot |-> slot] \in Token
  BY <1>1, <1>2 DEF Token
<1>5. /\ \A k \in 1..n : tokens'[k] = tokens[k]
      /\ holds'[w] = n + 1 /\ tokens'[holds'[w]].slot = slot
      /\ \A v \in Workers \ {w} : holds'[v] = holds[v]
  BY <1>1, <1>3, <1>4
<1>6. /\ \A v \in Workers \ {w} : pc'[v] = pc[v] /\ ready'[v] = ready[v]
      /\ pc[w] = "token" /\ pc'[w] \in {"queued", "go"}
      /\ ready'[w] = IF slot > at[w] THEN Later(ready[w], slot) ELSE ready[w]
      /\ ready'[w] >= ready[w]
  BY <1>2, <1>3, SleepTimes
<1>7. pc[w] \in Pending /\ pc'[w] \in Leaving /\ ready[w] <= now
  BY <1>6 DEF TimesInv, Pending, Leaving
<1>8. \A v \in Workers \ {w} : holds[v] > 0 => tokens'[holds[v]] = tokens[holds[v]]
  BY <1>1, <1>5
<1>9. /\ next_available' \in Int /\ next_available' >= next_available
      /\ next_available' <= now + interval \/ next_available' <= next_available + interval
  BY <1>1, <1>2, <1>3
<1>10. \/ ready'[w] = ready[w]
       \/ /\ ready'[w] = next_available /\ ready'[w] >= ready[w]
          /\ next_available' = next_available + interval
  BY <1>1, <1>2, <1>3, <1>6 DEF Later
<1>11. /\ holds'[w] > 0 /\ tokens'[holds'[w]].slot >= next_available
       /\ tokens'[holds'[w]].slot \in Int
  BY <1>1, <1>2, <1>5
<1> QED BY <1>3, <1>5, <1>6, <1>7, <1>8, <1>9, <1>10, <1>11, LeaveSpaces

(* A request: what waits to leave does so later than it, less the lateness.*)
LEMMA SendSpaces ==
  ASSUME PolitenessInv, TimesInv, SpacingInv, NEW w \in Workers, Send(w)
  PROVE  SpacingInv'
<1> DEFINE n == Len(sent)
           due == now - Lateness
<1>1. /\ PolitenessTypeOK /\ n \in Nat /\ due \in Int
      /\ \A i \in 1..n : sent[i].time \in Int
      /\ now \in Nat /\ Gap \in Int /\ Lateness \in Nat
      /\ \A v \in Workers : ready[v] \in Int
  <2>1. PolitenessTypeOK
    BY DEF PolitenessInv
  <2>2. n \in Nat /\ \A i \in 1..n : sent[i].time \in Int
    BY <2>1, SentTypes
  <2>3. /\ now \in Nat /\ Gap \in Int /\ Lateness \in Nat
        /\ \A v \in Workers : ready[v] \in Int
    BY <2>1, SpacingTypes
  <2>4. now - Lateness \in Int
    BY <2>3
  <2> QED BY <2>1, <2>2, <2>3, <2>4
<1>2. /\ pc[w] = "go" /\ pc' = [pc EXCEPT ![w] = "idle"] /\ ready' = ready
      /\ sent' = Append(sent, [time |-> now, token |-> holds[w]])
      /\ UNCHANGED <<config, last_request, next_available, tokens, holds>>
  BY DEF Send, Move
<1>3. /\ delay' = delay /\ interval' = interval /\ last_request' = last_request
      /\ next_available' = next_available /\ tokens' = tokens /\ holds' = holds
  BY <1>2 DEF config
<1>4. Tight' = Tight /\ Gap' = Gap /\ TokenLag' = TokenLag
  BY <1>3 DEF Tight, Gap, TokenLag
<1> SUFFICES ASSUME Tight PROVE SlotsInv' /\ PassedInv' /\ LeaveInv' /\ SentInv'
  BY <1>4 DEF SpacingInv
<1>5. SlotsInv /\ PassedInv /\ LeaveInv /\ SentInv /\ Gap > Lateness
  BY <1>1, SpacingTypes DEF SpacingInv, Tight
<1>6. /\ Len(sent') = n + 1 /\ \A i \in 1..n : sent'[i] = sent[i]
      /\ sent'[n + 1].time = now
  <2>1. sent \in Seq([time : Int, token : Nat])
        /\ [time |-> now, token |-> holds[w]] \in [time : Int, token : Nat]
    BY <1>1 DEF PolitenessTypeOK
  <2> QED BY <1>2, <2>1
<1>7. /\ \A v \in Workers \ {w} : pc'[v] = pc[v]
      /\ pc[w] \in Leaving /\ pc'[w] \notin Leaving /\ pc'[w] \notin Pending
      /\ pc[w] \notin Pending
  BY <1>1, <1>2 DEF PolitenessTypeOK, Pending, Leaving
<1>8. ready[w] <= now /\ now <= ready[w] + Lateness /\ due <= ready[w]
  <2>1. ready[w] <= now /\ now <= ready[w] + Lateness
    BY <1>2 DEF TimesInv
  <2> QED BY <1>1, <2>1, SpacingTypes
<1>9. holds[w] > 0 => now >= tokens[holds[w]].slot /\ tokens[holds[w]].slot \in Int
  <2> SUFFICES ASSUME holds[w] > 0
               PROVE  now >= tokens[holds[w]].slot /\ tokens[holds[w]].slot \in Int
    OBVIOUS
  <2>1. holds[w] \in 1..Len(tokens)
    <3>1. holds[w] <= Len(tokens)
      BY DEF PolitenessInv, CallersInv
    <3>2. holds[w] \in Nat /\ Len(tokens) \in Nat
      BY <1>1, TokenTypes DEF PolitenessTypeOK
    <3> QED BY <3>1, <3>2
  <2>2. tokens[holds[w]].slot \in Int
    BY <1>1, <2>1, TokenTypes
  <2> QED BY <1>2, <2>2 DEF PolitenessInv, CallersInv
<1>10. ASSUME NEW x \in Int, LeavesAfter(w, x)
       PROVE  x + Gap <= now
  BY <1>1, <1>8, <1>9, <1>10 DEF LeavesAfter
<1>11. ready[w] \in Instants /\ ready[w] \in Int
  BY <1>1, <1>7, SpacingTypes DEF Instants
<1>12. \A x \in Instants' : x \in Instants \/ x = due
  <2>1. \A i \in 1..n + 1 : sent'[i].time - Lateness = due \/ i \in 1..n
    BY <1>1, <1>6
  <2> QED BY <1>2, <1>6, <1>7, <2>1 DEF Instants
<1>13. SlotsInv'
  <2>1. \A v \in Workers : pc'[v] \in Pending => pc[v] \in Pending
    BY <1>7
  <2> QED BY <1>2, <1>3, <1>4, <1>5, <2>1 DEF SlotsInv
<1>14. PassedInv'
  <2> HIDE DEF due
  <2>1. /\ due + Gap <= last_request + delay \/ TokenBehind(due)
        /\ \A v \in Workers : pc[v] \in Pending => due + Gap <= ready[v] \/ TokenBehind(due)
    <3>1. TokenBehind(ready[w]) => TokenBehind(due)
      BY <1>1, <1>8, <1>11, SpacingTypes DEF TokenBehind
    <3>2. \A y \in Int : ready[w] + Gap <= y => due + Gap <= y
      <4>1. PICK r \in Int, d \in Int, g \in Int : r = ready[w] /\ d = due /\ g = Gap /\ d <= r
        BY <1>1, <1>8, <1>11
      <4>2. \A y \in Int : r + g <= y => d + g <= y
        BY <4>1
      <4> QED BY <4>1, <4>2
    <3>3. last_request + delay \in Int /\ \A v \in Workers : ready[v] \in Int
      BY <1>1, SpacingTypes
    <3> QED BY <1>5, <1>11, <3>1, <3>2, <3>3 DEF PassedInv
  <2>2. \A v \in Workers : pc'[v] \in Pending => pc[v] \in Pending
    BY <1>7
  <2> QED BY <1>2, <1>3, <1>4, <1>5, <1>12, <2>1, <2>2 DEF PassedInv, TokenBehind
<1>15. LeaveInv'
  <2>1. \A v \in Workers : pc'[v] \in Leaving => v # w /\ pc[v] \in Leaving
    BY <1>7
  <2>2. ASSUME NEW v \in Workers \ {w}, pc[v] \in Leaving
        PROVE  LeavesAfter(v, due)
    <3>1. now <= ready[v] + Lateness /\ ready[v] \in Int
      BY <1>1, <2>2, SpacingTypes DEF TimesInv, Leaving
    <3>2. ~LeavesAfter(w, ready[v])
      BY <1>1, <1>5, <1>10, <3>1, SpacingTypes
    <3>3. LeavesAfter(v, ready[w])
      BY <1>5, <1>7, <2>2, <3>2 DEF LeaveInv
    <3>4. holds[v] > 0 => tokens[holds[v]].slot \in Int
      <4>1. holds[v] > 0 => holds[v] \in 1..Len(tokens)
        BY <1>1, TokenTypes, SpacingTypes DEF PolitenessInv, CallersInv
      <4> QED BY <1>1, <4>1, TokenTypes
    <3> QED BY <1>1, <1>8, <3>1, <3>3, <3>4 DEF LeavesAfter
  <2>3. ASSUME NEW v \in Workers, pc'[v] \in Leaving, NEW i \in 1..n + 1
        PROVE  LeavesAfter(v, sent'[i].time - Lateness)
    <3>1. CASE i \in 1..n
      BY <1>5, <1>6, <2>1, <2>3, <3>1 DEF LeaveInv
    <3>2. CASE i = n + 1
      BY <1>6, <2>1, <2>2, <2>3, <3>2
    <3> QED BY <1>1, <3>1, <3>2
  <2>4. ASSUME NEW v \in Workers, pc'[v] \in Leaving,
               NEW u \in Workers \ {v}, pc'[u] \in Leaving
        PROVE  LeavesAfter(v, ready[u]) \/ LeavesAfter(u, ready[v])
    BY <1>5, <2>1, <2>4 DEF LeaveInv
  <2> QED BY <1>2, <1>3, <1>4, <1>6, <2>3, <2>4 DEF LeaveInv, LeavesAfter
<1>16. SentInv'
  <2>1. ASSUME NEW i \in 1..n + 1, NEW j \in 1..i - 1
        PROVE  sent'[i].time - sent'[j].time >= Gap - Lateness
    <3>1. CASE i \in 1..n
      <4>1. j \in 1..n
        BY <1>1, <3>1
      <4> QED BY <1>5, <1>6, <3>1, <4>1 DEF SentInv
    <3>2. CASE i = n + 1
      <4>1. j \in 1..n /\ sent'[i].time = now /\ sent'[j] = sent[j] /\ sent[j].time \in Int
        BY <1>1, <1>6, <3>2
      <4>2. LeavesAfter(w, sent[j].time - Lateness)
        BY <1>5, <1>7, <4>1 DEF LeaveInv
      <4>3. sent[j].time - Lateness + Gap <= now
        BY <1>1, <1>10, <4>1, <4>2
      <4> QED BY <1>1, <4>1, <4>3
    <3> QED BY <1>1, <3>1, <3>2
  <2> QED BY <1>4, <1>6, <2>1 DEF SentInv
<1> QED BY <1>13, <1>14, <1>15, <1>16

LEMMA SpacingStepInv ==
  ASSUME PolitenessInv, TimesInv, SpacingInv, [Next]_vars
  PROVE  SpacingInv'
<1>1. pc \in [Workers -> Stages] /\ ready \in [Workers -> Int] /\ interval \in Nat
  BY DEF PolitenessInv, PolitenessTypeOK
<1>2. CASE UNCHANGED vars
  <2>1. UNCHANGED <<config, last_request, next_available, history>> /\ pc' = pc /\ ready' = ready
    BY <1>2 DEF vars, config, history
  <2> QED BY <2>1, SpacingFrame
<1>3. CASE Tick
  <2>1. UNCHANGED <<config, last_request, next_available, history>> /\ pc' = pc /\ ready' = ready
    BY <1>3 DEF Tick
  <2> QED BY <2>1, SpacingFrame
<1>4. ASSUME NEW w \in Workers, Call(w) PROVE SpacingInv'
  <2>1. CASE delay > 0
    <3>1. /\ UNCHANGED <<config, last_request, next_available, history>>
          /\ pc[w] = "idle" /\ pc' = [pc EXCEPT ![w] = "reserve"]
          /\ ready' = [ready EXCEPT ![w] = now]
      BY <1>4, <2>1 DEF Call, Move
    <3>2. \A v \in Workers : /\ pc'[v] \in Pending <=> pc[v] \in Pending
                             /\ pc'[v] \in Leaving <=> pc[v] \in Leaving
                             /\ pc[v] \in Pending \/ pc[v] \in Leaving => ready'[v] = ready[v]
      BY <1>1, <3>1 DEF Pending, Leaving
    <3> QED BY <3>1, <3>2, SpacingFrame
  <2>2. CASE ~(delay > 0)
    <3>1. delay' = delay /\ interval' = interval
      BY <1>4 DEF Call, config
    <3>2. TokenLag \in Nat /\ delay \in Nat /\ Lateness \in Nat
      BY SpacingTypes DEF PolitenessInv
    <3>3. ~Tight /\ Tight' = Tight
      BY <2>2, <3>1, <3>2 DEF Tight, TokenLag
    <3> QED BY <3>3 DEF SpacingInv
  <2> QED BY <2>1, <2>2
<1>5. ASSUME NEW w \in Workers, WakeDelayed(w) \/ WakeQueued(w) PROVE SpacingInv'
  <2>1. /\ UNCHANGED <<config, last_request, next_available, history>> /\ ready' = ready
        /\ \/ pc[w] = "delayed" /\ pc' = [pc EXCEPT ![w] = "paced"]
           \/ pc[w] = "queued" /\ pc' = [pc EXCEPT ![w] = "go"]
    BY <1>5 DEF WakeDelayed, WakeQueued, WakeFrom, Move
  <2>2. \A v \in Workers : /\ pc'[v] \in Pending <=> pc[v] \in Pending
                           /\ pc'[v] \in Leaving <=> pc[v] \in Leaving
    BY <1>1, <2>1 DEF Pending, Leaving
  <2> QED BY <2>1, <2>2, SpacingFrame
<1>6. ASSUME NEW w \in Workers, ReadRateClock(w) PROVE SpacingInv'
  <2>1. /\ UNCHANGED <<config, last_request, next_available, history>> /\ ready' = ready
        /\ pc[w] = "paced"
    BY <1>6 DEF ReadRateClock, Move
  <2>2. CASE interval > 0
    <3>1. pc' = [pc EXCEPT ![w] = "token"]
      BY <1>6, <2>2 DEF ReadRateClock, Move
    <3>2. \A v \in Workers : /\ pc'[v] \in Pending <=> pc[v] \in Pending
                             /\ pc'[v] \in Leaving <=> pc[v] \in Leaving
      BY <1>1, <2>1, <3>1 DEF Pending, Leaving
    <3> QED BY <2>1, <3>2, SpacingFrame
  <2>3. CASE interval = 0
    <3>1. pc' = [pc EXCEPT ![w] = "go"]
      BY <1>6, <2>3 DEF ReadRateClock, Move
    <3>2. /\ pc[w] \in Pending /\ pc'[w] \in Leaving
          /\ \A v \in Workers \ {w} : pc'[v] = pc[v] /\ ready'[v] = ready[v]
          /\ ready'[w] = ready[w] /\ ready[w] <= now
      BY <1>1, <2>1, <3>1 DEF Pending, Leaving, TimesInv
    <3>3. tokens' = tokens /\ holds' = holds /\ sent' = sent /\ next_available' = next_available
      BY <2>1 DEF history
    <3>4. next_available \in Int /\ next_available' <= next_available + interval
      <4>1. next_available \in Int /\ interval \in Nat
        BY DEF PolitenessInv, PolitenessTypeOK
      <4> QED BY <3>3, <4>1
    <3> QED BY <2>1, <2>3, <3>2, <3>3, <3>4, LeaveSpaces
  <2> QED BY <1>1, <2>2, <2>3
<1> QED BY <1>2, <1>3, <1>4, <1>5, <1>6, ReserveSpaces, TokenSpaces, SendSpaces
        DEF Next, WaitForSlot

(* The log of requests is in the order of time.                            *)
SentInOrder == \A i \in 1..Len(sent) :
  sent[i].time <= now /\ \A j \in 1..i - 1 : sent[j].time <= sent[i].time

LEMMA SentInOrderStep ==
  ASSUME PolitenessTypeOK, SentInOrder, [Next]_vars
  PROVE  SentInOrder'
<1>1. /\ now \in Nat /\ Len(sent) \in Nat /\ sent \in Seq([time : Int, token : Nat])
      /\ \A w \in Workers : holds[w] \in Nat
      /\ \A i \in 1..Len(sent) : sent[i].time \in Int
  BY SentTypes DEF PolitenessTypeOK
<1>2. CASE sent' = sent /\ now' = now
  BY <1>2 DEF SentInOrder
<1>3. CASE Tick
  <2>1. sent' = sent /\ now' = now + 1
    BY <1>3 DEF Tick, history
  <2>2. \A i \in 1..Len(sent) : sent[i].time <= now + 1
    BY <1>1 DEF SentInOrder
  <2> QED BY <2>1, <2>2 DEF SentInOrder
<1>4. ASSUME NEW w \in Workers, Send(w) PROVE SentInOrder'
  <2> DEFINE n == Len(sent)
  <2>1. now' = now /\ sent' = Append(sent, [time |-> now, token |-> holds[w]])
    BY <1>4 DEF Send
  <2>2. [time |-> now, token |-> holds[w]] \in [time : Int, token : Nat]
    BY <1>1
  <2>3. /\ Len(sent') = n + 1 /\ \A i \in 1..n : sent'[i] = sent[i]
        /\ sent'[n + 1].time = now
    BY <1>1, <2>1, <2>2
  <2>4. ASSUME NEW i \in 1..n + 1
        PROVE  sent'[i].time <= now /\ \A j \in 1..i - 1 : sent'[j].time <= sent'[i].time
    <3>1. CASE i \in 1..n
      <4>1. \A j \in 1..i - 1 : j \in 1..n
        BY <1>1, <3>1
      <4> QED BY <2>3, <3>1, <4>1 DEF SentInOrder
    <3>2. CASE i = n + 1
      <4>1. i - 1 = n /\ sent'[i].time = now
        BY <1>1, <2>3, <3>2
      <4>2. \A j \in 1..n : sent'[j].time <= now
        BY <2>3 DEF SentInOrder
      <4> QED BY <1>1, <4>1, <4>2
    <3> QED BY <1>1, <3>1, <3>2
  <2> QED BY <2>1, <2>3, <2>4 DEF SentInOrder
<1> QED
  BY <1>2, <1>3, <1>4
  DEF Next, WaitForSlot, Call, Reserve, ReserveAt, WakeDelayed, WakeQueued, WakeFrom,
      ReadRateClock, TakeToken, vars, history

LEMMA SpacingInvariance == Spec => [](PolitenessInv /\ TimesInv /\ SpacingInv /\ SentInOrder)
<1>1. Init => SentInOrder
  BY DEF Init, SentInOrder
<1>2. PolitenessInv => PolitenessTypeOK
  BY DEF PolitenessInv
<1> QED BY <1>1, <1>2, PolitenessInitInv, PolitenessStepInv, TimesInitInv, TimesStepInv,
           SpacingInitInv, SpacingStepInv, SentInOrderStep, PTL DEF Spec

(* The delay politeness.rs promises a host: two requests leave at least so *)
(* far apart, less how late a caller runs and what a faster rate makes of  *)
(* that lateness.                                                          *)
THEOREM SpacingHolds == Spec => []SendsSpaced
<1>1. PolitenessInv /\ SpacingInv /\ SentInOrder => SendsSpaced
  <2> SUFFICES ASSUME PolitenessInv, SpacingInv, SentInOrder, NEW i \in 2..Len(sent)
               PROVE  sent[i].time - sent[i - 1].time >= delay - Lateness - TokenLag
    BY DEF SendsSpaced
  <2>1. /\ i \in 1..Len(sent) /\ i - 1 \in 1..Len(sent) /\ i - 1 \in 1..i - 1
        /\ sent[i].time \in Int /\ sent[i - 1].time \in Int
    BY SentTypes DEF PolitenessInv
  <2>2. delay \in Nat /\ Lateness \in Nat /\ TokenLag \in Nat /\ Gap = delay - TokenLag
    BY SpacingTypes DEF PolitenessInv, Gap
  <2>3. CASE Tight
    <3>1. sent[i].time - sent[i - 1].time >= Gap - Lateness
      BY <2>1, <2>3 DEF SpacingInv, SentInv
    <3> QED BY <2>1, <2>2, <3>1
  <2>4. CASE ~Tight
    <3>1. sent[i - 1].time <= sent[i].time
      BY <2>1 DEF SentInOrder
    <3> QED BY <2>1, <2>2, <2>4, <3>1 DEF Tight
  <2> QED BY <2>3, <2>4
<1> QED BY <1>1, SpacingInvariance, PTL
-----------------------------------------------------------------------------
(* The queue.  For every instant still to come, the callers entitled to    *)
(* nothing before it account for what is given away beyond it.             *)

Waiting(t) == {w \in Callers : ready[w] > t}

DelayQueueInv == \A t \in Nat : t >= now =>
  last_request <= t + delay * Cardinality(Waiting(t))

TokenQueueInv == \A t \in Nat : t >= now =>
  next_available <= (t + interval) + interval * Cardinality(Waiting(t))

QueueInv == DelayQueueInv /\ TokenQueueInv

(* One more in the queue pays for one unit more.                           *)
LEMMA OneMore ==
  ASSUME NEW before \in Int, NEW after \in Int, NEW base \in Int, NEW unit \in Nat,
         NEW S, NEW T, S \subseteq T, T \subseteq Workers,
         before <= base + unit * Cardinality(S),
         \/ after <= before
         \/ after <= base
         \/ after <= before + unit /\ \E w \in T : w \notin S
  PROVE  after <= base + unit * Cardinality(T)
<1> DEFINE s == Cardinality(S)
           t == Cardinality(T)
<1>1. IsFiniteSet(T) /\ IsFiniteSet(S)
  BY PolitenessAssumption, FS_Subset
<1>2. s \in Nat /\ t \in Nat /\ s <= t
  BY <1>1, FS_CardinalityType, FS_Subset
<1>3. (\E w \in T : w \notin S) => s + 1 <= t
  <2> SUFFICES ASSUME NEW w \in T, w \notin S PROVE s + 1 <= t
    OBVIOUS
  <2>1. S \cup {w} \subseteq T /\ Cardinality(S \cup {w}) = s + 1
    BY <1>1, FS_AddElement
  <2>2. Cardinality(S \cup {w}) <= t
    BY <1>1, <2>1, FS_Subset
  <2> QED BY <2>1, <2>2
<1> HIDE DEF s, t
<1>4. unit * s \in Nat /\ unit * t \in Nat /\ unit * s <= unit * t
  <2>1. PICK d \in Nat : t = s + d
    BY <1>2
  <2>2. unit * t = unit * s + unit * d /\ unit * d \in Nat /\ unit * s \in Nat
    BY <1>2, <2>1
  <2> QED BY <2>2
<1>5. s + 1 <= t => unit * s + unit <= unit * t
  <2> SUFFICES ASSUME s + 1 <= t PROVE unit * s + unit <= unit * t
    OBVIOUS
  <2>1. PICK d \in Nat : t = s + 1 + d
    BY <1>2
  <2>2. unit * t = unit * s + unit + unit * d /\ unit * d \in Nat
    BY <1>2, <2>1
  <2> QED BY <1>4, <2>2
<1>6. before <= base + unit * s
  BY DEF s
<1>7. after <= base + unit * t
  <2> DEFINE us == unit * s
             ut == unit * t
  <2>1. /\ us \in Nat /\ ut \in Nat /\ us <= ut /\ before <= base + us
        /\ s + 1 <= t => us + unit <= ut
    BY <1>4, <1>5, <1>6
  <2> HIDE DEF us, ut
  <2>2. after <= base + ut
    BY <1>3, <2>1
  <2> QED BY <2>2 DEF ut
<1> QED BY <1>7 DEF t

(* A step that lets nobody out of the queue who still has to wait, and     *)
(* gives away at most one unit, to somebody new in it.                     *)
LEMMA QueueGrows ==
  ASSUME PolitenessTypeOK, PolitenessTypeOK', QueueInv, UNCHANGED config, now' >= now,
         \A t \in Nat : t >= now' => Waiting(t) \subseteq Waiting(t)',
         \A t \in Nat : t >= now' =>
           \/ last_request' <= last_request \/ last_request' <= t
           \/ last_request' <= last_request + delay /\ \E w \in Waiting(t)' : w \notin Waiting(t),
         \A t \in Nat : t >= now' =>
           \/ next_available' <= next_available \/ next_available' <= t + interval
           \/ /\ next_available' <= next_available + interval
              /\ \E w \in Waiting(t)' : w \notin Waiting(t)
  PROVE  QueueInv'
<1>1. /\ now \in Nat /\ now' \in Nat /\ delay \in Nat /\ interval \in Nat
      /\ last_request \in Int /\ last_request' \in Int
      /\ next_available \in Int /\ next_available' \in Int
      /\ delay' = delay /\ interval' = interval
  BY DEF PolitenessTypeOK, config
<1> SUFFICES ASSUME NEW t \in Nat, t >= now'
             PROVE  /\ last_request' <= t + delay * Cardinality(Waiting(t)')
                    /\ next_available' <= (t + interval) + interval * Cardinality(Waiting(t)')
  BY <1>1 DEF QueueInv, DelayQueueInv, TokenQueueInv
<1> DEFINE S == Waiting(t)
           T == Waiting(t)'
<1>2. S \subseteq T /\ T \subseteq Workers
  BY DEF Waiting, Callers
<1>3. t >= now
  BY <1>1
<1>4. last_request' <= t + delay * Cardinality(T)
  <2>1. last_request <= t + delay * Cardinality(S)
    BY <1>3 DEF QueueInv, DelayQueueInv
  <2>2. \/ last_request' <= last_request \/ last_request' <= t
        \/ last_request' <= last_request + delay /\ \E w \in T : w \notin S
    OBVIOUS
  <2> HIDE DEF S, T
  <2> QED BY <1>1, <1>2, <2>1, <2>2, OneMore
<1>5. next_available' <= (t + interval) + interval * Cardinality(T)
  <2>1. next_available <= (t + interval) + interval * Cardinality(S)
    BY <1>3 DEF QueueInv, TokenQueueInv
  <2>2. \/ next_available' <= next_available \/ next_available' <= t + interval
        \/ next_available' <= next_available + interval /\ \E w \in T : w \notin S
    OBVIOUS
  <2>3. t + interval \in Int
    BY <1>1
  <2> HIDE DEF S, T
  <2> QED BY <1>1, <1>2, <2>1, <2>2, <2>3, OneMore
<1> QED BY <1>4, <1>5

LEMMA QueueInitInv == Init => QueueInv
<1> SUFFICES ASSUME Init, NEW t \in Nat, t >= now
             PROVE  /\ last_request <= t + delay * Cardinality(Waiting(t))
                    /\ next_available <= (t + interval) + interval * Cardinality(Waiting(t))
  BY DEF QueueInv, DelayQueueInv, TokenQueueInv
<1>1. PolitenessTypeOK
  BY PolitenessInitInv DEF PolitenessInv
<1>2. Waiting(t) = {}
  BY DEF Init, Waiting, Callers
<1>3. Cardinality(Waiting(t)) = 0
  BY <1>2, FS_EmptySet
<1>4. delay \in Nat /\ interval \in Nat /\ Credit \in Nat
  BY <1>1, CreditType DEF PolitenessTypeOK
<1>5. delay * 0 = 0 /\ interval * 0 = 0
  BY <1>4
<1> QED BY <1>3, <1>4, <1>5 DEF Init

LEMMA QueueStepInv ==
  ASSUME PolitenessInv, TimesInv, QueueInv, [Next]_vars
  PROVE  QueueInv'
<1>1. /\ PolitenessTypeOK /\ PolitenessTypeOK'
      /\ pc \in [Workers -> Stages] /\ ready \in [Workers -> Int] /\ now \in Nat
      /\ last_request \in Int /\ next_available \in Int /\ delay \in Nat /\ interval \in Nat
      /\ \A w \in Workers : at[w] <= now /\ at[w] \in Int
  BY PolitenessStepInv DEF PolitenessInv, PolitenessTypeOK, CallersInv
(* Steps that give nothing away; whoever leaves has waited long enough.    *)
<1>2. ASSUME UNCHANGED <<config, last_request, next_available>>, now' >= now,
             \A v \in Workers, t \in Nat :
               t >= now' /\ pc[v] # "idle" /\ ready[v] > t => pc'[v] # "idle" /\ ready'[v] > t
      PROVE  QueueInv'
  <2>1. \A t \in Nat : t >= now' => Waiting(t) \subseteq Waiting(t)'
    BY <1>2 DEF Waiting, Callers
  <2>2. last_request' <= last_request /\ next_available' <= next_available
    BY <1>1, <1>2
  <2> QED BY <1>1, <1>2, <2>1, <2>2, QueueGrows
<1>3. CASE UNCHANGED vars
  BY <1>1, <1>2, <1>3 DEF vars, config
<1>4. CASE Tick
  BY <1>1, <1>2, <1>4 DEF Tick
<1>5. ASSUME NEW w \in Workers, Call(w) PROVE QueueInv'
  <2>1. /\ UNCHANGED <<config, last_request, next_available>> /\ now' = now
        /\ pc[w] = "idle" /\ ready' = [ready EXCEPT ![w] = now]
        /\ \A v \in Workers \ {w} : pc'[v] = pc[v]
    BY <1>1, <1>5 DEF Call, Move
  <2> QED BY <1>1, <1>2, <2>1
<1>6. ASSUME NEW w \in Workers, WakeDelayed(w) \/ WakeQueued(w) \/ ReadRateClock(w)
      PROVE  QueueInv'
  <2>1. /\ UNCHANGED <<config, last_request, next_available>> /\ now' = now /\ ready' = ready
        /\ \A v \in Workers \ {w} : pc'[v] = pc[v]
        /\ pc'[w] # "idle"
    BY <1>1, <1>6 DEF WakeDelayed, WakeQueued, WakeFrom, ReadRateClock, Move
  <2> QED BY <1>1, <1>2, <2>1
<1>7. ASSUME NEW w \in Workers, Send(w) PROVE QueueInv'
  <2>1. /\ UNCHANGED <<config, last_request, next_available>> /\ now' = now /\ ready' = ready
        /\ \A v \in Workers \ {w} : pc'[v] = pc[v]
        /\ pc[w] = "go"
    BY <1>1, <1>7 DEF Send, Move
  <2>2. ready[w] <= now
    BY <2>1 DEF TimesInv
  <2> QED BY <1>1, <1>2, <2>1, <2>2
(* Steps that give an instant away.                                        *)
<1>8. ASSUME NEW w \in Workers, NEW slot \in Int, pc[w] \in {"reserve", "token"},
             pc'[w] # "idle", now' = now, ready[w] <= now,
             ready'[w] >= ready[w], slot > at[w] => ready'[w] >= slot,
             \A v \in Workers \ {w} : pc'[v] = pc[v] /\ ready'[v] = ready[v]
      PROVE  \A t \in Nat : t >= now' =>
               /\ Waiting(t) \subseteq Waiting(t)'
               /\ slot > t => w \in Waiting(t)' /\ w \notin Waiting(t)
  <2> SUFFICES ASSUME NEW t \in Nat, t >= now'
               PROVE  /\ Waiting(t) \subseteq Waiting(t)'
                      /\ slot > t => w \in Waiting(t)' /\ w \notin Waiting(t)
    OBVIOUS
  <2>1. ready'[w] \in Int /\ ready[w] \in Int
    BY <1>1 DEF PolitenessTypeOK
  <2>2. ~(ready[w] > t)
    BY <1>1, <1>8, <2>1
  <2>3. slot > t => ready'[w] > t
    BY <1>1, <1>8, <2>1
  <2> QED BY <1>8, <2>2, <2>3 DEF Waiting, Callers
<1>9. ASSUME NEW w \in Workers, Reserve(w) PROVE QueueInv'
  <2> DEFINE slot == DelaySlot(w)
  <2>1. slot \in Int /\ (slot = last_request + delay \/ slot = at[w])
    BY <1>1 DEF DelaySlot, Later
  <2>2. /\ SleepUntil(w, slot, "reserve", "delayed", "paced") /\ now' = now /\ at' = at
        /\ last_request' = slot /\ next_available' = next_available /\ UNCHANGED config
    BY <1>9 DEF Reserve, ReserveAt
  <2> HIDE DEF slot
  <2>3. /\ \A v \in Workers \ {w} : pc'[v] = pc[v] /\ ready'[v] = ready[v]
        /\ pc[w] = "reserve" /\ pc'[w] # "idle" /\ ready[w] <= now
        /\ ready'[w] >= ready[w] /\ (slot > at[w] => ready'[w] >= slot)
    <3>1. /\ \A v \in Workers \ {w} : pc'[v] = pc[v] /\ ready'[v] = ready[v]
          /\ pc[w] = "reserve" /\ pc'[w] \in {"delayed", "paced"}
          /\ ready'[w] = IF slot > at[w] THEN Later(ready[w], slot) ELSE ready[w]
          /\ ready'[w] >= ready[w]
      BY <2>1, <2>2, SleepTimes
    <3> QED BY <1>1, <2>1, <3>1 DEF TimesInv, Later
  <2>4. \A t \in Nat : t >= now' =>
          /\ Waiting(t) \subseteq Waiting(t)'
          /\ slot > t => w \in Waiting(t)' /\ w \notin Waiting(t)
    BY <1>8, <2>1, <2>2, <2>3
  <2>5. \A t \in Nat : t >= now' =>
          \/ last_request' <= last_request \/ last_request' <= t
          \/ last_request' <= last_request + delay /\ \E v \in Waiting(t)' : v \notin Waiting(t)
    BY <1>1, <2>1, <2>2, <2>4
  <2>6. next_available' <= next_available /\ now' >= now
    BY <1>1, <2>2
  <2> QED BY <1>1, <2>2, <2>4, <2>5, <2>6, QueueGrows
<1>10. ASSUME NEW w \in Workers, TakeToken(w) PROVE QueueInv'
  <2> DEFINE slot == TokenSlot(at[w])
  <2>1. slot \in Int /\ (slot = next_available \/ slot <= at[w])
    <3>1. Credit \in Nat
      BY <1>1, CreditType
    <3> QED BY <1>1, <3>1 DEF TokenSlot
  <2>2. /\ SleepUntil(w, slot, "token", "queued", "go") /\ now' = now /\ at' = at
        /\ next_available' = slot + interval /\ last_request' = last_request /\ UNCHANGED config
    BY <1>10 DEF TakeToken
  <2> HIDE DEF slot
  <2>3. /\ \A v \in Workers \ {w} : pc'[v] = pc[v] /\ ready'[v] = ready[v]
        /\ pc[w] = "token" /\ pc'[w] # "idle" /\ ready[w] <= now
        /\ ready'[w] >= ready[w] /\ (slot > at[w] => ready'[w] >= slot)
    <3>1. /\ \A v \in Workers \ {w} : pc'[v] = pc[v] /\ ready'[v] = ready[v]
          /\ pc[w] = "token" /\ pc'[w] \in {"queued", "go"}
          /\ ready'[w] = IF slot > at[w] THEN Later(ready[w], slot) ELSE ready[w]
          /\ ready'[w] >= ready[w]
      BY <2>1, <2>2, SleepTimes
    <3> QED BY <1>1, <2>1, <3>1 DEF TimesInv, Later
  <2>4. \A t \in Nat : t >= now' =>
          /\ Waiting(t) \subseteq Waiting(t)'
          /\ slot > t => w \in Waiting(t)' /\ w \notin Waiting(t)
    BY <1>8, <2>1, <2>2, <2>3
  <2>5. \A t \in Nat : t >= now' =>
          \/ next_available' <= next_available \/ next_available' <= t + interval
          \/ /\ next_available' <= next_available + interval
             /\ \E v \in Waiting(t)' : v \notin Waiting(t)
    BY <1>1, <2>1, <2>2, <2>4
  <2>6. last_request' <= last_request /\ now' >= now
    BY <1>1, <2>2
  <2> QED BY <1>1, <2>2, <2>4, <2>5, <2>6, QueueGrows
<1> QED BY <1>3, <1>4, <1>5, <1>6, <1>7, <1>9, <1>10 DEF Next, WaitForSlot

(* Nobody queues for instants that are nobody's: what wait_for_slot has    *)
(* given away ahead of the clock is a unit for each caller that waits.     *)
THEOREM QueueStaysShort == Spec => []QueueIsShort
<1>1. PolitenessInv /\ QueueInv => QueueIsShort
  <2> SUFFICES ASSUME PolitenessInv, QueueInv PROVE QueueIsShort
    OBVIOUS
  <2> DEFINE c == Cardinality(Waiting(now))
  <2>1. now \in Nat /\ interval \in Nat /\ now >= now
    BY DEF PolitenessInv, PolitenessTypeOK
  <2>2. IsFiniteSet(Waiting(now))
    BY PolitenessAssumption, FS_Subset DEF Waiting, Callers
  <2>3. c \in Nat
    BY <2>2, FS_CardinalityType
  <2>4. /\ last_request <= now + delay * c
        /\ next_available <= (now + interval) + interval * c
    BY <2>1 DEF QueueInv, DelayQueueInv, TokenQueueInv
  <2> HIDE DEF c
  <2>5. (now + interval) + interval * c = now + interval * (1 + c)
    BY <2>1, <2>3
  <2>6. last_request <= now + delay * c /\ next_available <= now + interval * (1 + c)
    BY <2>4, <2>5
  <2> QED BY <2>6 DEF c, QueueIsShort, Waiting
<1>2. Spec => []QueueInv
  BY QueueInitInv, QueueStepInv, SpacingInvariance, PTL DEF Spec
<1> QED BY <1>1, <1>2, PolitenessInvariance, PTL
=============================================================================
