--------------------------- MODULE RendererProofs ---------------------------
(***************************************************************************)
(* One call of render, for any traffic, settle time and speed of the       *)
(* navigation: it settles in time and only on quiet, and it returns what   *)
(* the browser announced.                                                  *)
(***************************************************************************)
EXTENDS Renderer, WellFoundedInduction, TLAPS

(* The loop's times: what it waited never passes the settle time, and the  *)
(* nap it takes ends by then; when it took the nap the network was not     *)
(* quiet, or it had not waited for long enough to tell.                    *)
TimeInv ==
  /\ pc = "poll" => idleStart <= now /\ now <= idleStart + settle
  /\ pc = "asleep" => /\ idleStart <= now /\ now <= until /\ until <= idleStart + settle
                      /\ until - activity <= QuietTime + idleStart + Poll

(* One record for each request taken from the stream, in its order; they   *)
(* are handed over once the collector has ended, so they are complete.     *)
RecordInv ==
  /\ Len(records) = seen
  /\ \A i \in 1..seen : records[i].url = requested[i]
  /\ \A i \in 1..seen : records[i].answered =>
       \E k \in 1..heard : answered[k] = records[i].url
  /\ pc \in {"close", "done"} => result = records /\ collector = "ended"

RendererInv == RendererTypeOK /\ TimeInv /\ RecordInv

LEMMA RendererTypes ==
  ASSUME RendererTypeOK
  PROVE  /\ now \in Nat /\ idleStart \in Nat /\ elapsed \in Nat /\ until \in Nat
         /\ settle \in Settles /\ settle \in Nat /\ Quiet \in Nat /\ Poll \in Nat
         /\ QuietTime \in Nat /\ activity \in Nat /\ activity <= now
         /\ records \in Seq(Record) /\ result \in Seq(Record)
         /\ requested \in Seq(Urls) /\ answered \in Seq(Urls)
         /\ seen \in Nat /\ seen <= Len(requested)
         /\ heard \in Nat /\ heard <= Len(answered)
BY RendererAssumption DEF RendererTypeOK, QuietTime, Lesser

(* A set of positions that is not empty has a last one.                    *)
LEMMA LastPosition ==
  ASSUME NEW n \in Nat, NEW I \in SUBSET (1..n), I # {}
  PROVE  Max(I) \in I
<1> DEFINE R == OpToRel(<, Nat)
           T == {n - i : i \in I}
<1>1. T \subseteq Nat /\ T # {}
  <2>1. \A i \in I : n - i \in Nat
    OBVIOUS
  <2>2. PICK i \in I : TRUE
    OBVIOUS
  <2>3. n - i \in T
    BY <2>2
  <2> QED BY <2>1, <2>3
<1>2. PICK t \in T : \A s \in T : ~(<<s, t>> \in R)
  <2>1. IsWellFoundedOn(R, Nat)
    BY NatLessThanWellFounded
  <2> HIDE DEF R, T
  <2> QED BY <1>1, <2>1, WFMin
<1>3. PICK last \in I : t = n - last
  OBVIOUS
<1>4. ASSUME NEW i \in I PROVE last >= i
  <2>1. ~(<<n - i, t>> \in R) /\ n - i \in T
    BY <1>2
  <2>2. ~(n - i < n - last)
    BY <1>1, <1>3, <2>1 DEF OpToRel
  <2> QED BY <2>2
<1> QED BY <1>4 DEF Max

(* The record a response is written to is one of its URL.                  *)
LEMMA RecordOfFacts ==
  ASSUME records \in Seq(Record), NEW u
  PROVE  \/ RecordOf(u) = 0
         \/ RecordOf(u) \in 1..Len(records) /\ records[RecordOf(u)].url = u
<1> DEFINE I == {i \in 1..Len(records) : records[i].url = u}
<1>1. RecordOf(u) = IF I # {} THEN Max(I) ELSE 0
  BY DEF RecordOf, SelectLastInSeq
<1>2. I # {} => Max(I) \in I
  <2>1. Len(records) \in Nat /\ I \in SUBSET (1..Len(records))
    OBVIOUS
  <2> HIDE DEF I
  <2> QED BY <2>1, LastPosition
<1> QED BY <1>1, <1>2

LEMMA RendererInitInv == RendererInit => RendererInv
BY RendererAssumption
DEF RendererInit, RendererInv, RendererTypeOK, TimeInv, RecordInv

(* Steps that touch none of the records, the traffic or the collector.     *)
LEMMA RecordsStand ==
  ASSUME RecordInv, UNCHANGED <<records, requested, answered, seen, heard, collector, result>>,
         pc' \in {"close", "done"} => pc \in {"close", "done"}
  PROVE  RecordInv'
BY DEF RecordInv

LEMMA AppendFacts ==
  ASSUME NEW S, NEW s \in Seq(S), NEW x \in S
  PROVE  /\ Append(s, x) \in Seq(S) /\ Len(s) \in Nat /\ Len(Append(s, x)) = Len(s) + 1
         /\ \A i \in 1..Len(s) : Append(s, x)[i] = s[i]
         /\ Append(s, x)[Len(s) + 1] = x
OBVIOUS

LEMMA ReplaceFacts ==
  ASSUME NEW S, NEW s \in Seq(S), NEW i \in 1..Len(s), NEW x \in S
  PROVE  /\ [s EXCEPT ![i] = x] \in Seq(S) /\ Len([s EXCEPT ![i] = x]) = Len(s)
         /\ [s EXCEPT ![i] = x][i] = x
         /\ \A j \in 1..Len(s) : j # i => [s EXCEPT ![i] = x][j] = s[j]
OBVIOUS

(* Seeing the network later only helps the loop.                           *)
LEMMA ActivityKeepsTime ==
  ASSUME RendererTypeOK, TimeInv, activity' = now, UNCHANGED <<settle, pc, timeVars>>
  PROVE  TimeInv'
<1>0. /\ now \in Nat /\ idleStart \in Nat /\ settle \in Nat /\ Poll \in Nat /\ until \in Nat
      /\ activity \in Nat /\ activity <= now /\ QuietTime \in Nat
  BY RendererTypes
<1>1. UNCHANGED <<settle, pc, now, idleStart, until>> /\ QuietTime' = QuietTime
  BY DEF timeVars, QuietTime, Lesser
<1>2. ASSUME until - activity <= QuietTime + idleStart + Poll
      PROVE  until - now <= QuietTime + idleStart + Poll
  BY <1>0, <1>2
<1> QED BY <1>1, <1>2 DEF TimeInv

(* What the traffic and the collector do to the records.                   *)
LEMMA TrafficKeeps ==
  ASSUME RendererInv, BrowserRequests \/ BrowserAnswers
  PROVE  RendererInv'
<1> USE DEF RendererInv
<1>0. RendererTypeOK /\ seen \in Nat /\ heard \in Nat
  BY RendererTypes
<1>1. /\ UNCHANGED <<settle, pc, stop, result, timeVars, collectorVars>>
      /\ \/ answered' = answered /\ \E u \in Urls : requested' = Append(requested, u)
         \/ requested' = requested /\ \E u \in Urls : answered' = Append(answered, u)
  BY DEF BrowserRequests, BrowserAnswers
<1>2. /\ requested' \in Seq(Urls) /\ answered' \in Seq(Urls)
      /\ Len(requested) <= Len(requested') /\ Len(answered) <= Len(answered')
      /\ \A i \in 1..Len(requested) : requested'[i] = requested[i]
      /\ \A i \in 1..Len(answered) : answered'[i] = answered[i]
  <2>1. requested \in Seq(Urls) /\ answered \in Seq(Urls)
    BY RendererTypes
  <2>2. CASE answered' = answered /\ \E u \in Urls : requested' = Append(requested, u)
    BY <2>1, <2>2, AppendFacts
  <2>3. CASE requested' = requested /\ \E u \in Urls : answered' = Append(answered, u)
    BY <2>1, <2>3, AppendFacts
  <2> QED BY <1>1, <2>2, <2>3
<1>3. RendererTypeOK'
  BY <1>0, <1>1, <1>2 DEF RendererTypeOK, timeVars, collectorVars
<1>4. TimeInv'
  BY <1>1 DEF TimeInv, timeVars, collectorVars, QuietTime, Lesser
<1>5. RecordInv'
  <2>1. seen <= Len(requested) /\ heard <= Len(answered)
    BY RendererTypes
  <2>2. \A i \in 1..seen : requested'[i] = requested[i]
    BY <1>0, <1>2, <2>1, RendererTypes
  <2>3. \A k \in 1..heard : answered'[k] = answered[k]
    BY <1>0, <1>2, <2>1, RendererTypes
  <2>4. UNCHANGED <<pc, result, collector, records, seen, heard>>
    BY <1>1 DEF collectorVars
  <2> QED BY <2>2, <2>3, <2>4 DEF RecordInv
<1> QED BY <1>3, <1>4, <1>5

LEMMA TakeRequestKeeps ==
  ASSUME RendererInv, TakeRequest
  PROVE  RendererInv'
<1> USE DEF RendererInv
<1> DEFINE new == [url |-> requested[seen + 1], answered |-> FALSE]
<1>0. /\ collector = "running" /\ seen < Len(requested) /\ seen' = seen + 1 /\ activity' = now
      /\ records' = Append(records, new)
      /\ UNCHANGED <<settle, pc, stop, result, timeVars, trafficVars, collector, heard>>
  BY DEF TakeRequest
<1>1. /\ records \in Seq(Record) /\ requested \in Seq(Urls) /\ seen \in Nat
      /\ Len(requested) \in Nat
  BY RendererTypes
<1>2. new \in Record /\ new.url = requested[seen + 1] /\ ~new.answered
  BY <1>0, <1>1 DEF Record
<1>3. Len(records) = seen
  BY DEF RecordInv
<1> HIDE DEF new
<1>4. /\ records' \in Seq(Record) /\ Len(records') = seen + 1
      /\ \A i \in 1..seen : records'[i] = records[i]
      /\ records'[seen + 1] = new
  BY <1>0, <1>1, <1>2, <1>3
<1>5. RendererTypeOK'
  BY <1>0, <1>1, <1>4, RendererTypes DEF RendererTypeOK, timeVars, trafficVars
<1>6. TimeInv'
  BY <1>0, ActivityKeepsTime
<1>7. RecordInv'
  <2>1. ASSUME NEW i \in 1..seen + 1
        PROVE  /\ records'[i].url = requested[i]
               /\ records'[i].answered => \E k \in 1..heard : answered[k] = records'[i].url
    <3>1. CASE i = seen + 1
      BY <1>2, <1>4, <3>1
    <3>2. CASE i \in 1..seen
      BY <1>4, <3>2 DEF RecordInv
    <3> QED BY <1>1, <2>1, <3>1, <3>2
  <2>2. pc' \notin {"close", "done"}
    BY <1>0 DEF RecordInv
  <2> QED BY <1>0, <1>4, <2>1, <2>2 DEF RecordInv, trafficVars
<1> QED BY <1>5, <1>6, <1>7

LEMMA TakeResponseKeeps ==
  ASSUME RendererInv, TakeResponse
  PROVE  RendererInv'
<1> USE DEF RendererInv
<1> DEFINE u == answered[heard + 1]
           i == RecordOf(u)
<1>0. /\ collector = "running" /\ heard < Len(answered) /\ heard' = heard + 1 /\ activity' = now
      /\ records' = IF i = 0 THEN records ELSE [records EXCEPT ![i].answered = TRUE]
      /\ UNCHANGED <<settle, pc, stop, result, timeVars, trafficVars, collector, seen>>
  BY DEF TakeResponse
<1>1. /\ records \in Seq(Record) /\ answered \in Seq(Urls) /\ heard \in Nat /\ seen \in Nat
      /\ Len(records) = seen
  BY RendererTypes DEF RecordInv
<1>2. i = 0 \/ (i \in 1..Len(records) /\ records[i].url = u)
  BY <1>1, RecordOfFacts
<1> HIDE DEF i
<1>3. /\ records' \in Seq(Record) /\ Len(records') = seen
      /\ \A j \in 1..seen : /\ records'[j].url = records[j].url
                            /\ \/ records'[j].answered = records[j].answered
                               \/ records[j].url = u
  <2>1. CASE i = 0
    BY <1>0, <1>1, <2>1
  <2>2. CASE i \in 1..Len(records) /\ records[i].url = u
    <3>1. i # 0
      BY <1>1, <2>2
    <3>2. records' = [records EXCEPT ![i] = [records[i] EXCEPT !.answered = TRUE]]
      BY <1>0, <3>1
    <3>3. PICK r \in Record : r = [records[i] EXCEPT !.answered = TRUE] /\ r.url = u
      <4>1. records[i] \in Record
        BY <1>1, <2>2
      <4>2. \A r \in Record : /\ [r EXCEPT !.answered = TRUE] \in Record
                             /\ [r EXCEPT !.answered = TRUE].url = r.url
        BY DEF Record
      <4> QED BY <2>2, <4>1, <4>2
    <3> HIDE DEF u
    <3>4. records' = [records EXCEPT ![i] = r]
      BY <3>2, <3>3
    <3>5. records' \in Seq(Record) /\ Len(records') = Len(records)
      BY <1>1, <2>2, <3>4, ReplaceFacts
    <3>6. ASSUME NEW j \in 1..seen
          PROVE  /\ records'[j].url = records[j].url
                 /\ records'[j].answered = records[j].answered \/ records[j].url = u
      <4>1. CASE j = i
        <5>1. records'[j] = r
          BY <1>1, <2>2, <3>4, <4>1, ReplaceFacts
        <5> QED BY <2>2, <3>3, <4>1, <5>1
      <4>2. CASE j # i
        <5>1. records'[j] = records[j]
          BY <1>1, <2>2, <3>4, <4>2, ReplaceFacts
        <5> QED BY <5>1
      <4> QED BY <4>1, <4>2
    <3> QED BY <1>1, <3>5, <3>6
  <2> QED BY <1>2, <2>1, <2>2
<1>4. RendererTypeOK'
  <2>1. /\ UNCHANGED <<settle, pc, stop, result, collector, now, idleStart, elapsed, until>>
        /\ UNCHANGED <<requested, answered, seen>>
    BY <1>0 DEF timeVars, trafficVars
  <2>2. now \in Nat /\ heard \in Nat /\ Len(answered) \in Nat
    BY <1>1, RendererTypes
  <2>3. activity' \in 0..now' /\ heard' \in 0..Len(answered')
    BY <1>0, <2>1, <2>2
  <2> QED BY <1>3, <2>1, <2>3, Zenon DEF RendererTypeOK
<1>5. TimeInv'
  BY <1>0, ActivityKeepsTime
<1>6. RecordInv'
  <2>1. ASSUME NEW j \in 1..seen, records'[j].answered
        PROVE  \E k \in 1..heard + 1 : answered[k] = records'[j].url
    <3>1. CASE records[j].url = u
      BY <1>1, <1>3, <3>1
    <3>2. CASE records'[j].answered = records[j].answered
      <4>1. PICK k \in 1..heard : answered[k] = records[j].url
        BY <2>1, <3>2 DEF RecordInv
      <4> QED BY <1>1, <1>3, <4>1
    <3> QED BY <1>3, <3>1, <3>2
  <2>2. pc' \notin {"close", "done"}
    BY <1>0 DEF RecordInv
  <2>3. \A j \in 1..seen : records'[j].url = requested[j]
    BY <1>3 DEF RecordInv
  <2> QED BY <1>0, <1>3, <2>1, <2>2, <2>3 DEF RecordInv, trafficVars
<1> QED BY <1>4, <1>5, <1>6

(* One round of the settle loop.                                           *)
LEMMA PollKeepsTime ==
  ASSUME RendererInv, PollActivity
  PROVE  TimeInv' /\ RendererTypeOK'
<1> USE DEF RendererInv
<1> DEFINE waited == now - idleStart
<1>0. /\ now \in Nat /\ idleStart \in Nat /\ settle \in Nat /\ Poll \in Nat /\ until \in Nat
      /\ activity \in Nat /\ activity <= now /\ QuietTime \in Nat
      /\ pc = "poll" /\ idleStart <= now /\ now <= idleStart + settle
  BY RendererTypes DEF TimeInv, PollActivity
<1>1. /\ elapsed' = waited
      /\ UNCHANGED <<settle, stop, result, now, idleStart, trafficVars, collectorVars>>
  BY DEF PollActivity
<1>2. QuietTime' = QuietTime
  BY <1>1 DEF QuietTime, Lesser
<1>3. CASE pc' = "content" /\ UNCHANGED until
  BY <1>0, <1>1, <1>3 DEF TimeInv, RendererTypeOK, trafficVars, collectorVars
<1>4. CASE /\ ~(waited >= settle \/ IsIdle(waited))
           /\ pc' = "asleep" /\ until' = now + Nap(waited)
  <2>1. Nap(waited) \in Nat /\ Nap(waited) <= Poll /\ Nap(waited) <= settle - waited
    BY <1>0, <1>4 DEF Nap, Lesser, AtLeast0
  <2>2. now - activity <= QuietTime + idleStart
    BY <1>0, <1>4 DEF IsIdle, SinceActivity, Lesser
  <2>3. /\ until' \in Nat /\ now <= until' /\ until' <= idleStart + settle
        /\ until' - activity <= QuietTime + idleStart + Poll
    BY <1>0, <1>4, <2>1, <2>2
  <2>4. TimeInv'
    BY <1>0, <1>1, <1>2, <1>4, <2>3 DEF TimeInv, collectorVars
  <2>5. RendererTypeOK'
    BY <1>0, <1>1, <1>4, <2>3 DEF RendererTypeOK, trafficVars, collectorVars
  <2> QED BY <2>4, <2>5
<1> QED BY <1>3, <1>4 DEF PollActivity

LEMMA RenderKeeps ==
  ASSUME RendererInv, Render
  PROVE  RendererInv'
<1> USE DEF RendererInv
<1> USE DEF timeVars, trafficVars, collectorVars
<1>1. CASE Listen
  <2>1. pc = "start" /\ pc' = "goto"
    BY <1>1 DEF Listen, Go
  <2>2. RendererTypeOK' /\ TimeInv'
    BY <1>1, <2>1 DEF Listen, RendererTypeOK, TimeInv
  <2> QED BY <1>1, <2>1, <2>2 DEF Listen, RecordInv
<1>2. CASE Loaded
  <2>1. RendererTypeOK'
    BY <1>2 DEF Loaded, Go, RendererTypeOK
  <2>2. TimeInv'
    <3>1. now \in Nat /\ settle \in Nat
      BY RendererTypes
    <3>2. pc' = "poll" /\ idleStart' = now /\ now' = now /\ settle' = settle
      BY <1>2 DEF Loaded, Go
    <3> QED BY <3>1, <3>2 DEF TimeInv
  <2> QED BY <1>2, <2>1, <2>2, RecordsStand DEF Loaded, Go
<1>3. CASE PollActivity
  <2>1. /\ UNCHANGED <<records, requested, answered, seen, heard, collector, result>>
        /\ pc' \in {"content", "asleep"}
    BY <1>3 DEF PollActivity
  <2> QED BY <1>3, <2>1, PollKeepsTime, RecordsStand
<1>4. CASE WakeUp
  <2>1. RendererTypeOK'
    BY <1>4 DEF WakeUp, Go, RendererTypeOK
  <2>2. TimeInv'
    <3>1. now \in Nat /\ settle \in Nat /\ idleStart \in Nat /\ until \in Nat
      BY RendererTypes
    <3>2. /\ pc = "asleep" /\ pc' = "poll" /\ now >= until
          /\ UNCHANGED <<now, idleStart, until, settle>>
      BY <1>4 DEF WakeUp, Go
    <3>3. now <= until => until <= idleStart + settle /\ idleStart <= now
      BY <3>2 DEF TimeInv
    <3> QED BY <3>1, <3>2, <3>3 DEF TimeInv
  <2> QED BY <1>4, <2>1, <2>2, RecordsStand DEF WakeUp, Go
<1>5. CASE Capture \/ SendStop
  <2>1. RendererTypeOK'
    BY <1>5 DEF Capture, SendStop, Go, RendererTypeOK
  <2>2. TimeInv'
    BY <1>5 DEF Capture, SendStop, Go, TimeInv
  <2> QED BY <1>5, <2>1, <2>2, RecordsStand DEF Capture, SendStop, Go
<1>6. CASE ReadRecords
  <2>1. /\ collector = "ended" /\ pc' = "close" /\ result' = records
        /\ UNCHANGED <<settle, stop, timeVars, trafficVars, collectorVars>>
    BY <1>6 DEF ReadRecords, ReadRecordsWhen, Go
  <2>2. RendererTypeOK'
    BY <2>1 DEF RendererTypeOK
  <2> QED BY <2>1, <2>2 DEF TimeInv, RecordInv
<1>7. CASE Close
  <2>1. RendererTypeOK'
    BY <1>7 DEF Close, Go, RendererTypeOK
  <2>2. TimeInv'
    BY <1>7 DEF Close, Go, TimeInv
  <2> QED BY <1>7, <2>1, <2>2, RecordsStand DEF Close, Go
<1>8. CASE Fail
  <2>1. /\ pc' = "failed" /\ stop' \in {"open", "sent", "dropped"}
        /\ UNCHANGED <<settle, result, timeVars, trafficVars, collectorVars>>
    BY <1>8 DEF Fail, FailWith, RendererTypeOK
  <2>2. RendererTypeOK'
    BY <2>1 DEF RendererTypeOK
  <2> QED BY <2>1, <2>2, RecordsStand DEF TimeInv
<1> QED BY <1>1, <1>2, <1>3, <1>4, <1>5, <1>6, <1>7, <1>8 DEF Render

LEMMA TickKeeps ==
  ASSUME RendererInv, Tick
  PROVE  RendererInv'
<1> USE DEF RendererInv
<1>0. /\ now' = now + 1 /\ pc \in {"goto", "asleep"} /\ (pc = "asleep" => now < until)
      /\ UNCHANGED <<settle, pc, stop, result, idleStart, elapsed, until, trafficVars, collectorVars>>
  BY DEF Tick
<1>1. RendererTypeOK'
  BY <1>0, RendererTypes DEF RendererTypeOK, trafficVars, collectorVars
<1>2. TimeInv'
  <2>1. /\ now \in Nat /\ idleStart \in Nat /\ until \in Nat
        /\ QuietTime' = QuietTime /\ pc # "poll"
    BY <1>0, RendererTypes DEF QuietTime, Lesser
  <2>2. UNCHANGED <<settle, pc, idleStart, until, activity>>
    BY <1>0 DEF collectorVars
  <2>3. pc = "asleep" => idleStart <= now' /\ now' <= until
    BY <1>0, <2>1 DEF TimeInv
  <2> QED BY <2>1, <2>2, <2>3 DEF TimeInv
<1>3. RecordInv'
  BY <1>0, RecordsStand DEF trafficVars, collectorVars
<1> QED BY <1>1, <1>2, <1>3

LEMMA RendererStepInv == RendererInv /\ [RendererNext]_renderVars => RendererInv'
<1> SUFFICES ASSUME RendererInv, [RendererNext]_renderVars PROVE RendererInv'
  OBVIOUS
<1>1. CASE UNCHANGED renderVars
  BY <1>1 DEF renderVars, timeVars, trafficVars, collectorVars, RendererInv, RendererTypeOK,
              TimeInv, QuietTime, Lesser, RecordInv
<1>2. CASE CollectorStops
  <2>1. /\ collector' = "ended"
        /\ UNCHANGED <<settle, pc, stop, result, timeVars, trafficVars, activity, records, seen, heard>>
    BY <1>2 DEF CollectorStops
  <2>2. RendererTypeOK' /\ TimeInv'
    BY <2>1 DEF RendererInv, RendererTypeOK, TimeInv, QuietTime, Lesser, timeVars, trafficVars
  <2>3. RecordInv'
    BY <2>1 DEF RendererInv, RecordInv, trafficVars
  <2> QED BY <2>2, <2>3 DEF RendererInv
<1> QED BY <1>1, <1>2, TrafficKeeps, TakeRequestKeeps, TakeResponseKeeps, RenderKeeps, TickKeeps
        DEF RendererNext, Collect

LEMMA RendererAlways == RendererSpec => []RendererInv
BY RendererInitInv, RendererStepInv, PTL DEF RendererSpec

(* Types: no stream is read past what was announced, and the last activity *)
(* is never in the future.                                                 *)
THEOREM RendererTypeCorrect == RendererSpec => []RendererTypeOK
<1>1. RendererInv => RendererTypeOK
  BY DEF RendererInv
<1> QED BY <1>1, RendererAlways, PTL

(* The loop stays no longer than the settle time, and notices a quiet      *)
(* network in time.                                                        *)
THEOREM RenderSettlesInTime == RendererSpec => []SettlesInTime
<1>1. RendererInv => SettlesInTime
  <2> SUFFICES ASSUME RendererTypeOK, TimeInv PROVE SettlesInTime
    BY DEF RendererInv
  <2>1. /\ now \in Nat /\ idleStart \in Nat /\ settle \in Nat /\ Poll \in Nat /\ until \in Nat
        /\ activity \in Nat /\ QuietTime \in Nat
    BY RendererTypes
  <2>2. ASSUME pc \in {"poll", "asleep"} PROVE now - idleStart <= settle
    BY <2>1, <2>2 DEF TimeInv
  <2>3. ASSUME pc = "asleep" PROVE now - activity <= QuietTime + idleStart + Poll
    <3>1. now <= until /\ until - activity <= QuietTime + idleStart + Poll
      BY <2>3 DEF TimeInv
    <3>2. PICK quiet \in Nat : quiet = QuietTime
      BY <2>1
    <3> QED BY <2>1, <3>1, <3>2
  <2> QED BY <2>2, <2>3 DEF SettlesInTime
<1> QED BY <1>1, RendererAlways, PTL

(* What a call returns is what the collector saw of the traffic.           *)
THEOREM RecordsMatchTraffic == RendererSpec => []RecordsAreTraffic
<1>1. RendererInv => RecordsAreTraffic
  BY DEF RendererInv, RecordInv, RecordsAreTraffic
<1> QED BY <1>1, RendererAlways, PTL

(* A page is captured early only when its network was quiet.               *)
THEOREM RenderSettlesOnQuiet == RendererSpec => SettlesOnQuiet
<1>1. ASSUME RendererInv, RendererNext, pc = "poll", pc' = "content"
      PROVE  \/ now - idleStart >= settle
             \/ now - activity >= QuietTime /\ now - idleStart >= QuietTime
  <2>1. PollActivity
    BY <1>1 DEF RendererNext, BrowserRequests, BrowserAnswers, Collect, TakeRequest, TakeResponse,
                CollectorStops, Render, Listen, Loaded, WakeUp, Capture, SendStop, ReadRecords,
                ReadRecordsWhen, Close, Fail, FailWith, Tick, Go
  <2>2. now - idleStart >= settle \/ IsIdle(now - idleStart)
    BY <1>1, <2>1 DEF PollActivity
  <2>3. IsIdle(now - idleStart) => now - activity >= QuietTime /\ now - idleStart >= QuietTime
    <3>1. PICK waited \in Int, last \in Nat, quiet \in Nat :
            /\ waited = now - idleStart /\ last = activity /\ quiet = QuietTime
            /\ waited <= now
      <4>1. now \in Nat /\ idleStart \in Nat /\ activity \in Nat /\ QuietTime \in Nat
        BY <1>1, RendererTypes DEF RendererInv
      <4>2. now - idleStart \in Int /\ now - idleStart <= now
        BY <4>1
      <4> QED BY <4>1, <4>2
    <3>2. IsIdle(now - idleStart) => waited >= quiet /\ waited - Lesser(last, waited) >= quiet
      BY <3>1 DEF IsIdle, SinceActivity
    <3>3. now \in Nat /\ last <= now
      BY <1>1, <3>1, RendererTypes DEF RendererInv
    <3> QED BY <3>1, <3>2, <3>3 DEF Lesser
  <2> QED BY <2>2, <2>3
<1>2. RendererInv /\ [RendererNext]_renderVars
        => [pc = "poll" /\ pc' = "content" =>
              \/ now - idleStart >= settle
              \/ now - activity >= QuietTime /\ now - idleStart >= QuietTime]_renderVars
  BY <1>1
<1> QED BY <1>2, RendererAlways, PTL DEF RendererSpec, SettlesOnQuiet

=============================================================================
