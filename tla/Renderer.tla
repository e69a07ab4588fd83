------------------------------ MODULE Renderer ------------------------------
(***************************************************************************)
(* renderer.rs: one call of render, the collector task it spawns, and the  *)
(* page's network traffic.  The browser announces requests and responses   *)
(* on two streams; the collector notes the time of the last event it took  *)
(* and keeps a record per request; the render task polls that time until   *)
(* the network is quiet or the settle time is over, captures the page, and *)
(* stops the collector before it reads the records.  Time is counted in    *)
(* ticks of the clock; what takes no sleep takes no time.                  *)
(***************************************************************************)
EXTENDS Integers, Sequences, SequencesExt

CONSTANTS Urls,
          Quiet, Poll,  \* IDLE_QUIET, IDLE_POLL
          Settles,      \* the settle times a caller may ask for
          LoadTime,     \* bound: the browser gives up a navigation by then
          MaxRequests   \* bound on the page's traffic

ASSUME RendererAssumption ==
  /\ Quiet \in Nat /\ Poll \in Nat \ {0} /\ Settles \subseteq Nat
  /\ LoadTime \in Nat /\ MaxRequests \in Nat

VARIABLES now,        \* milliseconds since `started`
          settle,
          pc,         \* of render
          idleStart, elapsed, until,  \* its locals in the settle loop
          collector,  \* "none", "running", "ended"
          stop,       \* the oneshot: "open", "sent", or "dropped" with its sender
          activity,   \* last_activity_ms
          records,    \* requests: the shared vector
          result,     \* network_requests, as returned
          requested,  \* the traffic: URLs requested so far, in order
          answered,   \*   and the URLs of responses, in order
          seen, heard \* events of each stream the collector has taken

timeVars == <<now, idleStart, elapsed, until>>
trafficVars == <<requested, answered>>
collectorVars == <<collector, activity, records, seen, heard>>
renderVars == <<settle, pc, stop, result, timeVars, trafficVars, collectorVars>>

Record == [url : Urls, answered : BOOLEAN]

RendererTypeOK ==
  /\ now \in Nat /\ idleStart \in Nat /\ elapsed \in Nat /\ until \in Nat
  /\ settle \in Settles
  /\ pc \in {"start", "goto", "poll", "asleep", "content", "page", "join",
             "close", "done", "failed"}
  /\ collector \in {"none", "running", "ended"}
  /\ stop \in {"open", "sent", "dropped"}
  /\ activity \in 0..now
  /\ records \in Seq(Record) /\ result \in Seq(Record)
  /\ requested \in Seq(Urls) /\ answered \in Seq(Urls)
  /\ seen \in 0..Len(requested) /\ heard \in 0..Len(answered)

RendererInit ==
  /\ now = 0 /\ idleStart = 0 /\ elapsed = 0 /\ until = 0
  /\ settle \in Settles
  /\ pc = "start" /\ collector = "none" /\ stop = "open"
  /\ activity = 0 /\ records = <<>> /\ result = <<>>
  /\ requested = <<>> /\ answered = <<>> /\ seen = 0 /\ heard = 0
-----------------------------------------------------------------------------
(* The browser.  A tag may fire at any time once navigation has begun; a   *)
(* response follows its request.                                           *)

Traffic == pc \notin {"start", "done", "failed"}

BrowserRequests == /\ Traffic /\ Len(requested) < MaxRequests
                   /\ \E u \in Urls : requested' = Append(requested, u)
                   /\ UNCHANGED <<settle, pc, stop, result, timeVars, answered, collectorVars>>

Count(seq, u) == Len(SelectSeq(seq, LAMBDA v : v = u))

BrowserAnswers ==
  /\ Traffic
  /\ \E u \in Urls : /\ Count(answered, u) < Count(requested, u)
                     /\ answered' = Append(answered, u)
  /\ UNCHANGED <<settle, pc, stop, result, timeVars, requested, collectorVars>>
-----------------------------------------------------------------------------
(* The collector.  select! takes any branch that is ready, in any order.   *)

TakeRequest ==
  /\ collector = "running" /\ seen < Len(requested)
  /\ seen' = seen + 1
  /\ activity' = now
  /\ records' = Append(records, [url |-> requested[seen + 1], answered |-> FALSE])
  /\ UNCHANGED <<settle, pc, stop, result, timeVars, trafficVars, collector, heard>>

(* The latest record of the URL, or 0 when its request is still to come.   *)
RecordOf(u) == SelectLastInSeq(records, LAMBDA r : r.url = u)

TakeResponse ==
  /\ collector = "running" /\ heard < Len(answered)
  /\ heard' = heard + 1
  /\ activity' = now
  /\ LET i == RecordOf(answered[heard + 1]) IN
       records' = IF i = 0 THEN records ELSE [records EXCEPT ![i].answered = TRUE]
  /\ UNCHANGED <<settle, pc, stop, result, timeVars, trafficVars, collector, seen>>

CollectorStops ==
  /\ collector = "running" /\ stop # "open"
  /\ collector' = "ended"
  /\ UNCHANGED <<settle, pc, stop, result, timeVars, trafficVars, activity, records, seen, heard>>
-----------------------------------------------------------------------------
(* render.                                                                 *)

Go(from, to) == pc = from /\ pc' = to

(* An error returns at once; the sender of the oneshot goes with it.       *)
FailWith(sender) ==
  /\ pc \in {"start", "goto", "content", "page", "close"}
  /\ pc' = "failed"
  /\ stop' = sender
  /\ UNCHANGED <<settle, result, timeVars, trafficVars, collectorVars>>

(* Bug variant: the sender outlives the call.                              *)
FailKeeping == FailWith(stop)

Fail == FailWith(IF stop = "open" THEN "dropped" ELSE stop)

(* Listeners are attached and the collector runs before navigation starts. *)
Listen == /\ Go("start", "goto")
          /\ collector' = "running"
          /\ UNCHANGED <<settle, stop, result, timeVars, trafficVars,
                         activity, records, seen, heard>>

Loaded == /\ Go("goto", "poll")
          /\ idleStart' = now
          /\ UNCHANGED <<settle, stop, result, now, elapsed, until, trafficVars, collectorVars>>

AtLeast0(n) == IF n >= 0 THEN n ELSE 0
Lesser(x, y) == IF x <= y THEN x ELSE y

(* The window is over IDLE_QUIET, or the whole of a shorter settle time.   *)
QuietTime == Lesser(Quiet, settle)

(* Activity is counted from `started`, the time waited from idle_start.    *)
SinceActivity(waited) == waited - Lesser(activity, waited)

(* Bug variants: the wait itself counts as quiet; the last sleep is not    *)
(* cut.                                                                    *)
IsIdleFromLoad(waited) == waited >= QuietTime
NapUncut(waited) == Poll

IsIdle(waited) == waited >= QuietTime /\ SinceActivity(waited) >= QuietTime

Nap(waited) == Lesser(Poll, AtLeast0(settle - waited))

PollActivity ==
  LET waited == now - idleStart IN
  /\ pc = "poll"
  /\ elapsed' = waited
  /\ IF waited >= settle \/ IsIdle(waited)
     THEN pc' = "content" /\ UNCHANGED until
     ELSE pc' = "asleep" /\ until' = now + Nap(waited)
  /\ UNCHANGED <<settle, stop, result, now, idleStart, trafficVars, collectorVars>>

WakeUp == /\ Go("asleep", "poll") /\ now >= until
          /\ UNCHANGED <<settle, stop, result, timeVars, trafficVars, collectorVars>>

(* content(); then url() and get_cookies(), after which stop is sent.      *)
Capture == /\ Go("content", "page")
           /\ UNCHANGED <<settle, stop, result, timeVars, trafficVars, collectorVars>>

SendStop == /\ Go("page", "join")
            /\ stop' = "sent"
            /\ UNCHANGED <<settle, result, timeVars, trafficVars, collectorVars>>

ReadRecordsWhen(ready) ==
  /\ ready
  /\ Go("join", "close")
  /\ result' = records
  /\ UNCHANGED <<settle, stop, timeVars, trafficVars, collectorVars>>

(* Bug variant: the task is told to stop and not waited for.               *)
ReadRecordsAtOnce == ReadRecordsWhen(TRUE)

ReadRecords == ReadRecordsWhen(collector = "ended")

Close == /\ Go("close", "done")
         /\ UNCHANGED <<settle, stop, result, timeVars, trafficVars, collectorVars>>

(* Only navigation and sleeps take time.                                   *)
Tick == /\ \/ pc = "goto" /\ now < LoadTime
           \/ pc = "asleep" /\ now < until
        /\ now' = now + 1
        /\ UNCHANGED <<settle, pc, stop, result, idleStart, elapsed, until,
                       trafficVars, collectorVars>>

Collect == TakeRequest \/ TakeResponse \/ CollectorStops

Render == \/ Listen \/ Loaded \/ PollActivity \/ WakeUp \/ Capture
          \/ SendStop \/ ReadRecords \/ Close \/ Fail

RendererNext == BrowserRequests \/ BrowserAnswers \/ Collect \/ Render \/ Tick

(* A ready task runs, a navigation ends, and select! is random: the branch *)
(* that stays ready is taken.                                              *)
RendererSpec ==
  /\ RendererInit /\ [][RendererNext]_renderVars
  /\ WF_renderVars(Tick) /\ WF_renderVars(Render) /\ WF_renderVars(CollectorStops)
-----------------------------------------------------------------------------
(* Correctness.                                                            *)

(* A page is captured before its settle time is over only when nothing was *)
(* seen of the network for the quiet window, although the loop counts from *)
(* the load and the collector from before the navigation.                  *)
SettlesOnQuiet ==
  [][pc = "poll" /\ pc' = "content" =>
       \/ now - idleStart >= settle
       \/ now - activity >= QuietTime /\ now - idleStart >= QuietTime]_renderVars

(* What is returned is what the collector saw, in the order the browser    *)
(* announced it, with nothing added by the collector afterwards.           *)
RecordsAreTraffic ==
  /\ \A i \in 1..Len(records) : records[i].url = requested[i]
  /\ \A i \in 1..Len(records) : records[i].answered =>
       \E k \in 1..heard : answered[k] = records[i].url
  /\ pc \in {"close", "done"} => result = records

(* The loop never stays longer than the settle time, and it notices a      *)
(* quiet network late by no more than the navigation took and one sleep.   *)
SettlesInTime ==
  /\ pc \in {"poll", "asleep"} => now - idleStart <= settle
  /\ pc = "asleep" => now - activity <= QuietTime + idleStart + Poll

(* A call ends, by success or error, and its collector ends after it.      *)
CallEnds == pc = "goto" ~> pc \in {"done", "failed"} /\ collector = "ended"
=============================================================================
