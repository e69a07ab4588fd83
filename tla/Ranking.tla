------------------------------- MODULE Ranking -------------------------------
(***************************************************************************)
(* The scan of relocate (adaptive.rs): one element after the other, in     *)
(* document order, with a running maximum, a count of the elements tied at *)
(* it, and a short list of the best.  What an element scores is module     *)
(* Similarity's; here the scores are given.                                *)
(***************************************************************************)
EXTENDS Integers, Sequences, FiniteSets

CONSTANTS Scans,     \* the calls: [scores, threshold, maxElements]
          MaxReport  \* MAX_REPORT_CANDIDATES

Scan == [scores : Seq(0..100), threshold : Nat, maxElements : Nat]

ASSUME RankingAssumption == Scans \subseteq Scan /\ MaxReport \in Nat \ {0}

NoScore == -1  \* None

VARIABLES scan,
          scanned, tooLarge,
          top,     \* top_confidence
          tied,    \* tied_at_top
          report,  \* reported, best first
          status   \* "scanning", then how the relocation concluded

rankingVars == <<scan, scanned, tooLarge, top, tied, report, status>>

Candidate == [index : Nat, confidence : 0..100]

Outcomes == {"Found", "Ambiguous", "BelowThreshold", "NotFound", "TooLarge"}

RankingTypeOK ==
  /\ scan \in Scan
  /\ scanned \in Nat /\ scanned <= Len(scan.scores)
  /\ tooLarge \in BOOLEAN
  /\ top \in 0..100 \cup {NoScore}
  /\ tied \in Nat
  /\ report \in Seq(Candidate)
  /\ status \in Outcomes \cup {"scanning"}

RankingInit ==
  /\ scan \in Scans
  /\ scanned = 0 /\ tooLarge = FALSE
  /\ top = NoScore /\ tied = 0
  /\ report = <<>>
  /\ status = "scanning"

Threshold == IF scan.threshold <= 100 THEN scan.threshold ELSE 100
MaxElements == IF scan.maxElements >= 1 THEN scan.maxElements ELSE 1
-----------------------------------------------------------------------------
(* insert_candidate.                                                       *)

Outranks(c, e) == \/ e.confidence < c.confidence
                  \/ e.confidence = c.confidence /\ e.index > c.index

(* The first place whose element c outranks, or the end.                   *)
IsPosition(best, c, p) ==
  /\ p \in 1..Len(best) + 1
  /\ p <= Len(best) => Outranks(c, best[p])
  /\ \A q \in 1..p - 1 : ~Outranks(c, best[q])

InsertedAt(best, c, p) ==
  [i \in 1..Len(best) + 1 |-> IF i < p THEN best[i] ELSE IF i = p THEN c ELSE best[i - 1]]

Insert(best, c) ==
  LET longer == InsertedAt(best, c, CHOOSE p \in 1..Len(best) + 1 : IsPosition(best, c, p))
  IN  IF Len(longer) > MaxReport THEN SubSeq(longer, 1, Len(longer) - 1) ELSE longer
-----------------------------------------------------------------------------
Done == scanned = Len(scan.scores) \/ tooLarge

(* Bug variant: the scan may look at one element too many.                 *)
AtCapLate == scanned > MaxElements

AtCap == scanned >= MaxElements

(* The cap is looked at before each element.                               *)
HitCap == /\ status = "scanning" /\ ~Done /\ AtCap
          /\ tooLarge' = TRUE
          /\ UNCHANGED <<scan, scanned, top, tied, report, status>>

TopAfter(score) == IF top = NoScore \/ score > top THEN score ELSE top

(* Bug variant: an element that equals the maximum is not counted.         *)
TiedAfterUncounted(score) == IF top = NoScore \/ score > top THEN 1 ELSE tied

TiedAfter(score) ==
  CASE top = NoScore \/ score > top -> 1
    [] score = top                  -> tied + 1
    [] OTHER                        -> tied

ScanElement ==
  /\ status = "scanning" /\ ~Done /\ ~AtCap
  /\ LET score == scan.scores[scanned + 1] IN
       /\ top' = TopAfter(score)
       /\ tied' = TiedAfter(score)
       /\ report' = Insert(report, [index |-> scanned, confidence |-> score])
  /\ scanned' = scanned + 1
  /\ UNCHANGED <<scan, tooLarge, status>>

Outcome == IF tooLarge THEN "TooLarge"
           ELSE IF scanned = 0 THEN "NotFound"
           ELSE IF top < Threshold THEN "BelowThreshold"
           ELSE IF tied > 1 THEN "Ambiguous"
           ELSE "Found"

Conclude == /\ status = "scanning" /\ Done
            /\ status' = Outcome
            /\ report' = IF tooLarge THEN <<>> ELSE report
            /\ UNCHANGED <<scan, scanned, tooLarge, top, tied>>

RankingNext == HitCap \/ ScanElement \/ Conclude

RankingSpec == RankingInit /\ [][RankingNext]_rankingVars
-----------------------------------------------------------------------------
(* Correctness.                                                            *)

(* A relocation is Found only with one element at the highest score of the *)
(* whole document, at or above the threshold, and first in the report; it  *)
(* never presents one of several.                                          *)
FoundIsUnique ==
  status = "Found" =>
    \E k \in DOMAIN scan.scores :
      /\ scan.scores[k] >= Threshold
      /\ \A j \in DOMAIN scan.scores \ {k} : scan.scores[j] < scan.scores[k]
      /\ report # <<>> /\ report[1] = [index |-> k - 1, confidence |-> scan.scores[k]]

(* Element j comes before element k in a ranking: the order of a report.   *)
RanksBefore(j, k) == \/ scan.scores[j] > scan.scores[k]
                     \/ scan.scores[j] = scan.scores[k] /\ j < k

(* The report is what sorting the whole document by score, then by place,  *)
(* and keeping the first MaxReport would give, and every outcome is what   *)
(* the scores say: a document over the cap, and only that, is not ranked.  *)
ReportIsRanking ==
  status # "scanning" =>
    LET n == Len(scan.scores)
        rank(k) == 1 + Cardinality({j \in 1..n : RanksBefore(j, k)})
        best == {k \in 1..n : rank(k) = 1}
    IN  /\ (status = "TooLarge") <=> (n > MaxElements)
        /\ (status = "NotFound") <=> (n = 0)
        /\ n \in 1..MaxElements =>
             /\ Len(report) = IF n < MaxReport THEN n ELSE MaxReport
             /\ \A k \in 1..n : rank(k) <= MaxReport =>
                  report[rank(k)] = [index |-> k - 1, confidence |-> scan.scores[k]]
             /\ (status = "BelowThreshold") <=> (\A k \in 1..n : scan.scores[k] < Threshold)
             /\ (status = "Ambiguous") => (\E k \in best, j \in 1..n : j # k /\ scan.scores[j] = scan.scores[k])
        /\ n > MaxElements => report = <<>>
=============================================================================
