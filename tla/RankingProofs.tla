---------------------------- MODULE RankingProofs ----------------------------
(***************************************************************************)
(* What relocate presents as a match is the only best element, and what it *)
(* reports is the ranking of the whole document, for any document,         *)
(* threshold, cap and length of the report.                                *)
(***************************************************************************)
EXTENDS Ranking, FiniteSetTheorems, WellFoundedInduction, TLAPS

(* A set of naturals that is not empty has a least element.                *)
LEMMA LeastNatural ==
  ASSUME NEW T \in SUBSET Nat, T # {}
  PROVE  \E n \in T : \A m \in T : n <= m
<1> DEFINE R == OpToRel(<, Nat)
<1>1. \E n \in T : \A m \in T : ~(<<m, n>> \in R)
  <2>1. IsWellFoundedOn(R, Nat)
    BY NatLessThanWellFounded
  <2> HIDE DEF R
  <2> QED BY <2>1, WFMin
<1>2. ASSUME NEW n \in T, NEW m \in T, ~(<<m, n>> \in R) PROVE n <= m
  BY <1>2 DEF OpToRel
<1> QED BY <1>1, <1>2

(* There is a place to insert at, and only one.                            *)
LEMMA PositionExists ==
  ASSUME NEW best \in Seq(Candidate), NEW c \in Candidate
  PROVE  \E p \in 1..Len(best) + 1 : IsPosition(best, c, p)
<1> DEFINE T == {p \in 1..Len(best) + 1 : p <= Len(best) => Outranks(c, best[p])}
<1>1. Len(best) + 1 \in T /\ T \in SUBSET Nat
  OBVIOUS
<1>2. PICK p \in T : \A q \in T : p <= q
  <2> HIDE DEF T
  <2> QED BY <1>1, LeastNatural
<1>3. ASSUME NEW q \in 1..p - 1 PROVE ~Outranks(c, best[q])
  <2>1. q \notin T
    BY <1>2
  <2>2. q \in 1..Len(best) /\ q \in 1..Len(best) + 1
    BY <1>2
  <2> QED BY <2>1, <2>2
<1> QED BY <1>2, <1>3 DEF IsPosition

(* insert_candidate puts the new candidate at its position, and drops the  *)
(* last when the report is full.                                           *)
LEMMA InsertPlaces ==
  ASSUME NEW best \in Seq(Candidate), NEW c \in Candidate
  PROVE  \E p \in 1..Len(best) + 1 :
           /\ IsPosition(best, c, p)
           /\ Insert(best, c) \in Seq(Candidate)
           /\ Len(Insert(best, c)) = IF Len(best) < MaxReport THEN Len(best) + 1 ELSE Len(best)
           /\ \A i \in 1..Len(Insert(best, c)) : Insert(best, c)[i] =
                IF i < p THEN best[i] ELSE IF i = p THEN c ELSE best[i - 1]
<1> DEFINE p == CHOOSE p \in 1..Len(best) + 1 : IsPosition(best, c, p)
           longer == InsertedAt(best, c, p)
<1>1. p \in 1..Len(best) + 1 /\ IsPosition(best, c, p)
  BY PositionExists
<1>2. /\ longer \in Seq(Candidate)
      /\ Len(longer) = Len(best) + 1
      /\ \A i \in 1..Len(best) + 1 :
           longer[i] = IF i < p THEN best[i] ELSE IF i = p THEN c ELSE best[i - 1]
  <2> HIDE DEF p
  <2>1. \A i \in 1..Len(best) + 1 :
          (IF i < p THEN best[i] ELSE IF i = p THEN c ELSE best[i - 1]) \in Candidate
    BY <1>1
  <2> QED BY <2>1 DEF InsertedAt
<1>3. Insert(best, c) = IF Len(longer) > MaxReport
                        THEN SubSeq(longer, 1, Len(longer) - 1) ELSE longer
  BY DEF Insert
<1> HIDE DEF longer, p
<1>4. CASE Len(best) < MaxReport
  <2>1. Insert(best, c) = longer
    BY <1>2, <1>3, <1>4, RankingAssumption
  <2> QED BY <1>1, <1>2, <1>4, <2>1
<1>5. CASE ~(Len(best) < MaxReport)
  <2>1. Insert(best, c) = SubSeq(longer, 1, Len(best))
    BY <1>2, <1>3, <1>5, RankingAssumption
  <2>2. /\ Insert(best, c) \in Seq(Candidate) /\ Len(Insert(best, c)) = Len(best)
        /\ \A i \in 1..Len(best) : Insert(best, c)[i] = longer[i]
    BY <1>2, <2>1
  <2> QED BY <1>1, <1>2, <1>5, <2>2
<1> QED BY <1>4, <1>5

(* insert_candidate returns a list of candidates whose head is the better  *)
(* of the old head and the new candidate.                                  *)
LEMMA InsertKeepsTheBest ==
  ASSUME NEW best \in Seq(Candidate), NEW c \in Candidate
  PROVE  /\ Insert(best, c) \in Seq(Candidate)
         /\ Insert(best, c) # <<>>
         /\ Insert(best, c)[1] =
              IF best = <<>> \/ Outranks(c, best[1]) THEN c ELSE best[1]
<1>1. PICK p \in 1..Len(best) + 1 :
        /\ IsPosition(best, c, p)
        /\ Insert(best, c) \in Seq(Candidate)
        /\ Len(Insert(best, c)) = IF Len(best) < MaxReport THEN Len(best) + 1 ELSE Len(best)
        /\ \A i \in 1..Len(Insert(best, c)) : Insert(best, c)[i] =
             IF i < p THEN best[i] ELSE IF i = p THEN c ELSE best[i - 1]
  BY InsertPlaces
<1>2. 1 \in 1..Len(Insert(best, c)) /\ Insert(best, c) # <<>>
  BY <1>1, RankingAssumption
<1>3. p = 1 <=> best = <<>> \/ Outranks(c, best[1])
  <2>1. p = 1 => best = <<>> \/ Outranks(c, best[1])
    BY <1>1 DEF IsPosition
  <2>2. p # 1 => best # <<>> /\ ~Outranks(c, best[1])
    BY <1>1 DEF IsPosition
  <2> QED BY <2>1, <2>2
<1>4. Insert(best, c)[1] = IF p = 1 THEN c ELSE best[1]
  BY <1>1, <1>2
<1> QED BY <1>1, <1>2, <1>3, <1>4
-----------------------------------------------------------------------------
(* Element k is the first of the best among those scanned, it heads the    *)
(* report, and no other equals it unless a tie was counted.                *)
LeadsScan(k) ==
  /\ scan.scores[k] = top
  /\ report # <<>> /\ report[1] = [index |-> k - 1, confidence |-> top]
  /\ \A j \in 1..scanned : scan.scores[j] <= top
  /\ \A j \in 1..k - 1 : scan.scores[j] < top
  /\ tied = 1 => \A j \in 1..scanned \ {k} : scan.scores[j] < top

(* The running values before the first element, and the leader after it;   *)
(* a scan is over before it is concluded, and concluded as it stands.      *)
RankingInv ==
  /\ RankingTypeOK
  /\ scanned = 0 => top = NoScore /\ report = <<>>
  /\ scanned > 0 => tied >= 1
  /\ scanned > 0 /\ status # "TooLarge" => \E k \in 1..scanned : LeadsScan(k)
  /\ status = "Found" =>
       /\ scanned = Len(scan.scores) /\ scanned > 0
       /\ top >= Threshold /\ tied = 1

(* What scanning reads: scores between 0 and 100.                          *)
LEMMA ScoresInRange ==
  ASSUME RankingTypeOK
  PROVE  /\ Len(scan.scores) \in Nat
         /\ DOMAIN scan.scores = 1..Len(scan.scores)
         /\ \A j \in 1..Len(scan.scores) : scan.scores[j] \in 0..100
         /\ Threshold \in 0..100 /\ MaxElements \in Nat
<1>1. scan.scores \in Seq(0..100) /\ scan.threshold \in Nat /\ scan.maxElements \in Nat
  BY DEF RankingTypeOK, Scan
<1>2. ASSUME NEW S, NEW s \in Seq(S)
      PROVE /\ Len(s) \in Nat /\ DOMAIN s = 1..Len(s)
            /\ \A j \in 1..Len(s) : s[j] \in S
  OBVIOUS
<1>3. scan.threshold \in Nat /\ scan.maxElements \in Nat
  BY <1>1
<1>4. Threshold \in 0..100 /\ MaxElements \in Nat
  BY <1>3 DEF Threshold, MaxElements
<1> QED BY <1>1, <1>2, <1>4

(* The invariant depends on the running values and the outcome only.       *)
LEMMA LeadsScanUnchanged ==
  ASSUME UNCHANGED <<scan, scanned, top, tied, report>>
  PROVE  /\ Threshold' = Threshold
         /\ \A k : LeadsScan(k) <=> LeadsScan(k)'
BY DEF LeadsScan, Threshold

LEMMA RankingInitInv == RankingInit => RankingInv
<1> SUFFICES ASSUME RankingInit PROVE RankingInv
  OBVIOUS
<1>1. scan \in Scan
  BY RankingAssumption DEF RankingInit
<1>2. Len(scan.scores) \in Nat
  <2>1. scan.scores \in Seq(0..100)
    BY <1>1 DEF Scan
  <2> QED BY <2>1
<1>3. report \in Seq(Candidate)
  BY DEF RankingInit
<1>4. /\ scanned = 0 /\ tooLarge = FALSE /\ top = NoScore /\ tied = 0
      /\ report = <<>> /\ status = "scanning"
  BY DEF RankingInit
<1>5. RankingTypeOK
  <2>1. tooLarge \in BOOLEAN
    BY <1>4
  <2>2. scanned \in Nat /\ scanned <= Len(scan.scores) /\ tied \in Nat /\ top \in 0..100 \cup {NoScore}
    BY <1>2, <1>4
  <2> QED BY <1>1, <1>3, <1>4, <2>1, <2>2 DEF RankingTypeOK
<1> QED BY <1>4, <1>5 DEF RankingInv

(* Scanning one more element.                                              *)
LEMMA ScanElementInv == RankingInv /\ ScanElement => RankingInv'
<1> SUFFICES ASSUME RankingInv, ScanElement PROVE RankingInv'
  OBVIOUS
<1> DEFINE score == scan.scores[scanned + 1]
           c == [index |-> scanned, confidence |-> score]
<1>1. /\ scanned \in Nat /\ tied \in Nat /\ top \in 0..100 \cup {NoScore}
      /\ report \in Seq(Candidate) /\ Len(scan.scores) \in Nat
      /\ scanned + 1 <= Len(scan.scores)
  BY ScoresInRange DEF RankingInv, RankingTypeOK, ScanElement, Done
<1>2. score \in 0..100 /\ \A j \in 1..scanned + 1 : scan.scores[j] \in 0..100
  <2>1. \A j \in 1..Len(scan.scores) : scan.scores[j] \in 0..100
    BY ScoresInRange DEF RankingInv
  <2>2. \A j \in 1..scanned + 1 : j \in 1..Len(scan.scores)
    BY <1>1
  <2>3. scanned + 1 \in 1..scanned + 1
    BY <1>1
  <2> QED BY <2>1, <2>2, <2>3
<1>3. c \in Candidate
  BY <1>1, <1>2 DEF Candidate
<1>4. /\ top' = TopAfter(score) /\ tied' = TiedAfter(score)
      /\ report' = Insert(report, c)
      /\ scanned' = scanned + 1 /\ scan' = scan /\ tooLarge' = tooLarge /\ status' = status
      /\ status = "scanning"
  BY DEF ScanElement
<1>5. /\ report' \in Seq(Candidate) /\ report' # <<>>
      /\ report'[1] = IF report = <<>> \/ Outranks(c, report[1]) THEN c ELSE report[1]
  BY <1>1, <1>3, <1>4, InsertKeepsTheBest
<1>6. RankingTypeOK'
  <2>1. top' \in 0..100 \cup {NoScore} /\ tied' \in Nat
    <3> HIDE DEF score
    <3> QED BY <1>1, <1>2, <1>4 DEF TopAfter, TiedAfter
  <2> QED BY <1>1, <1>4, <1>5, <2>1 DEF RankingInv, RankingTypeOK
<1>7. tied' >= 1
  <2>1. top = NoScore \/ tied >= 1
    BY <1>1 DEF RankingInv
  <2> HIDE DEF score
  <2> QED BY <1>1, <1>2, <1>4, <2>1 DEF TiedAfter
<1>8. \E k \in 1..scanned + 1 : LeadsScan(k)'
  <2>1. CASE scanned = 0
    <3>1. top = NoScore /\ report = <<>>
      BY <2>1 DEF RankingInv
    <3>2. top' = score /\ report'[1] = [index |-> 0, confidence |-> score] /\ score = scan.scores[1]
      BY <2>1, <3>1, <1>4, <1>5 DEF TopAfter
    <3> HIDE DEF score, c
    <3>3. LeadsScan(1)'
      BY <2>1, <3>2, <1>2, <1>4, <1>5 DEF LeadsScan
    <3> QED BY <3>3, <1>1
  <2>2. CASE scanned > 0
    <3>1. PICK k \in 1..scanned : LeadsScan(k)
      BY <2>2, <1>4 DEF RankingInv
    <3>2. /\ scan.scores[k] = top /\ report # <<>>
          /\ report[1] = [index |-> k - 1, confidence |-> top]
          /\ \A j \in 1..scanned : scan.scores[j] <= top
          /\ \A j \in 1..k - 1 : scan.scores[j] < top
          /\ tied = 1 => \A j \in 1..scanned \ {k} : scan.scores[j] < top
      BY <3>1 DEF LeadsScan
    <3>3. top \in 0..100 /\ top # NoScore /\ k \in Nat
      <4>1. k \in Nat /\ k \in 1..scanned + 1
        BY <3>1, <1>1
      <4>2. scan.scores[k] \in 0..100
        BY <4>1, <1>2
      <4>3. top = scan.scores[k]
        BY <3>2
      <4>4. top \in 0..100
        BY <4>2, <4>3
      <4> QED BY <4>1, <4>4 DEF NoScore
    <3>4. Outranks(c, report[1]) <=> score > top
      <4>1. c.index = scanned /\ c.confidence = score
        OBVIOUS
      <4>2. report[1].index = k - 1 /\ report[1].confidence = top
        BY <3>2
      <4> HIDE DEF c, score
      <4> QED BY <4>1, <4>2, <1>1, <1>2, <3>3 DEF Outranks
    <3>5. CASE score > top
      <4>1. PICK n : n = scanned + 1
        OBVIOUS
      <4>2. /\ top' = score /\ tied' = 1
            /\ report'[1] = [index |-> n - 1, confidence |-> score] /\ score = scan.scores[n]
        <5>1. c = [index |-> n - 1, confidence |-> score] /\ score = scan.scores[n]
          BY <4>1, <1>1
        <5>2. report'[1] = c
          BY <3>4, <3>5, <1>5
        <5> HIDE DEF c, score
        <5>3. top' = score /\ tied' = 1
          BY <3>3, <3>5, <1>2, <1>4 DEF TopAfter, TiedAfter
        <5> QED BY <5>1, <5>2, <5>3
      <4> HIDE DEF c, score
      <4>3. \A j \in 1..n - 1 : scan.scores[j] < score
        <5>1. \A j \in 1..n - 1 : j \in 1..scanned /\ j \in 1..scanned + 1
          BY <4>1, <1>1
        <5>2. \A j \in 1..n - 1 : scan.scores[j] <= top /\ scan.scores[j] \in 0..100
          BY <5>1, <3>2, <1>2
        <5>3. score \in Int /\ top \in Int /\ score > top
          BY <3>3, <3>5, <1>2
        <5> QED BY <5>2, <5>3
      <4>4. LeadsScan(n)'
        <5>1. /\ scan'.scores[n] = top' /\ report' # <<>>
              /\ report'[1] = [index |-> n - 1, confidence |-> top']
              /\ n = scanned'
          BY <4>1, <4>2, <1>4, <1>5
        <5>2. \A j \in 1..n - 1 : scan'.scores[j] < top'
          BY <4>2, <4>3, <1>4
        <5>3. \A j \in 1..n : j = n \/ j \in 1..n - 1
          BY <4>1, <1>1
        <5>4. \A j \in 1..n : scan'.scores[j] <= top'
          <6>1. \A j \in 1..n : scan.scores[j] \in 0..100
            BY <4>1, <1>2
          <6>2. scan' = scan /\ top' \in 0..100 /\ scan.scores[n] = top'
            BY <1>2, <1>4, <4>2
          <6>3. ASSUME NEW j \in 1..n PROVE scan.scores[j] <= top'
            <7>1. CASE j = n
              BY <7>1, <6>2
            <7>2. CASE j \in 1..n - 1
              <8>1. scan.scores[j] < top' /\ scan.scores[j] \in 0..100
                BY <7>2, <5>2, <6>1, <6>2
              <8> QED BY <8>1, <6>2
            <7> QED BY <7>1, <7>2, <5>3
          <6> QED BY <6>2, <6>3
        <5>5. \A j \in 1..n \ {n} : scan'.scores[j] < top'
          BY <5>2, <5>3
        <5> QED BY <5>1, <5>2, <5>4, <5>5 DEF LeadsScan
      <4> QED BY <4>1, <4>4, <1>1
    <3>6. CASE score <= top
      <4> HIDE DEF c, score
      <4>1. top' = top /\ report'[1] = report[1]
        BY <3>2, <3>3, <3>4, <3>6, <1>1, <1>2, <1>4, <1>5 DEF TopAfter
      <4>2. tied >= 1
        BY <2>2 DEF RankingInv
      <4>3. tied' = 1 => tied = 1 /\ score < top
        <5>1. tied' = IF score = top THEN tied + 1 ELSE tied
          BY <3>3, <3>6, <1>2, <1>4 DEF TiedAfter
        <5>2. score \in Int /\ top \in Int /\ ~(score > top) /\ tied \in Nat
          BY <3>3, <3>6, <1>1, <1>2
        <5> QED BY <5>1, <5>2, <4>2
      <4>4. \A j \in 1..scanned + 1 : j \in 1..scanned \/ scan.scores[j] = score
        BY <1>1 DEF score
      <4>5. \A j \in 1..scanned + 1 : scan.scores[j] <= top
        BY <4>4, <3>2, <3>6
      <4>6. tied' = 1 => \A j \in 1..scanned + 1 \ {k} : scan.scores[j] < top
        BY <4>3, <4>4, <3>2
      <4>7. LeadsScan(k)'
        BY <4>1, <4>5, <4>6, <3>2, <1>4, <1>5 DEF LeadsScan
      <4> QED BY <4>7, <1>1
    <3>7. score \in Int /\ top \in Int
      BY <1>2, <3>3
    <3> HIDE DEF score, c
    <3> QED BY <3>5, <3>6, <3>7
  <2> QED BY <2>1, <2>2, <1>1
<1> QED BY <1>1, <1>4, <1>6, <1>7, <1>8 DEF RankingInv

LEMMA HitCapInv == RankingInv /\ HitCap => RankingInv'
<1> SUFFICES ASSUME RankingInv, HitCap PROVE RankingInv'
  OBVIOUS
<1>1. /\ UNCHANGED <<scan, scanned, top, tied, report, status>>
      /\ tooLarge' = TRUE /\ status = "scanning"
  BY DEF HitCap
<1>2. RankingTypeOK'
  BY <1>1 DEF RankingInv, RankingTypeOK
<1> QED BY <1>1, <1>2, LeadsScanUnchanged DEF RankingInv

(* Concluding: Found is said only of a complete scan without a tie.        *)
LEMMA ConcludeInv == RankingInv /\ Conclude => RankingInv'
<1> SUFFICES ASSUME RankingInv, Conclude PROVE RankingInv'
  OBVIOUS
<1>1. /\ status' = Outcome /\ Outcome \in Outcomes
      /\ UNCHANGED <<scan, scanned, tooLarge, top, tied>>
      /\ report' = IF tooLarge THEN <<>> ELSE report
  BY DEF Conclude, Outcome, Outcomes
<1>2. RankingTypeOK'
  BY <1>1 DEF RankingInv, RankingTypeOK
<1>3. tooLarge <=> status' = "TooLarge"
  <2>1. tooLarge \in BOOLEAN
    BY DEF RankingInv, RankingTypeOK
  <2>2. tooLarge => Outcome = "TooLarge"
    BY DEF Outcome
  <2>3. ~tooLarge => Outcome # "TooLarge"
    <3>1. ~tooLarge => Outcome \in {"NotFound", "BelowThreshold", "Ambiguous", "Found"}
      BY DEF Outcome
    <3> QED BY <3>1
  <2> QED BY <1>1, <2>1, <2>2, <2>3
<1>4. status' = "Found" =>
        scanned = Len(scan.scores) /\ scanned > 0 /\ top >= Threshold /\ tied = 1
  <2> SUFFICES ASSUME status' = "Found"
               PROVE scanned = Len(scan.scores) /\ scanned > 0 /\ top >= Threshold /\ tied = 1
    OBVIOUS
  <2>1. ~tooLarge /\ scanned # 0 /\ ~(top < Threshold) /\ ~(tied > 1)
    BY <1>1 DEF Outcome
  <2>2. scanned \in Nat /\ tied \in Nat /\ top \in Int /\ Threshold \in Int
    BY DEF RankingInv, RankingTypeOK, Scan, Threshold, NoScore
  <2>3. scanned = Len(scan.scores)
    BY <2>1 DEF Conclude, Done
  <2> QED BY <2>1, <2>2, <2>3 DEF RankingInv
<1>5. scanned > 0 /\ status' # "TooLarge" => \E k \in 1..scanned : LeadsScan(k)'
  <2> SUFFICES ASSUME scanned > 0, status' # "TooLarge"
               PROVE  \E k \in 1..scanned : LeadsScan(k)'
    OBVIOUS
  <2>1. UNCHANGED <<scan, scanned, top, tied, report>>
    BY <1>1, <1>3
  <2>2. status = "scanning"
    BY DEF Conclude
  <2>3. PICK k \in 1..scanned : LeadsScan(k)
    BY <2>2 DEF RankingInv
  <2> QED BY <2>1, <2>3, LeadsScanUnchanged
<1>6. Threshold' = Threshold
  BY <1>1 DEF Threshold
<1>7. scanned = 0 => report' = <<>>
  BY <1>1 DEF RankingInv
<1> QED BY <1>1, <1>2, <1>4, <1>5, <1>6, <1>7 DEF RankingInv

LEMMA RankingStepInv == RankingInv /\ [RankingNext]_rankingVars => RankingInv'
<1>1. RankingInv /\ UNCHANGED rankingVars => RankingInv'
  <2> SUFFICES ASSUME RankingInv, UNCHANGED rankingVars PROVE RankingInv'
    OBVIOUS
  <2>1. UNCHANGED <<scan, scanned, tooLarge, top, tied, report, status>>
    BY DEF rankingVars
  <2>2. RankingTypeOK'
    BY <2>1 DEF RankingInv, RankingTypeOK
  <2> QED BY <2>1, <2>2, LeadsScanUnchanged DEF RankingInv
<1> QED BY <1>1, ScanElementInv, HitCapInv, ConcludeInv DEF RankingNext

LEMMA RankingInvariance == RankingSpec => []RankingInv
BY RankingInitInv, RankingStepInv, PTL DEF RankingSpec

(* The state of a scan is always what relocate's local variables may hold. *)
THEOREM RankingTypeCorrect == RankingSpec => []RankingTypeOK
<1>1. RankingInv => RankingTypeOK
  BY DEF RankingInv
<1> QED BY <1>1, RankingInvariance, PTL

(* What relocate reports as Found is the one element with the highest      *)
(* score of the whole document: the count of ties and the first place of   *)
(* the report (lib/parser adaptive.rs) never present one of several.       *)
THEOREM FoundIsTheOnlyBest == RankingSpec => []FoundIsUnique
<1>1. RankingInv => FoundIsUnique
  <2> SUFFICES ASSUME RankingInv, status = "Found" PROVE FoundIsUnique
    BY DEF FoundIsUnique
  <2>1. /\ scanned = Len(scan.scores) /\ scanned > 0
        /\ top >= Threshold /\ tied = 1
        /\ scan.scores \in Seq(0..100) /\ scanned \in Nat
    BY DEF RankingInv, RankingTypeOK, Scan
  <2>2. PICK k \in 1..scanned : LeadsScan(k)
    BY <2>1 DEF RankingInv
  <2>3. DOMAIN scan.scores = 1..scanned
    BY <2>1
  <2> QED BY <2>1, <2>2, <2>3 DEF LeadsScan, FoundIsUnique
<1> QED BY <1>1, RankingInvariance, PTL
-----------------------------------------------------------------------------
(* The report against the ranking.                                         *)

(* The elements among the first n that come before element k in a ranking. *)
Before(k, n) == {j \in 1..n : RanksBefore(j, k)}

RankAmong(k, n) == 1 + Cardinality(Before(k, n))

Reported(k) == [index |-> k - 1, confidence |-> scan.scores[k]]

(* Each place of a report holds the element of that rank among the first   *)
(* n, and no place is left out.                                            *)
Places(rep, n) ==
  /\ Len(rep) = IF n < MaxReport THEN n ELSE MaxReport
  /\ \A q \in 1..Len(rep) :
       \E k \in 1..n : rep[q] = Reported(k) /\ RankAmong(k, n) = q

(* The count of ties is believed only because there are two at the top.    *)
TieIsReal == tied > 1 =>
  \E i, j \in 1..scanned : i # j /\ scan.scores[i] = top /\ scan.scores[j] = top

(* What the cap leaves of a scan, and what was concluded of it.            *)
CapHolds == /\ scanned <= MaxElements
            /\ tooLarge => MaxElements <= scanned /\ scanned < Len(scan.scores)
            /\ status # "scanning" =>
                 Done /\ status = Outcome /\ (tooLarge => report = <<>>)

ReportInv == /\ RankingInv
             /\ status # "TooLarge" => Places(report, scanned)
             /\ TieIsReal
             /\ CapHolds

-----------------------------------------------------------------------------
(* The ranks of the first n elements.                                      *)

LEMMA BeforeFinite ==
  ASSUME NEW n \in Nat, NEW k
  PROVE  /\ IsFiniteSet(Before(k, n)) /\ Cardinality(Before(k, n)) \in Nat
         /\ Cardinality(Before(k, n)) <= n
<1>1. IsFiniteSet(1..n) /\ Cardinality(1..n) = n
  BY FS_Interval
<1>2. Before(k, n) \subseteq 1..n
  BY DEF Before
<1> QED BY <1>1, <1>2, FS_Subset, FS_CardinalityType

(* Elements that were scored are in a strict total order.                  *)
Scored(k) == k \in Nat /\ scan.scores[k] \in 0..100

LEMMA RanksBeforeIsTotal ==
  ASSUME NEW i, NEW j, NEW k, Scored(i), Scored(j), Scored(k)
  PROVE  /\ ~RanksBefore(i, i)
         /\ RanksBefore(i, j) /\ RanksBefore(j, k) => RanksBefore(i, k)
         /\ RanksBefore(i, j) \/ RanksBefore(j, i) \/ i = j
<1>1. /\ i \in Nat /\ j \in Nat /\ k \in Nat
      /\ scan.scores[i] \in 0..100 /\ scan.scores[j] \in 0..100 /\ scan.scores[k] \in 0..100
  BY DEF Scored
<1>2. PICK x \in 0..100, y \in 0..100, z \in 0..100 :
        x = scan.scores[i] /\ y = scan.scores[j] /\ z = scan.scores[k]
  BY <1>1
<1>3. /\ RanksBefore(i, i) <=> (x > x \/ i < i)
      /\ RanksBefore(i, j) <=> (x > y \/ (x = y /\ i < j))
      /\ RanksBefore(j, i) <=> (y > x \/ (y = x /\ j < i))
      /\ RanksBefore(j, k) <=> (y > z \/ (y = z /\ j < k))
      /\ RanksBefore(i, k) <=> (x > z \/ (x = z /\ i < k))
  BY <1>2 DEF RanksBefore
<1> QED BY <1>1, <1>3

LEMMA AllScored ==
  ASSUME RankingTypeOK, NEW n \in Nat, n <= Len(scan.scores), NEW k \in 1..n
  PROVE  Scored(k)
<1>1. k \in 1..Len(scan.scores)
  BY ScoresInRange
<1> QED BY <1>1, ScoresInRange DEF Scored

(* An element ranks strictly before those it comes before.                 *)
LEMMA RankOrders ==
  ASSUME RankingTypeOK, NEW n \in Nat, n <= Len(scan.scores),
         NEW j \in 1..n, NEW k \in 1..n
  PROVE  /\ RankAmong(k, n) \in 1..n
         /\ RanksBefore(j, k) => RankAmong(j, n) < RankAmong(k, n)
         /\ RankAmong(j, n) = RankAmong(k, n) => j = k
<1>1. \A i \in 1..n : Scored(i)
  BY AllScored
<1>2. ASSUME NEW a \in 1..n, NEW b \in 1..n, RanksBefore(a, b)
      PROVE  RankAmong(a, n) < RankAmong(b, n)
  <2>1. /\ Before(a, n) \subseteq Before(b, n)
        /\ a \in Before(b, n) /\ a \notin Before(a, n)
    BY <1>1, <1>2, RanksBeforeIsTotal DEF Before
  <2>2. IsFiniteSet(Before(b, n)) /\ Before(a, n) # Before(b, n)
    BY <2>1, BeforeFinite
  <2>3. /\ Cardinality(Before(a, n)) <= Cardinality(Before(b, n))
        /\ Cardinality(Before(a, n)) # Cardinality(Before(b, n))
    BY <2>1, <2>2, FS_Subset
  <2>4. Cardinality(Before(a, n)) \in Nat /\ Cardinality(Before(b, n)) \in Nat
    BY BeforeFinite
  <2> QED BY <2>3, <2>4 DEF RankAmong
<1>3. RankAmong(k, n) \in 1..n
  <2>1. Before(k, n) \subseteq 1..n /\ k \notin Before(k, n)
    BY <1>1, RanksBeforeIsTotal DEF Before
  <2>2. IsFiniteSet(1..n) /\ Cardinality(1..n) = n /\ Before(k, n) # 1..n
    BY <2>1, FS_Interval
  <2>3. Cardinality(Before(k, n)) <= n /\ Cardinality(Before(k, n)) # n
    BY <2>1, <2>2, FS_Subset
  <2>4. Cardinality(Before(k, n)) \in Nat
    BY BeforeFinite
  <2> QED BY <2>3, <2>4 DEF RankAmong
<1>4. ASSUME RankAmong(j, n) = RankAmong(k, n) PROVE j = k
  <2>1. RankAmong(j, n) \in Nat
    BY BeforeFinite DEF RankAmong
  <2>2. ~RanksBefore(j, k) /\ ~RanksBefore(k, j)
    BY <1>2, <1>4, <2>1
  <2> QED BY <1>1, <2>2, RanksBeforeIsTotal
<1> QED BY <1>2, <1>3, <1>4

(* One more element moves down by one exactly those it comes before.       *)
LEMMA RankWithOneMore ==
  ASSUME RankingTypeOK, NEW n \in Nat, n + 1 <= Len(scan.scores), NEW k \in 1..n
  PROVE  RankAmong(k, n + 1) =
           IF scan.scores[n + 1] > scan.scores[k] THEN RankAmong(k, n) + 1
           ELSE RankAmong(k, n)
<1>1. RanksBefore(n + 1, k) <=> scan.scores[n + 1] > scan.scores[k]
  <2>1. ~(n + 1 < k)
    OBVIOUS
  <2> QED BY <2>1 DEF RanksBefore
<1>2. Before(k, n + 1) = IF RanksBefore(n + 1, k) THEN Before(k, n) \cup {n + 1}
                         ELSE Before(k, n)
  <2>1. 1..n + 1 = 1..n \cup {n + 1}
    OBVIOUS
  <2> QED BY <2>1 DEF Before
<1>3. n + 1 \notin Before(k, n) /\ IsFiniteSet(Before(k, n)) /\ Cardinality(Before(k, n)) \in Nat
  <2>1. n + 1 \notin 1..n
    OBVIOUS
  <2> QED BY <2>1, BeforeFinite DEF Before
<1>4. Cardinality(Before(k, n) \cup {n + 1}) = Cardinality(Before(k, n)) + 1
  BY <1>3, FS_AddElement
<1> QED BY <1>1, <1>2, <1>3, <1>4 DEF RankAmong
-----------------------------------------------------------------------------
(* The report, one element at a time.                                      *)

(* An element of a rank the report reaches is there, in its place.         *)
LEMMA RankedIsPlaced ==
  ASSUME RankingTypeOK, NEW n \in Nat, n <= Len(scan.scores),
         NEW rep, Places(rep, n), Len(rep) \in Nat,
         NEW k \in 1..n, RankAmong(k, n) <= Len(rep)
  PROVE  RankAmong(k, n) \in 1..Len(rep) /\ rep[RankAmong(k, n)] = Reported(k)
<1>1. RankAmong(k, n) \in 1..n
  BY RankOrders
<1>2. RankAmong(k, n) \in 1..Len(rep)
  BY <1>1
<1>3. PICK j \in 1..n : rep[RankAmong(k, n)] = Reported(j) /\ RankAmong(j, n) = RankAmong(k, n)
  BY <1>2 DEF Places
<1>4. j = k
  BY <1>3, RankOrders
<1> QED BY <1>2, <1>3, <1>4

LEMMA ReportedOutranks ==
  ASSUME RankingTypeOK, NEW n \in Nat, n + 1 <= Len(scan.scores), NEW k \in 1..n
  PROVE  /\ Reported(n + 1) \in Candidate
         /\ Outranks(Reported(n + 1), Reported(k)) <=> scan.scores[n + 1] > scan.scores[k]
<1>1. Scored(n + 1) /\ Scored(k)
  <2>1. n + 1 \in 1..n + 1 /\ k \in 1..n + 1 /\ n + 1 \in Nat
    OBVIOUS
  <2> QED BY <2>1, AllScored
<1>2. PICK x \in 0..100, y \in 0..100 : x = scan.scores[n + 1] /\ y = scan.scores[k]
  BY <1>1 DEF Scored
<1>3. /\ Reported(n + 1).index = n /\ Reported(n + 1).confidence = x
      /\ Reported(k).index = k - 1 /\ Reported(k).confidence = y
  BY <1>2 DEF Reported
<1>4. Reported(n + 1) = [index |-> n, confidence |-> x]
  BY <1>2 DEF Reported
<1>5. [index |-> n, confidence |-> x] \in Candidate
  BY DEF Candidate
<1>6. Outranks(Reported(n + 1), Reported(k)) <=> y < x \/ (y = x /\ k - 1 > n)
  BY <1>3 DEF Outranks
<1> QED BY <1>2, <1>4, <1>5, <1>6

(* insert_candidate puts the next element at its rank.                     *)
LEMMA PositionIsRank ==
  ASSUME RankingTypeOK, NEW n \in Nat, n + 1 <= Len(scan.scores),
         NEW rep \in Seq(Candidate), Places(rep, n),
         NEW p \in 1..Len(rep) + 1, IsPosition(rep, Reported(n + 1), p),
         p <= MaxReport
  PROVE  RankAmong(n + 1, n + 1) = p
<1> DEFINE m == n + 1
<1>1. /\ n <= Len(scan.scores) /\ Len(rep) \in Nat /\ m \in Nat /\ Len(scan.scores) \in Nat
  BY ScoresInRange
<1>2. \A k \in 1..n : Scored(k)
  BY <1>1, AllScored
<1>3. Scored(m)
  <2>1. m \in 1..m
    OBVIOUS
  <2> QED BY <2>1, AllScored
<1>4. Before(m, m) = {j \in 1..n : ~(scan.scores[m] > scan.scores[j])}
  <2>1. ~RanksBefore(m, m)
    BY <1>3, RanksBeforeIsTotal
  <2>2. ASSUME NEW j \in 1..n
        PROVE  RanksBefore(j, m) <=> ~(scan.scores[m] > scan.scores[j])
    <3>1. PICK x \in 0..100, y \in 0..100 : x = scan.scores[m] /\ y = scan.scores[j]
      BY <1>2, <1>3 DEF Scored
    <3>2. RanksBefore(j, m) <=> (y > x \/ (y = x /\ j < m))
      BY <3>1 DEF RanksBefore
    <3> QED BY <3>1, <3>2
  <2>3. \A j : j \in 1..m <=> j \in 1..n \/ j = m
    OBVIOUS
  <2> QED BY <2>1, <2>2, <2>3 DEF Before
<1>5. ASSUME NEW q \in 1..Len(rep), q < p, NEW k \in 1..n, rep[q] = Reported(k)
      PROVE  ~(scan.scores[m] > scan.scores[k])
  <2>1. q \in 1..p - 1
    BY <1>1, <1>5
  <2>2. ~Outranks(Reported(m), rep[q])
    BY <2>1 DEF IsPosition
  <2> QED BY <1>5, <2>2, ReportedOutranks
<1>6. CASE p <= Len(rep)
  <2>1. p \in 1..Len(rep) /\ Outranks(Reported(m), rep[p])
    BY <1>1, <1>6 DEF IsPosition
  <2>2. PICK k \in 1..n : rep[p] = Reported(k) /\ RankAmong(k, n) = p
    BY <2>1 DEF Places
  <2>3. scan.scores[m] > scan.scores[k]
    BY <2>1, <2>2, ReportedOutranks
  <2>4. ASSUME NEW j \in 1..n, ~(scan.scores[m] > scan.scores[j]) PROVE RanksBefore(j, k)
    <3>1. PICK x \in 0..100, y \in 0..100, z \in 0..100 :
            x = scan.scores[m] /\ y = scan.scores[j] /\ z = scan.scores[k]
      BY <1>2, <1>3 DEF Scored
    <3>2. x > z /\ ~(x > y)
      BY <2>3, <2>4, <3>1
    <3>3. y > z
      BY <3>2
    <3> QED BY <3>1, <3>3 DEF RanksBefore
  <2>5. ASSUME NEW j \in 1..n, RanksBefore(j, k) PROVE ~(scan.scores[m] > scan.scores[j])
    <3>1. RankAmong(j, n) < p /\ RankAmong(j, n) \in 1..n
      BY <1>1, <2>2, <2>5, RankOrders
    <3>2. RankAmong(j, n) \in 1..Len(rep) /\ rep[RankAmong(j, n)] = Reported(j)
      <4>1. RankAmong(j, n) <= Len(rep)
        BY <1>1, <1>6, <3>1
      <4> QED BY <1>1, <4>1, RankedIsPlaced
    <3> QED BY <1>5, <3>1, <3>2
  <2>6. Before(m, m) = Before(k, n)
    BY <1>4, <2>4, <2>5 DEF Before
  <2> QED BY <2>2, <2>6 DEF RankAmong
<1>7. CASE ~(p <= Len(rep))
  <2>1. p = Len(rep) + 1 /\ Len(rep) = n
    BY <1>1, <1>7, RankingAssumption DEF Places
  <2>2. ASSUME NEW j \in 1..n PROVE ~(scan.scores[m] > scan.scores[j])
    <3>1. RankAmong(j, n) \in 1..n
      BY <1>1, RankOrders
    <3>2. RankAmong(j, n) \in 1..Len(rep) /\ rep[RankAmong(j, n)] = Reported(j)
      <4>1. RankAmong(j, n) <= Len(rep)
        BY <2>1, <3>1
      <4> QED BY <1>1, <4>1, RankedIsPlaced
    <3>3. RankAmong(j, n) < p
      BY <2>1, <3>1
    <3> QED BY <1>5, <3>2, <3>3
  <2>3. Before(m, m) = 1..n
    BY <1>4, <2>2
  <2>4. Cardinality(1..n) = n
    BY FS_Interval
  <2> QED BY <2>1, <2>3, <2>4 DEF RankAmong
<1> QED BY <1>6, <1>7

LEMMA InsertKeepsPlaces ==
  ASSUME RankingTypeOK, NEW n \in Nat, n + 1 <= Len(scan.scores),
         NEW rep \in Seq(Candidate), Places(rep, n)
  PROVE  Places(Insert(rep, Reported(n + 1)), n + 1)
<1> DEFINE m == n + 1
           c == Reported(m)
           next == Insert(rep, c)
<1>1. /\ n <= Len(scan.scores) /\ Len(rep) \in Nat /\ m \in Nat
      /\ Len(rep) = IF n < MaxReport THEN n ELSE MaxReport
  BY ScoresInRange DEF Places
<1>2. c \in Candidate
  <2>1. Scored(m)
    <3>1. m \in 1..m
      OBVIOUS
    <3> QED BY <3>1, AllScored
  <2>2. c = [index |-> n, confidence |-> scan.scores[m]]
    BY DEF Reported
  <2> HIDE DEF c
  <2> QED BY <2>1, <2>2 DEF Scored, Candidate
<1>3. PICK p \in 1..Len(rep) + 1 :
        /\ IsPosition(rep, c, p)
        /\ Len(next) = IF Len(rep) < MaxReport THEN Len(rep) + 1 ELSE Len(rep)
        /\ \A i \in 1..Len(next) : next[i] =
             IF i < p THEN rep[i] ELSE IF i = p THEN c ELSE rep[i - 1]
  BY <1>2, InsertPlaces
<1> HIDE DEF next
<1>4. Len(next) = IF m < MaxReport THEN m ELSE MaxReport
  BY <1>1, <1>3, RankingAssumption
<1>5. ASSUME NEW q \in 1..Len(rep), NEW k \in 1..n, rep[q] = Reported(k), q < p
      PROVE  ~(scan.scores[m] > scan.scores[k])
  <2>1. q \in 1..p - 1
    BY <1>1, <1>3, <1>5
  <2>2. ~Outranks(c, rep[q])
    BY <1>3, <2>1 DEF IsPosition
  <2> QED BY <1>5, <2>2, ReportedOutranks
<1>6. ASSUME NEW q \in 1..Len(rep), NEW k \in 1..n, rep[q] = Reported(k),
             RankAmong(k, n) = q, p <= q
      PROVE  scan.scores[m] > scan.scores[k]
  <2>1. p \in 1..Len(rep) /\ Outranks(c, rep[p])
    BY <1>1, <1>3, <1>6 DEF IsPosition
  <2>2. PICK j \in 1..n : rep[p] = Reported(j) /\ RankAmong(j, n) = p
    BY <2>1 DEF Places
  <2>3. scan.scores[m] > scan.scores[j]
    BY <2>1, <2>2, ReportedOutranks
  <2>4. ~RanksBefore(k, j)
    <3>1. RanksBefore(k, j) => q < p
      BY <1>1, <1>6, <2>2, RankOrders
    <3> QED BY <3>1, <1>1, <1>3, <1>6
  <2>5. Scored(m) /\ Scored(j) /\ Scored(k)
    <3>1. m \in 1..m /\ j \in 1..m /\ k \in 1..m
      OBVIOUS
    <3> QED BY <3>1, <1>1, AllScored
  <2>6. PICK x \in 0..100, y \in 0..100, z \in 0..100 :
          x = scan.scores[m] /\ y = scan.scores[j] /\ z = scan.scores[k]
    BY <2>5 DEF Scored
  <2>7. ~(z > y)
    BY <2>4, <2>6 DEF RanksBefore
  <2>8. x > y
    BY <2>3, <2>6
  <2>9. x > z
    BY <2>7, <2>8
  <2> QED BY ONLY <2>6, <2>9
<1>7. ASSUME NEW i \in 1..Len(next)
      PROVE  \E k \in 1..m : next[i] = Reported(k) /\ RankAmong(k, m) = i
  <2>1. i \in Nat /\ i <= Len(rep) + 1 /\ i <= MaxReport /\ p \in Nat /\ 1 <= p /\ Len(rep) \in Nat
    BY <1>1, <1>3, <1>4, RankingAssumption
  <2>2. CASE i < p
    <3>1. i \in 1..Len(rep) /\ next[i] = rep[i]
      BY <1>1, <1>3, <2>1, <2>2
    <3>2. PICK k \in 1..n : rep[i] = Reported(k) /\ RankAmong(k, n) = i
      BY <3>1 DEF Places
    <3>3. RankAmong(k, m) = i
      BY <1>5, <2>2, <3>1, <3>2, RankWithOneMore
    <3>4. k \in 1..m
      OBVIOUS
    <3> QED BY <3>1, <3>2, <3>3, <3>4
  <2>3. CASE i = p
    <3>1. next[i] = c
      BY <1>3, <2>1, <2>3
    <3>2. RankAmong(m, m) = i
      BY <1>3, <2>1, <2>3, PositionIsRank
    <3>3. m \in 1..m
      OBVIOUS
    <3> QED BY <3>1, <3>2, <3>3
  <2>4. CASE i > p
    <3>1. i - 1 \in 1..Len(rep) /\ p <= i - 1
      BY <2>1, <2>4
    <3> ~(i < p) /\ i # p
      BY <2>1, <2>4
    <3>1a. next[i] = rep[i - 1]
      BY <1>3
    <3>2. PICK k \in 1..n : rep[i - 1] = Reported(k) /\ RankAmong(k, n) = i - 1
      BY <3>1 DEF Places
    <3>3. RankAmong(k, m) = RankAmong(k, n) + 1
      BY <1>6, <3>1, <3>2, RankWithOneMore
    <3>4. k \in 1..m
      OBVIOUS
    <3>5. i - 1 + 1 = i
      BY <2>1
    <3> QED BY <3>1a, <3>2, <3>3, <3>4, <3>5
  <2> QED BY <2>1, <2>2, <2>3, <2>4
<1> QED BY <1>4, <1>7 DEF Places, next
-----------------------------------------------------------------------------
(* The ranking of the scanned prefix is an invariant.                      *)

(* Ranks are read off the document, which a call never changes.            *)
LEMMA RanksUnchanged ==
  ASSUME scan' = scan, scanned' = scanned, report' = report
  PROVE  Places(report, scanned)' <=> Places(report, scanned)
BY DEF Places, Reported, RankAmong, Before, RanksBefore

LEMMA ReportInitInv == RankingInit => ReportInv
<1> SUFFICES ASSUME RankingInit PROVE ReportInv
  OBVIOUS
<1>1. RankingInv /\ MaxElements \in Nat /\ Len(scan.scores) \in Nat
  BY RankingInitInv, ScoresInRange DEF RankingInv
<1>2. /\ scanned = 0 /\ tooLarge = FALSE /\ tied = 0
      /\ report = <<>> /\ status = "scanning"
  BY DEF RankingInit
<1>3. Places(report, scanned)
  BY <1>2, RankingAssumption DEF Places
<1> QED BY <1>1, <1>2, <1>3 DEF ReportInv, TieIsReal, CapHolds

LEMMA ScanElementReport == ReportInv /\ ScanElement => ReportInv'
<1> SUFFICES ASSUME ReportInv, ScanElement PROVE ReportInv'
  OBVIOUS
<1> DEFINE m == scanned + 1
           score == scan.scores[m]
<1>1. RankingInv /\ RankingTypeOK /\ RankingInv' /\ MaxElements \in Nat
  BY ScanElementInv, ScoresInRange DEF ReportInv, RankingInv
<1>2. /\ scanned \in Nat /\ tied \in Nat /\ report \in Seq(Candidate)
      /\ Len(scan.scores) \in Nat /\ m <= Len(scan.scores)
      /\ top \in 0..100 \cup {NoScore}
  BY <1>1, ScoresInRange DEF RankingTypeOK, ScanElement, Done
<1>3. /\ status = "scanning" /\ status' = status /\ scan' = scan /\ ~tooLarge /\ ~tooLarge'
      /\ scanned' = m /\ scanned < MaxElements
      /\ top' = TopAfter(score) /\ tied' = TiedAfter(score)
      /\ report' = Insert(report, [index |-> scanned, confidence |-> score])
  BY <1>1, <1>2 DEF ScanElement, Done, AtCap
<1>4. Places(report, scanned)'
  <2>1. Places(report, scanned)
    BY <1>3 DEF ReportInv
  <2>2. Reported(m) = [index |-> scanned, confidence |-> score]
    BY <1>2 DEF Reported
  <2>3. Places(Insert(report, Reported(m)), m)
    BY <1>1, <1>2, <2>1, InsertKeepsPlaces
  <2>4. PICK r, n : r = Insert(report, Reported(m)) /\ n = m
    OBVIOUS
  <2>5. report' = r /\ scanned' = n /\ Places(r, n)
    BY <1>3, <2>2, <2>3, <2>4
  <2>6. Len(report') = IF scanned' < MaxReport THEN scanned' ELSE MaxReport
    BY <2>5 DEF Places
  <2>7. ASSUME NEW q \in 1..Len(report')
        PROVE  \E k \in 1..scanned' : report'[q] = Reported(k)' /\ RankAmong(k, scanned)' = q
    <3>1. PICK k \in 1..n : r[q] = Reported(k) /\ RankAmong(k, n) = q
      BY <2>5, <2>7 DEF Places
    <3>2. Reported(k)' = Reported(k)
      BY <1>3 DEF Reported
    <3>3. Before(k, scanned)' = Before(k, n)
      BY <1>3, <2>5 DEF Before, RanksBefore
    <3>4. RankAmong(k, scanned)' = RankAmong(k, n)
      BY <3>3 DEF RankAmong
    <3> QED BY <2>5, <3>1, <3>2, <3>4
  <2> QED BY <2>6, <2>7 DEF Places
<1>5. TieIsReal'
  <2> SUFFICES ASSUME tied' > 1
               PROVE  \E i, j \in 1..m : i # j /\ scan.scores[i] = top' /\ scan.scores[j] = top'
    BY <1>3 DEF TieIsReal
  <2>1. Scored(m) /\ m \in Nat /\ \A i \in 1..scanned : i \in 1..m /\ i # m
    <3>1. m \in 1..m
      BY <1>2
    <3> QED BY <1>1, <1>2, <3>1, AllScored
  <2>2. PICK x \in 0..100 : x = score
    BY <2>1 DEF Scored
  <2>3. ~(top = NoScore \/ score > top) /\ top' = top
    <3> HIDE DEF score
    <3>1. top' = TopAfter(x) /\ TiedAfter(x) > 1
      BY <1>3, <2>2
    <3>2. ~(top = NoScore \/ x > top)
      <4> SUFFICES ASSUME top = NoScore \/ x > top PROVE TiedAfter(x) = 1
        BY <3>1
      <4>1. x # top
        <5>1. top \in Int /\ x \in Int /\ x # NoScore
          BY <1>2, <2>2 DEF NoScore
        <5> QED BY <5>1
      <4> QED BY <4>1 DEF TiedAfter
    <3> QED BY <2>2, <3>1, <3>2 DEF TopAfter
  <2>4. CASE score = top
    <3>1. scanned > 0
      BY <1>1, <1>2, <2>3 DEF RankingInv
    <3>2. PICK k \in 1..scanned : scan.scores[k] = top
      BY <1>1, <1>3, <3>1 DEF RankingInv, LeadsScan
    <3> QED BY <2>1, <2>3, <2>4, <3>2, <1>2
  <2>5. CASE score # top
    <3>1. tied > 1
      BY <1>3, <2>3, <2>5 DEF TiedAfter
    <3>2. PICK i, j \in 1..scanned : i # j /\ scan.scores[i] = top /\ scan.scores[j] = top
      BY <3>1 DEF ReportInv, TieIsReal
    <3> QED BY <2>1, <2>3, <3>2
  <2> QED BY <2>4, <2>5
<1>6. CapHolds'
  <2>1. MaxElements' = MaxElements /\ m <= MaxElements
    BY <1>1, <1>2, <1>3 DEF MaxElements
  <2> QED BY <1>3, <2>1 DEF CapHolds
<1> QED BY <1>1, <1>4, <1>5, <1>6 DEF ReportInv

LEMMA HitCapReport == ReportInv /\ HitCap => ReportInv'
<1> SUFFICES ASSUME ReportInv, HitCap PROVE ReportInv'
  OBVIOUS
<1>1. RankingInv' /\ RankingTypeOK /\ MaxElements \in Nat /\ Len(scan.scores) \in Nat
  BY HitCapInv, ScoresInRange DEF ReportInv, RankingInv
<1>2. /\ scan' = scan /\ scanned' = scanned /\ top' = top /\ tied' = tied
      /\ report' = report /\ status' = status
      /\ status = "scanning" /\ ~Done /\ AtCap
  BY DEF HitCap
<1>3. scanned \in Nat /\ scanned < Len(scan.scores) /\ MaxElements <= scanned
  BY <1>1, <1>2 DEF RankingTypeOK, Done, AtCap
<1>4. TieIsReal' /\ Places(report, scanned)'
  BY <1>2, RanksUnchanged DEF ReportInv, TieIsReal
<1>5. CapHolds'
  <2>1. MaxElements' = MaxElements
    BY <1>2 DEF MaxElements
  <2> QED BY <1>2, <1>3, <2>1 DEF ReportInv, CapHolds
<1> QED BY <1>1, <1>4, <1>5 DEF ReportInv

LEMMA ConcludeReport == ReportInv /\ Conclude => ReportInv'
<1> SUFFICES ASSUME ReportInv, Conclude PROVE ReportInv'
  OBVIOUS
<1>1. RankingInv' /\ RankingTypeOK
  BY ConcludeInv DEF ReportInv, RankingInv
<1>2. /\ scan' = scan /\ scanned' = scanned /\ tooLarge' = tooLarge /\ top' = top /\ tied' = tied
      /\ status = "scanning" /\ status' = Outcome /\ Done
      /\ report' = IF tooLarge THEN <<>> ELSE report
  BY DEF Conclude
<1>3. status' # "TooLarge" => Places(report, scanned)'
  <2> SUFFICES ASSUME status' # "TooLarge" PROVE Places(report, scanned)'
    OBVIOUS
  <2>1. ~tooLarge
    BY <1>2 DEF Outcome
  <2> QED BY <1>2, <2>1, RanksUnchanged DEF ReportInv
<1>4. TieIsReal'
  BY <1>2 DEF ReportInv, TieIsReal
<1>5. CapHolds'
  <2>1. MaxElements' = MaxElements /\ Outcome' = Outcome /\ Done' = Done
    BY <1>2 DEF MaxElements, Outcome, Threshold, Done
  <2> QED BY <1>2, <2>1 DEF ReportInv, CapHolds
<1> QED BY <1>1, <1>3, <1>4, <1>5 DEF ReportInv

LEMMA ReportInvariance == RankingSpec => []ReportInv
<1>1. ReportInv /\ UNCHANGED rankingVars => ReportInv'
  <2> SUFFICES ASSUME ReportInv, UNCHANGED rankingVars PROVE ReportInv'
    OBVIOUS
  <2>1. UNCHANGED <<scan, scanned, tooLarge, top, tied, report, status>>
    BY DEF rankingVars
  <2>2. RankingInv'
    BY RankingStepInv DEF ReportInv
  <2>3. TieIsReal' /\ CapHolds'
    BY <2>1 DEF ReportInv, TieIsReal, CapHolds, MaxElements, Outcome, Threshold, Done
  <2> QED BY <2>1, <2>2, <2>3, RanksUnchanged DEF ReportInv
<1>2. ReportInv /\ [RankingNext]_rankingVars => ReportInv'
  BY <1>1, ScanElementReport, HitCapReport, ConcludeReport DEF RankingNext
<1> QED BY <1>2, ReportInitInv, PTL DEF RankingSpec

(* What relocate reports is what ranking the whole document and keeping    *)
(* the best max_report_candidates would give, and its outcome is what the  *)
(* scores say, for any document, threshold, cap and length of the report.  *)
THEOREM ReportIsTheRanking == RankingSpec => []ReportIsRanking
<1>1. ReportInv => ReportIsRanking
  <2> SUFFICES ASSUME ReportInv, status # "scanning" PROVE ReportIsRanking
    BY DEF ReportIsRanking
  <2> DEFINE n == Len(scan.scores)
             rank(k) == 1 + Cardinality({j \in 1..n : RanksBefore(j, k)})
             best == {k \in 1..n : rank(k) = 1}
  <2>1. /\ RankingInv /\ RankingTypeOK /\ n \in Nat /\ MaxElements \in Nat
        /\ scanned \in Nat /\ tied \in Nat /\ Threshold \in 0..100
    BY ScoresInRange DEF ReportInv, RankingInv, RankingTypeOK
  <2>2. MaxElements >= 1
    BY <2>1 DEF MaxElements, RankingTypeOK, Scan
  <2>3. /\ scanned <= MaxElements /\ status = Outcome
        /\ tooLarge => report = <<>> /\ MaxElements <= scanned /\ scanned < n
        /\ ~tooLarge => scanned = n
    BY DEF ReportInv, CapHolds, Done
  <2>4. tooLarge <=> n > MaxElements
    BY <2>1, <2>3
  <2>5. /\ status = "TooLarge" <=> tooLarge
        /\ status = "NotFound" <=> ~tooLarge /\ scanned = 0
        /\ status = "BelowThreshold" <=> ~tooLarge /\ scanned # 0 /\ top < Threshold
        /\ status = "Ambiguous" => ~tooLarge /\ scanned # 0 /\ tied > 1
    BY <2>3 DEF Outcome
  <2>6. (status = "TooLarge" <=> n > MaxElements) /\ (status = "NotFound" <=> n = 0)
    BY <2>1, <2>2, <2>3, <2>4, <2>5
  <2>7. n > MaxElements => report = <<>>
    BY <2>3, <2>4
  <2>8. ASSUME n \in 1..MaxElements
        PROVE  /\ Len(report) = IF n < MaxReport THEN n ELSE MaxReport
               /\ \A k \in 1..n : rank(k) <= MaxReport =>
                    report[rank(k)] = [index |-> k - 1, confidence |-> scan.scores[k]]
               /\ (status = "BelowThreshold") <=> (\A k \in 1..n : scan.scores[k] < Threshold)
               /\ (status = "Ambiguous") =>
                    (\E k \in best, j \in 1..n : j # k /\ scan.scores[j] = scan.scores[k])
    <3>1. ~tooLarge /\ scanned = n /\ n > 0 /\ status # "TooLarge"
      BY <2>1, <2>3, <2>4, <2>5, <2>8
    <3>2. Places(report, n) /\ Len(report) \in Nat
      BY <2>1, <3>1 DEF ReportInv, RankingTypeOK
    <3>3. Len(report) = IF n < MaxReport THEN n ELSE MaxReport
      BY <3>2 DEF Places
    <3>4. \A k : rank(k) = RankAmong(k, n)
      BY DEF RankAmong, Before
    <3>5. PICK lead \in 1..n : LeadsScan(lead)
      BY <3>1, <2>1 DEF RankingInv
    <3>6. \A k \in 1..n : Scored(k)
      BY <2>1, AllScored
    <3>7. top \in 0..100 /\ scan.scores[lead] = top
      BY <3>5, <3>6 DEF LeadsScan, Scored
    <3> HIDE DEF rank
    <3>8. ASSUME NEW k \in 1..n, rank(k) <= MaxReport
          PROVE  report[rank(k)] = [index |-> k - 1, confidence |-> scan.scores[k]]
      <4>1. RankAmong(k, n) \in 1..n
        <5>1. n <= Len(scan.scores)
          BY <2>1
        <5> HIDE DEF n
        <5> QED BY <2>1, <5>1, RankOrders
      <4>2. RankAmong(k, n) <= Len(report)
        BY <2>1, <3>3, <3>4, <3>8, <4>1, RankingAssumption
      <4>3. report[RankAmong(k, n)] = Reported(k)
        BY <2>1, <3>2, <4>2, RankedIsPlaced
      <4> QED BY <3>4, <4>3 DEF Reported
    <3>9. (status = "BelowThreshold") <=> (\A k \in 1..n : scan.scores[k] < Threshold)
      <4>1. \A k \in 1..n : scan.scores[k] <= top /\ scan.scores[k] \in 0..100
        BY <3>1, <3>5, <3>6 DEF LeadsScan, Scored
      <4>2. top < Threshold <=> \A k \in 1..n : scan.scores[k] < Threshold
        <5>1. PICK t \in 0..100 : t = Threshold
          BY <2>1
        <5>2. ASSUME top < t, NEW k \in 1..n PROVE scan.scores[k] < t
          <6>1. PICK x \in 0..100 : x = scan.scores[k] /\ x <= top
            BY <4>1
          <6> QED BY <3>7, <5>1, <5>2, <6>1
        <5> QED BY <3>7, <5>1, <5>2
      <4> QED BY <2>5, <3>1, <4>2
    <3>10. ASSUME status = "Ambiguous"
           PROVE  \E k \in best, j \in 1..n : j # k /\ scan.scores[j] = scan.scores[k]
      <4>1. PICK a, b \in 1..n : a # b /\ scan.scores[a] = top /\ scan.scores[b] = top
        BY <2>5, <3>1, <3>10 DEF ReportInv, TieIsReal
      <4>2. PICK j \in 1..n : j # lead /\ scan.scores[j] = top
        BY <4>1
      <4>3. \A i \in 1..n : ~RanksBefore(i, lead)
        <5> SUFFICES ASSUME NEW i \in 1..n PROVE ~RanksBefore(i, lead)
          OBVIOUS
        <5>1. PICK x \in 0..100 : x = scan.scores[i]
          BY <3>6 DEF Scored
        <5>2. x <= top /\ (i < lead => x < top)
          BY <2>1, <3>1, <3>5, <5>1 DEF LeadsScan
        <5> QED BY <3>7, <5>1, <5>2 DEF RanksBefore
      <4>4. Before(lead, n) = {}
        BY <4>3 DEF Before
      <4>5. lead \in best
        BY <3>4, <4>4, FS_EmptySet DEF RankAmong
      <4> QED BY <3>7, <4>2, <4>5
    <3> QED BY <3>3, <3>8, <3>9, <3>10
  <2> HIDE DEF rank, best
  <2>9. /\ (status = "TooLarge") <=> (n > MaxElements)
        /\ (status = "NotFound") <=> (n = 0)
        /\ n \in 1..MaxElements =>
             /\ Len(report) = IF n < MaxReport THEN n ELSE MaxReport
             /\ \A k \in 1..n : rank(k) <= MaxReport =>
                  report[rank(k)] = [index |-> k - 1, confidence |-> scan.scores[k]]
             /\ (status = "BelowThreshold") <=> (\A k \in 1..n : scan.scores[k] < Threshold)
             /\ (status = "Ambiguous") =>
                  (\E k \in best, j \in 1..n : j # k /\ scan.scores[j] = scan.scores[k])
        /\ n > MaxElements => report = <<>>
    BY <2>6, <2>7, <2>8
  <2> USE DEF rank, best
  <2> QED BY ONLY <2>9 DEF ReportIsRanking
<1> QED BY <1>1, ReportInvariance, PTL
=============================================================================
