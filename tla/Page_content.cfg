SPECIFICATION MCSpec
CONSTANTS
  Scans <- MCScans
  MaxReport = 2
  TextNode = "#text"
  Mark = "-"
  KeyAttrs = {"class"}
  MaxPathDepth = 2
  MaxSiblings = 2
  MaxChildren = 2
  MaxTextChars = 2
  ValueTokens = 2
  Tracking = {3}
  Files = {"q.html"}
  TextThreshold = 2
  Width = 5
  ShiftCap = 3
INVARIANTS
  FoundIsUnique
  ReportIsRanking
  SimilarityIsExact
  UnchangedScoresTop
  KeysAreSound
  SparsePagesEscalate
  BackoffGrows
CHECK_DEADLOCK FALSE
