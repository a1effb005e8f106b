SPECIFICATION Spec
CONSTANTS
  Numbers <- MCNumbers
  UintModulus = 65536
  MaxOptions = 2
  NUM_SAMPLES = 3
  RTINCR = 2
  RTBINS = 2
  MaxSample = 6
INVARIANTS
  ArgumentsTypeOK
  StartsExactlyWhenGood
  EvaluationTypeOK
  HistogramExact
  ReportExact
  RoundsClean
  EvaluatesWhatWasAsked
\* The program ends.
CHECK_DEADLOCK FALSE
