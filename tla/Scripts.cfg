SPECIFICATION Spec
CONSTANTS
  WINDOW = 1
  NoLine = 0
  Half = 5
  NoThreshold = 1000
  Stdlib = {"os"}
  MAX_LOOP_DEPTH = 1
  ScoreInputs <- MCScoreInputs
  CoverageInputs <- MCCoverageInputs
  TuneInputs <- MCTuneInputs
  FanoutInputs <- MCFanoutInputs
  NestingInputs <- MCNestingInputs
INVARIANTS ScoreIsMaximal CoverageProves ShippedIsBest HoldoutIsSeparate EdgesAreImports NestingIsCounted
CHECK_DEADLOCK FALSE
