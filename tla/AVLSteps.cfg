SPECIFICATION Spec
CONSTANTS
  v1 = v1
  v2 = v2
  Keys <- MCKeys
  Values = {v1, v2}
  Leaves = {0, 1}
  NoValue = NoValue
  NoUpdate = NoUpdate
  Configs <- MCConfigs
CHECK_DEADLOCK FALSE
INVARIANTS
    NeverThrows
    TreeIntact
    HeightsBalanced
    RoundsHidden
    NothingLeftInLocal
    StepAnswers
    ReadsHidden
PROPERTIES Dictionary
