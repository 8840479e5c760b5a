CONSTANTS
  v1 = v1
  v2 = v2
  v3 = v3
  Images = {v1, v2, v3}
  NoImage = NoImage
  NoAD = NoAD
  Rollouts <- OnePlan
  FailSafeTimeout = 1
  MaxWaitCap = 2
  AgeCap = 2
  CacheLag = TRUE
  Drift = {}
  MaxEdits = 2
  MaxFaults = 1
SPECIFICATION Spec
SYMMETRY ImageSymmetry
INVARIANTS RolloutNamesImages EvaluatedPromotion FailSafeClockInsidePause TeardownIsCurrent
