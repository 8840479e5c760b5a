CONSTANTS
  v1 = v1
  v2 = v2
  Images = {v1, v2}
  NoImage = NoImage
  NoAD = NoAD
  Rollouts <- TwoPlans
  FailSafeTimeout = 1
  MaxWaitCap = 2
  AgeCap = 2
  CacheLag = FALSE
  Drift = {"dep", "cdep", "csvc", "route", "hpa"}
  MaxEdits = 2
  MaxFaults = 1
SPECIFICATION FairSpec
INVARIANTS RolloutNamesImages NoOrphans ProgressOnlyInRollout
PROPERTIES KeepsLifecycle StableFrozen RolloutEnds AbortEndsRollout RouteHealed
