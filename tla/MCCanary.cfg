CONSTANTS
  v1 = v1
  v2 = v2
  Images = {v1, v2}
  NoImage = NoImage
  NoAD = NoAD
  Rollouts <- OnePlan
  FailSafeTimeout = 1
  MaxWaitCap = 2
  AgeCap = 2
  CacheLag = FALSE
  Drift = {}
  MaxEdits = 2
  MaxFaults = 1
SPECIFICATION Spec
INVARIANTS TypeOK FailSafeClockInsidePause EvaluatedPromotion TrafficFollowsPlan EvaluatedOnHealedCanary
