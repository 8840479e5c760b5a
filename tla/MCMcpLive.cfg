CONSTANTS
  r1 = r1
  Replicas = {r1}
  TTL = 3
  Configured = 3
  Delay = 1
  Admin = TRUE
  MaxEvents = 2
SPECIFICATION FairSpec
PROPERTIES HealthyEndsListed UnwantedEndsUnlisted DeletionEnds
