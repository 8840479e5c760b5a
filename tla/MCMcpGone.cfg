CONSTANTS
  r1 = r1
  Replicas = {r1}
  TTL = 3
  Configured = 3
  Delay = 1
  Admin = FALSE
  MaxEvents = 2
SPECIFICATION Spec
INVARIANT GoneMeansDeregistered
