CONSTANTS
  r1 = r1
  r2 = r2
  Replicas = {r1, r2}
  TTL = 3
  Configured = 3
  Delay = 1
  Admin = TRUE
  MaxEvents = 2
SPECIFICATION Spec
SYMMETRY Symmetry
INVARIANTS TypeOK ListedOnlyIfVouched SteadyIsListed
