\* Two agents of one tenant, resized, rolled out and deleted: the HPAs follow the quota.
SPECIFICATION Spec
CONSTANTS
  Agents = {a1, a2}
  Specs <- TwoSpecs
  Quotas <- TwoQuotas
  IntMax = 7
  MaxEvents = 2
  None = None
INVARIANTS
  TypeOK
  SettledCeilings
  SettledHPA
SYMMETRY Symmetry
CHECK_DEADLOCK FALSE
