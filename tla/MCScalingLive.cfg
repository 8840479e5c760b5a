\* The two reconcilers come to rest.
SPECIFICATION FairSpec
CONSTANTS
  Agents = {a1, a2}
  Specs <- OneSpec
  Quotas <- TwoQuotas
  IntMax = 7
  MaxEvents = 2
  None = None
PROPERTIES
  Settles
CHECK_DEADLOCK FALSE
