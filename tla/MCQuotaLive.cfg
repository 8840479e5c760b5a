SPECIFICATION FairSpec
CONSTANTS
  a1 = a1
  a2 = a2
  t1 = t1
  t2 = t2
  u1 = u1
  u2 = u2
  None = None
  Reconciler = Reconciler
  Agents = {a1}
  Tenants = {t1, t2}
  Users = {u1}
  Specs <- TwoTenants
  Quotas <- Lowered
  IntMax = 7
  Periodic = FALSE
  MayExpire = FALSE
  MaxRequests = 2
  MaxEvents = 1
CHECK_DEADLOCK FALSE
PROPERTIES StatusConverges DeletionCompletes FinalizerAdded
