SPECIFICATION Spec
CONSTANTS
  a1 = a1
  a2 = a2
  t1 = t1
  t2 = t2
  u1 = u1
  u2 = u2
  None = None
  Reconciler = Reconciler
  Agents = {a1, a2}
  Tenants = {t1}
  Users = {u1, u2}
  Specs <- OneTenant
  Quotas <- Loose
  IntMax = 7
  Periodic = FALSE
  MayExpire = FALSE
  MaxRequests = 2
  MaxEvents = 0
CHECK_DEADLOCK FALSE
INVARIANT QuotaBarrier
