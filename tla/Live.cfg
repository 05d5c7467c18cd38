SPECIFICATION Spec
CONSTANTS
  t1 = t1
  t2 = t2
  r1 = r1
  r2 = r2
  c1 = c1
  user = user
  institute = institute
  Reconciler = Reconciler
  Inactive = Inactive
  None = None
PROPERTIES
  EnqueuedIsSettled
  EventuallyCounted
CHECK_DEADLOCK FALSE
