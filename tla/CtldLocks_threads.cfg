\* Three threads, two calls each, four kinds of caller, both layers
SPECIFICATION FairSpec
CONSTANTS
  t1 = t1
  t2 = t2
  t3 = t3
  Threads = {t1, t2, t3}
  CtldRequests <- MCCtld
  AssocRequests <- OneAssoc
  MaxCalls = 2
INVARIANTS  WriteExclusive NoDeadlock LeftLocksReported
PROPERTIES LockCallReturns
CHECK_DEADLOCK FALSE
