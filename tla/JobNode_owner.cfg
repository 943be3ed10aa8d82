\* Two --exclusive=user jobs of one user and a job of another.
SPECIFICATION Spec
CONSTANTS
  j1 = j1  j2 = j2  j3 = j3  n1 = n1  n2 = n2  u1 = u1  u2 = u2
  NO_VAL = NO_VAL  NULL = NULL
  Jobs = {j1, j2, j3}
  Nodes = {n1}
  Users = {u1, u2}
  Batch = {j1}
  Requeue = {j1}
  NoKill = {}
  Exclusive = {}
  OwnerExclusive = {j1, j2}
  Expedited = {}
  User <- LastJobOfOther
  NodesReq <- OneNode
  PrologSlurmctld = FALSE
  EpilogSlurmctld = FALSE
  RequeueExit = "none"
  MaxBatchRequeue = 1
  ReturnToService = TRUE
  Inputs = {}
  MaxSluid = 1
INVARIANTS UserExclusiveUse
CHECK_DEADLOCK FALSE
