\* Nodes that drain, fall silent, fail, register and return under two jobs.
SPECIFICATION Spec
CONSTANTS
  j1 = j1  j2 = j2  j3 = j3  n1 = n1  n2 = n2  u1 = u1  u2 = u2
  NO_VAL = NO_VAL  NULL = NULL
  Jobs = {j1, j2}
  Nodes = {n1}
  Users = {u1}
  Batch = {j1, j2}
  Requeue = {j1}
  NoKill = {}
  Exclusive = {j1}
  OwnerExclusive = {}
  Expedited = {}
  User <- OneUser
  NodesReq <- OneNode
  PrologSlurmctld = FALSE
  EpilogSlurmctld = FALSE
  RequeueExit = "none"
  MaxBatchRequeue = 1
  ReturnToService = TRUE
  Inputs = {"cancel", "down", "drain", "epilog_fail", "no_resp", "register"}
  MaxSluid = 1
INVARIANTS CompCountExact ExclusiveUse NodeStateAgrees AvailableIsHealthy
