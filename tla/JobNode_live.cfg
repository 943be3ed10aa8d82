\* RequeueExit is set; completion ends although messages are lost and nodes fail.
SPECIFICATION FairSpec
CONSTANTS
  j1 = j1  j2 = j2  j3 = j3  n1 = n1  n2 = n2  u1 = u1  u2 = u2
  NO_VAL = NO_VAL  NULL = NULL
  Jobs = {j1}
  Nodes = {n1, n2}
  Users = {u1}
  Batch = {j1}
  Requeue = {j1}
  NoKill = {}
  Exclusive = {}
  OwnerExclusive = {}
  Expedited = {}
  User <- OneUser
  NodesReq <- TwoNodes
  PrologSlurmctld = FALSE
  EpilogSlurmctld = TRUE
  RequeueExit = "requeue"
  MaxBatchRequeue = 1
  ReturnToService = TRUE
  Inputs = {"cancel", "requeue", "down"}
  MaxSluid = 1
PROPERTIES CancelFinal CompletionEnds NodeCompletingEnds
CHECK_DEADLOCK FALSE
