\* A --no-kill job on two nodes, two incarnations, under both slurmctld scripts,
\* with every way to end and to fail.
SPECIFICATION Spec
CONSTANTS
  j1 = j1  j2 = j2  j3 = j3  n1 = n1  n2 = n2  u1 = u1  u2 = u2
  NO_VAL = NO_VAL  NULL = NULL
  Jobs = {j1}
  Nodes = {n1, n2}
  Users = {u1}
  Batch = {j1}
  Requeue = {j1}
  NoKill = {j1}
  Exclusive = {j1}
  OwnerExclusive = {}
  Expedited = {}
  User <- OneUser
  NodesReq <- TwoNodes
  PrologSlurmctld = TRUE
  EpilogSlurmctld = TRUE
  RequeueExit = "none"
  MaxBatchRequeue = 1
  ReturnToService = TRUE
  Inputs = {"cancel", "requeue", "down", "prolog_fail", "timeout", "launch_fail", "suspend"}
  MaxSluid = 2
INVARIANTS IInv RunCountExact  NoStrayProcesses DownNodeUnused
 
CHECK_DEADLOCK FALSE
