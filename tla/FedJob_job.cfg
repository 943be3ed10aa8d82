\* Three clusters, restarts, refusals and scancel: who may run the job.
CONSTANTS
  N = 3
  Origin = 1
  Cases <- RestartCases
SPECIFICATION Spec
INVARIANT TypeOK
INVARIANT SiblingsExclusive
INVARIANT OriginExclusive
CHECK_DEADLOCK FALSE
