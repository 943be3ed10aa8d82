SPECIFICATION FairSpec
CONSTANTS
  n1 = n1
  n2 = n2
  Nodes = {n1, n2}
  NULL = NULL
  MaxJobId = 2
  Cases <- RecoveryCases
INVARIANT TypeOK
 
INVARIANT NeverTwice
PROPERTY CleanStopSaves
PROPERTY StraysEnd
PROPERTY GhostsEnd
PROPERTY CompletingEnds
CHECK_DEADLOCK FALSE
