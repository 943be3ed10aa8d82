\* A primary and one backup: control is taken when lost, and kept by one
\* controller
SPECIFICATION FairSpec
CONSTANTS
  LastBackup = 1
  Timeout = 6
  PingWait = 1
  AllowTakeover = TRUE
  Reads = {TRUE}
  MaxCrashes = 1
PROPERTIES FailoverHappens ControlSettles
