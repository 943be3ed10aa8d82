\* Two backups: the one in control may have the lower priority
SPECIFICATION Spec
CONSTANTS
  LastBackup = 2
  Timeout = 9
  PingWait = 0
  AllowTakeover = FALSE
  Reads = {TRUE, FALSE}
  MaxCrashes = 0
INVARIANTS IInv
 
