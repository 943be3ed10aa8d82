\* The purge of step records while a message is out costs a job record.
CONSTANTS
  MaxDbdMsgs = 4
  MaxRpcs = 2
  MaxSends = 5
  Cases <- PurgeCases
SPECIFICATION Spec
INVARIANT OwedKept
CHECK_DEADLOCK FALSE
