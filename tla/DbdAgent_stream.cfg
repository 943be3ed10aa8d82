\* The accounting agent delivers what it accepted, in order.
CONSTANTS
  MaxDbdMsgs = 2
  MaxRpcs = 2
  MaxSends = 3
  Cases <- StreamCases
SPECIFICATION FairSpec
INVARIANT TypeOK
INVARIANT OwedKept
 
PROPERTY AcceptedStored
PROPERTY ShutdownEnds
CHECK_DEADLOCK FALSE
