\* Three clusters that stay up: what must eventually become of the copies.
CONSTANTS
  N = 3
  Origin = 1
  Cases <- CalmCases
SPECIFICATION FairSpec
PROPERTY CopiesRevoked
PROPERTY OriginDoneSettles
PROPERTY TrackerEnds
CHECK_DEADLOCK FALSE
