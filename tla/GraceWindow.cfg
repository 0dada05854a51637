SPECIFICATION FairSpec
CONSTANTS
  Period = 2
  GraceDays = 1
  MaxTime = 6
INVARIANTS
  NoUnpaidPeriod
PROPERTIES
  GraceMovesOnlyWhenForgotten
  EndedIsExpired
