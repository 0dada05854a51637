SPECIFICATION Spec
CONSTANTS
  Period = 2
  GraceDays = 1
  MaxTime = 7
PROPERTIES
  GraceIsFixed
