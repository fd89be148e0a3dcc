SPECIFICATION Spec
CONSTANTS
  Keep = 2
  MaxDay = 4
  MaxFaults = 2
PROPERTY OnlyInterruptedOutputIsDiscarded
CHECK_DEADLOCK FALSE
