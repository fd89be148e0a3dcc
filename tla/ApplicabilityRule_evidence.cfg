SPECIFICATION Spec
CONSTANTS
  Richness = 1
INVARIANT EvidenceIsAccepted
CHECK_DEADLOCK FALSE
