SPECIFICATION Spec
CONSTANTS
  Revisions = {"a", "b"}
  MaxPushes = 2
  MaxFailures = 1
  MaxOperations = 1
  Clients = {c1, c2}
  None = None
  MaxClientFaults = 2
  Works = {w1}
  MaxToken = 2
  Capacity = 2
  Reserve = 1
  Keep = 2
  MaxDay = 4
  MaxBackupFaults = 2
  MaxRestoreFaults = 2
INVARIANTS TypesOK RevisionsAreAdmittedOnce SubmissionIsAnsweredOnce
  CleanupSparesTheLive DatabaseSurvives
PROPERTIES RevisionsAreTaken GuardedStepsKeepTheReserve LeftoversAreCleared
CHECK_DEADLOCK FALSE
