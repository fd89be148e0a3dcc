SPECIFICATION Spec
CONSTANTS
  Repositories = {r1}
  Requests = {o1, o2}
  MaxVerification = 3
  MaxRevision = 2
  MaxCredential = 2
  MaxId = 2
  MaxLifecycle = 3
  Reviews = {v1}
  Clients = {c1, c2}
  Keys = {k1}
  Bodies = {b1, b2}
  MaxVersions = 2
  MaxEvaluations = 2
  Capacity = 1
  Richness = 1
  Advisory = {"f", "g"}
  Blocking = {}
  Outcomes = {"advisory", "error"}
  RequestLimit = 2
  AttemptLimit = 2
  MaxAdjudications = 3
  MaxFaults = 2
  Passwords = {p1, p2}
  MaxPending = 1
  MaxSessions = 2
  IdleLifetime = 2
  AbsoluteLifetime = 3
  MaxLogins = 3
  MaxDelay = 3
  MaxTime = 3
  MaxEpoch = 2
INVARIANTS TypesOK CredentialCoversEnabled RetiredStandsAlone AdmittedAsAsked
  MatchesItsMeaning WaiversAreDecided FeedbackIsDeliveredOnce
PROPERTIES DecisionsHold SchemaAccepts
CHECK_DEADLOCK FALSE
