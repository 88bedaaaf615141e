SPECIFICATION Spec
CONSTANTS
  live = live
  Requests = {1}
  Scopes = {live}
  TenantOf <- MCTenantOf
  Actions = {"list", "manage"}
  ReadOnly = {"list"}
  Routes <- MCRoutes
  Standing <- MCStanding
  CaseAction <- MCCase
  Features <- MCFeatures
  Requires <- MCRequires
  FeatureOf <- MCFeature
  Extra <- MCExtra
  Inputs = {"plain", "forged"}
  Modes = {"off", "shadow"}
  Ttl = 1
  Grace = 3
  CacheCap = 1
  Window = 2
  TrackedCap = 1
  Lag = 1
  MaxTime = 3
  MaxRequests = 3
  MaxChanges = 1
  Nothing = Nothing
CHECK_DEADLOCK FALSE
INVARIANTS ForgottenAtOnce AdmittedIsProvided
PROPERTIES RevocationBites SampledOncePerWindow EveryRequestEnds
