SPECIFICATION Spec
SYMMETRY Symmetry
CONSTANTS
  Participants = {1, 2}
  Boots = {11, 21}
  Attempts = {a1, a2}
  Scopes = {cpu, mem}
  Registrable = {cpu, mem}
  Reasons = {loss}
  MaxEpoch = 2
  MaxParticipants = 2
  MaxActiveWorkers = 2
  MaxRecentFences = 2
  MaxFencedBoots = 2
  MaxGrants = 3
  MaxScopes = 2
  MaxTransitions = 2
  MaxIdempotency = 1
  AllowMulti = FALSE
  ReplaceIncumbent = FALSE
  Deployment <- OneBootEach
  Batched = {}
  OfferedPolicies = {"single"}
  OfferedScopes = {{cpu}, {cpu, mem}}
  OfferedGens = {0}
  SessionIds = {}
  MaxSessions = 1
  FenceOnSessionLoss = TRUE
  OpenModes = {"advance"}
  MaxGen = 6
  MaxMinted = 3
INVARIANTS
  DelegationBounded
  OldEpochsAreStale
  AnswersAreTrue
PROPERTIES
  RevocationFinal
