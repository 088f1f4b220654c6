SPECIFICATION FaultySpec
CONSTANTS
  Participants = {1, 2}
  Boots = {11, 12, 13, 21}
  Attempts = {a1, a2}
  Scopes = {cpu}
  Registrable = {cpu}
  Reasons = {loss}
  MaxEpoch = 3
  MaxParticipants = 2
  MaxActiveWorkers = 2
  MaxRecentFences = 4
  MaxFencedBoots = 4
  MaxGrants = 1
  MaxScopes = 1
  MaxTransitions = 4
  MaxIdempotency = 4
  AllowMulti = FALSE
  ReplaceIncumbent = TRUE
  Deployment <- SpareBoot
  Batched = {}
  OfferedPolicies = {"single"}
  OfferedScopes = {{cpu}}
  OfferedGens = {0}
  SessionIds = {}
  MaxSessions = 1
  FenceOnSessionLoss = TRUE
  OpenModes = {"advance"}
  MaxGen = 6
  MaxMinted = 0
INVARIANTS
  AnswersAreTrue
