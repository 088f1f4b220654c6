SPECIFICATION FaultySpec
CONSTANTS
  Participants = {1, 2}
  Boots = {11, 12, 13, 21}
  Attempts = {a1, a2}
  Scopes = {cpu}
  Registrable = {cpu}
  Reasons = {loss}
  MaxEpoch = 2
  MaxParticipants = 2
  MaxActiveWorkers = 2
  MaxRecentFences = 4
  MaxFencedBoots = 4
  MaxGrants = 1
  MaxScopes = 1
  MaxTransitions = 4
  MaxIdempotency = 4
  AllowMulti = FALSE
  ReplaceIncumbent = TRUE
  Deployment <- OneBootEach
  Batched = {}
  OfferedPolicies = {"single"}
  OfferedScopes = {{cpu}}
  OfferedGens = {0}
  SessionIds = {}
  MaxSessions = 1
  FenceOnSessionLoss = TRUE
  OpenModes = {"advance"}
  MaxGen = 5
  MaxMinted = 0
PROPERTIES
  HistoryGrows
