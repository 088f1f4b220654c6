SPECIFICATION Spec
SYMMETRY Symmetry
CONSTANTS
  Participants = {1, 2}
  Boots = {11, 12, 21, 22}
  Attempts = {a1, a2}
  Scopes = {cpu}
  Registrable = {cpu}
  Reasons = {loss}
  MaxEpoch = 1
  MaxParticipants = 2
  MaxActiveWorkers = 2
  MaxRecentFences = 2
  MaxFencedBoots = 1
  MaxGrants = 1
  MaxScopes = 1
  MaxTransitions = 1
  MaxIdempotency = 1
  AllowMulti = FALSE
  ReplaceIncumbent = TRUE
  Deployment <- TwoBootsEach
  Batched <- NewcomerAndFenced
  OfferedPolicies = {"single"}
  OfferedScopes = {{cpu}}
  OfferedGens = {0}
  SessionIds = {}
  MaxSessions = 1
  FenceOnSessionLoss = TRUE
  OpenModes = {"advance"}
  MaxGen = 7
  MaxMinted = 0
INVARIANTS
  FencedNotLive
