SPECIFICATION Spec
SYMMETRY Symmetry
CONSTANTS
  Participants = {1}
  Boots = {11, 12, 13, 21}
  Attempts = {a1, a2}
  Scopes = {cpu}
  Registrable = {cpu}
  Reasons = {loss}
  MaxEpoch = 3
  MaxParticipants = 2
  MaxActiveWorkers = 2
  MaxRecentFences = 1
  MaxFencedBoots = 1
  MaxGrants = 1
  MaxScopes = 1
  MaxTransitions = 2
  MaxIdempotency = 1
  AllowMulti = TRUE
  ReplaceIncumbent = TRUE
  Deployment <- TwoBoots
  Batched <- NewBootFirst
  OfferedPolicies = {"single", "multi"}
  OfferedScopes = {{cpu}}
  OfferedGens = {0}
  SessionIds = {s1, s2}
  MaxSessions = 1
  FenceOnSessionLoss = TRUE
  OpenModes = {"advance"}
  MaxGen = 6
  MaxMinted = 1
INVARIANTS
  TypeOK
  FencedNotLive
  NeverReissued
  OneIncarnation
  SavesAccepted
  AnswersAreTrue
  
PROPERTIES
  LostSessionIsFenced
  NoResurrection
  HistoryGrows
  RestartAdvances
