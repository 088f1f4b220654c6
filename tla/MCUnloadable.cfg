SPECIFICATION Spec
SYMMETRY Symmetry
CONSTANTS
  Participants = {1, 2}
  Boots = {11, 12, 21}
  Attempts = {a1}
  Scopes = {cpu, mem}
  Registrable = {cpu, mem}
  Reasons = {loss}
  MaxEpoch = 2
  MaxParticipants = 2
  MaxActiveWorkers = 2
  MaxRecentFences = 2
  MaxFencedBoots = 1
  MaxGrants = 2
  MaxScopes = 2
  MaxTransitions = 2
  MaxIdempotency = 1
  AllowMulti = TRUE
  ReplaceIncumbent = TRUE
  Deployment <- SpareBoot
  Batched = {}
  OfferedPolicies = {"single", "multi"}
  OfferedScopes = {{cpu, mem}}
  OfferedGens = {0}
  SessionIds = {}
  MaxSessions = 1
  FenceOnSessionLoss = TRUE
  OpenModes = {"advance"}
  MaxGen = 5
  MaxMinted = 2
  MaxString = 256
  NameSize = 8
  NoteSize = 0
  ProvenanceSize = 0
  MaxFramePayload = 65536
INVARIANTS
  ImageLoads
