SPECIFICATION FaultySpec
SYMMETRY Symmetry
CONSTANTS
  Participants = {1, 2}
  Boots = {11}
  Attempts = {a1, a2}
  Scopes = {cpu, mem}
  Registrable = {cpu, mem}
  Reasons = {loss}
  MaxEpoch = 2
  MaxParticipants = 2
  MaxActiveWorkers = 2
  MaxRecentFences = 1
  MaxFencedBoots = 1
  MaxGrants = 1
  MaxScopes = 2
  MaxTransitions = 2
  MaxIdempotency = 1
  AllowMulti = FALSE
  ReplaceIncumbent = TRUE
  Deployment <- SharedBoot
  Batched = {}
  OfferedPolicies = {"single"}
  OfferedScopes = {{cpu, mem}}
  OfferedGens = {0}
  SessionIds = {}
  MaxSessions = 1
  FenceOnSessionLoss = TRUE
  OpenModes = {"advance", "keep"}
  MaxGen = 4
  MaxMinted = 1
  MaxString = 256
  NameSize = 8
  NoteSize = 0
  ProvenanceSize = 24
  MaxFramePayload = 65536
INVARIANTS
  ImageLoads
  ShownIsReadable
  RestartAdmitted
  Durable
PROPERTIES
  EpochMonotone
