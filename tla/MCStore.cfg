SPECIFICATION Spec
CONSTANTS
  Processes = {a}
  MaxEpoch = 3
  MaxRev = 4
  Mishaps = {"error", "power", "restored", "removed"}
CONSTRAINT Followed
INVARIANTS
  TypeOK
  AckedSurvives
  NoDebris
  EstablishesAboveMark
PROPERTIES
  KeepsContract
