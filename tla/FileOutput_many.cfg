\* Four commands side by side, two of them over one output path.
CONSTANTS
  r1 = r1
  r2 = r2
  r3 = r3
  r4 = r4
  User = User
  None = None
  Paths = {"a", "b", "c", "d"}
  Runs <- FourRuns
  Kind <- ManyKind
  Input <- ManyInput
  Output <- ManyOutput
  Forced <- ManyForce
SPECIFICATION Spec
INVARIANTS
  TypeOK
  OutputsAreWhole
  NoTempLeft
  OutcomeIsTrue
PROPERTY UnforcedKeepsFiles
CHECK_DEADLOCK FALSE
