\* One command given one path twice, with --force: the documented rejection.
CONSTANTS
  r1 = r1
  r2 = r2
  r3 = r3
  r4 = r4
  User = User
  None = None
  Paths = {"a"}
  Runs <- OneRun
  Kind <- SameKind
  Input <- SameInput
  Output <- SameOutput
  Forced <- SameForce
SPECIFICATION Spec
PROPERTY SamePathRejected
CHECK_DEADLOCK FALSE
