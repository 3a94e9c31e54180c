\* Four runs with one basename, side by side or one after the other, each of
\* which may fail or die, with and without key files of the user.
CONSTANTS
  Runs = {k1, k2, k3, k4}
  User = User
  None = None
SPECIFICATION Spec
INVARIANTS
  KeyTypeOK
  PublicHasPrivate
PROPERTY NoClobber
CHECK_DEADLOCK FALSE
