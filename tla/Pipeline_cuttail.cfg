SPECIFICATION Spec
CONSTANTS
  Inner <- MCInner
  Uses <- MCUses
  ZeroSize <- UnsizedChunks
  SymKey = 1
  OtherKey = 2
  KmsHeld <- NobodyUsesKms
  Sources <- PlainSource
  Modes <- FileMode
  MetadataModes <- MetaEncrypt
  RecipientLists <- OneList
  NewLists <- BobList
  Tools <- NoOtherTools
  Holders = {"alice", "bob", "carol"}
  MaxRotations = 1
  MaxFaults = 1
INVARIANT NothingLost
CHECK_DEADLOCK FALSE
