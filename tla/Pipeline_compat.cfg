SPECIFICATION Spec
CONSTANTS
  Inner <- MCInner
  Uses <- MCUses
  ZeroSize <- UnsizedChunks
  SymKey = 1
  OtherKey = 2
  KmsHeld <- NobodyUsesKms
  Sources <- UsualSources
  Modes <- FileMode
  MetadataModes <- MetaEncrypt
  RecipientLists <- OneList
  NewLists <- BobList
  Tools <- OtherPackages
  Holders = {"alice", "bob", "carol"}
  MaxRotations = 0
  MaxFaults = 0
INVARIANT FullyCompatible
CHECK_DEADLOCK FALSE
