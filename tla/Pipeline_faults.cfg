SPECIFICATION Spec
CONSTANTS
  Inner <- MCInner
  Uses <- MCUses
  ZeroSize <- UnsizedChunks
  SymKey = 1
  OtherKey = 2
  KmsHeld <- NobodyUsesKms
  Sources <- FaultySources
  Modes <- BothModes
  MetadataModes <- MetaEncrypt
  RecipientLists <- OneList
  NewLists <- BobList
  Tools <- EarlierRelease
  Holders = {"alice", "bob"}
  MaxRotations = 1
  MaxFaults = 2
INVARIANTS
  DeliveredIsPrefix
  BridgePlaysRecording
  EveryToolIsStrict
PROPERTY KeepsPromise
CHECK_DEADLOCK FALSE
