SPECIFICATION Spec
CONSTANTS
  Inner <- MCInner
  Uses <- MCUses
  ZeroSize <- UnsizedChunks
  SymKey = 1
  OtherKey = 2
  KmsHeld <- CarolUsesKms
  Sources <- ManySources
  Modes <- BothModes
  MetadataModes <- MetaModes
  RecipientLists <- SomeLists
  NewLists <- RotationLists
  Tools <- AllTools
  Holders = {"alice", "bob", "carol"}
  MaxRotations = 2
  MaxFaults = 0
INVARIANTS
  PipelineTypeOK
  RoundTrip
  KeysComeFirst
  IndexPointsAtChunks
  EverythingSealed
  NeverEncryptTwice
  RecipientsCanRead
  OnlyRecipientsRead
  BridgeServesRecording
  AnyToolReads
  RotatedIndexPoints
  InspectTellsTruth
CHECK_DEADLOCK FALSE
