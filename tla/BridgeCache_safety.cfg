\* Three streams, two chunks (one of them empty), room for one chunk: every
\* put evicts.  Streams end, so the system may stop.
CONSTANTS
  Nil = Nil
  NoOnce = NoOnce
  Clients = {g1, g2, g3}
  OnceIds = {o1, o2, o3}
  NumChunks = 2
  CacheCap = 1
  EmptyChunks <- FirstChunk
  BadChunks <- NoChunks
  ChunkSpan <- MCSpan
  Windows <- FullWindow
SPECIFICATION Spec
SYMMETRY Symmetry
INVARIANTS
  TypeOK
  CacheCoherent
  CacheBounded
  RightRecords
  OnceIsHeld
  RunningOnceHasRunner
CHECK_DEADLOCK FALSE
