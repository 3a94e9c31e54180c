\* Two streams that ask for everything or for the instant at which the first
\* two chunks meet, three chunks of which the first is empty and the last does
\* not open, room for the two that do.
CONSTANTS
  Nil = Nil
  NoOnce = NoOnce
  Clients = {g1, g2}
  OnceIds = {o1, o2}
  NumChunks = 3
  CacheCap = 2
  EmptyChunks <- FirstChunk
  BadChunks <- LastChunk
  ChunkSpan <- MCSpan
  Windows <- TwoWindows
SPECIFICATION FairSpec
INVARIANT NoSpuriousEnd
PROPERTIES
  StreamsKeepPromise
  StreamsEnd
CHECK_DEADLOCK FALSE
