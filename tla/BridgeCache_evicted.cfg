\* Two streams, more chunks than room: a stream that waited for another one.
CONSTANTS
  Nil = Nil
  NoOnce = NoOnce
  Clients = {g1, g2}
  OnceIds = {o1, o2}
  NumChunks = 2
  CacheCap = 1
  EmptyChunks <- NoChunks
  BadChunks <- NoChunks
  ChunkSpan <- MCSpan
  Windows <- FullWindow
SPECIFICATION Spec
INVARIANT NoSpuriousEnd
CHECK_DEADLOCK FALSE
