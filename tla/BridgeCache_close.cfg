\* Close while a stream is running: the doc comment of Close.
CONSTANTS
  Nil = Nil
  NoOnce = NoOnce
  Clients = {g1}
  OnceIds = {o1}
  NumChunks = 1
  CacheCap = 1
  EmptyChunks <- NoChunks
  BadChunks <- NoChunks
  ChunkSpan <- MCSpan
  Windows <- FullWindow
SPECIFICATION Spec
INVARIANT ClosedHoldsNoPlaintext
CHECK_DEADLOCK FALSE
