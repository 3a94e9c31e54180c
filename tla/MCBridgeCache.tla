--------------------------- MODULE MCBridgeCache ---------------------------
(***************************************************************************)
(* Small instances of BridgeCache.  Chunk c covers the log times [c, c+1], *)
(* so neighbouring chunks overlap at one instant.  Goroutines and Once     *)
(* objects are interchangeable, which the safety runs use for symmetry.    *)
(***************************************************************************)
EXTENDS BridgeCache, TLC

MCSpan == [c \in Chunks |-> [start |-> c, end |-> c + 1]]
FullWindow == {[from |-> 0, to |-> NumChunks]}
TwoWindows == FullWindow \cup {[from |-> 1, to |-> 1]}
NoChunks == {}
FirstChunk == {0}
LastChunk == {NumChunks - 1}

Symmetry ==
  {p @@ q : p \in Permutations(Clients), q \in Permutations(OnceIds)}

=============================================================================
