---------------------------- MODULE BridgeCache ----------------------------
(***************************************************************************)
(* The on-demand decrypting side of the streaming bridge                   *)
(* (pkg/mcapencrypt/bridge_stream.go): any number of goroutines, one per   *)
(* subscribed WebSocket client, iterate over the chunks of one encrypted   *)
(* file.  They share an LRU cache of decompressed chunks guarded by        *)
(* cacheMu, and a sync.Map of sync.Once objects meant to stop two of them  *)
(* from decrypting the same chunk.  Close may run at any moment.           *)
(*                                                                         *)
(* One action is one critical section or one blocking call of a goroutine, *)
(* so every interleaving the Go scheduler can produce at those points is a *)
(* behaviour of the model.                                                 *)
(***************************************************************************)
EXTENDS Naturals, Sequences

CONSTANTS
  Clients,     \* goroutines running streamWSStreamingMessages
  NumChunks,   \* chunks in the index built by scanEncryptedFile
  CacheCap,    \* cacheCap, defaultStreamingChunkCacheSize in production
  EmptyChunks, \* chunks whose record says UncompressedSize = 0
  BadChunks,   \* chunks whose record does not decode or does not open
  ChunkSpan,   \* ChunkSpan[c] = [start, end], the log times c covers
  Windows,     \* the time ranges a stream may ask for
  OnceIds,     \* identities of sync.Once objects
  NoOnce,      \* "no entry" in decryptOnce, "no reference" in a goroutine
  Nil          \* a nil byte slice

Chunks == 0..(NumChunks - 1)

ASSUME NumChunksAssumption == NumChunks \in Nat
ASSUME CacheCapAssumption == CacheCap \in Nat
ASSUME NilAssumption == Nil \notin Chunks
ASSUME NoOnceAssumption == NoOnce \notin OnceIds
ASSUME EmptyAssumption == EmptyChunks \subseteq Chunks
\* A chunk's times and a stream's range are intervals: an MCAP writer puts the
\* first and the last log time of the messages in a chunk's header, and the
\* one caller of iterateMessages asks for 0 to the largest uint64.
ASSUME SpanAssumption ==
  \A c \in Chunks : /\ ChunkSpan[c].start \in Nat
                    /\ ChunkSpan[c].end \in Nat
                    /\ ChunkSpan[c].start <= ChunkSpan[c].end
ASSUME WindowsAssumption ==
  \A w \in Windows : w.from \in Nat /\ w.to \in Nat /\ w.from <= w.to

VARIABLES
  pc,          \* where each goroutine is
  at,          \* the chunk each goroutine is working on: i of iterateMessages
  window,      \* the [from, to] range each stream asked for
  once,        \* the sync.Once a goroutine got from LoadOrStore
  result,      \* the closure's captured `result`
  failed,      \* is the closure's captured `decErr` set?
  delivered,   \* chunks whose messages the stream has handed to its client
  why,         \* why the stream ended
  cache,       \* the keys of s.cache
  cacheList,   \* s.cacheList, front (most recent) first
  decryptOnce, \* s.decryptOnce: the Once stored for each chunk, or NoOnce
  onceState,   \* state of each Once object
  decryptCount,\* successful AEAD opens; the code keeps the sum over chunks
  closer       \* progress of Close

streamVars == <<pc, at, window, once, result, failed, delivered, why>>
cacheVars == <<cache, cacheList>>
onceVars == <<decryptOnce, onceState>>
vars == <<pc, at, window, once, result, failed, delivered, why,
          cache, cacheList, decryptOnce, onceState, decryptCount, closer>>

-----------------------------------------------------------------------------
(* Data the actions share.                                                 *)

\* The decompressed records of chunk c: nil when the chunk is declared empty,
\* and otherwise a value that is different for every chunk.
Plaintext(c) == IF c \in EmptyChunks THEN Nil ELSE c

\* A mutant of the test: a chunk that begins when the range ends is lost.
OverlapsStrict(c, w) == ~ (ChunkSpan[c].end < w.from \/ ChunkSpan[c].start >= w.to)

\* The time test of iterateMessages.
Overlaps(c, w) == ~ (ChunkSpan[c].end < w.from \/ ChunkSpan[c].start > w.to)

\* The list with the element of chunk c moved to the front.
MoveToFront(list, c) ==
  LET i == CHOOSE k \in DOMAIN list : list[k].idx = c
  IN [k \in DOMAIN list |->
        IF k = 1 THEN list[i] ELSE IF k <= i THEN list[k - 1] ELSE list[k]]

\* The list with the records of its first element replaced.
SetFront(list, recs) ==
  [k \in DOMAIN list |-> IF k = 1 THEN [list[1] EXCEPT !.recs = recs] ELSE list[k]]

\* A mutant: evicting one element too late.
PushEvictLate(list, e) ==
  LET n == IF Len(list) <= CacheCap THEN Len(list) + 1 ELSE CacheCap + 1
  IN [k \in 1..n |-> IF k = 1 THEN e ELSE list[k - 1]]

\* PushFront, then the eviction loop: at most CacheCap elements survive.
PushEvict(list, e) ==
  LET n == IF Len(list) + 1 <= CacheCap THEN Len(list) + 1 ELSE CacheCap
  IN [k \in 1..n |-> IF k = 1 THEN e ELSE list[k - 1]]

KeysOf(list) == {list[k].idx : k \in DOMAIN list}

Distinct(list) ==
  \A i, j \in DOMAIN list : list[i].idx = list[j].idx => i = j

\* The records cached for c.
Cached(c) == cacheList[CHOOSE k \in DOMAIN cacheList : cacheList[k].idx = c].recs

\* Goroutine g's references to Once objects keep them alive; an identity is
\* reused only when nothing refers to it any more.
LiveOnces == {once[g] : g \in Clients} \cup {decryptOnce[c] : c \in Chunks}

-----------------------------------------------------------------------------
Init ==
  /\ pc = [g \in Clients |-> "connected"]
  /\ at = [g \in Clients |-> 0]
  /\ window \in [Clients -> Windows]
  /\ once = [g \in Clients |-> NoOnce]
  /\ result = [g \in Clients |-> Nil]
  /\ failed = [g \in Clients |-> FALSE]
  /\ delivered = [g \in Clients |-> <<>>]
  /\ why = [g \in Clients |-> "running"]
  /\ cache = {}
  /\ cacheList = <<>>
  /\ decryptOnce = [c \in Chunks |-> NoOnce]
  /\ onceState = [o \in OnceIds |-> "fresh"]
  /\ decryptCount = [c \in Chunks |-> 0]
  /\ closer = "serving"

Goto(g, label) == pc' = [pc EXCEPT ![g] = label]

\* iterateMessages returns: the goroutine ends and drops its references.
Stop(g, reason) ==
  /\ pc' = [pc EXCEPT ![g] = "ended"]
  /\ why' = [why EXCEPT ![g] = reason]

\* getDecryptedChunk returns records, or nil, to iterateMessages.
Return(g, recs) ==
  /\ result' = [result EXCEPT ![g] = recs]
  /\ Goto(g, "emit")

-----------------------------------------------------------------------------
(* One stream.                                                             *)

\* The first "subscribe" of a client starts its streaming goroutine.
Subscribe(g) ==
  /\ pc[g] = "connected"
  /\ Goto(g, "next")
  /\ UNCHANGED <<at, window, once, result, failed, delivered, why,
                 cacheVars, onceVars, decryptCount, closer>>

\* A chunk outside the window costs neither a read nor a decryption.
SkipChunk(g) ==
  /\ pc[g] = "next"
  /\ at[g] < NumChunks
  /\ ~ Overlaps(at[g], window[g])
  /\ at' = [at EXCEPT ![g] = @ + 1]
  /\ UNCHANGED <<pc, window, once, result, failed, delivered, why,
                 cacheVars, onceVars, decryptCount, closer>>

\* The loop over s.chunks is over.
Finish(g) ==
  /\ pc[g] = "next"
  /\ at[g] = NumChunks
  /\ Stop(g, "complete")
  /\ UNCHANGED <<at, window, once, result, failed, delivered,
                 cacheVars, onceVars, decryptCount, closer>>

\* The fast path: one critical section that finds the chunk and refreshes it.
LookupHit(g) ==
  /\ pc[g] = "next"
  /\ at[g] < NumChunks
  /\ Overlaps(at[g], window[g])
  /\ at[g] \in cache
  /\ cacheList' = MoveToFront(cacheList, at[g])
  /\ Return(g, Cached(at[g]))
  /\ UNCHANGED <<at, window, once, failed, delivered, why,
                 cache, onceVars, decryptCount, closer>>

LookupMiss(g) ==
  /\ pc[g] = "next"
  /\ at[g] < NumChunks
  /\ Overlaps(at[g], window[g])
  /\ at[g] \notin cache
  /\ Goto(g, "missed")
  /\ UNCHANGED <<at, window, once, result, failed, delivered, why,
                 cacheVars, onceVars, decryptCount, closer>>

\* decryptOnce.LoadOrStore: the Once already there, or a new one.
LoadOnce(g) ==
  /\ pc[g] = "missed"
  /\ decryptOnce[at[g]] # NoOnce
  /\ once' = [once EXCEPT ![g] = decryptOnce[at[g]]]
  /\ result' = [result EXCEPT ![g] = Nil]
  /\ failed' = [failed EXCEPT ![g] = FALSE]
  /\ Goto(g, "do")
  /\ UNCHANGED <<at, window, delivered, why, cacheVars, onceVars,
                 decryptCount, closer>>

StoreOnce(g) ==
  /\ pc[g] = "missed"
  /\ decryptOnce[at[g]] = NoOnce
  /\ \E o \in OnceIds \ LiveOnces :
       /\ decryptOnce' = [decryptOnce EXCEPT ![at[g]] = o]
       /\ onceState' = [onceState EXCEPT ![o] = "fresh"]
       /\ once' = [once EXCEPT ![g] = o]
  /\ result' = [result EXCEPT ![g] = Nil]
  /\ failed' = [failed EXCEPT ![g] = FALSE]
  /\ Goto(g, "do")
  /\ UNCHANGED <<at, window, delivered, why, cacheVars, decryptCount, closer>>

\* A mutant: every caller runs the closure.
DoRunAlways(g) ==
  /\ pc[g] = "do"
  /\ onceState' = [onceState EXCEPT ![once[g]] = "running"]
  /\ Goto(g, "read")
  /\ UNCHANGED <<at, window, once, result, failed, delivered, why,
                 cacheVars, decryptOnce, decryptCount, closer>>

\* once.Do: the first caller runs the closure ...
DoRun(g) ==
  /\ pc[g] = "do"
  /\ onceState[once[g]] = "fresh"
  /\ onceState' = [onceState EXCEPT ![once[g]] = "running"]
  /\ Goto(g, "read")
  /\ UNCHANGED <<at, window, once, result, failed, delivered, why,
                 cacheVars, decryptOnce, decryptCount, closer>>

\* A mutant: a second caller does not wait.
DoWaitNot(g) ==
  /\ pc[g] = "do"
  /\ onceState[once[g]] # "fresh"
  /\ Goto(g, "forget")
  /\ UNCHANGED <<at, window, once, result, failed, delivered, why,
                 cacheVars, onceVars, decryptCount, closer>>

\* ... and the others return only when it is over.
DoWait(g) ==
  /\ pc[g] = "do"
  /\ onceState[once[g]] = "done"
  /\ Goto(g, "forget")
  /\ UNCHANGED <<at, window, once, result, failed, delivered, why,
                 cacheVars, onceVars, decryptCount, closer>>

\* decryptChunkFromDisk, the read: fails once the file is closed.
ReadChunk(g) ==
  /\ pc[g] = "read"
  /\ IF closer = "closed"
     THEN /\ failed' = [failed EXCEPT ![g] = TRUE]
          /\ Goto(g, "leave")
     ELSE /\ Goto(g, "open")
          /\ UNCHANGED failed
  /\ UNCHANGED <<at, window, once, result, delivered, why,
                 cacheVars, onceVars, decryptCount, closer>>

\* decryptChunkFromDisk, the rest: fails on a bad chunk, and once Close has
\* overwritten the key the AEAD open is given.
OpenChunk(g) ==
  /\ pc[g] = "open"
  /\ IF at[g] \in BadChunks \/ closer \in {"keyCleared", "closed"}
     THEN /\ failed' = [failed EXCEPT ![g] = TRUE]
          /\ Goto(g, "leave")
          /\ UNCHANGED <<result, decryptCount>>
     ELSE /\ decryptCount' = [decryptCount EXCEPT ![at[g]] = @ + 1]
          /\ result' = [result EXCEPT ![g] = Plaintext(at[g])]
          /\ Goto(g, "put")
          /\ UNCHANGED failed
  /\ UNCHANGED <<at, window, once, delivered, why, cacheVars, onceVars, closer>>

\* A mutant: the evicted chunk keeps its key in the map.
CachePutKeepsKey(g) ==
  LET c == at[g]
  IN
  /\ pc[g] = "put"
  /\ cache' = cache \cup {c}
  /\ cacheList' = IF c \in cache THEN SetFront(MoveToFront(cacheList, c), result[g])
                  ELSE PushEvict(cacheList, [idx |-> c, recs |-> result[g]])
  /\ Goto(g, "leave")
  /\ UNCHANGED <<at, window, once, result, failed, delivered, why,
                 onceVars, decryptCount, closer>>

\* cachePut: refresh the element of the chunk, or insert it and evict.
CachePut(g) ==
  LET c == at[g]
      pushed == PushEvict(cacheList, [idx |-> c, recs |-> result[g]])
  IN
  /\ pc[g] = "put"
  /\ IF c \in cache
     THEN /\ cacheList' = SetFront(MoveToFront(cacheList, c), result[g])
          /\ UNCHANGED cache
     ELSE /\ cacheList' = pushed
          /\ cache' = (cache \cup {c}) \ ((KeysOf(cacheList) \cup {c}) \ KeysOf(pushed))
  /\ Goto(g, "leave")
  /\ UNCHANGED <<at, window, once, result, failed, delivered, why,
                 onceVars, decryptCount, closer>>

\* A mutant: the Once never releases its waiters.
LeaveOnceBusy(g) ==
  /\ pc[g] = "leave"
  /\ Goto(g, "forget")
  /\ UNCHANGED <<at, window, once, result, failed, delivered, why,
                 cacheVars, onceVars, decryptCount, closer>>

\* The closure returns and the Once releases its waiters.
LeaveOnce(g) ==
  /\ pc[g] = "leave"
  /\ onceState' = [onceState EXCEPT ![once[g]] = "done"]
  /\ Goto(g, "forget")
  /\ UNCHANGED <<at, window, once, result, failed, delivered, why,
                 cacheVars, decryptOnce, decryptCount, closer>>

\* Two mutants: the spent Once stays in the map; a caller that waited
\* returns its own nil result.
ForgetOnceKeeps(g) ==
  /\ pc[g] = "forget"
  /\ once' = [once EXCEPT ![g] = NoOnce]
  /\ IF failed[g] THEN Stop(g, "decrypt error")
     ELSE /\ Goto(g, IF result[g] # Nil THEN "emit" ELSE "recheck")
          /\ UNCHANGED why
  /\ UNCHANGED <<at, window, result, failed, delivered,
                 cacheVars, onceVars, decryptCount, closer>>

ForgetOnceReturnsNil(g) ==
  /\ pc[g] = "forget"
  /\ decryptOnce' = [decryptOnce EXCEPT ![at[g]] = NoOnce]
  /\ once' = [once EXCEPT ![g] = NoOnce]
  /\ IF failed[g] THEN Stop(g, "decrypt error")
     ELSE Goto(g, "emit") /\ UNCHANGED why
  /\ UNCHANGED <<at, window, result, failed, delivered,
                 cacheVars, onceState, decryptCount, closer>>

\* decryptOnce.Delete removes whatever Once is stored for the chunk by now;
\* then an error ends the stream, records are returned, and a goroutine that
\* holds neither re-checks the cache.
ForgetOnce(g) ==
  /\ pc[g] = "forget"
  /\ decryptOnce' = [decryptOnce EXCEPT ![at[g]] = NoOnce]
  /\ once' = [once EXCEPT ![g] = NoOnce]
  /\ IF failed[g] THEN Stop(g, "decrypt error")
     ELSE /\ Goto(g, IF result[g] # Nil THEN "emit" ELSE "recheck")
          /\ UNCHANGED why
  /\ UNCHANGED <<at, window, result, failed, delivered,
                 cacheVars, onceState, decryptCount, closer>>

RecheckHit(g) ==
  /\ pc[g] = "recheck"
  /\ at[g] \in cache
  /\ cacheList' = MoveToFront(cacheList, at[g])
  /\ Return(g, Cached(at[g]))
  /\ UNCHANGED <<at, window, once, failed, delivered, why,
                 cache, onceVars, decryptCount, closer>>

\* "decrypt completed concurrently but cache miss"
RecheckMiss(g) ==
  /\ pc[g] = "recheck"
  /\ at[g] \notin cache
  /\ Stop(g, "cache miss")
  /\ UNCHANGED <<at, window, once, result, failed, delivered,
                 cacheVars, onceVars, decryptCount, closer>>

\* A mutant: nil records are handed over too.
EmitNil(g) ==
  /\ pc[g] = "emit"
  /\ delivered' = [delivered EXCEPT ![g] = Append(@, result[g])]
  /\ result' = [result EXCEPT ![g] = Nil]
  /\ at' = [at EXCEPT ![g] = @ + 1]
  /\ Goto(g, "next")
  /\ UNCHANGED <<window, once, failed, why, cacheVars, onceVars,
                 decryptCount, closer>>

\* iterateMessages walks the records and yields their messages; nil records
\* are skipped.
Emit(g) ==
  /\ pc[g] = "emit"
  /\ delivered' = [delivered EXCEPT ![g] =
                     IF result[g] = Nil THEN @ ELSE Append(@, result[g])]
  /\ result' = [result EXCEPT ![g] = Nil]
  /\ at' = [at EXCEPT ![g] = @ + 1]
  /\ Goto(g, "next")
  /\ UNCHANGED <<window, once, failed, why, cacheVars, onceVars,
                 decryptCount, closer>>

\* The client has gone away and the send of one of the messages fails, or a
\* record of the chunk does not parse.
SendFails(g) ==
  /\ pc[g] = "emit"
  /\ result[g] # Nil
  /\ Stop(g, "send error")
  /\ UNCHANGED <<at, window, once, result, failed, delivered,
                 cacheVars, onceVars, decryptCount, closer>>

-----------------------------------------------------------------------------
(* Close: drop the cache under its lock, clear the key, close the file.     *)
(* http.Server.Shutdown does not wait for upgraded connections, so streams *)
(* may still be running, or may even start.                                *)

CloseCache ==
  /\ closer = "serving"
  /\ cache' = {}
  /\ cacheList' = <<>>
  /\ closer' = "cacheCleared"
  /\ UNCHANGED <<streamVars, onceVars, decryptCount>>

CloseKey ==
  /\ closer = "cacheCleared"
  /\ closer' = "keyCleared"
  /\ UNCHANGED <<streamVars, cacheVars, onceVars, decryptCount>>

CloseFile ==
  /\ closer = "keyCleared"
  /\ closer' = "closed"
  /\ UNCHANGED <<streamVars, cacheVars, onceVars, decryptCount>>

-----------------------------------------------------------------------------
\* The steps of goroutine g once it has been started.
Step(g) ==
  \/ SkipChunk(g) \/ Finish(g)
  \/ LookupHit(g) \/ LookupMiss(g)
  \/ LoadOnce(g) \/ StoreOnce(g)
  \/ DoRun(g) \/ DoWait(g)
  \/ ReadChunk(g) \/ OpenChunk(g) \/ CachePut(g) \/ LeaveOnce(g)
  \/ ForgetOnce(g)
  \/ RecheckHit(g) \/ RecheckMiss(g)
  \/ Emit(g)

Next ==
  \/ \E g \in Clients : Subscribe(g) \/ Step(g) \/ SendFails(g)
  \/ CloseCache \/ CloseKey \/ CloseFile

\* A started goroutine is scheduled until it blocks or returns.  Nothing says
\* that a client subscribes, disconnects, or that the bridge is closed.
Fairness == \A g \in Clients : WF_vars(Step(g))

Spec == Init /\ [][Next]_vars
FairSpec == Spec /\ Fairness

-----------------------------------------------------------------------------
(* Properties.                                                             *)

Labels == {"connected", "next", "missed", "do", "read", "open", "put",
           "leave", "forget", "recheck", "emit", "ended"}
Reasons == {"running", "complete", "decrypt error", "cache miss", "send error"}
Records == Chunks \cup {Nil}
Element == [idx : Chunks, recs : Records]

\* Every variable holds a value of its Go type.
TypeOK ==
  /\ pc \in [Clients -> Labels]
  /\ at \in [Clients -> 0..NumChunks]
  /\ window \in [Clients -> Windows]
  /\ once \in [Clients -> OnceIds \cup {NoOnce}]
  /\ result \in [Clients -> Records]
  /\ failed \in [Clients -> BOOLEAN]
  /\ delivered \in [Clients -> Seq(Chunks)]
  /\ why \in [Clients -> Reasons]
  /\ cache \subseteq Chunks
  /\ cacheList \in Seq(Element)
  /\ decryptOnce \in [Chunks -> OnceIds \cup {NoOnce}]
  /\ onceState \in [OnceIds -> {"fresh", "running", "done"}]
  /\ decryptCount \in [Chunks -> Nat]
  /\ closer \in {"serving", "cacheCleared", "keyCleared", "closed"}

\* The map and the recency list of the LRU describe the same chunks, each
\* chunk once, whatever lookups, puts and Close interleave (getDecryptedChunk,
\* cachePut, Close): an element the map forgets could never be evicted, and a
\* key the list forgets would stay in memory for ever.
CacheCoherent == cache = KeysOf(cacheList) /\ Distinct(cacheList)

\* The plaintext held in memory never exceeds cacheCap chunks: the RAM
\* ceiling the bridge promises.
CacheBounded == Len(cacheList) <= CacheCap

\* No element of the cache and no goroutine ever holds the plaintext of
\* another chunk than the one it is filed under: a hit, a re-check after
\* somebody else's decryption and a refreshed element all yield the bytes of
\* the chunk that was asked for.
RightRecords ==
  /\ \A i \in DOMAIN cacheList : cacheList[i].recs = Plaintext(cacheList[i].idx)
  /\ \A g \in Clients : pc[g] \in {"put", "emit"} => result[g] = Plaintext(at[g])

InFlight(g) == pc[g] \in {"do", "read", "open", "put", "leave", "forget"}

\* A Once stored for a chunk is always held by a goroutine that has still to
\* delete it.  Otherwise a spent Once could stay in the map: once its chunk
\* is evicted nobody would ever decrypt it again.
OnceIsHeld ==
  \A c \in Chunks : decryptOnce[c] # NoOnce =>
    \E g \in Clients : InFlight(g) /\ at[g] = c /\ once[g] = decryptOnce[c]

Inside(g) == pc[g] \in {"read", "open", "put", "leave"}

\* A Once that makes callers wait has exactly one goroutine inside its
\* closure: nobody waits for a decryption that no one is doing, and no two
\* goroutines run the same closure (once.Do in getDecryptedChunk).
RunningOnceHasRunner ==
  /\ \A g, h \in Clients : Inside(g) /\ Inside(h) /\ once[g] = once[h] => g = h
  /\ \A g \in Clients :
       (once[g] \in OnceIds /\ onceState[once[g]] = "running")
         => \E h \in Clients : Inside(h) /\ once[h] = once[g]

\* With room for every chunk that opens, no stream of a bridge that is still
\* serving is cut off at one of them: the re-check after waiting for another
\* goroutine always finds the chunk, and never takes a failure of another
\* chunk for its own.  With less room, streams do end like that.
NoSpuriousEnd ==
  \A g \in Clients :
    closer = "serving" /\ at[g] \notin BadChunks
      => why[g] \notin {"cache miss", "decrypt error"}

\* What Close says it does: after it has returned, and every stream is over,
\* the bridge holds no plaintext.
ClosedHoldsNoPlaintext ==
  (closer = "closed" /\ \A g \in Clients : pc[g] \in {"connected", "ended"})
    => cache = {}

\* Every stream that a client starts comes to an end: no goroutine waits for
\* ever on a Once, a lock or an evicted chunk.
StreamsEnd == \A g \in Clients : pc[g] = "next" ~> pc[g] = "ended"

-----------------------------------------------------------------------------
(* What one stream promises its client, whatever the others do.            *)

\* Some log time lies both in the chunk and in the range.
InRange(c, w) ==
  \E t \in ChunkSpan[c].start .. ChunkSpan[c].end : w.from <= t /\ t <= w.to

Promise == INSTANCE ChunkStreams WITH
  wants <- [g \in Clients |->
              {c \in Chunks : InRange(c, window[g]) /\ c \notin EmptyChunks}],
  status <- [g \in Clients |->
               CASE why[g] = "running" -> "running"
                 [] why[g] = "complete" -> "complete"
                 [] OTHER -> "abandoned"]

\* Sharing the cache is invisible to a client: every stream is a stream of
\* ChunkStreams, the chunks of its range in order, each exactly once.
StreamsKeepPromise == Promise!Spec

=============================================================================
