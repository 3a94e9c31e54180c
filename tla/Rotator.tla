------------------------------ MODULE Rotator ------------------------------
(***************************************************************************)
(* Key rotation (RotateKeys, pkg/mcapencrypt/rotate.go): the symmetric key *)
(* of a file is taken from a slot the old private key opens, wrapped for   *)
(* new recipients, and the file is laid out anew around it.  Nothing that  *)
(* is encrypted is opened: records are sorted into a header buffer and a   *)
(* data buffer, and the slots, the manifest and the summary are rebuilt.   *)
(*                                                                         *)
(* One action is one record of the scan, or everything after it: the new   *)
(* file takes the name of its output in one rename (RotateKeyFile).        *)
(***************************************************************************)
EXTENDS McapRecords

VARIABLES
  rotFile,        \* the file that is rotated
  oldHolder,      \* the recipient whose private key is used
  newRecipients,  \* the recipients of the new slots
  rotPos,         \* the next record of the scan
  rotKey,         \* key of the first slot that opened, or NoKey
  headerBuf,      \* records to write ahead of the new slots
  dataBuf,        \* records to write behind them
  rotDefs,        \* schemaRecs and channelRecs
  chunkMetas,     \* where the chunks are in dataBuf
  seenFirstChunk, \* has an encrypted chunk or attachment been met?
  rotated,        \* the new file
  rotState        \* "idle", "scanning", "scanned", "done" or "failed"

rotInput == <<rotFile, oldHolder, newRecipients>>
rotMarks == <<rotDefs, chunkMetas, seenFirstChunk>>
rotVars == <<rotFile, oldHolder, newRecipients, rotPos, rotKey, headerBuf,
             dataBuf, rotDefs, chunkMetas, seenFirstChunk, rotated, rotState>>

Scanned == rotFile[rotPos]

Scans(ops) ==
  /\ rotState = "scanning"
  /\ rotPos <= Len(rotFile)
  /\ Scanned.op \in ops

Move == rotPos' = rotPos + 1 /\ UNCHANGED rotState

-----------------------------------------------------------------------------
\* No new recipient, or no MCAP file: refused.
RotStart ==
  /\ rotState = "idle"
  /\ IF newRecipients # <<>> /\ Len(rotFile) > 0 /\ rotFile[1].op = "magic"
     THEN rotState' = "scanning" /\ rotPos' = 2
     ELSE rotState' = "failed" /\ UNCHANGED rotPos
  /\ UNCHANGED <<rotInput, rotKey, headerBuf, dataBuf, rotMarks, rotated>>

KeepHeader ==
  /\ Scans({"header", "def"})
  /\ headerBuf' = Append(headerBuf, Scanned)
  /\ rotDefs' = IF Scanned.op = "def" THEN Append(rotDefs, Scanned.id) ELSE rotDefs
  /\ Move
  /\ UNCHANGED <<rotInput, rotKey, dataBuf, chunkMetas, seenFirstChunk, rotated>>

\* Plain metadata and the attachments of the user.
KeepData ==
  /\ Scans({"metadata", "attachment"})
  /\ dataBuf' = Append(dataBuf, Scanned)
  /\ Move
  /\ UNCHANGED <<rotInput, rotKey, headerBuf, rotMarks, rotated>>

\* A mutant: the old slots are kept.
DropSlotKept ==
  /\ Scans({"slot"})
  /\ rotKey' = IF rotKey = NoKey /\ OpensFor(Scanned, oldHolder) THEN Scanned.key ELSE rotKey
  /\ headerBuf' = Append(headerBuf, Scanned)
  /\ Move
  /\ UNCHANGED <<rotInput, dataBuf, rotMarks, rotated>>

\* Slots are tried until one opens, by a remote KMS or with a local key;
\* slots and manifest are left behind.
DropSlot ==
  /\ Scans({"slot"})
  /\ \/ /\ rotKey = NoKey
        /\ OpensFor(Scanned, oldHolder)
        /\ rotKey' = Scanned.key
     \/ /\ rotKey # NoKey \/ ~ OpensFor(Scanned, oldHolder) \/ oldHolder \in KmsHeld
        /\ UNCHANGED rotKey
  /\ Move
  /\ UNCHANGED <<rotInput, headerBuf, dataBuf, rotMarks, rotated>>

DropManifest ==
  /\ Scans({"manifest"})
  /\ Move
  /\ UNCHANGED <<rotInput, rotKey, headerBuf, dataBuf, rotMarks, rotated>>

KeepChunk ==
  /\ Scans({"encChunk"})
  /\ dataBuf' = Append(dataBuf, Scanned)
  /\ chunkMetas' = Append(chunkMetas, Len(dataBuf) + 1)
  /\ seenFirstChunk' = TRUE
  /\ Move
  /\ UNCHANGED <<rotInput, rotKey, headerBuf, rotDefs, rotated>>

KeepEncAttachment ==
  /\ Scans({"encAttachment"})
  /\ dataBuf' = Append(dataBuf, Scanned)
  /\ seenFirstChunk' = TRUE
  /\ Move
  /\ UNCHANGED <<rotInput, rotKey, headerBuf, rotDefs, chunkMetas, rotated>>

\* A mutant: unknown records are dropped.
KeepUnknownDropped ==
  /\ Scans({"encMetadata", "chunk", "message"} \cup Indexes)
  /\ Move
  /\ UNCHANGED <<rotInput, rotKey, headerBuf, dataBuf, rotMarks, rotated>>

\* The default branch: a record the scan does not know, encrypted metadata
\* among them, stays on its side of the first chunk.
KeepUnknown ==
  /\ Scans({"encMetadata", "chunk", "message"} \cup Indexes)
  /\ IF seenFirstChunk
     THEN dataBuf' = Append(dataBuf, Scanned) /\ UNCHANGED headerBuf
     ELSE headerBuf' = Append(headerBuf, Scanned) /\ UNCHANGED dataBuf
  /\ Move
  /\ UNCHANGED <<rotInput, rotKey, rotMarks, rotated>>

\* "read record": a record cut short, or a trailing magic without a footer.
ScanFails ==
  /\ Scans({"torn", "magic"})
  /\ rotState' = "failed"
  /\ UNCHANGED <<rotInput, rotPos, rotKey, headerBuf, dataBuf, rotMarks, rotated>>

\* DataEnd, footer, or an end of file between two records.
ScanEnds ==
  /\ rotState = "scanning"
  /\ rotPos <= Len(rotFile) => Scanned.op \in {"dataEnd", "footer"}
  /\ rotState' = "scanned"
  /\ UNCHANGED <<rotInput, rotPos, rotKey, headerBuf, dataBuf, rotMarks, rotated>>

\* Magic, header buffer, new slots and the new manifest: what is in front of
\* the data buffer.
Prefix ==
  <<Magic>> \o headerBuf
    \o Records(newRecipients, LAMBDA r : Slot(r, rotKey))
    \o <<Manifest(rotKey, Len(chunkMetas))>>

\* A mutant: the manifest is not counted into the prefix.
PositionsShort == [i \in DOMAIN chunkMetas |-> Len(Prefix) - 1 + chunkMetas[i]]

\* Chunk offsets relative to the data buffer become offsets in the file.
Positions == [i \in DOMAIN chunkMetas |-> Len(Prefix) + chunkMetas[i]]

\* Without the old key nothing is written.
RotWrite ==
  /\ rotState = "scanned"
  /\ IF rotKey = NoKey
     THEN rotState' = "failed" /\ UNCHANGED rotated
     ELSE /\ rotated' = Prefix \o dataBuf \o <<DataEnd>>
                          \o Summary(rotDefs, Positions) \o <<Footer, Magic>>
          /\ rotState' = "done"
  /\ UNCHANGED <<rotInput, rotPos, rotKey, headerBuf, dataBuf, rotMarks>>

RotInit ==
  /\ rotPos = 1
  /\ rotKey = NoKey
  /\ headerBuf = <<>>
  /\ dataBuf = <<>>
  /\ rotDefs = <<>>
  /\ chunkMetas = <<>>
  /\ seenFirstChunk = FALSE
  /\ rotated = <<>>
  /\ rotState = "idle"

RotNext ==
  \/ RotStart
  \/ KeepHeader \/ KeepData \/ DropSlot \/ DropManifest \/ KeepChunk
  \/ KeepEncAttachment \/ KeepUnknown \/ ScanFails
  \/ ScanEnds \/ RotWrite

-----------------------------------------------------------------------------
(* Properties of one rotation.                                             *)

\* The chunk positions of the summary, computed as prefix size plus offset in
\* the data buffer, are those of the chunks in the new file (rotate.go:269-286).
RotatedIndexPoints ==
  rotState = "done" =>
    LET n == Len(chunkMetas)
    IN /\ n = Len(OfKind(rotated, {"encChunk"}))
       /\ \A i \in 1..n : rotated[Positions[i]].op = "encChunk"
       /\ \A i, j \in 1..n : i < j => Positions[i] < Positions[j]

=============================================================================
