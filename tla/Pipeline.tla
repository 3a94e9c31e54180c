----------------------------- MODULE Pipeline ------------------------------
(***************************************************************************)
(* The life of one recording: it is encrypted, its file is kept, possibly  *)
(* rotated to other recipients, and in the end decrypted.  The recording   *)
(* may be replaced or go on growing while it is encrypted.  While it is    *)
(* kept, the file may suffer what files suffer: records lost, repeated or  *)
(* exchanged, the tail cut off, a slot garbled, records of another         *)
(* recording mixed in, or an attachment added by another tool.             *)
(*                                                                         *)
(* Every step of the Go programs is theirs (Encryptor, Rotator, Decryptor) *)
(* and every file of the Python and TypeScript programs is theirs          *)
(* (PythonTools, TypeScriptTools); this module adds the file they hand to  *)
(* each other.                                                             *)
(***************************************************************************)
EXTENDS Encryptor, Rotator, Decryptor, BridgeScan, PythonTools, TypeScriptTools,
        Inspectors

CONSTANTS
  Tools,         \* who may handle a file besides the Go programs: the other
                 \* packages, and a release that wrote version 2 slots
  Holders,       \* everyone who has a private key
  NewLists,      \* the recipient lists a rotation may be given
  MaxRotations,  \* bound: rotations of one file
  MaxFaults,     \* bound: faults one file suffers, changes of the input included
  OtherKey       \* the symmetric key of another recording

ASSUME OtherKeyAssumption == OtherKey \in Nat \ {NoKey, SymKey}
ASSUME NewListsAssumption == \A list \in NewLists : list \in Seq(Elements(list))
ASSUME HoldersAssumption ==
  \A list \in RecipientLists \cup NewLists : Elements(list) \subseteq Holders
ASSUME ToolsAssumption == Tools \subseteq {"python", "typescript", "legacy"}

VARIABLES
  stage,      \* "encrypt", "stored", "rotate" or "decrypt"
  stored,     \* the encrypted file
  readers,    \* the recipients the file was last written for
  rotations,  \* rotations begun
  faults,     \* faults suffered
  changes,    \* changes of the input
  vouched,    \* does its manifest count the chunks of the recording?
  encryptedBy, \* whose encryption the file comes from, or ""
  rotatedBy   \* whose rotations it went through

lineage == <<encryptedBy, rotatedBy>>
fileVars == <<stored, readers, rotations, faults, changes, vouched, lineage>>
vars == <<encVars, rotVars, decVars, stage, fileVars>>

S == INSTANCE SequencesExt

-----------------------------------------------------------------------------
Encrypt ==
  /\ stage = "encrypt"
  /\ EncNext
  /\ UNCHANGED <<rotVars, decVars, stage, fileVars>>

\* File mode renames a finished temporary file; a stream is whatever came out.
Store ==
  /\ stage = "encrypt"
  /\ encState = "done"
  /\ stored' = out
  /\ readers' = Elements(recipients)
  /\ stage' = "stored"
  /\ encryptedBy' = "go"
  /\ UNCHANGED <<encVars, rotVars, decVars, rotations, faults, changes, vouched, rotatedBy>>

\* The encrypting process dies, or stops at an error, with part of a stream
\* written.
Interrupt ==
  /\ stage = "encrypt"
  /\ mode = "stream"
  /\ encState \in {"reading", "failed"}
  /\ faults + changes < MaxFaults
  /\ stored' = out
  /\ readers' = Elements(recipients)
  /\ faults' = faults + 1
  /\ stage' = "stored"
  /\ encryptedBy' = "go"
  /\ UNCHANGED <<encVars, rotVars, decVars, rotations, changes, vouched, rotatedBy>>

\* Another recording takes the name of the input between two of its passes,
\* or the input grows while it is read.
InputChanges ==
  /\ stage = "encrypt"
  /\ mode = "file"
  /\ faults + changes < MaxFaults
  /\ \E other \in Sources :
       /\ other # source
       /\ \/ encState \in {"checked", "collected"}
          \/ encState = "reading" /\ S!IsPrefix(source, other)
       /\ source' = other
  /\ changes' = changes + 1
  /\ UNCHANGED <<mode, metadataMode, recipients, encPos, pending, encMarks, chunkIdx,
                 encChunkMetas, out, encState, rotVars, decVars, stage, stored,
                 readers, rotations, faults, vouched, lineage>>

\* What earlier releases made of a complete recording.
LegacyEncrypts ==
  /\ recipients # <<>>
  /\ OfKind(source, Encrypted \cup {"message", "torn"}) = <<>>
  /\ OfKind(source, {"dataEnd"}) # <<>>

LegacyEncrypted ==
  LET known == Definitions(source)
      Legacy(r) == [Slot(r, SymKey) EXCEPT !.version = LegacyVersion]
      body == OfKind(UpTo(source, {"dataEnd"}), {"chunk", "attachment", "metadata"})
      Write(i) == Sealed(body, i, SymKey, metadataMode)
  IN <<Magic, Header>> \o Records(known, Def) \o Records(recipients, Legacy)
       \o [i \in DOMAIN body |-> Write(i)] \o <<DataEnd, Footer, Magic>>

\* The file tool makes of the source, where it makes one.
EncryptsElsewhere(tool) ==
  \/ tool = "python" /\ PyEncrypts(source, recipients)
  \/ tool = "typescript" /\ TsEncrypts(source, recipients)
  \/ tool = "legacy" /\ LegacyEncrypts

EncryptedElsewhere(tool) ==
  CASE tool = "python" -> PyEncrypted(source, recipients, SymKey, metadataMode)
    [] tool = "typescript" -> TsEncrypted(source, recipients, SymKey, metadataMode)
    [] tool = "legacy" -> LegacyEncrypted

EncryptElsewhere(tool) ==
  /\ stage = "encrypt"
  /\ encState = "start"
  /\ mode = "file"
  /\ EncryptsElsewhere(tool)
  /\ stored' = EncryptedElsewhere(tool)
  /\ readers' = Elements(recipients)
  /\ stage' = "stored"
  /\ encryptedBy' = tool
  /\ vouched' = (tool # "legacy")
  /\ UNCHANGED <<encVars, rotVars, decVars, rotations, faults, changes, rotatedBy>>

-----------------------------------------------------------------------------
(* Faults of the stored file.                                              *)

\* The record of another recording that could stand where r stands; the
\* placeholder of a manifest is the same in every recording.
Foreign(r) ==
  IF "key" \in DOMAIN r /\ r # Placeholder THEN [r EXCEPT !.key = OtherKey] ELSE r

\* A slot that does not decode any more.
Garbled(r) == IF r.op = "slot" THEN [r EXCEPT !.version = Malformed] ELSE r

Damaged(i) ==
  { S!RemoveAt(stored, i),
    S!InsertAt(stored, i, stored[i]),
    S!ReplaceAt(stored, i, Foreign(stored[i])),
    S!ReplaceAt(stored, i, Garbled(stored[i])),
    S!InsertAt(stored, i, Attachment("note")),
    SubSeq(stored, 1, i),
    Append(SubSeq(stored, 1, i), Torn) }
  \cup (IF i < Len(stored)
        THEN {[stored EXCEPT ![i] = stored[i + 1], ![i + 1] = stored[i]]}
        ELSE {})

\* Behind its leading magic the file may be damaged anywhere.
Damage ==
  /\ stage = "stored"
  /\ faults + changes < MaxFaults
  /\ \E i \in 2..Len(stored) : stored' \in Damaged(i)
  /\ faults' = faults + 1
  /\ UNCHANGED <<encVars, rotVars, decVars, stage, readers, rotations, changes, vouched,
                 lineage>>

-----------------------------------------------------------------------------
BeginRotate(old, new) ==
  /\ stage = "stored"
  /\ rotations < MaxRotations
  /\ rotations' = rotations + 1
  /\ rotFile' = stored
  /\ oldHolder' = old
  /\ newRecipients' = new
  /\ stage' = "rotate"
  /\ UNCHANGED <<encVars, decVars, rotPos, rotKey, headerBuf, dataBuf, rotMarks,
                 rotated, rotState, stored, readers, faults, changes, vouched, lineage>>

Rotate ==
  /\ stage = "rotate"
  /\ RotNext
  /\ UNCHANGED <<encVars, decVars, stage, fileVars>>

\* The new file takes the place of the old one; after a failure the old one
\* is still there.  A rotation counts what it finds: from then on the manifest
\* vouches for the recording if the file was undamaged, and only then.
EndRotate ==
  /\ stage = "rotate"
  /\ rotState \in {"done", "failed"}
  /\ IF rotState = "done"
     THEN /\ stored' = rotated
          /\ readers' = Elements(newRecipients)
          /\ vouched' = (faults = 0)
          /\ rotatedBy' = rotatedBy \cup {"go"}
     ELSE UNCHANGED <<stored, readers, vouched, rotatedBy>>
  /\ rotFile' = <<>> /\ oldHolder' = "" /\ newRecipients' = <<>>
  /\ rotPos' = 1 /\ rotKey' = NoKey /\ headerBuf' = <<>> /\ dataBuf' = <<>>
  /\ rotDefs' = <<>> /\ chunkMetas' = <<>> /\ seenFirstChunk' = FALSE
  /\ rotated' = <<>> /\ rotState' = "idle"
  /\ stage' = "stored"
  /\ UNCHANGED <<encVars, decVars, rotations, faults, changes, encryptedBy>>

RotatesElsewhere(tool, old, new) ==
  /\ old \notin KmsHeld
  /\ \/ tool = "python" /\ PyRotates(stored, old, new)
     \/ tool = "typescript" /\ TsRotates(stored, old, new)

RotatedElsewhere(tool, old, new) ==
  IF tool = "python" THEN PyRotated(stored, old, new) ELSE TsRotated(stored, old, new)

RotateElsewhere(tool, old, new) ==
  /\ stage = "stored"
  /\ rotations < MaxRotations
  /\ rotations' = rotations + 1
  /\ RotatesElsewhere(tool, old, new)
  /\ stored' = RotatedElsewhere(tool, old, new)
  /\ readers' = Elements(new)
  /\ vouched' = (faults = 0)
  /\ rotatedBy' = rotatedBy \cup {tool}
  /\ UNCHANGED <<encVars, rotVars, decVars, stage, faults, changes, encryptedBy>>

BeginDecrypt(h) ==
  /\ stage = "stored"
  /\ encFile' = stored
  /\ holder' = h
  /\ stage' = "decrypt"
  /\ UNCHANGED <<encVars, rotVars, decPos, decKeys, decBuffers, decOutput,
                 decState, fileVars>>

Decrypt ==
  /\ stage = "decrypt"
  /\ DecNext
  /\ UNCHANGED <<encVars, rotVars, stage, fileVars>>

Init ==
  /\ EncInit /\ RotInit /\ DecInit
  /\ rotFile = <<>> /\ oldHolder = "" /\ newRecipients = <<>>
  /\ encFile = <<>> /\ holder = ""
  /\ stage = "encrypt"
  /\ stored = <<>>
  /\ readers = {}
  /\ rotations = 0
  /\ faults = 0
  /\ changes = 0
  /\ vouched = TRUE
  /\ encryptedBy = ""
  /\ rotatedBy = {}

Next ==
  \/ Encrypt \/ InputChanges \/ Store \/ Interrupt \/ Damage
  \/ \E h \in Holders, new \in NewLists : BeginRotate(h, new)
  \/ Rotate \/ EndRotate
  \/ \E tool \in Tools :
       \/ EncryptElsewhere(tool)
       \/ \E h \in Holders, new \in NewLists : RotateElsewhere(tool, h, new)
  \/ \E h \in Holders : BeginDecrypt(h)
  \/ Decrypt

Spec == Init /\ [][Next]_vars

-----------------------------------------------------------------------------
(* Properties.                                                             *)

\* The state of the three programs and of the file between them is well
\* formed: both scans stay inside the file they read, a key is one of those
\* in circulation, the rotator's chunk offsets lie in its data buffer, and
\* the decryptor's writer is made at most once (decrypt.go:228-259).
PipelineTypeOK ==
  /\ EncTypeOK
  /\ rotPos \in 1..(Len(rotFile) + 1)
  /\ rotKey \in {NoKey, SymKey, OtherKey}
  /\ Len(chunkMetas) <= Len(dataBuf)
  /\ rotState \in {"idle", "scanning", "scanned", "done", "failed"}
  /\ decPos \in 1..(Len(encFile) + 1)
  /\ symKey \in {NoKey, SymKey, OtherKey}
  /\ decChunkIdx \in 0..(decPos - 1)
  /\ Len(writer) <= 1
  /\ decState \in {"idle", "reading", "checking", "done", "failed"}
  /\ stage \in {"encrypt", "stored", "rotate", "decrypt"}
  /\ readers \subseteq Holders

\* The input was the same in every pass, and its file as it was written.
Undisturbed == faults = 0 /\ changes = 0

\* The chunks from which the Go programs get messages, of the recording that
\* was encrypted: of the one pass 2 has read, if the input was replaced.
Original ==
  Records(Sorted({i \in DOMAIN source : source[i].op = "chunk" /\ Yields(source[i].body)}),
          LAMBDA i : source[i].body)

\* The verdict on a file that was rotated while it was damaged is worth
\* nothing, for the rotation has written a manifest for whatever it found; nor
\* is that on a file of an earlier release, which has no manifest, until it
\* is rotated.
Verdict ==
  CASE decState = "done" /\ vouched -> "complete"
    [] decState = "done" /\ ~ vouched -> "failed"
    [] decState = "failed" -> "failed"
    [] OTHER -> "open"

Promise == INSTANCE Recording WITH
  ChunkBodies <- DOMAIN Uses, original <- Original, played <- delivered,
  verdict <- Verdict

\* Refinement: whatever was lost, repeated, exchanged, cut off, garbled or
\* mixed in, before or after a rotation, and although the input may have been
\* another one in each pass, chunks come out in order, and if the manifest
\* vouches for them, decryption succeeds only if none is missing
\* (FORMAT.md:255-258).
KeepsPromise == Promise!Spec

\* Whatever happens to the file, rotations of damaged files included, what a
\* decryption has written at any moment is a beginning of the recording: no
\* chunk is skipped, repeated, moved or invented.
DeliveredIsPrefix == S!IsPrefix(delivered, Original)

\* What FORMAT.md:257-258 says of every file, rotated or not: truncation is
\* detected, so a decryption that reports success has written the whole
\* recording.
NothingLost == decState = "done" => delivered = Original

\* The definitions that came into the file: Python does not look for them
\* inside of chunks, and TypeScript not behind the first record it encrypts.
WrittenDefs ==
  Elements(CASE encryptedBy = "python" -> PyDefinitions(source)
             [] encryptedBy = "typescript" -> TsDefinitions(UpTo(source, {"footer"}))
             [] OTHER -> Definitions(source))

AllDefs == Elements(Definitions(source))

\* The metadata that is still in the file: a rotation by Python has dropped it
\* if it was encrypted.
KeptMetadata ==
  IF "python" \in rotatedBy /\ metadataMode = "encrypt" THEN <<>>
  ELSE Bodies(source, "metadata")

\* Decrypting an undamaged file, whoever encrypted it and however often and
\* by whom it was rotated, restores the chunks, attachments and metadata of
\* the source in their order and the definitions that came into the file: all
\* of them, if Go wrote it.  What the Go decryption does not restore are the
\* messages of chunks whose header declares size zero (decrypt.go:414, Yields),
\* and those alone.  Messages outside of chunks, which no program encrypts,
\* have been refused by all of them but Python (encrypt.py:612).
RoundTrip ==
  decState = "done" /\ Undisturbed =>
    /\ delivered = Original
    /\ attachments = Bodies(source, "attachment")
    /\ WrittenMetadata = KeptMetadata
    /\ writer[1] = WrittenDefs
    /\ encryptedBy \in {"go", "legacy"} => WrittenDefs = AllDefs
    /\ OfKind(source, {"message"}) = <<>> \/ encryptedBy = "python"

\* The last recipients of an undamaged file can read it: encryption and
\* every later rotation left a slot for each of them and a manifest that
\* holds, or, in a file of an earlier release, none and no need of one.
\* Excepted are a source that was cut short before its DataEnd, a file that
\* Python or TypeScript wrote without all of its definitions, and a call of the
\* KMS that failed.
RecipientsCanRead ==
  /\ decState = "failed" /\ Undisturbed
  /\ OfKind(source, {"dataEnd"}) # <<>>
  /\ WrittenDefs = AllDefs
  => holder \notin readers \/ (holder \in KmsHeld /\ symKey = NoKey)

\* What docs/api.md:149 says of the three packages: a recipient of a file one
\* of them wrote from a complete recording can read it with the Go programs.
FullyCompatible ==
  decState = "failed" /\ Undisturbed /\ OfKind(source, {"dataEnd"}) # <<>> =>
    holder \notin readers

\* The three packages read alike: whatever undamaged file a recipient has,
\* and whoever wrote and rotated it, decrypt_mcap, decryptMcap and both
\* iterators yield the chunks and attachments of the source, and its metadata
\* as far as it is in the file; the chunks of declared size zero too, which
\* the Go programs drop (decrypt.py:425, decrypt.ts:426).  Only TypeScript leaves metadata out that a
\* rotation has put ahead of the slots, and iterates over messages of known
\* channels alone (decrypt.py:250, decrypt.ts:559, 463).
AnyToolReads ==
  /\ decState \in {"done", "failed"} /\ Undisturbed
  /\ holder \in readers \ KmsHeld
  /\ OfKind(source, {"dataEnd"}) # <<>>
  =>
    /\ PyDecrypts(encFile, holder) /\ TsDecrypts(encFile, holder)
    /\ PyDecrypted(encFile, holder) =
         [chunks |-> Recorded(source), attachments |-> Bodies(source, "attachment"),
          metadata |-> KeptMetadata, defs |-> WrittenDefs]
    /\ LET ts == TsDecrypted(encFile, holder)
       IN /\ ts.chunks = Recorded(source)
          /\ ts.attachments = Bodies(source, "attachment")
          /\ \/ ts.metadata = KeptMetadata
             \/ metadataMode = "encrypt" /\ rotatedBy # {}
          /\ ts.defs = WrittenDefs
    /\ PyIterated(encFile, holder) = Recorded(source)
    /\ TsIterated(encFile, holder) =
         LET played == Recorded(source)
         IN Selected(played, {i \in DOMAIN played : Uses[played[i]] \subseteq WrittenDefs})

\* The streaming bridge, given an undamaged file and the key of one of its
\* recipients, starts, advertises every definition that was written, those that
\* were inside chunks of the source included, and streams the recording as far
\* as a Go decryption restores it (bridge_stream.go:142-146, 399).
BridgeServesRecording ==
  decState \in {"done", "failed"} /\ Undisturbed /\ holder \in readers \ KmsHeld
  /\ OfKind(source, {"dataEnd"}) # <<>> =>
    /\ ScanAccepts(encFile, holder)
    /\ Streamed(encFile, holder) = Original
    /\ Advertised(encFile) = WrittenDefs

\* The scan accepts every file that decryption accepts, and streams the same
\* chunks.  It may accept more, since it opens no chunk; but whatever was
\* lost, repeated, exchanged, cut off or mixed in, what it streams is a
\* beginning of the recording, and all of it if every entry opens and the
\* manifest vouches for it: that gives streaming clients the guarantees of
\* batch decryption (bridge_stream.go:144-146).
BridgePlaysRecording ==
  decState \in {"done", "failed"} /\ holder \notin KmsHeld =>
    LET accepted == ScanAccepts(encFile, holder)
        shown == Streamed(encFile, holder)
    IN /\ decState = "done" => accepted /\ shown = delivered
       /\ accepted =>
            /\ shown = SubSeq(Original, 1, Len(shown))
            /\ \/ ~ vouched
               \/ \E k \in DOMAIN ChunkTable(encFile) : ~ EntryOpens(encFile, holder, k)
               \/ shown = Original

InOrder(chunks) == \E at \in SUBSET DOMAIN Original : chunks = Selected(Original, at)

\* The other packages are as strict as Go about chunks.  Whatever happens to
\* the file, they accept it if Go does, with the same content; where the
\* manifest vouches for the chunks, they accept it only if none is missing,
\* though Python takes a record that is cut short for the end of the file; and
\* their iterators yield nothing out of order.  TypeScript is excepted where
\* the header is not where it belongs: it forgets what was in front of it.
EveryToolIsStrict ==
  decState \in {"done", "failed"} /\ holder \notin KmsHeld =>
    LET py == PyDecrypted(encFile, holder)
        ts == TsDecrypted(encFile, holder)
        section == SubSeq(encFile, 2, Len(encFile))
    IN /\ decState = "done" =>
            /\ PyDecrypts(encFile, holder) /\ TsDecrypts(encFile, holder)
            /\ Yielding(py.chunks) = delivered
            /\ py.attachments = attachments
            /\ py.metadata = WrittenMetadata
       /\ PyDecrypts(encFile, holder) /\ vouched => Yielding(py.chunks) = Original
       /\ TsDecrypts(encFile, holder) /\ vouched /\ TsLastHeader(section) <= 1 =>
            Yielding(ts.chunks) = Original
       /\ InOrder(Yielding(PyIterated(encFile, holder)))
       /\ InOrder(Yielding(TsIterated(encFile, holder)))

\* The three inspect programs say the same of every undamaged file made from
\* a complete recording, whoever wrote and rotated it and wherever that put the
\* manifest, and it is the truth: the recipients are those the file was last
\* written for, and what they count is what a decryption yields.  A file of an
\* earlier release declares no number of chunks until it is rotated
\* (inspect.go:18-27).
InspectTellsTruth ==
  stage = "stored" /\ Undisturbed /\ OfKind(source, {"dataEnd"}) # <<>> =>
    LET legacy == encryptedBy = "legacy" /\ rotatedBy = {}
        listing == GoInspected(stored)
    IN /\ GoInspects(stored) /\ PyInspects(stored) /\ TsInspects(stored)
       /\ PyInspected(stored) = listing /\ TsInspected(stored) = listing
       /\ listing.encrypted
       /\ listing.version = IF legacy THEN LegacyVersion ELSE WrappedKeyVersion
       /\ Elements(listing.recipients) = readers
       /\ listing.chunks = Len(Recorded(source))
       /\ listing.declared = IF legacy THEN 0 ELSE listing.chunks
       /\ listing.attachments = Len(Bodies(source, "attachment"))

\* A key that the file was not last written for opens nothing, not even a
\* key the file was written for before it was rotated.
OnlyRecipientsRead ==
  symKey # NoKey => holder \in readers

=============================================================================
