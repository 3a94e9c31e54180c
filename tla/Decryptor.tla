----------------------------- MODULE Decryptor -----------------------------
(***************************************************************************)
(* Decryption of one file (streamDecrypt, pkg/mcapencrypt/decrypt.go), in  *)
(* one pass from the front: slots are tried as they arrive, chunks are     *)
(* opened and their messages written out at once, attachments and metadata *)
(* are kept until the end, and only then is the manifest checked.          *)
(*                                                                         *)
(* One action is one record of the file, or the checks after the last one. *)
(***************************************************************************)
EXTENDS McapRecords

VARIABLES
  encFile,         \* the file that is decrypted
  holder,          \* the recipient whose private key is used
  decPos,          \* the next record
  symKey,          \* key of the first slot that opened, or NoKey
  manifestRequired, \* has a slot of the current version been seen?
  manifest,        \* the manifest seen last, as a sequence of length <= 1
  defs,            \* definitions seen
  attachments,     \* attachments to write at the end
  metadataRecs,    \* plain metadata records to write at the end
  encMetadataRecs, \* encrypted ones, opened at the end
  decChunkIdx,     \* chunks opened
  writer,          \* definitions the output was given, as <<set>>; <<>>: none yet
  delivered,       \* chunks whose messages are in the output, in order
  decState         \* "idle", "reading", "checking", "done" or "failed"

decVars == <<encFile, holder, decPos, symKey, manifestRequired, manifest, defs,
             attachments, metadataRecs, encMetadataRecs, decChunkIdx, writer,
             delivered, decState>>

decKeys == <<symKey, manifestRequired>>
decBuffers == <<manifest, defs, attachments, metadataRecs, encMetadataRecs>>
decOutput == <<decChunkIdx, writer, delivered>>

Current == encFile[decPos]

Reads(ops) ==
  /\ decState = "reading"
  /\ decPos <= Len(encFile)
  /\ Current.op \in ops

Consume == decPos' = decPos + 1 /\ UNCHANGED decState

Reject == decState' = "failed" /\ UNCHANGED decPos

\* ensureWriter: the writer is made once, with the definitions seen by then.
EnsuredWriter == IF writer = <<>> THEN <<Elements(defs)>> ELSE writer

-----------------------------------------------------------------------------
\* Definitions, plain metadata, plain attachments, encrypted metadata and the
\* manifest are buffered; the last manifest wins.
Buffer ==
  /\ Reads({"def", "metadata", "attachment", "encMetadata", "manifest"})
  /\ defs' = IF Current.op = "def" THEN Append(defs, Current.id) ELSE defs
  /\ metadataRecs' =
       IF Current.op = "metadata" THEN Append(metadataRecs, Current.body) ELSE metadataRecs
  /\ attachments' =
       IF Current.op = "attachment" THEN Append(attachments, Current.body) ELSE attachments
  /\ encMetadataRecs' =
       IF Current.op = "encMetadata" THEN Append(encMetadataRecs, Current) ELSE encMetadataRecs
  /\ manifest' = IF Current.op = "manifest" THEN <<Current>> ELSE manifest
  /\ Consume
  /\ UNCHANGED <<encFile, holder, decKeys, decOutput>>

\* Every slot that decodes is tried, also those behind the first that opens,
\* which gives the key.  The private key may be in a remote KMS, and a call
\* that fails leaves a slot unopened like the wrong key does.
TrySlot ==
  /\ Reads({"slot"})
  /\ manifestRequired' = (manifestRequired \/ RequiresManifest(Current))
  /\ \/ /\ OpensFor(Current, holder)
        /\ symKey' = IF symKey = NoKey THEN Current.key ELSE symKey
     \/ /\ ~ OpensFor(Current, holder) \/ holder \in KmsHeld
        /\ UNCHANGED symKey
  /\ Consume
  /\ UNCHANGED <<encFile, holder, decBuffers, decOutput>>

\* An attachment ahead of the key is stepped over; one that does not open
\* ends the decryption.
OpenAttachment ==
  /\ Reads({"encAttachment"})
  /\ \/ symKey = NoKey /\ Consume /\ UNCHANGED attachments
     \/ /\ symKey # NoKey
        /\ Current.key = symKey
        /\ attachments' = Append(attachments, Current.body)
        /\ Consume
     \/ symKey # NoKey /\ Current.key # symKey /\ Reject /\ UNCHANGED attachments
  /\ UNCHANGED <<encFile, holder, decKeys, manifest, defs, metadataRecs,
                 encMetadataRecs, decOutput>>

\* A chunk ahead of the key, or one that does not open at its place in the
\* file, ends the decryption; so do messages of a channel the writer does not
\* know.  A chunk of declared size zero is counted and not parsed, whatever it
\* holds, and one that holds nothing but definitions delivers nothing.
OpenChunkOk(c) ==
  /\ decChunkIdx' = decChunkIdx + 1
  /\ writer' = EnsuredWriter
  /\ \/ c \in ZeroSize /\ Consume /\ UNCHANGED delivered
     \/ /\ c \notin ZeroSize
        /\ Uses[c] \subseteq EnsuredWriter[1]
        /\ delivered' = IF Uses[c] = {} THEN delivered ELSE Append(delivered, c)
        /\ Consume
     \/ /\ c \notin ZeroSize
        /\ ~ (Uses[c] \subseteq EnsuredWriter[1])
        /\ Reject
        /\ UNCHANGED delivered

\* A mutant: the open does not depend on the position.
OpenEncChunkAnywhere ==
  /\ Reads({"encChunk"})
  /\ \/ symKey = NoKey /\ Reject /\ UNCHANGED decOutput
     \/ /\ symKey # NoKey
        /\ Current.key # symKey
        /\ writer' = EnsuredWriter
        /\ Reject
        /\ UNCHANGED <<decChunkIdx, delivered>>
     \/ symKey # NoKey /\ Current.key = symKey /\ OpenChunkOk(Current.body)
  /\ UNCHANGED <<encFile, holder, decKeys, decBuffers>>

OpenEncChunk ==
  /\ Reads({"encChunk"})
  /\ \/ symKey = NoKey /\ Reject /\ UNCHANGED decOutput
     \/ /\ symKey # NoKey
        /\ ~ Opens(Current, symKey, decChunkIdx)
        /\ writer' = EnsuredWriter
        /\ Reject
        /\ UNCHANGED <<decChunkIdx, delivered>>
     \/ /\ symKey # NoKey
        /\ Opens(Current, symKey, decChunkIdx)
        /\ OpenChunkOk(Current.body)
  /\ UNCHANGED <<encFile, holder, decKeys, decBuffers>>

\* Magic, header, DataEnd, indexes and plain chunks mean nothing here.  A
\* trailing magic is too short to be a record: it is met only when the
\* footer is missing, and is then an unexpected end of file.
StepOver ==
  /\ Reads({"header", "dataEnd", "chunk", "message"} \cup Indexes)
  /\ Consume
  /\ UNCHANGED <<encFile, holder, decKeys, decBuffers, decOutput>>

LeadingMagic ==
  /\ decState = "idle"
  /\ IF Len(encFile) > 0 /\ encFile[1].op = "magic"
     THEN decState' = "reading" /\ decPos' = 2
     ELSE decState' = "failed" /\ UNCHANGED decPos
  /\ UNCHANGED <<encFile, holder, decKeys, decBuffers, decOutput>>

CutShort ==
  /\ Reads({"torn", "magic"})
  /\ Reject
  /\ UNCHANGED <<encFile, holder, decKeys, decBuffers, decOutput>>

\* The footer, or an end of file between two records.
EndScan ==
  /\ decState = "reading"
  /\ decPos <= Len(encFile) => Current.op = "footer"
  /\ decState' = "checking"
  /\ UNCHANGED <<encFile, holder, decPos, decKeys, decBuffers, decOutput>>

\* A mutant: the count of the manifest is not compared.
ManifestHoldsUncounted ==
  IF manifest = <<>> THEN ~ manifestRequired ELSE manifest[1].key = symKey

\* The manifest's HMAC verifies, exactly when it was made with the key of the
\* slot, and it counts what was opened.  Only a file whose slots are all of
\* the legacy version may do without one.
ManifestHolds ==
  \/ manifest = <<>> /\ ~ manifestRequired
  \/ /\ manifest # <<>>
     /\ manifest[1].key = symKey
     /\ manifest[1].count = decChunkIdx

\* What follows the scan: without a key, or with a manifest that does not
\* hold, the decryption fails; so it does at a metadata record that does not
\* open.  Otherwise attachments and metadata are written and the output is
\* closed.  Until here nobody has been told that the output is good.
Verify ==
  /\ decState = "checking"
  /\ decState' = IF /\ symKey # NoKey
                    /\ ManifestHolds
                    /\ \A i \in DOMAIN encMetadataRecs : encMetadataRecs[i].key = symKey
                 THEN "done" ELSE "failed"
  /\ writer' = IF symKey # NoKey /\ ManifestHolds THEN EnsuredWriter ELSE writer
  /\ UNCHANGED <<encFile, holder, decPos, decKeys, decBuffers, decChunkIdx, delivered>>

\* The metadata records of the output, plain ones first.
WrittenMetadata ==
  metadataRecs \o [i \in DOMAIN encMetadataRecs |-> encMetadataRecs[i].body]

DecInit ==
  /\ decPos = 1
  /\ symKey = NoKey
  /\ manifestRequired = FALSE
  /\ manifest = <<>>
  /\ defs = <<>>
  /\ attachments = <<>>
  /\ metadataRecs = <<>>
  /\ encMetadataRecs = <<>>
  /\ decChunkIdx = 0
  /\ writer = <<>>
  /\ delivered = <<>>
  /\ decState = "idle"

DecNext ==
  \/ LeadingMagic
  \/ Buffer \/ TrySlot \/ OpenAttachment \/ OpenEncChunk \/ StepOver \/ CutShort
  \/ EndScan \/ Verify

=============================================================================
