----------------------------- MODULE Encryptor -----------------------------
(***************************************************************************)
(* Encryption of one recording (pkg/mcapencrypt/encrypt.go), in both of    *)
(* its shapes: encryptCore reads and writes files ("file"), and            *)
(* streamEncryptSinglePass writes to a pipe and can never go back          *)
(* ("stream").  Both read the input twice: pass 1 collects every schema    *)
(* and channel, pass 2 encrypts record by record.  A stream is copied to a *)
(* temporary file first.  A file is opened by its path for each pass, and  *)
(* once more before them; what it is each time depends on who else writes  *)
(* it (Pipeline).                                                          *)
(*                                                                         *)
(* One action is one pass over the input, or one token of the MCAP lexer   *)
(* in pass 2 and everything the loop body or the attachment callback does  *)
(* with it.                                                                *)
(***************************************************************************)
EXTENDS McapRecords

CONSTANTS
  SymKey,         \* the symmetric key and file ID drawn for this encryption
  Sources,        \* the inputs an encryption may be given
  Modes,          \* subset of {"file", "stream"}
  MetadataModes,  \* subset of {"plaintext", "encrypt"}
  RecipientLists  \* the lists of public keys it may be given

ASSUME SymKeyAssumption == SymKey \in Nat \ {NoKey}
ASSUME ModesAssumption == Modes \subseteq {"file", "stream"}
ASSUME MetadataModesAssumption == MetadataModes \subseteq {"plaintext", "encrypt"}
ASSUME RecipientListsAssumption ==
  \A list \in RecipientLists : list \in Seq(Elements(list))

\* A file is a sequence of records that begins with its header and has its
\* data ahead of DataEnd, footer and cut.
ASSUME SourcesAssumption ==
  \A file \in Sources :
    /\ file \in Seq(Elements(file))
    /\ \A i \in DOMAIN file :
         /\ "op" \in DOMAIN file[i]
         /\ file[i].op = "chunk" => file[i].body \in DOMAIN Uses
    /\ file # <<>> => file[1].op \in {"header", "torn"}
    /\ \A i, j \in DOMAIN file :
         /\ file[i].op \in {"chunk", "attachment", "metadata", "message"}
         /\ file[j].op \in {"dataEnd", "footer", "torn", "magic"}
         => i < j

\* Who writes encrypted records has written a slot ahead of them, and the
\* footer behind them.
ASSUME EncryptedSourcesAssumption ==
  \A file \in Sources : \A i \in DOMAIN file : file[i].op \in Encrypted =>
    /\ \E j \in DOMAIN file : j < i /\ file[j].op = "slot"
    /\ \A j \in DOMAIN file : file[j].op = "footer" => i < j

VARIABLES
  source,         \* the input file: the records after its leading magic
  mode,           \* "file" or "stream"
  metadataMode,   \* "plaintext" or "encrypt" (encrypt-all included)
  recipients,     \* the public keys the symmetric key is wrapped for
  encPos,         \* the next record of pass 2
  pending,        \* definitions collected by pass 1
  flushed,        \* file: flushPending ran; stream: flushHeader ran
  manifestAt,     \* where flushPending put the manifest placeholder
  chunkIdx,       \* chunks encrypted so far
  encChunkMetas,  \* where they were written
  out,            \* what has been written
  encState        \* "start", "checked", "collected", "reading", "done" or "failed"

encInput == <<source, mode, metadataMode, recipients>>
encMarks == <<flushed, manifestAt>>
encVars == <<source, mode, metadataMode, recipients, encPos, pending, flushed,
             manifestAt, chunkIdx, encChunkMetas, out, encState>>

Slots == Records(recipients, LAMBDA r : Slot(r, SymKey))

\* Definitions and slots: what has to be ahead of everything encrypted.
Opening == Records(pending, Def) \o Slots

\* flushPending: what the first record of the data section is preceded by.
Preamble == Opening \o <<Placeholder>>

\* A file is flushed at most once; a stream never is, its flushHeader has
\* put the slots behind the header and has no manifest to place.
MustFlush == mode = "file" /\ ~ flushed

FlushedOut == IF MustFlush THEN out \o Preamble ELSE out

FlushedAt == IF MustFlush THEN Len(out) + Len(Preamble) ELSE manifestAt

\* Write recs, flushing first.
FlushAndWrite(recs) ==
  /\ out' = FlushedOut \o recs
  /\ flushed' = (flushed \/ mode = "file")
  /\ manifestAt' = FlushedAt

\* The lexer is at a record of one of the kinds ops.
At(ops) ==
  /\ encState = "reading"
  /\ encPos <= Len(source)
  /\ source[encPos].op \in ops

Advance == encPos' = encPos + 1

Fail == encState' = "failed"

-----------------------------------------------------------------------------
\* A mutant: the check for an encrypted input is missing.
CheckNothing ==
  /\ encState = "start"
  /\ encState' = "checked"
  /\ UNCHANGED <<encInput, encPos, pending, encMarks, chunkIdx, encChunkMetas, out>>

\* Nobody to encrypt for, or a file that holds encrypted records: nothing is
\* written.
Check ==
  /\ encState = "start"
  /\ IF \/ recipients = <<>>
        \/ mode = "file" /\ OfKind(source, Encrypted) # <<>>
     THEN Fail
     ELSE encState' = "checked"
  /\ UNCHANGED <<encInput, encPos, pending, encMarks, chunkIdx, encChunkMetas, out>>

\* Pass 1.
Collect ==
  /\ encState = "checked"
  /\ encState' = "collected"
  /\ pending' = Definitions(source)
  /\ UNCHANGED <<encInput, encPos, encMarks, chunkIdx, encChunkMetas, out>>

\* The input is opened for pass 2, and a file gets its leading magic.
OpenPass2 ==
  /\ encState = "collected"
  /\ encState' = "reading"
  /\ out' = IF mode = "file" THEN <<Magic>> ELSE <<>>
  /\ UNCHANGED <<encInput, encPos, pending, encMarks, chunkIdx, encChunkMetas>>

\* A file copies the header.  A stream starts with it: magic, header,
\* definitions and slots leave together, and only once.
TakeHeader ==
  /\ At({"header"})
  /\ out' = CASE mode = "file" -> Append(out, Header)
              [] mode = "stream" /\ ~ flushed ->
                   out \o <<Magic, Header>> \o Opening
              [] OTHER -> out
  /\ flushed' = (flushed \/ mode = "stream")
  /\ Advance
  /\ UNCHANGED <<encInput, pending, manifestAt, chunkIdx, encChunkMetas, encState>>

\* Definitions were collected by pass 1, indexes are stale in the new file,
\* and the lexer itself steps over opcodes it does not know.
Skip ==
  /\ At({"def"} \cup Indexes \cup Encrypted)
  /\ Advance
  /\ UNCHANGED <<encInput, pending, encMarks, chunkIdx, encChunkMetas, out, encState>>

\* The attachment callback: a user attachment is encrypted.
TakeAttachment ==
  /\ At({"attachment"})
  /\ FlushAndWrite(<<EncAttachment(source[encPos].body, SymKey)>>)
  /\ Advance
  /\ UNCHANGED <<encInput, pending, chunkIdx, encChunkMetas, encState>>

\* The attachment callback: one of our own attachments is dropped, but to a
\* stream a key slot means that the input is already encrypted.
TakeFrameworkAttachment ==
  /\ At({"slot", "manifest"})
  /\ IF mode = "stream" /\ source[encPos].op = "slot"
     THEN Fail /\ UNCHANGED encPos
     ELSE Advance /\ UNCHANGED encState
  /\ UNCHANGED <<encInput, pending, encMarks, chunkIdx, encChunkMetas, out>>

\* Two mutants: the mode is ignored; nothing is flushed in front of the
\* metadata, and the flag is set.
TakeMetadataPlain ==
  /\ At({"metadata"})
  /\ FlushAndWrite(<<source[encPos]>>)
  /\ Advance
  /\ UNCHANGED <<encInput, pending, chunkIdx, encChunkMetas, encState>>

TakeMetadataUnflushed ==
  /\ At({"metadata"})
  /\ out' = Append(out, IF metadataMode = "plaintext" THEN source[encPos]
                        ELSE EncMetadata(source[encPos].body, SymKey))
  /\ flushed' = TRUE
  /\ Advance
  /\ UNCHANGED <<encInput, pending, manifestAt, chunkIdx, encChunkMetas, encState>>

TakeMetadata ==
  /\ At({"metadata"})
  /\ FlushAndWrite(<<IF metadataMode = "plaintext" THEN source[encPos]
                     ELSE EncMetadata(source[encPos].body, SymKey)>>)
  /\ Advance
  /\ UNCHANGED <<encInput, pending, chunkIdx, encChunkMetas, encState>>

\* Three mutants: the offset is taken before the pending records are
\* flushed; the index bound into the record is the one after it; the chunk
\* is not counted.
TakeChunkStaleOffset ==
  /\ At({"chunk"})
  /\ FlushAndWrite(<<EncChunk(source[encPos].body, SymKey, chunkIdx)>>)
  /\ chunkIdx' = chunkIdx + 1
  /\ encChunkMetas' = Append(encChunkMetas, Len(out) + 1)
  /\ Advance
  /\ UNCHANGED <<encInput, pending, encState>>

TakeChunkLateIndex ==
  /\ At({"chunk"})
  /\ FlushAndWrite(<<EncChunk(source[encPos].body, SymKey, chunkIdx + 1)>>)
  /\ chunkIdx' = chunkIdx + 1
  /\ encChunkMetas' = Append(encChunkMetas, Len(FlushedOut) + 1)
  /\ Advance
  /\ UNCHANGED <<encInput, pending, encState>>

TakeChunkUncounted ==
  /\ At({"chunk"})
  /\ FlushAndWrite(<<EncChunk(source[encPos].body, SymKey, chunkIdx)>>)
  /\ encChunkMetas' = Append(encChunkMetas, Len(FlushedOut) + 1)
  /\ Advance
  /\ UNCHANGED <<encInput, pending, chunkIdx, encState>>

\* A chunk is sealed under its index and its place in the output is noted.
TakeChunk ==
  /\ At({"chunk"})
  /\ FlushAndWrite(<<EncChunk(source[encPos].body, SymKey, chunkIdx)>>)
  /\ chunkIdx' = chunkIdx + 1
  /\ encChunkMetas' = Append(encChunkMetas, Len(FlushedOut) + 1)
  /\ Advance
  /\ UNCHANGED <<encInput, pending, encState>>

\* "input MCAP is not chunked"; "lexer: truncated record".
TakeUnusable ==
  /\ At({"message", "torn"})
  /\ Fail
  /\ UNCHANGED <<encInput, encPos, pending, encMarks, chunkIdx, encChunkMetas, out>>

\* Now the number of chunks is known.  A file has its placeholder patched in
\* place; a stream carries the manifest behind DataEnd.
TakeDataEnd ==
  /\ At({"dataEnd"})
  /\ IF mode = "file"
     THEN /\ out' = Append([FlushedOut EXCEPT ![FlushedAt] = Manifest(SymKey, chunkIdx)],
                           DataEnd)
          /\ flushed' = TRUE
          /\ manifestAt' = FlushedAt
     ELSE /\ out' = out \o <<DataEnd, Manifest(SymKey, chunkIdx)>>
          /\ UNCHANGED encMarks
  /\ Advance
  /\ UNCHANGED <<encInput, pending, chunkIdx, encChunkMetas, encState>>

\* Summary, footer and trailing magic; the loop ends and, in file mode, the
\* temporary file takes the name of the output.
TakeFooter ==
  /\ At({"footer"})
  /\ out' = out \o Summary(pending, encChunkMetas) \o <<Footer, Magic>>
  /\ encState' = "done"
  /\ UNCHANGED <<encInput, encPos, pending, encMarks, chunkIdx, encChunkMetas>>

\* The input is over before a footer was seen, which the loop takes for its
\* regular end.
EndOfInput ==
  /\ encState = "reading"
  /\ encPos > Len(source)
  /\ out' = Append(out, Magic)
  /\ encState' = "done"
  /\ UNCHANGED <<encInput, encPos, pending, encMarks, chunkIdx, encChunkMetas>>

EncInit ==
  /\ source \in Sources
  /\ mode \in Modes
  /\ metadataMode \in MetadataModes
  /\ recipients \in RecipientLists
  /\ encPos = 1
  /\ pending = <<>>
  /\ flushed = FALSE
  /\ manifestAt = 0
  /\ chunkIdx = 0
  /\ encChunkMetas = <<>>
  /\ out = <<>>
  /\ encState = "start"

EncNext ==
  \/ Check \/ Collect \/ OpenPass2
  \/ TakeHeader \/ Skip \/ TakeAttachment \/ TakeFrameworkAttachment
  \/ TakeMetadata \/ TakeChunk \/ TakeUnusable \/ TakeDataEnd \/ TakeFooter
  \/ EndOfInput

EncSpec == EncInit /\ [][EncNext]_encVars

-----------------------------------------------------------------------------
(* Properties.                                                             *)

\* The state of an encryption is well formed: the placeholder and every noted
\* chunk position lie inside what has been written, and there is one noted
\* position per chunk counted (encrypt.go:391-397, 548-552).
EncTypeOK ==
  /\ encPos \in 1..(Len(source) + 1)
  /\ flushed \in BOOLEAN
  /\ manifestAt \in 0..Len(out)
  /\ chunkIdx \in 0..(encPos - 1)
  /\ DOMAIN encChunkMetas = 1..chunkIdx
  /\ \A i \in 1..chunkIdx : encChunkMetas[i] \in 1..Len(out)
  /\ encState \in {"start", "checked", "collected", "reading", "done", "failed"}

\* A decryptor reads once, from the front, and can use an encrypted record
\* only if a slot of its key and the definitions came before it.  Whatever
\* kind of record triggers the first write, and however little of the output
\* has been written yet, no encrypted record is ahead of a slot or of a
\* definition (encrypt.go:399-402, 753-756).
KeysComeFirst ==
  \A i \in DOMAIN out : out[i].op \in Encrypted =>
    LET before == {out[j] : j \in 1..(i - 1)}
    IN /\ \A r \in Elements(recipients) : Slot(r, SymKey) \in before
       /\ \A d \in Elements(Definitions(source)) : Def(d) \in before

\* The chunk positions noted during encryption, which become the ChunkIndex
\* of the summary, are those of the encrypted chunks, all of them, in order,
\* and the i-th chunk is sealed under index i - 1: a seek by the index and a
\* scan from the front open the same record.  Appended prologues, the
\* patched manifest and attachments in between must not disturb it.
IndexPointsAtChunks ==
  /\ \A i \in DOMAIN encChunkMetas :
       /\ encChunkMetas[i] \in DOMAIN out
       /\ out[encChunkMetas[i]].op = "encChunk"
       /\ Opens(out[encChunkMetas[i]], SymKey, i - 1)
  /\ \A j \in DOMAIN out : out[j].op = "encChunk" =>
       \E i \in DOMAIN encChunkMetas : encChunkMetas[i] = j

\* A successful encryption has sealed every chunk and attachment of its
\* input exactly once and in order, carried every metadata record over, and
\* written neither chunk nor attachment, nor metadata that was to be
\* encrypted, in the clear.
EverythingSealed ==
  encState = "done" =>
    /\ Bodies(out, "encChunk") = Bodies(source, "chunk")
    /\ Bodies(out, "encAttachment") = Bodies(source, "attachment")
    /\ Bodies(out, IF metadataMode = "plaintext" THEN "metadata" ELSE "encMetadata")
         = Bodies(source, "metadata")
    /\ OfKind(out, {"chunk", "attachment"}) = <<>>
    /\ metadataMode = "plaintext" \/ OfKind(out, {"metadata"}) = <<>>

\* The lexer steps over encrypted records without a word, so encrypting a
\* file that is already encrypted would yield an empty recording and call it
\* a success.  It never does, in either mode (encrypt.go:307-315, 795-798).
NeverEncryptTwice ==
  encState = "done" => OfKind(source, Encrypted) = <<>>

=============================================================================
