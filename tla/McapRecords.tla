---------------------------- MODULE McapRecords ----------------------------
(***************************************************************************)
(* The records of a plain and of an encrypted MCAP file, as the programs   *)
(* of pkg/mcapencrypt read and write them.  A file is a sequence of        *)
(* records; the byte offset of a record is its position in the sequence.   *)
(*                                                                         *)
(* Schemas and channels are handled alike everywhere and are one kind of   *)
(* record, "def".  Payloads are opaque bodies.  A symmetric key stands for *)
(* the pair (symKey, fileID) that encryption draws together and that every *)
(* AEAD open and the manifest HMAC depend on.                              *)
(***************************************************************************)
EXTENDS Naturals, Sequences, FiniteSets

CONSTANTS
  Inner,    \* Inner[c]: the definitions stored inside chunk body c, in order
  Uses,     \* Uses[c]: the definitions the messages of chunk body c refer to
  ZeroSize, \* the chunk bodies whose header says uncompressed_size = 0, which
            \* may mean that the size is unknown (FORMAT.md:79)
  KmsHeld   \* the recipients whose private key is in a remote KMS

Elements(s) == {s[i] : i \in DOMAIN s}

\* The definitions inside a chunk make a sequence.
ASSUME InnerAssumption ==
  /\ DOMAIN Inner = DOMAIN Uses
  /\ \A c \in DOMAIN Inner : Inner[c] \in Seq(Elements(Inner[c]))

NoKey == 0  \* no key: what an all-zero HMAC is made with

-----------------------------------------------------------------------------
(* Plain records.                                                          *)

Magic == [op |-> "magic"]
Header == [op |-> "header"]
Def(d) == [op |-> "def", id |-> d]
Chunk(c) == [op |-> "chunk", body |-> c]
Message == [op |-> "message"]
Attachment(a) == [op |-> "attachment", body |-> a]
Metadata(m) == [op |-> "metadata", body |-> m]
MessageIndex == [op |-> "messageIndex"]
DataEnd == [op |-> "dataEnd"]
Statistics(n) == [op |-> "statistics", chunks |-> n]
ChunkIndex(p) == [op |-> "chunkIndex", at |-> p]
Footer == [op |-> "footer"]

\* A record cut off in its middle; nothing follows it.
Torn == [op |-> "torn"]

(* Records of the encryption framework.  A slot and the manifest are MCAP  *)
(* attachments with reserved names.  Every encryptor and rotator writes    *)
(* version 3 slots; earlier releases wrote version 2 and no manifest.      *)

WrappedKeyVersion == 3
LegacyVersion == 2
Malformed == 0  \* any framing or version that no program decodes

Slot(r, k) == [op |-> "slot", to |-> r, key |-> k, version |-> WrappedKeyVersion]
Manifest(k, n) == [op |-> "manifest", key |-> k, count |-> n]
EncChunk(c, k, i) == [op |-> "encChunk", body |-> c, key |-> k, idx |-> i]
EncAttachment(a, k) == [op |-> "encAttachment", body |-> a, key |-> k]
EncMetadata(m, k) == [op |-> "encMetadata", body |-> m, key |-> k]

\* DecodeWrappedKeyData: what does not decode is passed over everywhere.
Decodes(slot) == slot.version \in {LegacyVersion, WrappedKeyVersion}

\* A slot opens with the private key of its recipient and with no other.
OpensFor(slot, h) == Decodes(slot) /\ slot.to = h

\* A slot of the current version says that there is a manifest.
RequiresManifest(slot) == Decodes(slot) /\ slot.version >= WrappedKeyVersion

\* The manifest attachment before it is patched: 40 zero bytes.
Placeholder == Manifest(NoKey, 0)

\* What only an encrypted file has: opcodes 0x81, 0x82 and 0x83.
Encrypted == {"encChunk", "encAttachment", "encMetadata"}

\* Records that describe byte positions of the file they are in.
Indexes == {"messageIndex", "statistics", "chunkIndex"}

-----------------------------------------------------------------------------
\* A set of positions in ascending order: the k-th has k - 1 ahead of it.
Sorted(at) ==
  [k \in 1..Cardinality(at) |->
     CHOOSE i \in at : Cardinality({j \in at : j < i}) = k - 1]

\* The elements of s at the positions of the set at, in their order.
Selected(s, at) == LET is == Sorted(at) IN [k \in DOMAIN is |-> s[is[k]]]

OfKind(file, ops) == Selected(file, {i \in DOMAIN file : file[i].op \in ops})

Bodies(file, op) ==
  LET rs == OfKind(file, {op}) IN [i \in DOMAIN rs |-> rs[i].body]

\* The ids of the definitions of a file, as often as they are there.
DefIds(file) == LET ds == OfKind(file, {"def"}) IN [i \in DOMAIN ds |-> ds[i].id]

\* The sequence f[1], ..., f[n] for a function f of positions.
Records(s, Make(_)) == [i \in DOMAIN s |-> Make(s[i])]

\* The definitions a record holds.
DefsIn(r) ==
  IF r.op = "def" THEN <<r.id>> ELSE IF r.op = "chunk" THEN Inner[r.body] ELSE <<>>

\* Every definition of a file in order of first appearance, those inside
\* chunks included: the first pass of the encryptors.
Definitions(file) ==
  LET seen[n \in 0..Len(file)] ==
        IF n = 0 THEN <<>>
        ELSE LET before == seen[n - 1]
                 here == DefsIn(file[n])
             IN before \o Selected(here, {i \in DOMAIN here : here[i] \notin Elements(before)})
  IN seen[Len(file)]

\* The summary section that follows DataEnd: definitions again, statistics,
\* and the position of every chunk record.
Summary(defs, positions) ==
  Records(defs, Def) \o <<Statistics(Len(positions))>> \o Records(positions, ChunkIndex)

\* The AEAD open of the i-th encrypted chunk met in a file (from 0).
Opens(r, k, i) == r.key = k /\ r.idx = i

-----------------------------------------------------------------------------
(* What the programs of the Python and TypeScript packages make of a whole *)
(* file at once.                                                           *)

\* The first and the last of a set of positions.
First(at) == CHOOSE i \in at : \A j \in at : i <= j
Last(at) == CHOOSE i \in at : \A j \in at : j <= i

\* The records ahead of the first one of the kinds ops.
UpTo(file, ops) ==
  LET at == {i \in DOMAIN file : file[i].op \in ops}
  IN IF at = {} THEN file ELSE SubSeq(file, 1, First(at) - 1)

\* The key a reader who holds the private key of h has after these records:
\* that of the first slot for h.
KeyFor(records, h) ==
  LET own == {i \in DOMAIN records : records[i].op = "slot" /\ OpensFor(records[i], h)}
  IN IF own = {} THEN NoKey ELSE records[First(own)].key

\* The records of a kind among those ahead of position i.
CountBefore(records, i, op) == Len(OfKind(SubSeq(records, 1, i - 1), {op}))

\* Record i of a source as it is written into an encrypted file.
Sealed(source, i, k, metadataMode) ==
  CASE source[i].op = "chunk" ->
         EncChunk(source[i].body, k, CountBefore(source, i, "chunk"))
    [] source[i].op = "attachment" -> EncAttachment(source[i].body, k)
    [] source[i].op = "metadata" /\ metadataMode = "encrypt" ->
         EncMetadata(source[i].body, k)
    [] OTHER -> source[i]

\* Every encrypted chunk comes after the key of h and opens at its place.
ChunksOpen(records, h) ==
  \A i \in DOMAIN records : records[i].op = "encChunk" =>
    LET k == KeyFor(SubSeq(records, 1, i - 1), h)
    IN k # NoKey /\ Opens(records[i], k, CountBefore(records, i, "encChunk"))

\* The chunk bodies a reader who opens chunk after chunk with key k gets
\* before one does not open.
Opened(records, k) ==
  LET chunks == OfKind(records, {"encChunk"})
      Good(n) == \A i \in 1..n : Opens(chunks[i], k, i - 1)
      last == CHOOSE n \in 0..Len(chunks) :
                Good(n) /\ (n = Len(chunks) \/ ~ Good(n + 1))
  IN Bodies(SubSeq(chunks, 1, last), "encChunk")

\* The records of the kinds ops that come after the key of h open with it;
\* those ahead of it are not tried.
LaterOnesOpen(records, h, ops) ==
  \A i \in DOMAIN records : records[i].op \in ops =>
    KeyFor(SubSeq(records, 1, i - 1), h) \in {NoKey, records[i].key}

\* The last manifest verifies with the key of h and counts the chunks; there
\* is none, and none of the slots requires it.
LastManifestHolds(records, h) ==
  LET manifests == OfKind(records, {"manifest"})
  IN IF manifests = <<>>
     THEN \A i \in DOMAIN records : records[i].op = "slot" => ~ RequiresManifest(records[i])
     ELSE LET last == manifests[Len(manifests)]
          IN /\ last.key = KeyFor(records, h)
             /\ last.count = Len(OfKind(records, {"encChunk"}))

-----------------------------------------------------------------------------
\* The chunk bodies of a recording, in file order.
Recorded(file) == Bodies(file, "chunk")

\* A chunk body from which the Go programs get messages: it holds some, and
\* its header does not declare size zero (decrypt.go:414).
Yields(c) == Uses[c] # {} /\ c \notin ZeroSize

\* Those of a sequence of chunk bodies.
Yielding(chunks) == Selected(chunks, {i \in DOMAIN chunks : Yields(chunks[i])})

=============================================================================
