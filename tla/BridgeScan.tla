----------------------------- MODULE BridgeScan -----------------------------
(***************************************************************************)
(* What the streaming bridge makes of a file when it is started            *)
(* (scanEncryptedFile, pkg/mcapencrypt/bridge_stream.go) and what its      *)
(* streams then hand out.  The scan decrypts nothing: it finds the key,    *)
(* notes where the encrypted chunks are, collects what it will advertise   *)
(* and checks the manifest.  It keeps no state behind the file, so it is   *)
(* written as operators on the file and the recipient h whose private key  *)
(* the bridge was given.                                                   *)
(***************************************************************************)
EXTENDS McapRecords

\* Where the loop stops: the footer, a record cut short (a trailing magic in
\* the place of a footer included), or the end of the file.
ScanEnd(file) ==
  First({i \in 2..Len(file) : file[i].op \in {"footer", "torn", "magic"}}
          \cup {Len(file) + 1})

\* The positions of the records of one kind that the loop has met.
Met(file, op) == {i \in 2..(ScanEnd(file) - 1) : file[i].op = op}

\* The slots that open.  The key is that of the first one.
OpenSlots(file, h) == {i \in Met(file, "slot") : OpensFor(file[i], h)}

ScanKey(file, h) == file[First(OpenSlots(file, h))].key

\* Some slot that was met requires a manifest.
ManifestDue(file) == \E i \in Met(file, "slot") : RequiresManifest(file[i])

\* A mutant: the count of the manifest is not compared.
ScanAcceptsUncounted(file, h) ==
  /\ Len(file) > 0 /\ file[1].op = "magic"
  /\ ScanEnd(file) <= Len(file) => file[ScanEnd(file)].op = "footer"
  /\ OpenSlots(file, h) # {}
  /\ \A i \in Met(file, "encChunk") : \E j \in OpenSlots(file, h) : j < i
  /\ Met(file, "manifest") = {} => ~ ManifestDue(file)
  /\ Met(file, "manifest") # {} =>
       file[Last(Met(file, "manifest"))].key = ScanKey(file, h)

\* The scan succeeds: no read error, a key ahead of the first chunk, and a
\* manifest (the last one) that verifies with the key and counts the chunks,
\* unless there is none and none is due.
ScanAccepts(file, h) ==
  /\ Len(file) > 0 /\ file[1].op = "magic"
  /\ ScanEnd(file) <= Len(file) => file[ScanEnd(file)].op = "footer"
  /\ OpenSlots(file, h) # {}
  /\ \A i \in Met(file, "encChunk") : \E j \in OpenSlots(file, h) : j < i
  /\ Met(file, "manifest") = {} => ~ ManifestDue(file)
  /\ Met(file, "manifest") # {} =>
       LET manifest == file[Last(Met(file, "manifest"))]
       IN /\ manifest.key = ScanKey(file, h)
          /\ manifest.count = Cardinality(Met(file, "encChunk"))

\* state.chunks: the positions of the encrypted chunks; the k-th is entry
\* k - 1 of the index.
ChunkTable(file) == Sorted(Met(file, "encChunk"))

\* A mutant: entries are numbered from 1.
EntryOpensLate(file, h, k) == Opens(file[ChunkTable(file)[k]], ScanKey(file, h), k)

\* decryptChunkFromDisk: the chunk of an entry is opened under the number of
\* the entry.
EntryOpens(file, h, k) == Opens(file[ChunkTable(file)[k]], ScanKey(file, h), k - 1)

\* The definitions advertised to every client.
Advertised(file) == {file[i].id : i \in Met(file, "def")}

\* The chunks a stream over the whole time range hands out messages of: it
\* ends, without a word to its client, at an entry that does not open, and
\* passes over an entry that declares no content.
Streamed(file, h) ==
  LET table == ChunkTable(file)
      broken == {k \in DOMAIN table : ~ EntryOpens(file, h, k)}
      last == First(broken \cup {Len(table) + 1}) - 1
      bodies == [k \in 1..last |-> file[table[k]].body]
  IN Yielding(bodies)

=============================================================================
