---------------------------- MODULE PythonTools ----------------------------
(***************************************************************************)
(* The programs of the Python package (py/src/mcap_encrypt): encrypt_mcap, *)
(* rotate_mcap_keys and decrypt_mcap.  Each takes a whole file as a byte   *)
(* string and returns another one or raises, so each is written as a       *)
(* condition on its input and the file or content it returns.              *)
(***************************************************************************)
EXTENDS McapRecords

\* iter_records gives up, without a word, at a record that is cut short; a
\* trailing magic in the place of a record is one.
PyEnds == {"footer", "torn", "magic"}

\* What a rotation or decryption reads: the records behind the magic.
PySection(file, ops) == UpTo(SubSeq(file, 2, Len(file)), ops)

-----------------------------------------------------------------------------
(* encrypt_mcap                                                            *)

\* Raised: no recipient, an encrypted record anywhere in the input, and no
\* chunk ahead of its end.
PyEncrypts(source, recipients) ==
  /\ recipients # <<>>
  /\ OfKind(UpTo(source, {"torn"}), Encrypted) = <<>>
  /\ OfKind(UpTo(source, PyEnds), {"chunk"}) # <<>>

\* Pass 1 collects definitions, each id once, wherever they are ahead of the
\* footer, but does not look into chunks.
PyDefinitions(source) ==
  Definitions(OfKind(UpTo(source, PyEnds), {"def"}))

\* Pass 2.  Our own attachments are left out, and so is, silently, every
\* record that is not known, a message outside of chunks among them.
PyData(source, k, metadataMode) ==
  LET body == UpTo(source, PyEnds)
      kept == Sorted({i \in DOMAIN body : body[i].op \in {"chunk", "attachment", "metadata"}})
  IN Records(kept, LAMBDA i : Sealed(body, i, k, metadataMode))

\* The layout both encrypt_mcap and rotate_mcap_keys write: the manifest is
\* ahead of the data, and chunks are found in the summary.
PyFile(head, defs, recipients, k, data) ==
  LET prefix == <<Magic>> \o head
                  \o Records(recipients, LAMBDA r : Slot(r, k))
                  \o <<Manifest(k, Len(OfKind(data, {"encChunk"})))>>
      chunks == Sorted({i \in DOMAIN data : data[i].op = "encChunk"})
      Place(i) == Len(prefix) + i
  IN prefix \o data \o <<DataEnd>> \o Summary(defs, Records(chunks, Place))
       \o <<Footer, Magic>>

PyEncrypted(source, recipients, k, metadataMode) ==
  LET defs == PyDefinitions(source)
  IN PyFile(<<Header>> \o Records(defs, Def), defs, recipients, k,
            PyData(source, k, metadataMode))

-----------------------------------------------------------------------------
(* rotate_mcap_keys                                                        *)

PyRotationEnds == PyEnds \cup {"dataEnd"}

PyRotates(file, h, recipients) ==
  /\ recipients # <<>>
  /\ Len(file) > 0 /\ file[1].op = "magic"
  /\ KeyFor(PySection(file, PyRotationEnds), h) # NoKey

\* Slots and manifest are made anew.  What the loop does not name is dropped:
\* it has no default branch, and encrypted metadata (0x83) is not named.
PyRotated(file, h, recipients) ==
  LET section == PySection(file, PyRotationEnds)
  IN PyFile(OfKind(section, {"header", "def"}), DefIds(section),
            recipients, KeyFor(section, h),
            OfKind(section, {"metadata", "attachment", "encChunk", "encAttachment"}))

-----------------------------------------------------------------------------
(* decrypt_mcap                                                            *)

\* A mutant: the manifest is verified ahead of the data, where its count is
\* not yet known.
PyDecryptsUncounted(file, h) ==
  LET section == PySection(file, PyEnds)
  IN /\ Len(file) > 0 /\ file[1].op = "magic"
     /\ KeyFor(section, h) # NoKey
     /\ ChunksOpen(section, h)
     /\ LaterOnesOpen(section, h, {"encAttachment"})
     /\ \A i \in DOMAIN section :
          section[i].op = "encMetadata" => section[i].key = KeyFor(section, h)
     /\ \A i \in DOMAIN section : section[i].op = "manifest" =>
          section[i].key = KeyFor(section, h)

\* Nothing is raised: a key, chunks that open where they are, attachments
\* that open if they come after the key, encrypted metadata that opens at
\* the end, and a manifest that holds.
PyDecrypts(file, h) ==
  LET section == PySection(file, PyEnds)
  IN /\ Len(file) > 0 /\ file[1].op = "magic"
     /\ KeyFor(section, h) # NoKey
     /\ ChunksOpen(section, h)
     /\ LaterOnesOpen(section, h, {"encAttachment"})
     /\ \A i \in DOMAIN section :
          section[i].op = "encMetadata" => section[i].key = KeyFor(section, h)
     /\ LastManifestHolds(section, h)

\* The content of the output.  All messages go into one chunk, in the order
\* of the chunks they come from; an attachment ahead of the key is left out.
PyDecrypted(file, h) ==
  LET section == PySection(file, PyEnds)
      atts == Selected(section, {i \in DOMAIN section :
                \/ section[i].op = "attachment"
                \/ /\ section[i].op = "encAttachment"
                   /\ KeyFor(SubSeq(section, 1, i - 1), h) # NoKey})
  IN [chunks |-> Bodies(section, "encChunk"),
      attachments |-> Records(atts, LAMBDA r : r.body),
      metadata |-> Bodies(section, "metadata") \o Bodies(section, "encMetadata"),
      defs |-> Elements(DefIds(section))]

-----------------------------------------------------------------------------
(* iterate_messages                                                        *)

\* The chunks whose messages are yielded.  Chunks are collected first, the
\* key may come from any slot, and the manifest is verified before the first
\* message is yielded.
PyIterated(file, h) ==
  LET section == PySection(file, PyEnds)
  IN IF /\ Len(file) > 0 /\ file[1].op = "magic"
        /\ KeyFor(section, h) # NoKey
        /\ LastManifestHolds(section, h)
     THEN Opened(section, KeyFor(section, h))
     ELSE <<>>

=============================================================================
