-------------------------- MODULE TypeScriptTools --------------------------
(***************************************************************************)
(* The programs of the TypeScript package (ts/src): encryptMcap,           *)
(* rotateMcapKeys, decryptMcap and iterateMessages.  Each reads a byte     *)
(* array record by record and builds another one; there is no state        *)
(* outside a call, so each is written as a condition on its input and the  *)
(* file or content it returns.                                             *)
(***************************************************************************)
EXTENDS McapRecords

\* readRecord throws at a record that is cut short, and at a trailing magic
\* in the place of a record.
TsReads(records) == OfKind(UpTo(records, {"footer"}), {"torn", "magic"}) = <<>>

TsSection(file, ops) == UpTo(SubSeq(file, 2, Len(file)), ops)

-----------------------------------------------------------------------------
(* encryptMcap                                                             *)

\* Thrown: no recipient, an input that is encrypted already or not chunked,
\* a record cut short.  An input that just ends is not an error.
TsEncrypts(source, recipients) ==
  /\ recipients # <<>>
  /\ TsReads(source)
  /\ OfKind(UpTo(source, {"footer"}), Encrypted \cup {"message"}) = <<>>

\* A mutant: flushPending is missing in the metadata branch.
TsFlushesFew == {"chunk", "attachment", "dataEnd"}

\* flushPending runs at the first chunk, attachment or metadata record, or at
\* DataEnd.
TsFlushes == {"chunk", "attachment", "metadata", "dataEnd"}

\* The definitions that are written: those collected when flushPending runs.
TsDefinitions(source) == DefIds(UpTo(source, TsFlushes))

\* What the loop writes for record i.
TsPiece(source, i, k, metadataMode) ==
  CASE source[i].op \in {"header", "chunk", "attachment", "metadata"} ->
         <<Sealed(source, i, k, metadataMode)>>
    [] source[i].op = "dataEnd" -> <<Manifest(k, CountBefore(source, i, "chunk")), DataEnd>>
    [] OTHER -> <<>>

TsEncrypted(source, recipients, k, metadataMode) ==
  LET body == UpTo(source, {"footer"})
      opening == Records(TsDefinitions(body), Def)
                   \o Records(recipients, LAMBDA r : Slot(r, k))
      Flush(i) == IF i = Len(UpTo(body, TsFlushes)) + 1 THEN opening ELSE <<>>
      written[i \in 0..Len(body)] ==
        IF i = 0 THEN <<Magic>>
        ELSE written[i - 1] \o (Flush(i) \o TsPiece(body, i, k, metadataMode))
  IN written[Len(body)]
       \o ((IF Len(body) < Len(source) THEN <<Footer>> ELSE <<>>) \o <<Magic>>)

-----------------------------------------------------------------------------
(* rotateMcapKeys                                                          *)

TsRotationEnds == {"dataEnd", "footer"}

TsRotates(file, h, recipients) ==
  LET section == TsSection(file, TsRotationEnds)
  IN /\ recipients # <<>>
     /\ Len(file) > 0 /\ file[1].op = "magic"
     /\ OfKind(section, {"torn", "magic"}) = <<>>
     /\ KeyFor(section, h) # NoKey

\* Slots and manifest are made anew.  The default branch puts records it does
\* not know ahead of the slots until the first encrypted chunk or attachment.
TsRotated(file, h, recipients) ==
  LET section == TsSection(file, TsRotationEnds)
      k == KeyFor(section, h)
      early == Len(UpTo(section, {"encChunk", "encAttachment"}))
      known == {"metadata", "attachment", "encChunk", "encAttachment"}
      dropped == {"slot", "manifest"}
      InHead(i) == \/ section[i].op \in {"header", "def"}
                   \/ i <= early /\ section[i].op \notin known \cup dropped
      data == Selected(section, {i \in DOMAIN section :
                                   ~ InHead(i) /\ section[i].op \notin dropped})
      prefix == <<Magic>> \o Selected(section, {i \in DOMAIN section : InHead(i)})
                  \o Records(recipients, LAMBDA r : Slot(r, k))
                  \o <<Manifest(k, Len(OfKind(data, {"encChunk"})))>>
      chunks == Sorted({i \in DOMAIN data : data[i].op = "encChunk"})
  IN prefix \o data \o <<DataEnd>>
       \o Summary(DefIds(section), Records(chunks, LAMBDA i : Len(prefix) + i))
       \o <<Footer, Magic>>

-----------------------------------------------------------------------------
(* decryptMcap                                                             *)

\* Nothing is thrown: whole records, a key, chunks that open where they are,
\* attachments and metadata that open if they come after the key, and a
\* manifest that holds.
TsDecrypts(file, h) ==
  LET section == TsSection(file, {"footer"})
  IN /\ Len(file) > 0 /\ file[1].op = "magic"
     /\ TsReads(SubSeq(file, 2, Len(file)))
     /\ KeyFor(section, h) # NoKey
     /\ ChunksOpen(section, h)
     /\ LaterOnesOpen(section, h, {"encAttachment", "encMetadata"})
     /\ LastManifestHolds(section, h)

\* A header makes a new builder and forgets what the old one had taken.
TsLastHeader(section) ==
  LET at == {i \in DOMAIN section : section[i].op = "header"}
  IN IF at = {} THEN 0 ELSE Last(at)

\* The content of the output.  Plain records count up to DataEnd, encrypted
\* ones from the key on: encrypted metadata ahead of it is left out.
TsDecrypted(file, h) ==
  LET section == TsSection(file, {"footer"})
      ends == Len(UpTo(section, {"dataEnd"}))
      Built(plain, encrypted) ==
        Selected(section, {i \in DOMAIN section :
                    /\ i > TsLastHeader(section)
                    /\ \/ section[i].op = plain /\ i <= ends
                       \/ /\ section[i].op = encrypted
                          /\ KeyFor(SubSeq(section, 1, i - 1), h) # NoKey})
  IN [chunks |-> Bodies(Built("", "encChunk"), "encChunk"),
      attachments |-> Records(Built("attachment", "encAttachment"), LAMBDA r : r.body),
      metadata |-> Records(Built("metadata", "encMetadata"), LAMBDA r : r.body),
      defs |-> Elements(DefIds(Built("def", "")))]

-----------------------------------------------------------------------------
(* iterateMessages                                                         *)

\* The chunks whose messages are yielded, until something is thrown: opened
\* one by one from the front, with messages of known channels only, and with
\* no look at the manifest.
TsIterated(file, h) ==
  LET section == UpTo(TsSection(file, {"footer"}), {"torn", "magic"})
      ends == Len(UpTo(section, {"dataEnd"}))
      Known(i) == Elements(DefIds(SubSeq(section, 1, IF i - 1 < ends THEN i - 1 ELSE ends)))
      at == Sorted({i \in DOMAIN section : section[i].op = "encChunk"})
      Good(n) == /\ KeyFor(SubSeq(section, 1, at[n] - 1), h) # NoKey
                 /\ Opens(section[at[n]], KeyFor(section, h), n - 1)
      shown == Selected(at, {n \in DOMAIN at :
                 /\ \A m \in 1..n : Good(m)
                 /\ Uses[section[at[n]].body] \subseteq Known(at[n])})
  IN IF Len(file) > 0 /\ file[1].op = "magic"
     THEN Records(shown, LAMBDA i : section[i].body)
     ELSE <<>>

=============================================================================
