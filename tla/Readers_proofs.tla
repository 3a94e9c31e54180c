--------------------------- MODULE Readers_proofs ---------------------------
(***************************************************************************)
(* What the readers of one file make of it: the decryptor, the scan of the *)
(* streaming bridge and the programs of the other packages.                *)
(*                                                                         *)
(* The decryptor reads record after record, the others are functions of    *)
(* the whole file.  The invariant Following says that what the decryptor   *)
(* knows at any moment is what those functions make of the records it has  *)
(* read; so when it is done, they agree with it.  That they show nothing   *)
(* but the recording, and all of it where the manifest vouches for it,     *)
(* follows from PipeInv, which says what every file is made of.  That a    *)
(* file nothing befell comes back as it was takes ContentInv as well: what *)
(* such a file must contain.                                               *)
(***************************************************************************)
EXTENDS Pipeline_proofs, Encryptor_proofs

-----------------------------------------------------------------------------
(* A decryption follows the file.                                          *)

\* The records behind the leading magic, and those of them that were read.
Section == SubSeq(encFile, 2, Len(encFile))
Read == SubSeq(Section, 1, decPos - 2)

\* What the decryptor holds when it has read the records s: every variable is
\* a function of them, and whatever had to open did.
Followed(s) ==
  /\ symKey = KeyFor(s, holder)
  /\ manifestRequired <=> SlotsRequire(s)
  /\ manifest = Latest(OfKind(s, {"manifest"}))
  /\ defs = DefIds(s)
  /\ attachments = Attached(s, holder)
  /\ metadataRecs = Bodies(s, "metadata")
  /\ encMetadataRecs = OfKind(s, {"encMetadata"})
  /\ decChunkIdx = Tally(s)
  /\ ChunksOpen(s, holder)
  /\ LaterOnesOpen(s, holder, {"encAttachment"})

\* What reading record e does to them.
Takes(e) ==
  /\ holder' = holder
  /\ symKey' = IF symKey # NoKey THEN symKey
               ELSE IF e.op = "slot" /\ OpensFor(e, holder) THEN e.key ELSE NoKey
  /\ manifestRequired' <=> manifestRequired \/ (e.op = "slot" /\ RequiresManifest(e))
  /\ manifest' = IF e.op = "manifest" THEN <<e>> ELSE manifest
  /\ defs' = IF e.op = "def" THEN Append(defs, e.id) ELSE defs
  /\ attachments' = IF e.op = "attachment" \/ (e.op = "encAttachment" /\ symKey # NoKey)
                    THEN Append(attachments, e.body) ELSE attachments
  /\ metadataRecs' = IF e.op = "metadata" THEN Append(metadataRecs, e.body) ELSE metadataRecs
  /\ encMetadataRecs' = IF e.op = "encMetadata" THEN Append(encMetadataRecs, e)
                        ELSE encMetadataRecs
  /\ decChunkIdx' = IF e.op = "encChunk" THEN decChunkIdx + 1 ELSE decChunkIdx
  /\ e.op = "encChunk" => symKey # NoKey /\ Opens(e, symKey, decChunkIdx)
  /\ e.op = "encAttachment" => symKey \in {NoKey, e.key}

\* Reading a record keeps the decryptor in step with the file.
LEMMA FollowedNext ==
  ASSUME NEW s, IsSeq(s), Keyed(s), NEW e, e.op = "slot" => e.key # NoKey,
         Followed(s), Takes(e)
  PROVE  Followed(s \o <<e>>)'
<1> DEFINE u == s \o <<e>>
<1>1. symKey' = KeyFor(u, holder)
  <2>1. IsSeq(<<e>>) /\ Keyed(<<e>>)
    BY Single DEF Keyed
  <2>2. KeyFor(u, holder) = IF KeyFor(s, holder) # NoKey THEN KeyFor(s, holder)
                            ELSE KeyFor(<<e>>, holder)
    BY <2>1, KeyForConcat
  <2>3. KeyFor(<<e>>, holder) = IF e.op = "slot" /\ OpensFor(e, holder) THEN e.key ELSE NoKey
    BY KeyForSingle
  <2> HIDE DEF u
  <2>4. QED
    BY <2>2, <2>3 DEF Followed, Takes
<1>2. manifestRequired' <=> SlotsRequire(u)
  BY RequireNext DEF Followed, Takes
<1>3. manifest' = Latest(OfKind(u, {"manifest"}))
  BY LatestNext DEF Followed, Takes
<1>4. defs' = DefIds(u)
  BY DefIdsNext DEF Followed, Takes
<1>5. attachments' = Attached(u, holder)
  BY AttachedNext DEF Followed, Takes
<1>6. metadataRecs' = Bodies(u, "metadata")
  BY BodiesNext DEF Followed, Takes
<1>7. encMetadataRecs' = OfKind(u, {"encMetadata"})
  <2>1. OfKind(u, {"encMetadata"}) =
          IF e.op \in {"encMetadata"} THEN Append(OfKind(s, {"encMetadata"}), e)
          ELSE OfKind(s, {"encMetadata"})
    BY OfKindNext
  <2>2. QED
    BY <2>1 DEF Followed, Takes
<1>8. decChunkIdx' = Tally(u)
  <2>1. IsSeq(<<e>>)
    BY Single
  <2>2. Tally(u) = Tally(s) + Tally(<<e>>) /\ Tally(s) \in Nat
    BY <2>1, Joining
  <2>3. Tally(<<e>>) = IF e.op = "encChunk" THEN 1 ELSE 0
    BY TallySingle
  <2> HIDE DEF u
  <2>4. QED
    BY <2>2, <2>3 DEF Followed, Takes
<1>9. ChunksOpen(u, holder)
  BY ChunksOpenNext DEF Followed, Takes
<1>10. LaterOnesOpen(u, holder, {"encAttachment"})
  <2>1. LaterOnesOpen(u, holder, {"encAttachment"}) <=>
          /\ LaterOnesOpen(s, holder, {"encAttachment"})
          /\ e.op \in {"encAttachment"} => KeyFor(s, holder) \in {NoKey, e.key}
    BY LaterNext
  <2> HIDE DEF u
  <2>2. QED
    BY <2>1 DEF Followed, Takes
<1> HIDE DEF u
<1>11. QED
  <2>1. holder' = holder
    BY DEF Takes
  <2>2. Followed(u)'
    BY <1>1, <1>2, <1>3, <1>4, <1>5, <1>6, <1>7, <1>8, <1>9, <1>10, <2>1 DEF Followed
  <2>3. QED
    BY <2>2 DEF u

\* A part of a file that is given to recipients has keys in its slots.
LEMMA PartIsKeyed ==
  ASSUME NEW s, NEW rec, NEW R, Part(s, rec, Given(R))
  PROVE  Keyed(s)
<1>1. ASSUME NEW i \in DOMAIN s, s[i].op = "slot" PROVE s[i].key # NoKey
  <2>1. <<s[i].to, s[i].key>> \in R \X Keys
    BY <1>1 DEF Part, Genuine, Given
  <2>2. s[i].key \in Keys
    BY <2>1
  <2>3. QED
    BY <2>2, SymKeyAssumption, OtherKeyAssumption DEF Keys
<1>2. QED
  BY <1>1 DEF Keyed

\* The section of the file that is kept, and what a decryptor has read of it.
LEMMA ReadIs ==
  ASSUME StoredPart, encFile = stored, Len(encFile) > 0,
         NEW p \in 2..(Len(encFile) + 1)
  PROVE  /\ IsSeq(Section) /\ Keyed(Section) /\ Len(Section) = Len(encFile) - 1
         /\ Len(encFile) \in Nat
         /\ DOMAIN Section = 1..(Len(encFile) - 1)
         /\ \A i \in 1..(Len(encFile) - 1) : /\ Section[i] = encFile[i + 1]
                                             /\ i + 1 \in DOMAIN stored
         /\ LET r == SubSeq(Section, 1, p - 2)
            IN /\ IsSeq(r) /\ Keyed(r) /\ Len(r) = p - 2 /\ DOMAIN r = 1..(p - 2)
               /\ \A i \in 1..(p - 2) : r[i] = Section[i]
               /\ p <= Len(encFile) =>
                    /\ SubSeq(Section, 1, (p + 1) - 2) = r \o <<encFile[p]>>
                    /\ encFile[p] = Section[p - 1] /\ p - 1 \in DOMAIN Section
<1>1. IsSeq(stored) /\ Keyed(stored)
  BY PartIsKeyed DEF StoredPart, Part
<1>2. /\ IsSeq(Section) /\ Len(Section) = Len(encFile) - 1 /\ Len(encFile) \in Nat
      /\ DOMAIN Section = 1..(Len(encFile) - 1)
      /\ \A i \in 1..(Len(encFile) - 1) : Section[i] = encFile[i + 1] /\ i + 1 \in DOMAIN stored
  BY <1>1, BehindMagic DEF Section
<1>3. Keyed(Section)
  BY <1>1, <1>2 DEF Keyed
<1> DEFINE r == SubSeq(Section, 1, p - 2)
<1>4. p - 2 \in 0..Len(Section)
  BY <1>2
<1>5. PICK m \in 0..Len(Section) : m = p - 2
  BY <1>4
<1>6. /\ IsSeq(r) /\ Len(r) = p - 2 /\ DOMAIN r = 1..(p - 2)
      /\ \A i \in 1..(p - 2) : r[i] = Section[i] /\ i \in DOMAIN Section
  <2>1. LET q == SubSeq(Section, 1, m)
        IN /\ IsSeq(q) /\ Len(q) = m /\ DOMAIN q = 1..m
           /\ \A i \in 1..m : q[i] = Section[i] /\ i \in DOMAIN Section
    BY <1>2, FrontOf
  <2>2. QED
    BY <1>5, <2>1
<1>7. Keyed(r)
  BY <1>3, <1>6 DEF Keyed
<1>8. ASSUME p <= Len(encFile)
      PROVE  /\ SubSeq(Section, 1, (p + 1) - 2) = r \o <<encFile[p]>>
             /\ encFile[p] = Section[p - 1] /\ p - 1 \in DOMAIN Section
  <2>1. m < Len(Section) /\ m + 1 = (p + 1) - 2 /\ m + 1 = p - 1 /\ (p - 1) + 1 = p
    BY <1>2, <1>5, <1>8
  <2>2. SubSeq(Section, 1, m + 1) = SubSeq(Section, 1, m) \o <<Section[m + 1]>>
    BY <1>2, <2>1, FrontGrows
  <2>3. p - 1 \in 1..(Len(encFile) - 1)
    BY <1>2, <1>8
  <2>4. Section[p - 1] = encFile[p]
    BY <1>2, <2>1, <2>3
  <2>5. QED
    BY <1>2, <1>5, <2>1, <2>2, <2>3, <2>4
<1> HIDE DEF r
<1>9. QED
  BY <1>2, <1>3, <1>6, <1>7, <1>8 DEF r

\* A decryption with a key at hand: what it has read, and when it has stopped.
Following ==
  /\ decState \in {"idle", "reading", "checking", "done", "failed"}
  /\ decState = "idle" => DecInit
  /\ decState \in {"reading", "checking", "done"} =>
       /\ Len(encFile) > 0 /\ encFile[1].op = "magic"
       /\ decPos \in 2..(Len(encFile) + 1)
       /\ \A i \in DOMAIN Read : Read[i].op \notin PyEnds
       /\ Followed(Read)
  /\ decState \in {"checking", "done"} /\ decPos <= Len(encFile) => encFile[decPos].op = "footer"
  /\ decState = "done" =>
       /\ symKey # NoKey /\ ManifestHolds
       /\ \A i \in DOMAIN encMetadataRecs : encMetadataRecs[i].key = symKey

\* The private key of a KMS may fail; any other is at hand.
ReadPart == stage = "decrypt" /\ holder \notin KmsHeld => Following

\* One step of a decryption.
ReadsOn ==
  /\ decState = "reading" /\ decState' = "reading"
  /\ decPos <= Len(encFile) /\ decPos' = decPos + 1
  /\ Current.op \notin PyEnds
  /\ Takes(Current)

\* Each step of a decryption reads a record, fails, or is one of three others.
LEMMA DecSteps ==
  ASSUME DecNext, holder \notin KmsHeld, symKey \in Keys \cup {NoKey}, decState # "done"
  PROVE  \/ ReadsOn
         \/ decState' = "failed"
         \/ LeadingMagic \/ EndScan \/ Verify
<1>1. CASE Buffer
  <2>1. /\ decState = "reading" /\ decState' = "reading"
        /\ decPos <= Len(encFile) /\ decPos' = decPos + 1
        /\ Current.op \in {"def", "metadata", "attachment", "encMetadata", "manifest"}
    BY <1>1 DEF Buffer, Reads, Consume
  <2>2. Takes(Current)
    BY <1>1, <2>1 DEF Buffer, Takes, decKeys, decOutput
  <2>3. QED
    BY <2>1, <2>2 DEF ReadsOn, PyEnds
<1>2. CASE TrySlot
  <2>1. /\ decState = "reading" /\ decState' = "reading"
        /\ decPos <= Len(encFile) /\ decPos' = decPos + 1
        /\ Current.op = "slot"
    BY <1>2 DEF TrySlot, Reads, Consume
  <2>2. Takes(Current)
    <3> DEFINE req == RequiresManifest(Current)
               opn == OpensFor(Current, holder)
    <3>1. manifestRequired' <=> manifestRequired \/ req
      BY <1>2 DEF TrySlot
    <3>2. /\ UNCHANGED <<manifest, defs, attachments, metadataRecs, encMetadataRecs, decChunkIdx>>
          /\ holder' = holder
      BY <1>2 DEF TrySlot, decBuffers, decOutput
    <3>3. \/ opn /\ symKey' = IF symKey = NoKey THEN Current.key ELSE symKey
          \/ ~ opn /\ symKey' = symKey
      BY <1>2 DEF TrySlot
    <3> HIDE DEF req, opn
    <3>4. symKey' = IF symKey # NoKey THEN symKey
                    ELSE IF Current.op = "slot" /\ opn THEN Current.key ELSE NoKey
      BY <2>1, <3>3
    <3>5. manifestRequired' <=> manifestRequired \/ (Current.op = "slot" /\ req)
      BY <2>1, <3>1
    <3>6. QED
      BY <2>1, <3>2, <3>4, <3>5 DEF Takes, req, opn
  <2>3. QED
    BY <2>1, <2>2 DEF ReadsOn, PyEnds
<1>3. CASE OpenAttachment
  <2>1. /\ decState = "reading" /\ decPos <= Len(encFile) /\ Current.op = "encAttachment"
    BY <1>3 DEF OpenAttachment, Reads
  <2>2. decState' = "failed" \/ (decState' = "reading" /\ decPos' = decPos + 1 /\ Takes(Current))
    BY <1>3, <2>1 DEF OpenAttachment, Consume, Reject, Takes, decKeys, decOutput
  <2>3. QED
    BY <2>1, <2>2 DEF ReadsOn, PyEnds
<1>4. CASE OpenEncChunk
  <2>1. /\ decState = "reading" /\ decPos <= Len(encFile) /\ Current.op = "encChunk"
    BY <1>4 DEF OpenEncChunk, Reads
  <2>2. \/ decState' = "failed"
        \/ /\ symKey # NoKey /\ Opens(Current, symKey, decChunkIdx)
           /\ decChunkIdx' = decChunkIdx + 1
           /\ decState' = "reading" /\ decPos' = decPos + 1
    BY <1>4, <2>1 DEF OpenEncChunk, OpenChunkOk, Consume, Reject
  <2>3. holder' = holder /\ UNCHANGED decKeys /\ UNCHANGED decBuffers
    BY <1>4 DEF OpenEncChunk
  <2>4. decState' = "failed" \/ (decState' = "reading" /\ decPos' = decPos + 1 /\ Takes(Current))
    BY <2>1, <2>2, <2>3 DEF Takes, decKeys, decBuffers
  <2>5. QED
    BY <2>1, <2>4 DEF ReadsOn, PyEnds
<1>5. CASE StepOver
  <2>1. /\ decState = "reading" /\ decState' = "reading"
        /\ decPos <= Len(encFile) /\ decPos' = decPos + 1
        /\ Current.op \in {"header", "dataEnd", "chunk", "message"} \cup Indexes
    BY <1>5 DEF StepOver, Reads, Consume
  <2>2. Current.op \in {"header", "dataEnd", "chunk", "message", "messageIndex", "statistics",
                        "chunkIndex"}
    BY <2>1 DEF Indexes
  <2>3. Takes(Current)
    BY <1>5, <2>2 DEF StepOver, Takes, decKeys, decBuffers, decOutput
  <2>4. QED
    BY <2>1, <2>2, <2>3 DEF ReadsOn, PyEnds
<1>6. CASE CutShort
  BY <1>6 DEF CutShort, Reject
<1>7. QED
  BY <1>1, <1>2, <1>3, <1>4, <1>5, <1>6 DEF DecNext

\* Nothing has been read yet.
LEMMA NothingFollowed ==
  ASSUME DecInit PROVE Followed(<<>>)
<1>1. IsSeq(<<>>) /\ \A i \in DOMAIN <<>> : FALSE
  BY DEF IsSeq, Elements
<1> DEFINE e == <<>>
<1> HIDE DEF e
<1>2. IsSeq(e) /\ \A i \in DOMAIN e : FALSE
  BY <1>1 DEF e
<1>3. \A K : OfKind(e, K) = <<>>
  BY <1>2, OfKindNone
<1>4. \A op : Bodies(e, op) = <<>>
  BY <1>3 DEF Bodies
<1>5. DefIds(e) = <<>>
  BY <1>3 DEF DefIds
<1>6. Keyed(e) /\ Own(e, holder) = {}
  BY <1>2 DEF Keyed, Own
<1>7. KeyFor(e, holder) = NoKey
  BY <1>2, <1>6, KeyIs
<1>8. Attached(e, holder) = <<>>
  <2>1. AttachedAt(e, holder) = {}
    BY <1>2 DEF AttachedAt
  <2>2. Selected(e, {}) = <<>>
    BY <1>2, SelectedNone
  <2>3. QED
    BY <2>1, <2>2 DEF Attached, Payloads
<1>9. Tally(e) = 0
  BY <1>2, TallyNone DEF Chunkless
<1>10. ChunksOpen(e, holder) /\ LaterOnesOpen(e, holder, {"encAttachment"}) /\ ~ SlotsRequire(e)
  BY <1>2 DEF ChunksOpen, LaterOnesOpen, SlotsRequire
<1>11. Latest(OfKind(e, {"manifest"})) = <<>>
  BY <1>3 DEF Latest
<1>12. Followed(e)
  BY <1>3, <1>4, <1>5, <1>7, <1>8, <1>9, <1>10, <1>11 DEF Followed, DecInit
<1>13. QED
  BY <1>12 DEF e

\* Whoever has the key follows the file to its end.
LEMMA FollowingKeeps ==
  ASSUME StoredPart, encFile = stored, symKey \in Keys \cup {NoKey}, holder \notin KmsHeld,
         UNCHANGED <<encFile, holder>>, Following, DecNext
  PROVE  Following'
<1>1. Section' = Section
  BY DEF Section
<1>2. CASE ReadsOn
  <2>1. /\ decState = "reading" /\ decState' = "reading"
        /\ decPos <= Len(encFile) /\ decPos' = decPos + 1
        /\ Current.op \notin PyEnds /\ Takes(Current)
    BY <1>2 DEF ReadsOn
  <2>2. /\ Len(encFile) > 0 /\ encFile[1].op = "magic" /\ decPos \in 2..(Len(encFile) + 1)
        /\ \A i \in DOMAIN Read : Read[i].op \notin PyEnds
        /\ Followed(Read)
    BY <2>1 DEF Following
  <2>3. PICK s, e : s = Read /\ e = Current
    OBVIOUS
  <2>4. /\ IsSeq(s) /\ Keyed(s) /\ DOMAIN s = 1..(decPos - 2)
        /\ SubSeq(Section, 1, (decPos + 1) - 2) = s \o <<e>>
        /\ e = Section[decPos - 1] /\ decPos - 1 \in DOMAIN Section /\ Keyed(Section)
        /\ Len(encFile) \in Nat
    BY <2>1, <2>2, <2>3, ReadIs DEF Read, Current
  <2>5. Read' = s \o <<e>>
    BY <1>1, <2>1, <2>4 DEF Read
  <2>6. e.op = "slot" => e.key # NoKey
    BY <2>4 DEF Keyed
  <2>7. Followed(s \o <<e>>)'
    BY <2>1, <2>2, <2>3, <2>4, <2>6, FollowedNext
  <2>8. Followed(Read)'
    BY <2>5, <2>7 DEF Followed
  <2>9. ASSUME NEW i \in DOMAIN (s \o <<e>>) PROVE (s \o <<e>>)[i].op \notin PyEnds
    <3>1. /\ DOMAIN (s \o <<e>>) = 1..(Len(s) + 1) /\ DOMAIN s = 1..Len(s) /\ Len(s) \in Nat
          /\ \A k \in 1..Len(s) : (s \o <<e>>)[k] = s[k]
          /\ (s \o <<e>>)[Len(s) + 1] = e
      BY <2>4, OneMore
    <3>2. \A k \in DOMAIN s : s[k].op \notin PyEnds
      BY <2>2, <2>3
    <3>3. e.op \notin PyEnds
      BY <2>1, <2>3
    <3>4. CASE i \in 1..Len(s)
      BY <3>1, <3>2, <3>4
    <3>5. CASE i = Len(s) + 1
      BY <3>1, <3>3, <3>5
    <3>6. QED
      BY <3>1, <3>4, <3>5
  <2>10. decPos' \in 2..(Len(encFile') + 1)
    <3>1. encFile' = encFile
      OBVIOUS
    <3>2. decPos + 1 \in 2..(Len(encFile) + 1)
      BY <2>1, <2>2, <2>4
    <3>3. QED
      BY <2>1, <3>1, <3>2
  <2>11. QED
    BY <2>1, <2>2, <2>5, <2>8, <2>9, <2>10 DEF Following
<1>3. CASE decState' = "failed"
  BY <1>3 DEF Following
<1>4. CASE LeadingMagic
  <2>1. decState = "idle" /\ DecInit
    BY <1>4 DEF LeadingMagic, Following
  <2>2. CASE Len(encFile) > 0 /\ encFile[1].op = "magic"
    <3>1. decState' = "reading" /\ decPos' = 2
      BY <1>4, <2>2 DEF LeadingMagic
    <3>2. Len(encFile) \in Nat /\ 2 \in 2..(Len(encFile) + 1)
      BY <2>2, AsFunction DEF StoredPart, Part
    <3>3. PICK p \in 2..(Len(encFile) + 1) : p = 2
      BY <3>2
    <3>4. LET r == SubSeq(Section, 1, p - 2)
          IN IsSeq(r) /\ Len(r) = p - 2
      BY <2>2, ReadIs
    <3>5. SubSeq(Section, 1, 0) = <<>>
      OBVIOUS
    <3>6. Read' = <<>>
      BY <1>1, <3>1, <3>5 DEF Read
    <3>7. Followed(<<>>)'
      BY <1>4, <2>1, NothingFollowed DEF LeadingMagic, Followed, decKeys, decBuffers, decOutput
    <3>8. Followed(Read)'
      BY <3>6, <3>7 DEF Followed
    <3>9. \A i \in DOMAIN Read' : Read'[i].op \notin PyEnds
      BY <3>6
    <3>10. QED
      BY <2>2, <3>1, <3>2, <3>8, <3>9 DEF Following
  <2>3. CASE ~ (Len(encFile) > 0 /\ encFile[1].op = "magic")
    BY <1>3, <1>4, <2>3 DEF LeadingMagic
  <2>4. QED
    BY <2>2, <2>3
<1>5. CASE EndScan
  <2>1. /\ decState = "reading" /\ decState' = "checking" /\ decPos' = decPos
        /\ decPos <= Len(encFile) => Current.op = "footer"
        /\ UNCHANGED <<decKeys, decBuffers, decOutput>>
    BY <1>5 DEF EndScan
  <2>2. Read' = Read
    BY <1>1, <2>1 DEF Read
  <2>3. Followed(Read) => Followed(Read)'
    BY <2>1, <2>2 DEF Followed, decKeys, decBuffers, decOutput
  <2>4. QED
    BY <2>1, <2>2, <2>3 DEF Following, Current
<1>6. CASE Verify
  <2>1. /\ decState = "checking" /\ decPos' = decPos
        /\ UNCHANGED <<decKeys, decBuffers, decChunkIdx>>
        /\ decState' = IF /\ symKey # NoKey
                          /\ ManifestHolds
                          /\ \A i \in DOMAIN encMetadataRecs : encMetadataRecs[i].key = symKey
                       THEN "done" ELSE "failed"
    BY <1>6 DEF Verify
  <2>2. Read' = Read /\ (ManifestHolds => ManifestHolds')
    BY <1>1, <2>1 DEF Read, ManifestHolds, decKeys, decBuffers
  <2>3. Followed(Read) => Followed(Read)'
    BY <2>1, <2>2 DEF Followed, decKeys, decBuffers
  <2>4. CASE decState' = "done"
    <3>1. /\ symKey # NoKey /\ ManifestHolds
          /\ \A i \in DOMAIN encMetadataRecs : encMetadataRecs[i].key = symKey
      BY <2>1, <2>4
    <3>2. UNCHANGED <<symKey, encMetadataRecs>>
      BY <2>1 DEF decKeys, decBuffers
    <3>3. QED
      BY <2>1, <2>2, <2>3, <2>4, <3>1, <3>2 DEF Following
  <2>5. QED
    BY <1>3, <2>1, <2>4
<1>7. decState # "done" \/ ReadsOn \/ decState' = "failed" \/ LeadingMagic \/ EndScan \/ Verify
  BY DEF DecNext, Buffer, TrySlot, OpenAttachment, OpenEncChunk, StepOver, CutShort, Reads
<1>8. QED
  BY <1>2, <1>3, <1>4, <1>5, <1>6, <1>7, DecSteps

\* The invariant of the pipeline, with what a decryption has read.
LEMMA ReadKeeps ==
  ASSUME PipeInv, ReadPart, [Next]_vars PROVE ReadPart'
<1>1. ASSUME stage = "decrypt", UNCHANGED decVars PROVE ReadPart'
  <2>1. UNCHANGED <<encFile, holder, decPos, symKey, manifestRequired, manifest, defs, attachments,
                    metadataRecs, encMetadataRecs, decChunkIdx, writer, delivered, decState>>
    BY <1>1 DEF decVars
  <2>2. Read' = Read /\ (DecInit => DecInit')
    BY <2>1 DEF Read, Section, DecInit
  <2>3. Followed(Read) => Followed(Read)'
    BY <2>1, <2>2 DEF Followed
  <2>4. ManifestHolds => ManifestHolds'
    BY <2>1 DEF ManifestHolds
  <2>5. Following => Following'
    BY <2>1, <2>2, <2>3, <2>4 DEF Following
  <2>6. QED
    BY <1>1, <2>1, <2>5 DEF ReadPart
<1>2. CASE Decrypt
  <2>1. stage = "decrypt" /\ DecNext
    BY <1>2 DEF Decrypt
  <2>2. encFile' = encFile /\ holder' = holder
    BY <2>1 DEF DecNext, LeadingMagic, Buffer, TrySlot, OpenAttachment, OpenEncChunk, StepOver,
       CutShort, EndScan, Verify
  <2>3. StoredPart /\ encFile = stored /\ symKey \in Keys \cup {NoKey}
    BY <2>1 DEF PipeInv, DecPart, Decrypting
  <2>4. QED
    BY <2>1, <2>2, <2>3, FollowingKeeps DEF ReadPart
<1>3. ASSUME NEW h \in Holders, BeginDecrypt(h) PROVE ReadPart'
  <2>1. DecInit
    BY <1>3 DEF BeginDecrypt, PipeInv, DecPart
  <2>2. DecInit' /\ decState' = "idle"
    BY <1>3, <2>1 DEF BeginDecrypt, DecInit, decKeys, decBuffers, decOutput
  <2>3. QED
    BY <2>2 DEF ReadPart, Following
<1>4. CASE UNCHANGED vars
  <2>1. UNCHANGED decVars /\ stage' = stage
    BY <1>4 DEF vars
  <2>2. QED
    BY <1>1, <2>1 DEF ReadPart
<1>5. ASSUME stage' # "decrypt" PROVE ReadPart'
  BY <1>5 DEF ReadPart
<1>6. CASE Next
  <2>1. CASE Encrypt \/ InputChanges
    BY <1>5, <2>1 DEF Encrypt, InputChanges
  <2>2. CASE Store \/ Interrupt \/ Damage \/ EndRotate
    BY <1>5, <2>2 DEF Store, Interrupt, Damage, EndRotate
  <2>3. CASE Rotate
    BY <1>5, <2>3 DEF Rotate
  <2>4. CASE \E h \in Holders, new \in NewLists : BeginRotate(h, new)
    BY <1>5, <2>4 DEF BeginRotate
  <2>5. CASE \E tool \in Tools :
               \/ EncryptElsewhere(tool)
               \/ \E h \in Holders, new \in NewLists : RotateElsewhere(tool, h, new)
    BY <1>5, <2>5 DEF EncryptElsewhere, RotateElsewhere
  <2>6. QED
    BY <1>2, <1>3, <1>6, <2>1, <2>2, <2>3, <2>4, <2>5 DEF Next
<1>7. QED
  BY <1>4, <1>6

\* A decryption with a key at hand holds exactly what the records it has read
\* make of it, in every state of the pipeline.
THEOREM DecryptionFollowsFile == Spec => [](PipeInv /\ ReadPart)
<1>1. Init => PipeInv /\ ReadPart
  BY PipeStarts DEF Init, ReadPart
<1>2. PipeInv /\ ReadPart /\ [Next]_vars => (PipeInv /\ ReadPart)'
  BY PipeKeeps, ReadKeeps
<1>3. QED
  BY <1>1, <1>2, PTL DEF Spec

-----------------------------------------------------------------------------
(* Chunks that open are those of the recording.                            *)

\* A reader who has a key and a manifest that holds has all chunks of the
\* recording, if the manifest vouches for them.
LEMMA VouchedIsWhole ==
  ASSUME NEW s, NEW rec, NEW R, Part(s, rec, Given(R)), NEW n, Vouches(s, n),
         NEW h, KeyFor(s, h) # NoKey, LastManifestHolds(s, h)
  PROVE  Tally(s) = n
<1>1. IsSeq(s) /\ Keyed(s)
  BY PartIsKeyed DEF Part
<1>2. Own(s, h) # {}
  BY <1>1, KeyIs
<1>3. PICK i \in DOMAIN s : s[i].op = "slot" /\ OpensFor(s[i], h)
  BY <1>2 DEF Own
<1>4. RequiresManifest(s[i])
  BY <1>3 DEF OpensFor, Decodes, RequiresManifest, Vouches, WrappedKeyVersion, LegacyVersion
<1> DEFINE m == OfKind(s, {"manifest"})
           l == m[Len(m)]
<1>5. m # <<>> /\ l.key = KeyFor(s, h) /\ l.count = Tally(s)
  BY <1>3, <1>4 DEF LastManifestHolds, Tally
<1>6. /\ IsSeq(m) /\ Len(m) \in Nat /\ DOMAIN m = 1..Len(m)
      /\ Elements(m) = {r \in Elements(s) : r.op \in {"manifest"}}
  BY <1>1, OfKindIsSeq
<1> HIDE DEF m
<1>7. Len(m) \in DOMAIN m
  BY <1>5, <1>6 DEF IsSeq
<1>8. l \in Elements(s) /\ l.op = "manifest"
  BY <1>6, <1>7 DEF Elements
<1>9. l = Placeholder \/ l.count = n
  BY <1>8 DEF Vouches, Elements
<1>10. l # Placeholder
  BY <1>5 DEF Placeholder, Manifest
<1>11. QED
  BY <1>5, <1>9, <1>10

-----------------------------------------------------------------------------
(* Chunks in order.                                                        *)

\* Whatever is left out, what is selected of the recording is in its order.
LEMMA SelectionInOrder ==
  ASSUME EncBase, NEW at \in SUBSET DOMAIN Rec
  PROVE  InOrder(Yielding(Selected(Rec, at)))
<1> DEFINE x == Selected(Rec, at)
           P == MessagesAt(x)
           T == Through(at, P)
           M == MessagesAt(Rec)
<1>1. IsSeq(Rec) /\ Len(Rec) \in Nat /\ DOMAIN Rec = 1..Len(Rec)
  BY RecIs
<1>2. /\ Cardinality(at) \in Nat /\ Enumerates(Sorted(at), Cardinality(at), at)
      /\ x = [k \in 1..Cardinality(at) |-> Rec[Sorted(at)[k]]]
  BY <1>1, SelectedBy
<1>3. P \in SUBSET DOMAIN x /\ Yielding(x) = Selected(x, P)
  BY DEF MessagesAt, Yielding
<1>4. Selected(x, P) = Selected(Rec, T)
  <2> HIDE DEF P
  <2>1. QED
    BY <1>1, <1>3, SelectedTwice
<1>5. T \subseteq M
  <2> SUFFICES ASSUME NEW k \in P PROVE Sorted(at)[k] \in M
    BY DEF Through
  <2>1. k \in 1..Cardinality(at) /\ Yields(x[k])
    BY <1>2 DEF MessagesAt
  <2> HIDE DEF x, P
  <2>2. Sorted(at)[k] \in at /\ x[k] = Rec[Sorted(at)[k]]
    BY <1>2, <2>1 DEF Enumerates
  <2>3. QED
    BY <2>1, <2>2 DEF MessagesAt
<1>6. M \in SUBSET DOMAIN Rec
  BY DEF MessagesAt
<1>7. Original = Selected(Rec, M)
  BY OriginalIs DEF Yielding, MessagesAt
<1> HIDE DEF x, P, T, M
<1> DEFINE X == {k \in 1..Cardinality(M) : Sorted(M)[k] \in T}
<1>8. /\ Enumerates(Sorted(M), Cardinality(M), M)
      /\ DOMAIN Selected(Rec, M) = 1..Cardinality(M)
  BY <1>1, <1>6, SelectedBy, SelectedIsSeq
<1>9. X \in SUBSET DOMAIN Selected(Rec, M)
  BY <1>8
<1>10. Through(M, X) = T
  <2>1. ASSUME NEW i \in T PROVE i \in Through(M, X)
    <3>1. PICK k \in 1..Cardinality(M) : Sorted(M)[k] = i
      BY <1>5, <1>8 DEF Enumerates
    <3>2. k \in X
      BY <3>1
    <3> HIDE DEF X
    <3>3. QED
      BY <3>1, <3>2 DEF Through
  <2>2. ASSUME NEW i \in Through(M, X) PROVE i \in T
    <3>1. PICK k \in X : i = Sorted(M)[k]
      BY DEF Through
    <3>2. QED
      BY <3>1
  <2>3. QED
    BY <2>1, <2>2
<1> HIDE DEF X
<1>11. Selected(Selected(Rec, M), X) = Selected(Rec, T)
  BY <1>1, <1>6, <1>9, <1>10, SelectedTwice
<1>12. Yielding(x) = Selected(Original, X) /\ X \in SUBSET DOMAIN Original
  BY <1>3, <1>4, <1>7, <1>9, <1>11
<1>13. InOrder(Yielding(x))
  BY <1>12 DEF InOrder
<1>14. QED
  BY <1>13 DEF x

\* So is a beginning of the recording.
LEMMA FrontInOrder ==
  ASSUME EncBase, NEW n \in 0..Len(Rec)
  PROVE  InOrder(Yielding(SubSeq(Rec, 1, n)))
<1>1. IsSeq(Rec)
  BY RecIs
<1>2. 1..n \in SUBSET DOMAIN Rec /\ SubSeq(Rec, 1, n) = Selected(Rec, 1..n)
  BY <1>1, FrontIsSelected
<1> DEFINE at == 1..n
<1> HIDE DEF at
<1>3. InOrder(Yielding(Selected(Rec, at)))
  BY <1>2, SelectionInOrder DEF at
<1>4. QED
  BY <1>2, <1>3 DEF at

\* Nothing is in order.
LEMMA NothingInOrder == ASSUME EncBase PROVE InOrder(Yielding(<<>>))
<1>1. IsSeq(Rec) /\ Len(Rec) \in Nat
  BY RecIs
<1>2. PICK n \in 0..Len(Rec) : n = 0
  BY <1>1
<1>3. SubSeq(Rec, 1, 0) = <<>>
  OBVIOUS
<1>4. QED
  BY <1>2, <1>3, FrontInOrder

\* The section of the file a reader makes out, up to records of some kinds.
LEMMA SectionOfFile ==
  ASSUME StoredPart, encFile = stored, Len(encFile) > 0, encFile[1].op = "magic",
         NEW ops, ops \subseteq Ends
  PROVE  LET s == UpTo(Section, ops)
         IN /\ IsSeq(s) /\ Keyed(s) /\ Part(s, Rec, Given(readers))
            /\ \A i \in DOMAIN s : s[i].op \notin ops
            /\ vouched => Vouches(s, Len(Rec))
<1> DEFINE s == UpTo(Section, ops)
<1>1. Section = SubSeq(stored, 2, Len(stored))
  BY DEF Section
<1>2. IsSeq(s) /\ Part(s, Rec, Given(readers)) /\ \A i \in DOMAIN s : s[i].op \notin ops
  BY <1>1, SectionIs
<1>3. Keyed(s)
  BY <1>2, PartIsKeyed
<1>4. Elements(s) \subseteq Elements(stored)
  <2>1. /\ IsSeq(Section) /\ DOMAIN Section = 1..(Len(stored) - 1)
        /\ \A i \in 1..(Len(stored) - 1) : Section[i] = stored[i + 1] /\ i + 1 \in DOMAIN stored
    BY <1>1, BehindMagic DEF StoredPart, Part
  <2>2. PICK m \in 0..Len(Section) : s = SubSeq(Section, 1, m)
    BY <2>1, UpToIsFront
  <2>3. DOMAIN s = 1..m /\ \A i \in 1..m : s[i] = Section[i] /\ i \in DOMAIN Section
    BY <2>1, <2>2, FrontOf
  <2> HIDE DEF s
  <2>4. \A i \in DOMAIN s : s[i] \in Elements(stored)
    BY <2>1, <2>3 DEF Elements
  <2>5. QED
    BY <2>4 DEF Elements
<1> HIDE DEF s
<1>5. vouched => Vouches(s, Len(Rec))
  BY <1>2, <1>4, ByElement DEF StoredPart
<1>6. QED
  BY <1>2, <1>3, <1>5 DEF s

\* Python's iterator yields a beginning of the recording.
LEMMA PyIteratesInOrder ==
  ASSUME EncBase, StoredPart, encFile = stored
  PROVE  InOrder(Yielding(PyIterated(encFile, holder)))
<1> DEFINE s == UpTo(Section, PyEnds)
           x == PyIterated(encFile, holder)
<1>1. CASE x = <<>>
  BY <1>1, NothingInOrder
<1>2. CASE Len(encFile) > 0 /\ encFile[1].op = "magic" /\ x = Opened(s, KeyFor(s, holder))
  <2>1. PyEnds \subseteq Ends
    BY DEF PyEnds, Ends
  <2>2. Part(s, Rec, Given(readers)) /\ IsSeq(Rec)
    BY <1>2, <2>1, SectionOfFile, RecIs
  <2> HIDE DEF s
  <2>3. PICK n \in 0..Len(Rec) : Opened(s, KeyFor(s, holder)) = SubSeq(Rec, 1, n)
    BY <2>2, OpenedIsFront
  <2>4. QED
    BY <1>2, <2>3, FrontInOrder
<1>3. QED
  BY <1>1, <1>2 DEF PyIterated, PySection, Section

\* TypeScript's passes over chunks of unknown channels, and keeps the order.
LEMMA TsIteratesInOrder ==
  ASSUME EncBase, StoredPart, encFile = stored
  PROVE  InOrder(Yielding(TsIterated(encFile, holder)))
<1> DEFINE u == UpTo(Section, {"footer"})
           s == UpTo(u, {"torn", "magic"})
           ends == Len(UpTo(s, {"dataEnd"}))
           Known(i) == Elements(DefIds(SubSeq(s, 1, IF i - 1 < ends THEN i - 1 ELSE ends)))
           C == {i \in DOMAIN s : s[i].op = "encChunk"}
           at == Sorted(C)
           Good(n) == /\ KeyFor(SubSeq(s, 1, at[n] - 1), holder) # NoKey
                      /\ Opens(s[at[n]], KeyFor(s, holder), n - 1)
           N == {n \in DOMAIN at : /\ \A m \in 1..n : Good(m)
                                   /\ Uses[s[at[n]].body] \subseteq Known(at[n])}
           shown == Selected(at, N)
           y == Records(shown, LAMBDA i : s[i].body)
           x == TsIterated(encFile, holder)
<1>1. x = <<>> \/ (Len(encFile) > 0 /\ encFile[1].op = "magic" /\ x = y)
  BY DEF TsIterated, TsSection, Section
<1>2. CASE x = <<>>
  BY <1>2, NothingInOrder
<1>3. CASE Len(encFile) > 0 /\ encFile[1].op = "magic" /\ x = y
  <2>1. {"footer"} \subseteq Ends
    BY DEF Ends
  <2>2. IsSeq(u) /\ Part(u, Rec, Given(readers))
    BY <1>3, <2>1, SectionOfFile
  <2> HIDE DEF u
  <2>3. IsSeq(s) /\ Elements(s) \subseteq Elements(u)
    <3>1. PICK m \in 0..Len(u) : s = SubSeq(u, 1, m)
      BY <2>2, UpToIsFront
    <3>2. IsSeq(s) /\ DOMAIN s = 1..m /\ \A i \in 1..m : s[i] = u[i] /\ i \in DOMAIN u
      BY <2>2, <3>1, FrontOf
    <3> HIDE DEF s
    <3>3. QED
      BY <3>2 DEF Elements
  <2> HIDE DEF s
  <2>4. Part(s, Rec, Given(readers))
    BY <2>2, <2>3, ByElement
  <2>5. C = KindAt(s, {"encChunk"}) /\ C \in SUBSET DOMAIN s
    BY DEF KindAt
  <2>6. /\ Cardinality(C) \in Nat /\ Enumerates(Sorted(C), Cardinality(C), C)
        /\ Selected(s, C) = [k \in 1..Cardinality(C) |-> s[Sorted(C)[k]]]
    <3> HIDE DEF C
    <3>1. QED
      BY <2>3, <2>5, SelectedBy
  <2>7. EncChunks(s) = Selected(s, C) /\ Tally(s) = Cardinality(C)
    <3>1. EncChunks(s) = Selected(s, C)
      BY <2>5, OfKindForm DEF EncChunks
    <3> HIDE DEF C
    <3>2. Len(Selected(s, C)) = Cardinality(C)
      BY <2>3, <2>5, SelectedIsSeq
    <3>3. QED
      BY <3>1, <3>2 DEF EncChunks, Tally
  <2> DEFINE c == Cardinality(C)
  <2>8. /\ c \in Nat /\ DOMAIN at = 1..c /\ IsSeq(at)
        /\ \A k \in 1..c : at[k] \in C /\ EncChunks(s)[k] = s[at[k]]
    <3> HIDE DEF C
    <3>1. at \in [1..c -> C] /\ c \in Nat
      BY <2>6 DEF Enumerates
    <3>2. \A k \in 1..c : at[k] \in Elements(at)
      BY <3>1 DEF Elements
    <3>3. at \in [1..c -> Elements(at)]
      BY <3>1, <3>2
    <3>4. IsSeq(at)
      BY <3>1, <3>3, OfFunction
    <3>5. \A k \in 1..c : EncChunks(s)[k] = s[at[k]]
      BY <2>6, <2>7
    <3>6. QED
      BY <3>1, <3>4, <3>5
  <2> HIDE DEF C, at, Known, ends
  <2>9. ASSUME NEW n \in N
        PROVE  n \in DOMAIN Rec /\ s[at[n]].body = Rec[n]
    <3>1. n \in 1..c /\ n \in Nat /\ \A m \in 1..n : Opens(s[at[m]], KeyFor(s, holder), m - 1)
      BY <2>8
    <3> DEFINE key == KeyFor(s, holder)
               b == [i \in 1..n |-> EncChunks(s)[i].body]
    <3> HIDE DEF key
    <3>2. OpenUpTo(s, key, n) /\ n \in 0..Tally(s)
      BY <2>7, <2>8, <3>1 DEF OpenUpTo, key
    <3>3. BodiesUpTo(s, b, n)
      <4>1. DOMAIN b = 1..n /\ \A i \in 1..n : b[i] = EncChunks(s)[i].body
        OBVIOUS
      <4> HIDE DEF b
      <4>2. \A i \in 1..n : b[i] \in Elements(b)
        BY <4>1 DEF Elements
      <4>3. b \in [1..n -> Elements(b)]
        <5>1. b = [i \in 1..n |-> b[i]]
          BY DEF b
        <5>2. QED
          BY <4>2, <5>1
      <4>4. IsSeq(b)
        BY <3>1, <4>3, OfFunction
      <4>5. QED
        BY <4>1, <4>4 DEF BodiesUpTo
    <3> HIDE DEF b
    <3>4. IsSeq(Rec) /\ Len(Rec) \in Nat /\ DOMAIN Rec = 1..Len(Rec)
      BY RecIs
    <3>5. n \in 0..Len(Rec) /\ b = SubSeq(Rec, 1, n)
      BY <2>4, <3>2, <3>3, <3>4, OpenedBodies
    <3>6. \A i \in 1..n : SubSeq(Rec, 1, n)[i] = Rec[i]
      BY <3>4, <3>5, FrontOf
    <3>7. n \in 1..n /\ n \in DOMAIN Rec
      BY <3>1, <3>4, <3>5
    <3>8. b[n] = EncChunks(s)[n].body /\ EncChunks(s)[n] = s[at[n]]
      BY <2>8, <3>1, <3>3, <3>7 DEF BodiesUpTo
    <3>9. QED
      BY <3>5, <3>6, <3>7, <3>8
  <2>10. N \in SUBSET DOMAIN at /\ N \in SUBSET DOMAIN Rec
    <3>1. N \in SUBSET DOMAIN at
      OBVIOUS
    <3> HIDE DEF N
    <3>2. QED
      BY <2>9, <3>1
  <2> HIDE DEF N
  <2> DEFINE d == Cardinality(N)
             p == Sorted(N)
  <2>11. /\ d \in Nat /\ p \in [1..d -> N]
         /\ shown = [k \in 1..d |-> at[p[k]]]
    BY <2>8, <2>10, SelectedBy DEF Enumerates
  <2>12. Selected(Rec, N) = [k \in 1..d |-> Rec[p[k]]]
    BY <2>10, RecIs, SelectedBy
  <2> HIDE DEF d, p
  <2>13. y = [k \in 1..d |-> s[shown[k]].body]
    BY <2>11 DEF Records
  <2> HIDE DEF shown
  <2>14. \A k \in 1..d : s[shown[k]].body = Rec[p[k]]
    BY <2>9, <2>11
  <2>15. y = Selected(Rec, N)
    BY <2>12, <2>13, <2>14
  <2>16. InOrder(Yielding(Selected(Rec, N)))
    BY <2>10, SelectionInOrder
  <2> HIDE DEF y
  <2>17. QED
    BY <1>3, <2>15, <2>16
<1>4. QED
  BY <1>1, <1>2, <1>3

-----------------------------------------------------------------------------
(* The other packages are as strict.                                       *)

\* A decryption that came to the end of the file has read what Python and
\* TypeScript take for its section.
LEMMA ReadIsSection ==
  ASSUME StoredPart, encFile = stored, Following, decState \in {"checking", "done"}
  PROVE  /\ UpTo(Section, PyEnds) = Read /\ UpTo(Section, {"footer"}) = Read
         /\ IsSeq(Read) /\ Keyed(Read) /\ Part(Read, Rec, Given(readers))
         /\ Len(encFile) > 0 /\ encFile[1].op = "magic" /\ Followed(Read)
         /\ TsReads(Section)
<1>1. /\ Len(encFile) > 0 /\ encFile[1].op = "magic" /\ decPos \in 2..(Len(encFile) + 1)
      /\ \A i \in DOMAIN Read : Read[i].op \notin PyEnds
      /\ decPos <= Len(encFile) => encFile[decPos].op = "footer"
      /\ Followed(Read)
  BY DEF Following
<1>2. /\ IsSeq(Section) /\ Len(Section) = Len(encFile) - 1 /\ Len(encFile) \in Nat
      /\ IsSeq(Read) /\ Keyed(Read) /\ DOMAIN Read = 1..(decPos - 2)
      /\ \A i \in 1..(decPos - 2) : Read[i] = Section[i]
      /\ decPos <= Len(encFile) => encFile[decPos] = Section[decPos - 1]
  BY <1>1, ReadIs DEF Read
<1>3. PICK m \in 0..Len(Section) : m = decPos - 2
  <2>1. decPos - 2 \in 0..Len(Section)
    BY <1>1, <1>2
  <2>2. QED
    BY <2>1
<1>4. /\ \A i \in 1..m : Section[i].op \notin PyEnds
      /\ m < Len(Section) => Section[m + 1].op = "footer"
      /\ Read = SubSeq(Section, 1, m)
  <2>1. Read = SubSeq(Section, 1, m)
    BY <1>3 DEF Read
  <2>2. \A i \in 1..m : Section[i].op \notin PyEnds
    BY <1>1, <1>2, <1>3
  <2>3. ASSUME m < Len(Section) PROVE Section[m + 1].op = "footer"
    <3>1. decPos <= Len(encFile) /\ m + 1 = decPos - 1
      BY <1>1, <1>2, <1>3, <2>3
    <3>2. QED
      BY <1>1, <1>2, <3>1
  <2>4. QED
    BY <2>1, <2>2, <2>3
<1>5. UpTo(Section, PyEnds) = Read
  <2>1. m < Len(Section) => Section[m + 1].op \in PyEnds
    BY <1>4 DEF PyEnds
  <2>2. QED
    BY <1>2, <1>4, <2>1, UpToIs
<1>6. UpTo(Section, {"footer"}) = Read
  <2> DEFINE ops == {"footer"}
  <2>1. (\A i \in 1..m : Section[i].op \notin ops) /\ (m < Len(Section) => Section[m + 1].op \in ops)
    BY <1>4 DEF PyEnds
  <2> HIDE DEF ops
  <2>2. UpTo(Section, ops) = Read
    BY <1>2, <1>4, <2>1, UpToIs
  <2>3. QED
    BY <2>2 DEF ops
<1>7. Part(Read, Rec, Given(readers))
  <2>1. PyEnds \subseteq Ends
    BY DEF PyEnds, Ends
  <2>2. QED
    BY <1>1, <1>5, <2>1, SectionOfFile
<1>8. TsReads(Section)
  <2> DEFINE K == {"torn", "magic"}
  <2>1. \A i \in DOMAIN Read : Read[i].op \notin K
    BY <1>1 DEF PyEnds
  <2> HIDE DEF K
  <2>2. OfKind(Read, K) = <<>>
    BY <1>2, <2>1, OfKindNone
  <2>3. QED
    BY <1>6, <2>2 DEF TsReads, K
<1>9. QED
  BY <1>1, <1>2, <1>5, <1>6, <1>7, <1>8

\* The last of a kind is the one that was kept, and what it says was checked.
LEMMA ManifestIsLast ==
  ASSUME NEW s, IsSeq(s), Followed(s), ManifestHolds
  PROVE  LastManifestHolds(s, holder)
<1> DEFINE m == OfKind(s, {"manifest"})
<1>1. manifest = Latest(m) /\ symKey = KeyFor(s, holder) /\ decChunkIdx = Tally(s)
      /\ (manifestRequired <=> SlotsRequire(s))
  BY DEF Followed
<1>2. CASE m = <<>>
  <2>1. manifest = <<>>
    BY <1>1, <1>2 DEF Latest
  <2>2. ~ SlotsRequire(s)
    BY <1>1, <2>1 DEF ManifestHolds
  <2>3. QED
    BY <1>2, <2>2 DEF LastManifestHolds, SlotsRequire
<1>3. CASE m # <<>>
  <2> HIDE DEF m
  <2>1. manifest = <<m[Len(m)]>>
    BY <1>1, <1>3 DEF Latest
  <2>2. manifest # <<>> /\ manifest[1] = m[Len(m)]
    <3>1. \A x : <<x>> # <<>> /\ <<x>>[1] = x
      OBVIOUS
    <3>2. QED
      BY <2>1, <3>1
  <2>3. m[Len(m)].key = KeyFor(s, holder) /\ m[Len(m)].count = Tally(s)
    BY <1>1, <2>2 DEF ManifestHolds
  <2>4. QED
    BY <1>3, <2>3 DEF LastManifestHolds, Tally, m
<1>4. QED
  BY <1>2, <1>3

\* Encrypted metadata is kept until the end, and opens then.
LEMMA MetadataOpens ==
  ASSUME NEW s, IsSeq(s), Followed(s),
         \A i \in DOMAIN encMetadataRecs : encMetadataRecs[i].key = symKey
  PROVE  \A i \in DOMAIN s : s[i].op = "encMetadata" => s[i].key = KeyFor(s, holder)
<1> SUFFICES ASSUME NEW i \in DOMAIN s, s[i].op = "encMetadata"
             PROVE  s[i].key = KeyFor(s, holder)
  OBVIOUS
<1> DEFINE q == OfKind(s, {"encMetadata"})
<1>1. encMetadataRecs = q /\ symKey = KeyFor(s, holder)
  BY DEF Followed
<1>2. Elements(q) = {r \in Elements(s) : r.op \in {"encMetadata"}}
  BY OfKindIsSeq
<1> HIDE DEF q
<1>3. s[i] \in Elements(q)
  BY <1>2 DEF Elements
<1>4. PICK k \in DOMAIN q : q[k] = s[i]
  BY <1>3 DEF Elements
<1>5. QED
  BY <1>1, <1>4

\* Where a decryption succeeds the other two do, with the same content.
LEMMA OthersDecrypt ==
  ASSUME EncBase, StoredPart, Decrypting, Following, decState = "done"
  PROVE  LET py == PyDecrypted(encFile, holder)
         IN /\ PyDecrypts(encFile, holder) /\ TsDecrypts(encFile, holder)
            /\ Yielding(py.chunks) = delivered
            /\ py.attachments = attachments
            /\ py.metadata = WrittenMetadata
<1> DEFINE s == Read
           py == PyDecrypted(encFile, holder)
<1>1. /\ UpTo(Section, PyEnds) = s /\ UpTo(Section, {"footer"}) = s
      /\ IsSeq(s) /\ Keyed(s) /\ Part(s, Rec, Given(readers))
      /\ Len(encFile) > 0 /\ encFile[1].op = "magic" /\ Followed(s)
      /\ TsReads(Section)
  BY ReadIsSection DEF Decrypting
<1>2. /\ symKey # NoKey /\ ManifestHolds
      /\ \A i \in DOMAIN encMetadataRecs : encMetadataRecs[i].key = symKey
  BY DEF Following
<1> HIDE DEF s
<1>3. /\ KeyFor(s, holder) # NoKey /\ KeyFor(s, holder) = symKey
      /\ ChunksOpen(s, holder) /\ LaterOnesOpen(s, holder, {"encAttachment"})
  BY <1>1, <1>2 DEF Followed
<1>4. LastManifestHolds(s, holder)
  BY <1>1, <1>2, ManifestIsLast
<1>5. \A i \in DOMAIN s : s[i].op = "encMetadata" => s[i].key = KeyFor(s, holder)
  BY <1>1, <1>2, MetadataOpens
<1>6. PyDecrypts(encFile, holder)
  <2>1. PySection(encFile, PyEnds) = s
    BY <1>1 DEF PySection, Section
  <2>2. QED
    BY <1>1, <1>3, <1>4, <1>5, <2>1 DEF PyDecrypts
<1>7. TsDecrypts(encFile, holder)
  <2>1. TsSection(encFile, {"footer"}) = s
    BY <1>1 DEF TsSection, Section
  <2>2. LaterOnesOpen(s, holder, {"encMetadata"})
    <3> DEFINE K == {"encMetadata"}
    <3>1. \A i \in DOMAIN s : s[i].op \in K => KeyFor(s, holder) = s[i].key
      BY <1>5
    <3> HIDE DEF K
    <3>2. LaterOnesOpen(s, holder, K)
      BY <1>1, <3>1, KeyedOnesOpen
    <3>3. QED
      BY <3>2 DEF K
  <2>3. LaterOnesOpen(s, holder, {"encAttachment", "encMetadata"})
    BY <1>3, <2>2 DEF LaterOnesOpen
  <2>4. QED
    BY <1>1, <1>3, <1>4, <2>1, <2>3 DEF TsDecrypts, Section
<1>8. /\ py.chunks = Bodies(s, "encChunk")
      /\ py.attachments = Attached(s, holder)
      /\ py.metadata = Bodies(s, "metadata") \o Bodies(s, "encMetadata")
  <2>1. PySection(encFile, PyEnds) = s
    BY <1>1 DEF PySection, Section
  <2>2. QED
    BY <2>1 DEF PyDecrypted, Attached, AttachedAt, Payloads, Records
<1> HIDE DEF py
<1>9. Yielding(py.chunks) = delivered
  <2>1. PICK n \in 0..Len(Rec) : Played(n) /\ n = decChunkIdx
    BY DEF Decrypting
  <2>2. Bodies(s, "encChunk") = SubSeq(Rec, 1, Tally(s))
    BY <1>1, <1>3, RecIs, ChunksAreFront
  <2>3. decChunkIdx = Tally(s)
    BY <1>1 DEF Followed
  <2>4. QED
    BY <1>8, <2>1, <2>2, <2>3 DEF Played
<1>10. py.attachments = attachments
  BY <1>1, <1>8 DEF Followed
<1>11. py.metadata = WrittenMetadata
  <2>1. metadataRecs = Bodies(s, "metadata") /\ encMetadataRecs = OfKind(s, {"encMetadata"})
    BY <1>1 DEF Followed
  <2>2. Bodies(s, "encMetadata") = [i \in DOMAIN encMetadataRecs |-> encMetadataRecs[i].body]
    BY <2>1 DEF Bodies
  <2>3. QED
    BY <1>8, <2>1, <2>2 DEF WrittenMetadata
<1>12. QED
  BY <1>6, <1>7, <1>9, <1>10, <1>11 DEF py

\* A reader that opens every chunk, and has checked the manifest, has all.
LEMMA StrictIsWhole ==
  ASSUME EncBase, StoredPart, vouched, NEW s, Part(s, Rec, Given(readers)), Vouches(s, Len(Rec)),
         NEW h, KeyFor(s, h) # NoKey, ChunksOpen(s, h), LastManifestHolds(s, h)
  PROVE  Yielding(Bodies(s, "encChunk")) = Original
<1>1. IsSeq(s) /\ Keyed(s)
  BY PartIsKeyed DEF Part
<1>2. IsSeq(Rec)
  BY RecIs
<1>3. Bodies(s, "encChunk") = SubSeq(Rec, 1, Tally(s))
  BY <1>1, <1>2, ChunksAreFront
<1>4. Tally(s) = Len(Rec)
  BY VouchedIsWhole
<1>5. Bodies(s, "encChunk") = Rec
  BY <1>2, <1>3, <1>4, FrontIsAll
<1>6. QED
  BY <1>5, OriginalIs

\* Python accepts no file that lacks a chunk it vouches for,
LEMMA PyIsStrict ==
  ASSUME EncBase, StoredPart, encFile = stored, vouched, PyDecrypts(encFile, holder)
  PROVE  Yielding(PyDecrypted(encFile, holder).chunks) = Original
<1> DEFINE s == UpTo(Section, PyEnds)
<1>1. PySection(encFile, PyEnds) = s
  BY DEF PySection, Section
<1>2. /\ Len(encFile) > 0 /\ encFile[1].op = "magic"
      /\ KeyFor(s, holder) # NoKey /\ ChunksOpen(s, holder) /\ LastManifestHolds(s, holder)
  BY <1>1 DEF PyDecrypts
<1>3. PyEnds \subseteq Ends
  BY DEF PyEnds, Ends
<1>4. Part(s, Rec, Given(readers)) /\ Vouches(s, Len(Rec))
  BY <1>2, <1>3, SectionOfFile
<1>5. PyDecrypted(encFile, holder).chunks = Bodies(s, "encChunk")
  BY <1>1 DEF PyDecrypted
<1> HIDE DEF s
<1>6. Yielding(Bodies(s, "encChunk")) = Original
  BY <1>2, <1>4, StrictIsWhole
<1>7. QED
  BY <1>5, <1>6

\* nor does TypeScript, unless it has forgotten what was ahead of a header.
LEMMA TsIsStrict ==
  ASSUME EncBase, StoredPart, encFile = stored, vouched, TsDecrypts(encFile, holder),
         TsLastHeader(Section) <= 1
  PROVE  Yielding(TsDecrypted(encFile, holder).chunks) = Original
<1> DEFINE s == UpTo(Section, {"footer"})
           ends == Len(UpTo(s, {"dataEnd"}))
           at == {i \in DOMAIN s :
                    /\ i > TsLastHeader(s)
                    /\ \/ s[i].op = "" /\ i <= ends
                       \/ /\ s[i].op = "encChunk"
                          /\ KeyFor(SubSeq(s, 1, i - 1), holder) # NoKey}
<1>1. TsSection(encFile, {"footer"}) = s
  BY DEF TsSection, Section
<1>2. /\ Len(encFile) > 0 /\ encFile[1].op = "magic"
      /\ KeyFor(s, holder) # NoKey /\ ChunksOpen(s, holder) /\ LastManifestHolds(s, holder)
  BY <1>1 DEF TsDecrypts
<1>3. {"footer"} \subseteq Ends
  BY DEF Ends
<1>4. Part(s, Rec, Given(readers)) /\ Vouches(s, Len(Rec)) /\ IsSeq(s)
  BY <1>2, <1>3, SectionOfFile
<1>5. TsDecrypted(encFile, holder).chunks = Bodies(Selected(s, at), "encChunk")
  BY <1>1 DEF TsDecrypted
<1>6. TsLastHeader(s) <= 1 /\ \A i \in DOMAIN s : s[i].op = "encChunk" => i > TsLastHeader(s)
  <2> DEFINE H(r) == {i \in DOMAIN r : r[i].op = "header"}
  <2>1. /\ IsSeq(Section) /\ Len(Section) \in Nat /\ DOMAIN Section = 1..Len(Section)
    <3>1. IsSeq(Section)
      BY <1>2, BehindMagic DEF Section, StoredPart, Part
    <3>2. QED
      BY <3>1, AsFunction
  <2>2. PICK m \in 0..Len(Section) : s = SubSeq(Section, 1, m)
    BY <2>1, UpToIsFront
  <2>3. DOMAIN s = 1..m /\ \A i \in 1..m : s[i] = Section[i] /\ i \in DOMAIN Section
    BY <2>1, <2>2, FrontOf
  <2> HIDE DEF s
  <2>4. \A i \in H(Section) : i <= 1
    <3>1. SUFFICES ASSUME NEW i \in H(Section) PROVE i <= 1
      OBVIOUS
    <3>2. H(Section) \in SUBSET (1..Len(Section)) /\ H(Section) # {}
      BY <2>1, <3>1
    <3>3. \A j \in H(Section) : j <= Last(H(Section))
      BY <2>1, <3>2, LastIs
    <3>4. TsLastHeader(Section) = Last(H(Section))
      BY <3>2 DEF TsLastHeader
    <3>5. i <= Last(H(Section)) /\ Last(H(Section)) \in Nat /\ i \in Nat
      <4>1. Last(H(Section)) \in H(Section)
        BY <2>1, <3>2, LastIs
      <4>2. QED
        BY <3>1, <3>2, <3>3, <4>1
    <3> HIDE DEF H
    <3>6. QED
      BY <3>4, <3>5
  <2>5. \A i \in H(s) : i \in H(Section)
    BY <2>3
  <2>6. \A i \in H(s) : i = 1
    BY <2>1, <2>3, <2>4, <2>5
  <2>7. CASE H(s) = {}
    <3>1. TsLastHeader(s) = 0
      BY <2>7 DEF TsLastHeader
    <3>2. QED
      BY <2>3, <3>1
  <2>8. CASE H(s) # {}
    <3>1. H(s) = {1} /\ 1 \in DOMAIN s /\ s[1].op = "header"
      BY <2>6, <2>8
    <3>2. H(s) \in SUBSET (1..m) /\ m \in Nat
      BY <2>1, <2>3
    <3>3. Last(H(s)) \in H(s)
      BY <2>8, <3>2, LastIs
    <3>4. TsLastHeader(s) = 1
      BY <2>8, <3>1, <3>3 DEF TsLastHeader
    <3>5. \A i \in DOMAIN s : s[i].op = "encChunk" => i # 1
      BY <3>1
    <3>6. QED
      BY <2>3, <3>4, <3>5
  <2>9. QED
    BY <2>7, <2>8
<1> HIDE DEF s, ends
<1>7. \A i \in DOMAIN s : s[i].op = "encChunk" => KeyFor(SubSeq(s, 1, i - 1), holder) # NoKey
  BY <1>2 DEF ChunksOpen
<1>8. at \in SUBSET DOMAIN s /\ KindAt(s, {"encChunk"}) \subseteq at
  BY <1>6, <1>7 DEF KindAt
<1> HIDE DEF at
<1>9. OfKind(Selected(s, at), {"encChunk"}) = OfKind(s, {"encChunk"})
  BY <1>4, <1>8, KindSelected
<1>10. Bodies(Selected(s, at), "encChunk") = Bodies(s, "encChunk")
  BY <1>9 DEF Bodies
<1>11. Yielding(Bodies(s, "encChunk")) = Original
  BY <1>2, <1>4, StrictIsWhole
<1>12. QED
  BY <1>5, <1>10, <1>11

\* Whatever happens to a file, decrypt_mcap and decryptMcap accept it if Go
\* does, with the same content, and accept none that lacks a chunk it vouches
\* for; their iterators yield nothing out of order (decrypt.py, decrypt.ts).
THEOREM OthersAreStrict == Spec => []EveryToolIsStrict
<1>1. PipeInv /\ ReadPart => EveryToolIsStrict
  <2>1. SUFFICES ASSUME PipeInv, ReadPart, decState \in {"done", "failed"}, holder \notin KmsHeld
                 PROVE  EveryToolIsStrict
    BY DEF EveryToolIsStrict
  <2>2. stage = "decrypt"
    BY <2>1 DEF PipeInv, DecPart, DecInit
  <2>3. EncBase /\ StoredPart /\ Decrypting /\ encFile = stored
    BY <2>1, <2>2 DEF PipeInv, DecPart, Decrypting
  <2>4. Following
    BY <2>1, <2>2 DEF ReadPart
  <2>5. QED
    BY <2>3, <2>4, OthersDecrypt, PyIsStrict, TsIsStrict, PyIteratesInOrder, TsIteratesInOrder
       DEF EveryToolIsStrict, Section
<1>2. QED
  BY <1>1, DecryptionFollowsFile, PTL

-----------------------------------------------------------------------------
(* The scan of the streaming bridge.                                       *)

\* The bridge scans what Python takes for the section of the file.
LEMMA ScanIs ==
  ASSUME NEW f, IsSeq(f), Len(f) > 0
  PROVE  LET s == UpTo(SubSeq(f, 2, Len(f)), PyEnds)
         IN /\ IsSeq(s) /\ Len(s) \in Nat /\ DOMAIN s = 1..Len(s)
            /\ ScanEnd(f) = Len(s) + 2
            /\ \A i \in DOMAIN s : s[i] = f[i + 1]
            /\ \A op : Met(f, op) = Moved({i \in DOMAIN s : s[i].op = op})
<1> DEFINE back == SubSeq(f, 2, Len(f))
           s == UpTo(back, PyEnds)
<1>1. /\ IsSeq(back) /\ Len(back) = Len(f) - 1 /\ Len(f) \in Nat
      /\ DOMAIN back = 1..(Len(f) - 1)
      /\ \A i \in 1..(Len(f) - 1) : back[i] = f[i + 1]
  BY BehindMagic
<1> HIDE DEF back
<1>2. PICK m \in 0..Len(back) :
        /\ s = SubSeq(back, 1, m)
        /\ \A i \in 1..m : back[i].op \notin PyEnds
        /\ m < Len(back) => back[m + 1].op \in PyEnds
  BY <1>1, UpToIsFront
<1>3. /\ IsSeq(s) /\ Len(s) = m /\ DOMAIN s = 1..m
      /\ \A i \in 1..m : s[i] = back[i] /\ i \in DOMAIN back
  BY <1>1, <1>2, FrontOf
<1> HIDE DEF s
<1>4. m \in Nat /\ \A i \in 1..m : s[i] = f[i + 1] /\ s[i].op \notin PyEnds
  BY <1>1, <1>2, <1>3
<1>5. ScanEnd(f) = m + 2
  <2> DEFINE at == {i \in 2..Len(f) : f[i].op \in {"footer", "torn", "magic"}}
                     \cup {Len(f) + 1}
             e == m + 2
  <2>1. at \in SUBSET Nat
    BY <1>1
  <2>2. e \in at
    <3>1. CASE m = Len(back)
      BY <1>1, <3>1
    <3>2. CASE m < Len(back)
      <4>1. m + 1 \in 1..(Len(f) - 1) /\ (m + 1) + 1 = m + 2 /\ m + 2 \in 2..Len(f)
        BY <1>1, <1>4, <3>2
      <4>2. f[m + 2].op \in PyEnds
        BY <1>1, <1>2, <3>2, <4>1
      <4>3. QED
        BY <4>1, <4>2 DEF PyEnds
    <3>3. QED
      BY <1>1, <1>2, <3>1, <3>2
  <2>3. ASSUME NEW i \in at PROVE e <= i
    <3>1. CASE i = Len(f) + 1
      BY <1>1, <1>2, <3>1
    <3>2. CASE i \in 2..Len(f) /\ f[i].op \in PyEnds
      <4>1. SUFFICES ASSUME ~ (e <= i) PROVE FALSE
        OBVIOUS
      <4>2. i - 1 \in 1..m /\ (i - 1) + 1 = i
        BY <1>1, <1>4, <3>2, <4>1
      <4>3. QED
        BY <1>4, <3>2, <4>2
    <3>3. QED
      BY <3>1, <3>2 DEF PyEnds
  <2> HIDE DEF at, e
  <2>4. First(at) = e
    BY <2>1, <2>2, <2>3, FirstIsOnly
  <2>5. QED
    BY <2>4 DEF ScanEnd, at, e
<1>6. ASSUME NEW op PROVE Met(f, op) = Moved({i \in DOMAIN s : s[i].op = op})
  <2>1. (m + 2) - 1 = m + 1
    BY <1>4
  <2>2. Met(f, op) = {i \in 2..(m + 1) : f[i].op = op}
    BY <1>5, <2>1 DEF Met
  <2>3. ASSUME NEW i \in 2..(m + 1), f[i].op = op
        PROVE  i \in Moved({j \in DOMAIN s : s[j].op = op})
    <3>1. i - 1 \in 1..m /\ (i - 1) + 1 = i
      BY <1>4
    <3>2. s[i - 1].op = op
      BY <1>4, <2>3, <3>1
    <3>3. QED
      BY <1>3, <3>1, <3>2 DEF Moved
  <2>4. ASSUME NEW j \in DOMAIN s, s[j].op = op PROVE j + 1 \in 2..(m + 1) /\ f[j + 1].op = op
    BY <1>3, <1>4, <2>4
  <2>5. QED
    BY <2>2, <2>3, <2>4 DEF Moved
<1>7. QED
  BY <1>3, <1>4, <1>5, <1>6 DEF s, back

\* The scan asks of a file what the other readers ask of its section: a key
\* ahead of every chunk, and a last manifest that holds.
LEMMA ScanAsks ==
  ASSUME NEW f, IsSeq(f), Len(f) > 0, NEW h,
         NEW s, s = UpTo(SubSeq(f, 2, Len(f)), PyEnds), Keyed(s)
  PROVE  /\ OpenSlots(f, h) # {} <=> KeyFor(s, h) # NoKey
         /\ KeyFor(s, h) # NoKey => ScanKey(f, h) = KeyFor(s, h)
         /\ ManifestDue(f) <=> SlotsRequire(s)
         /\ (\A i \in DOMAIN s : s[i].op = "encChunk" => KeyFor(SubSeq(s, 1, i - 1), h) # NoKey)
              => \A i \in Met(f, "encChunk") : \E j \in OpenSlots(f, h) : j < i
         /\ Cardinality(Met(f, "encChunk")) = Tally(s)
         /\ Met(f, "manifest") = {} <=> OfKind(s, {"manifest"}) = <<>>
         /\ Met(f, "manifest") # {} =>
              f[Last(Met(f, "manifest"))]
                = OfKind(s, {"manifest"})[Len(OfKind(s, {"manifest"}))]
<1>1. /\ IsSeq(s) /\ Len(s) \in Nat /\ DOMAIN s = 1..Len(s)
      /\ \A i \in DOMAIN s : s[i] = f[i + 1]
      /\ \A op : Met(f, op) = Moved({i \in DOMAIN s : s[i].op = op})
  BY ScanIs
<1> DEFINE own == Own(s, h)
           n == Len(s)
           M == {i \in DOMAIN s : s[i].op = "manifest"}
           C == {i \in DOMAIN s : s[i].op = "encChunk"}
<1>2. /\ own \in SUBSET DOMAIN s /\ own \in SUBSET Nat
      /\ KeyFor(s, h) = NoKey <=> own = {}
      /\ own # {} => First(own) \in own /\ KeyFor(s, h) = s[First(own)].key
  BY <1>1, KeyIs
<1>3. OpenSlots(f, h) = Moved(own)
  BY <1>1 DEF OpenSlots, Moved, Own
<1>4. Moved(own) # {} <=> own # {}
  BY DEF Moved
<1>5. ASSUME KeyFor(s, h) # NoKey PROVE ScanKey(f, h) = KeyFor(s, h)
  <2>1. own # {} /\ own \in SUBSET (1..n) /\ n \in Nat
    BY <1>1, <1>2, <1>5
  <2> HIDE DEF own, n
  <2>2. First(Moved(own)) = First(own) + 1
    BY <2>1, EndsMoved
  <2>3. f[First(own) + 1] = s[First(own)]
    BY <1>1, <1>2, <2>1
  <2>4. QED
    BY <1>2, <1>3, <2>1, <2>2, <2>3 DEF ScanKey
<1>6. ManifestDue(f) <=> SlotsRequire(s)
  <2>1. Met(f, "slot") = Moved({i \in DOMAIN s : s[i].op = "slot"})
    BY <1>1
  <2>2. QED
    BY <1>1, <2>1 DEF ManifestDue, SlotsRequire, Moved
<1>7. ASSUME \A i \in DOMAIN s : s[i].op = "encChunk" => KeyFor(SubSeq(s, 1, i - 1), h) # NoKey,
             NEW i \in Met(f, "encChunk")
      PROVE  \E j \in OpenSlots(f, h) : j < i
  <2>1. PICK c \in DOMAIN s : s[c].op = "encChunk" /\ i = c + 1
    BY <1>1 DEF Moved
  <2>2. c - 1 \in 0..Len(s) /\ c \in Nat
    BY <1>1, <2>1
  <2> DEFINE r == SubSeq(s, 1, c - 1)
  <2>3. KeyFor(r, h) # NoKey
    BY <1>7, <2>1
  <2>4. IsSeq(r) /\ DOMAIN r = 1..(c - 1) /\ \A k \in 1..(c - 1) : r[k] = s[k] /\ k \in DOMAIN s
    <3>1. PICK m \in 0..Len(s) : m = c - 1
      BY <2>2
    <3>2. IsSeq(SubSeq(s, 1, m)) /\ DOMAIN SubSeq(s, 1, m) = 1..m
          /\ \A k \in 1..m : SubSeq(s, 1, m)[k] = s[k] /\ k \in DOMAIN s
      BY <1>1, FrontOf
    <3>3. QED
      BY <3>1, <3>2
  <2> HIDE DEF r
  <2>5. Keyed(r)
    BY <2>4 DEF Keyed
  <2>6. Own(r, h) # {}
    BY <2>3, <2>4, <2>5, KeyIs
  <2>7. PICK j \in DOMAIN r : r[j].op = "slot" /\ OpensFor(r[j], h)
    BY <2>6 DEF Own
  <2>8. j \in own /\ j + 1 < i
    BY <2>1, <2>2, <2>4, <2>7 DEF Own
  <2>9. j + 1 \in Moved(own)
    BY <2>8 DEF Moved
  <2>10. QED
    BY <1>3, <2>8, <2>9
<1>8. Cardinality(Met(f, "encChunk")) = Tally(s)
  <2>1. C \in SUBSET (1..n) /\ n \in Nat /\ C \in SUBSET DOMAIN s
    BY <1>1
  <2>2. EncChunks(s) = Selected(s, C)
    BY OfKindForm DEF EncChunks, KindAt
  <2> HIDE DEF C, n
  <2>3. Cardinality(Moved(C)) = Cardinality(C)
    BY <2>1, SortedMoved
  <2>4. Len(Selected(s, C)) = Cardinality(C)
    BY <1>1, <2>1, SelectedIsSeq
  <2>5. Met(f, "encChunk") = Moved(C)
    BY <1>1 DEF C
  <2>6. QED
    BY <2>2, <2>3, <2>4, <2>5 DEF Tally, EncChunks
<1>9. /\ Met(f, "manifest") = {} <=> OfKind(s, {"manifest"}) = <<>>
      /\ Met(f, "manifest") # {} =>
           f[Last(Met(f, "manifest"))] = OfKind(s, {"manifest"})[Len(OfKind(s, {"manifest"}))]
  <2> DEFINE x == OfKind(s, {"manifest"})
  <2>1. M \in SUBSET (1..n) /\ n \in Nat /\ M \in SUBSET DOMAIN s /\ M = KindAt(s, {"manifest"})
    BY <1>1 DEF KindAt
  <2>2. x = Selected(s, M)
    BY <2>1, OfKindForm
  <2>3. Met(f, "manifest") = Moved(M)
    BY <1>1
  <2> HIDE DEF M, n, x
  <2>4. Moved(M) = {} <=> M = {}
    BY DEF Moved
  <2>5. CASE M = {}
    <3>1. Selected(s, {}) = <<>>
      BY <1>1, SelectedNone
    <3>2. QED
      BY <2>2, <2>3, <2>4, <2>5, <3>1 DEF x
  <2>6. CASE M # {}
    <3>1. Last(Moved(M)) = Last(M) + 1 /\ Last(M) \in M
      BY <2>1, <2>6, EndsMoved
    <3>2. x # <<>> /\ x[Len(x)] = s[Last(M)]
      BY <1>1, <2>1, <2>2, <2>6, LastSelected
    <3>3. f[Last(M) + 1] = s[Last(M)]
      BY <1>1, <2>1, <3>1
    <3>4. QED
      BY <2>3, <2>4, <2>6, <3>1, <3>2, <3>3 DEF x
  <2>7. QED
    BY <2>5, <2>6
<1>10. QED
  BY <1>2, <1>3, <1>4, <1>5, <1>6, <1>7, <1>8, <1>9

\* What the scan accepts has a last manifest that holds; what has one, and a
\* key ahead of its chunks, is accepted if it ends where it may.
LEMMA ScanAcceptsIs ==
  ASSUME NEW f, IsSeq(f), NEW h,
         NEW s, s = UpTo(SubSeq(f, 2, Len(f)), PyEnds), Keyed(s), Len(f) > 0
  PROVE  /\ ScanAccepts(f, h) => KeyFor(s, h) # NoKey /\ LastManifestHolds(s, h)
         /\ /\ f[1].op = "magic" /\ ScanEnd(f) <= Len(f) => f[ScanEnd(f)].op = "footer"
            /\ f[1].op = "magic"
            /\ KeyFor(s, h) # NoKey /\ LastManifestHolds(s, h)
            /\ \A i \in DOMAIN s : s[i].op = "encChunk" => KeyFor(SubSeq(s, 1, i - 1), h) # NoKey
            => ScanAccepts(f, h)
<1> DEFINE x == OfKind(s, {"manifest"})
           c == x[Len(x)]
<1>1. /\ OpenSlots(f, h) # {} <=> KeyFor(s, h) # NoKey
      /\ KeyFor(s, h) # NoKey => ScanKey(f, h) = KeyFor(s, h)
      /\ ManifestDue(f) <=> SlotsRequire(s)
      /\ Cardinality(Met(f, "encChunk")) = Tally(s)
      /\ Met(f, "manifest") = {} <=> x = <<>>
      /\ Met(f, "manifest") # {} => f[Last(Met(f, "manifest"))] = c
  BY ScanAsks
<1>2. (\A i \in DOMAIN s : s[i].op = "encChunk" => KeyFor(SubSeq(s, 1, i - 1), h) # NoKey)
        => \A i \in Met(f, "encChunk") : \E j \in OpenSlots(f, h) : j < i
  BY ScanAsks
<1>3. LastManifestHolds(s, h) <=>
        IF x = <<>> THEN ~ SlotsRequire(s)
        ELSE c.key = KeyFor(s, h) /\ c.count = Tally(s)
  BY DEF LastManifestHolds, SlotsRequire, Tally
<1> HIDE DEF x, c
<1>4. ASSUME ScanAccepts(f, h) PROVE KeyFor(s, h) # NoKey /\ LastManifestHolds(s, h)
  <2>1. KeyFor(s, h) # NoKey
    BY <1>1, <1>4 DEF ScanAccepts
  <2>2. CASE x = <<>>
    BY <1>1, <1>3, <1>4, <2>2 DEF ScanAccepts
  <2>3. CASE x # <<>>
    BY <1>1, <1>3, <1>4, <2>1, <2>3 DEF ScanAccepts
  <2>4. QED
    BY <2>1, <2>2, <2>3
<1>5. ASSUME ScanEnd(f) <= Len(f) => f[ScanEnd(f)].op = "footer", f[1].op = "magic",
             KeyFor(s, h) # NoKey, LastManifestHolds(s, h),
             \A i \in DOMAIN s : s[i].op = "encChunk" => KeyFor(SubSeq(s, 1, i - 1), h) # NoKey
      PROVE  ScanAccepts(f, h)
  <2>1. \A i \in Met(f, "encChunk") : \E j \in OpenSlots(f, h) : j < i
    BY <1>2, <1>5
  <2>2. Met(f, "manifest") = {} => ~ ManifestDue(f)
    BY <1>1, <1>3, <1>5
  <2>3. Met(f, "manifest") # {} =>
          LET manifest_ == f[Last(Met(f, "manifest"))]
          IN manifest_.key = ScanKey(f, h) /\ manifest_.count = Cardinality(Met(f, "encChunk"))
    BY <1>1, <1>3, <1>5
  <2>4. QED
    BY <1>1, <1>5, <2>1, <2>2, <2>3 DEF ScanAccepts
<1>6. QED
  BY <1>4, <1>5

\* What streams hand out is a beginning of the recording, and all of it if
\* every entry opens.
LEMMA StreamedIs ==
  ASSUME NEW f, IsSeq(f), NEW h, Len(f) > 0,
         NEW s, s = UpTo(SubSeq(f, 2, Len(f)), PyEnds),
         NEW rec, IsSeq(rec), NEW to, Part(s, rec, to)
  PROVE  /\ \E n \in 0..Len(rec) :
              /\ Streamed(f, h) = Yielding(SubSeq(rec, 1, n))
              /\ (\A k \in DOMAIN ChunkTable(f) : EntryOpens(f, h, k)) => n = Tally(s)
         /\ \A k \in DOMAIN ChunkTable(f) :
              k \in 1..Tally(s) /\ f[ChunkTable(f)[k]] = EncChunks(s)[k]
<1>1. /\ IsSeq(s) /\ Len(s) \in Nat /\ DOMAIN s = 1..Len(s)
      /\ \A i \in DOMAIN s : s[i] = f[i + 1]
      /\ \A op : Met(f, op) = Moved({i \in DOMAIN s : s[i].op = op})
  BY ScanIs
<1> DEFINE C == {i \in DOMAIN s : s[i].op = "encChunk"}
           c == Cardinality(C)
           q == Sorted(C)
           table == ChunkTable(f)
           key == ScanKey(f, h)
<1>2. C \in SUBSET (1..Len(s)) /\ C \in SUBSET DOMAIN s /\ C = KindAt(s, {"encChunk"})
      /\ Met(f, "encChunk") = Moved(C)
  BY <1>1 DEF KindAt
<1>3. EncChunks(s) = Selected(s, C)
  BY <1>2, OfKindForm DEF EncChunks
<1> HIDE DEF C
<1>4. table = [k \in 1..c |-> q[k] + 1]
  BY <1>1, <1>2, SortedMoved DEF ChunkTable
<1>5. c \in Nat /\ Enumerates(q, c, C) /\ Selected(s, C) = [k \in 1..c |-> s[q[k]]]
  BY <1>1, <1>2, SelectedBy
<1>6. Tally(s) = c
  <2>1. Len(Selected(s, C)) = c
    BY <1>1, <1>2, SelectedIsSeq
  <2>2. QED
    BY <1>3, <2>1 DEF Tally, EncChunks
<1>7. Len(table) = c /\ DOMAIN table = 1..c
  BY <1>4, <1>5
<1>8. \A k \in 1..c : f[table[k]] = EncChunks(s)[k]
  <2>1. \A k \in 1..c : q[k] \in DOMAIN s
    BY <1>2, <1>5 DEF Enumerates
  <2> HIDE DEF q, c, table
  <2>2. QED
    BY <1>1, <1>3, <1>4, <1>5, <2>1
<1> HIDE DEF q, c, table, key
<1> DEFINE broken == {k \in DOMAIN table : ~ EntryOpens(f, h, k)}
           last == First(broken \cup {Len(table) + 1}) - 1
           b == [k \in 1..last |-> f[table[k]].body]
<1>9. Streamed(f, h) = Yielding(b)
  BY DEF Streamed, table
<1>10. \A k \in 1..c : EntryOpens(f, h, k) <=> Opens(EncChunks(s)[k], key, k - 1)
  BY <1>8 DEF EntryOpens, table, key
<1>11. /\ last \in 0..c
       /\ \A k \in 1..last : EntryOpens(f, h, k)
       /\ broken = {} => last = c
  <2> DEFINE B == broken \cup {Len(table) + 1}
             e == First(B)
  <2>1. B \in SUBSET Nat /\ B # {} /\ Len(table) + 1 \in B
    BY <1>5, <1>7
  <2> HIDE DEF B
  <2>2. e \in B /\ \A i \in B : e <= i
    BY <2>1, FirstIs
  <2> HIDE DEF e
  <2>3. e \in 1..(c + 1)
    <3>1. e \in 1..c \/ e = c + 1
      BY <1>7, <2>2 DEF B
    <3>2. QED
      BY <1>5, <3>1
  <2>4. last = e - 1
    BY DEF e, B
  <2> HIDE DEF last
  <2>5. last \in 0..c
    BY <1>5, <2>3, <2>4
  <2>6. ASSUME NEW k \in 1..last PROVE EntryOpens(f, h, k)
    <3>1. k \in 1..c /\ ~ (e <= k)
      BY <1>5, <2>3, <2>4, <2>5
    <3>2. k \notin B
      BY <2>2, <3>1
    <3>3. k \notin broken
      BY <3>2 DEF B
    <3>4. QED
      BY <1>7, <3>1, <3>3
  <2>7. ASSUME broken = {} PROVE last = c
    <3>1. e = c + 1
      BY <1>7, <2>2, <2>7 DEF B
    <3>2. QED
      BY <1>5, <2>4, <3>1
  <2>8. QED
    BY <2>5, <2>6, <2>7
<1> HIDE DEF last
<1>12. OpenUpTo(s, key, last)
  BY <1>5, <1>10, <1>11 DEF OpenUpTo
<1>13. BodiesUpTo(s, b, last)
  <2>1. DOMAIN b = 1..last /\ \A i \in 1..last : b[i] = EncChunks(s)[i].body
    BY <1>5, <1>8, <1>11
  <2>2. b = [i \in 1..last |-> b[i]]
    OBVIOUS
  <2> HIDE DEF b
  <2>3. \A i \in 1..last : b[i] \in Elements(b)
    BY <2>1 DEF Elements
  <2>4. b \in [1..last -> Elements(b)]
    BY <2>2, <2>3
  <2>5. last \in Nat
    BY <1>5, <1>11
  <2>6. IsSeq(b)
    BY <2>4, <2>5, OfFunction
  <2>7. QED
    BY <2>1, <2>6 DEF BodiesUpTo
<1> HIDE DEF b
<1>14. last \in 0..Len(rec) /\ b = SubSeq(rec, 1, last)
  BY <1>6, <1>11, <1>12, <1>13, OpenedBodies
<1>15. (\A k \in DOMAIN table : EntryOpens(f, h, k)) => last = Tally(s)
  BY <1>6, <1>11
<1>16. QED
  BY <1>6, <1>7, <1>8, <1>9, <1>14, <1>15 DEF table

\* The beginning of the recording that is played up to some chunk is one of
\* the chunks that yield messages.
LEMMA PlayedIsFront ==
  ASSUME EncBase, NEW n \in 0..Len(Rec)
  PROVE  LET x == Yielding(SubSeq(Rec, 1, n))
         IN x = SubSeq(Original, 1, Len(x))
<1> DEFINE x == Yielding(SubSeq(Rec, 1, n))
           y == Yielding(SubSeq(Rec, n + 1, Len(Rec)))
<1>1. IsSeq(x) /\ IsSeq(y) /\ Original = x \o y
  BY PlayedAndRest
<1> HIDE DEF x, y
<1>2. Len(x) \in 0..Len(x)
  BY <1>1, AsFunction
<1>3. SubSeq(x \o y, 1, Len(x)) = SubSeq(x, 1, Len(x)) /\ SubSeq(x, 1, Len(x)) = x
  BY <1>1, <1>2, FrontOfConcat, FrontIsAll
<1>4. QED
  BY <1>1, <1>3 DEF x

\* Where the scan accepts a file, its streams play a beginning of the recording,
\* and all of it if every entry opens and the manifest vouches for the chunks.
LEMMA AcceptedPlays ==
  ASSUME EncBase, StoredPart, encFile = stored, ScanAccepts(encFile, holder)
  PROVE  LET shown == Streamed(encFile, holder)
         IN /\ shown = SubSeq(Original, 1, Len(shown))
            /\ \/ ~ vouched
               \/ \E k \in DOMAIN ChunkTable(encFile) : ~ EntryOpens(encFile, holder, k)
               \/ shown = Original
<1> DEFINE s == UpTo(Section, PyEnds)
           shown == Streamed(encFile, holder)
<1>1. IsSeq(encFile) /\ Len(encFile) > 0 /\ encFile[1].op = "magic"
  BY DEF StoredPart, Part, ScanAccepts
<1>2. PyEnds \subseteq Ends
  BY DEF PyEnds, Ends
<1>3. /\ IsSeq(s) /\ Keyed(s) /\ Part(s, Rec, Given(readers))
      /\ vouched => Vouches(s, Len(Rec))
  BY <1>1, <1>2, SectionOfFile
<1>4. s = UpTo(SubSeq(encFile, 2, Len(encFile)), PyEnds)
  BY DEF Section
<1>5. IsSeq(Rec)
  BY RecIs
<1> HIDE DEF s
<1>6. PICK n \in 0..Len(Rec) :
        /\ shown = Yielding(SubSeq(Rec, 1, n))
        /\ (\A k \in DOMAIN ChunkTable(encFile) : EntryOpens(encFile, holder, k)) => n = Tally(s)
  BY <1>1, <1>3, <1>4, <1>5, StreamedIs
<1>7. shown = SubSeq(Original, 1, Len(shown))
  BY <1>6, PlayedIsFront
<1>8. KeyFor(s, holder) # NoKey /\ LastManifestHolds(s, holder)
  BY <1>1, <1>3, <1>4, ScanAcceptsIs
<1>9. ASSUME vouched, \A k \in DOMAIN ChunkTable(encFile) : EntryOpens(encFile, holder, k)
      PROVE  shown = Original
  <2>1. Tally(s) = Len(Rec)
    BY <1>3, <1>8, <1>9, VouchedIsWhole
  <2>2. n = Len(Rec)
    BY <1>6, <1>9, <2>1
  <2>3. QED
    BY <1>6, <2>2, PlayedAndRest
<1> HIDE DEF shown
<1>10. QED
  BY <1>7, <1>9 DEF shown

\* What a decryption accepts the scan accepts, and streams the same chunks.
LEMMA DecryptedPlays ==
  ASSUME EncBase, StoredPart, Decrypting, Following, decState = "done"
  PROVE  ScanAccepts(encFile, holder) /\ Streamed(encFile, holder) = delivered
<1> DEFINE s == Read
<1>1. /\ UpTo(Section, PyEnds) = s /\ IsSeq(s) /\ Keyed(s) /\ Part(s, Rec, Given(readers))
      /\ Len(encFile) > 0 /\ encFile[1].op = "magic" /\ Followed(s) /\ encFile = stored
  BY ReadIsSection DEF Decrypting
<1>2. symKey # NoKey /\ ManifestHolds
  BY DEF Following
<1>3. IsSeq(encFile) /\ s = UpTo(SubSeq(encFile, 2, Len(encFile)), PyEnds)
  BY <1>1 DEF StoredPart, Part, Section
<1>4. ScanEnd(encFile) <= Len(encFile) => encFile[ScanEnd(encFile)].op = "footer"
  <2>1. /\ decPos \in 2..(Len(encFile) + 1)
        /\ decPos <= Len(encFile) => encFile[decPos].op = "footer"
    BY DEF Following
  <2>2. Len(s) = decPos - 2 /\ Len(encFile) \in Nat
    BY <1>1, <2>1, ReadIs DEF Read
  <2>3. ScanEnd(encFile) = Len(s) + 2
    BY <1>1, <1>3, ScanIs
  <2> HIDE DEF s
  <2>4. ScanEnd(encFile) = decPos
    BY <2>1, <2>2, <2>3
  <2>5. QED
    BY <2>1, <2>4
<1> HIDE DEF s
<1>5. KeyFor(s, holder) # NoKey /\ ChunksOpen(s, holder)
  BY <1>1, <1>2 DEF Followed
<1>6. LastManifestHolds(s, holder)
  BY <1>1, <1>2, ManifestIsLast
<1>7. \A i \in DOMAIN s : s[i].op = "encChunk" => KeyFor(SubSeq(s, 1, i - 1), holder) # NoKey
  BY <1>5 DEF ChunksOpen
<1>8. ScanAccepts(encFile, holder)
  BY <1>1, <1>3, <1>4, <1>5, <1>6, <1>7, ScanAcceptsIs
<1>9. IsSeq(Rec)
  BY RecIs
<1>10. PICK n \in 0..Len(Rec) :
        /\ Streamed(encFile, holder) = Yielding(SubSeq(Rec, 1, n))
        /\ (\A k \in DOMAIN ChunkTable(encFile) : EntryOpens(encFile, holder, k)) => n = Tally(s)
  BY <1>1, <1>3, <1>9, StreamedIs
<1>11. \A k \in DOMAIN ChunkTable(encFile) :
         k \in 1..Tally(s) /\ encFile[ChunkTable(encFile)[k]] = EncChunks(s)[k]
  BY <1>1, <1>3, <1>9, StreamedIs
<1>12. ScanKey(encFile, holder) = KeyFor(s, holder)
  BY <1>1, <1>3, <1>5, ScanAsks
<1>13. OpenUpTo(s, KeyFor(s, holder), Tally(s))
  BY <1>1, <1>5, EntriesOpen
<1>14. \A k \in DOMAIN ChunkTable(encFile) : EntryOpens(encFile, holder, k)
  BY <1>11, <1>12, <1>13 DEF EntryOpens, OpenUpTo
<1>15. PICK m \in 0..Len(Rec) : Played(m) /\ m = decChunkIdx
  BY DEF Decrypting
<1>16. decChunkIdx = Tally(s)
  BY <1>1 DEF Followed
<1>17. QED
  BY <1>8, <1>10, <1>14, <1>15, <1>16 DEF Played

\* The streaming bridge accepts what batch decryption accepts and streams the
\* same; whatever happened to the file, it streams a beginning of the recording,
\* and all of it if every entry opens and the manifest vouches for the chunks
\* (bridge_stream.go:144-146).
THEOREM BridgeStreamsInOrder == Spec => []BridgePlaysRecording
<1>1. PipeInv /\ ReadPart => BridgePlaysRecording
  <2>1. SUFFICES ASSUME PipeInv, ReadPart, decState \in {"done", "failed"}, holder \notin KmsHeld
                 PROVE  BridgePlaysRecording
    BY DEF BridgePlaysRecording
  <2>2. stage = "decrypt"
    BY <2>1 DEF PipeInv, DecPart, DecInit
  <2>3. EncBase /\ StoredPart /\ Decrypting /\ encFile = stored
    BY <2>1, <2>2 DEF PipeInv, DecPart, Decrypting
  <2>4. Following
    BY <2>1, <2>2 DEF ReadPart
  <2>5. QED
    BY <2>3, <2>4, AcceptedPlays, DecryptedPlays DEF BridgePlaysRecording
<1>2. QED
  BY <1>1, DecryptionFollowsFile, PTL

-----------------------------------------------------------------------------
(* The contents of an undamaged file: everything RoundTrip asks for has to *)
(* be in the stored file, where a reader who goes from the front finds it, *)
(* whoever encrypted it and whoever rotated it since.                      *)

\* The metadata of the source that is in the file in the clear, and that
\* which is in it encrypted.
PlainMetadata == IF metadataMode = "plaintext" THEN Bodies(source, "metadata") ELSE <<>>

SealedMetadata ==
  IF metadataMode = "plaintext" \/ "python" \in rotatedBy THEN <<>> ELSE Bodies(source, "metadata")

\* The file is in order and holds what is left of the source.
Intact(f) ==
  Sound(f, WrittenDefs) /\ Holds(f, Bodies(source, "attachment"), PlainMetadata, SealedMetadata)

\* What was written place by place for the data of a file carries it.
LEMMA CarriedPairwise ==
  ASSUME NEW s, NEW p, IsSeq(s), IsSeq(p), DOMAIN s = DOMAIN p,
         \A i \in DOMAIN s :
           /\ s[i].body = p[i].body
           /\ \/ p[i].op = "chunk" /\ s[i].op = "encChunk"
              \/ p[i].op = "attachment" /\ s[i].op = "encAttachment"
              \/ p[i].op = "metadata" /\ s[i].op = MetadataOp
  PROVE  Carried(s, p)
<1>1. MetadataOp \in {"metadata", "encMetadata"}
  BY DEF MetadataOp
<1>2. Bodies(s, "encChunk") = Bodies(p, "chunk")
  <2>1. \A i \in DOMAIN s : s[i].op = "encChunk" <=> p[i].op = "chunk"
    BY <1>1
  <2>2. QED
    BY <2>1, BodiesMatch
<1>3. Bodies(s, "encAttachment") = Bodies(p, "attachment")
  <2>1. \A i \in DOMAIN s : s[i].op = "encAttachment" <=> p[i].op = "attachment"
    BY <1>1
  <2>2. QED
    BY <2>1, BodiesMatch
<1>4. Bodies(s, MetadataOp) = Bodies(p, "metadata")
  <2>1. \A i \in DOMAIN s : s[i].op = MetadataOp <=> p[i].op = "metadata"
    BY <1>1
  <2> DEFINE op == MetadataOp
  <2> HIDE DEF op
  <2>2. Bodies(s, op) = Bodies(p, "metadata")
    BY <2>1, BodiesMatch DEF op
  <2>3. QED
    BY <2>2 DEF op
<1>5. OfKind(s, Bared) = <<>>
  <2>1. \A i \in DOMAIN s : s[i].op \notin Bared
    BY <1>1 DEF Bared, MetadataOp
  <2>2. QED
    BY <2>1, OfKindNone
<1>6. QED
  BY <1>2, <1>3, <1>4, <1>5 DEF Carried

\* What carries all of the source holds its contents.
LEMMA CarriedHolds ==
  ASSUME NEW d, IsSeq(d), NEW p, Carried(d, p),
         Bodies(p, "attachment") = Bodies(source, "attachment"),
         Bodies(p, "metadata") = Bodies(source, "metadata"),
         rotatedBy = {}, metadataMode \in {"plaintext", "encrypt"}
  PROVE  Holds(d, Bodies(source, "attachment"), PlainMetadata, SealedMetadata)
<1>1. \A op \in Bared : Bodies(d, op) = <<>>
  <2>1. TAKE op \in Bared
  <2>2. \A i \in DOMAIN d : d[i].op \notin Bared
    BY OfKindEmpty DEF Carried
  <2>3. \A i \in DOMAIN d : d[i].op # op
    BY <2>1, <2>2
  <2>4. QED
    BY <2>3, BodiesNone
<1>2. Bodies(d, "attachment") = <<>>
  BY <1>1 DEF Bared
<1>3. Bodies(d, "encAttachment") = Bodies(source, "attachment")
  BY DEF Carried
<1>4. Bodies(d, MetadataOp) = Bodies(source, "metadata")
  BY DEF Carried
<1>5. CASE metadataMode = "plaintext"
  <2>1. Bodies(d, "metadata") = PlainMetadata
    BY <1>4, <1>5 DEF MetadataOp, PlainMetadata
  <2>2. Bodies(d, "encMetadata") = SealedMetadata
    BY <1>1, <1>5 DEF Bared, SealedMetadata
  <2>3. QED
    BY <1>2, <1>3, <2>1, <2>2 DEF Holds
<1>6. CASE metadataMode = "encrypt"
  <2>1. Bodies(d, "encMetadata") = SealedMetadata
    BY <1>4, <1>6 DEF MetadataOp, SealedMetadata
  <2>2. Bodies(d, "metadata") = PlainMetadata
    BY <1>1, <1>6 DEF Bared, PlainMetadata
  <2>3. QED
    BY <1>2, <1>3, <2>1, <2>2 DEF Holds
<1>7. QED
  BY <1>5, <1>6

\* A beginning of the input up to one of its ends has all of its data.
LEMMA FrontHasData ==
  ASSUME EncBase, NEW ops, ops \subseteq Ends, NEW b, b = UpTo(source, ops)
  PROVE  /\ IsSeq(b)
         /\ \A op \in Data : Bodies(b, op) = Bodies(source, op)
         /\ (\A i \in DOMAIN b : b[i].op # "message") => OfKind(source, {"message"}) = <<>>
<1>1. source \in Sources
  BY DEF EncBase
<1>2. /\ IsSeq(source) /\ DOMAIN source = 1..Len(source) /\ Len(source) \in Nat
      /\ \A i, j \in DOMAIN source :
              /\ source[i].op \in {"chunk", "attachment", "metadata", "message"}
              /\ source[j].op \in {"dataEnd", "footer", "torn", "magic"}
              => i < j
  <2>1. IsSeq(source)
    BY InputIs
  <2>2. \A i, j \in DOMAIN source :
              /\ source[i].op \in {"chunk", "attachment", "metadata", "message"}
              /\ source[j].op \in {"dataEnd", "footer", "torn", "magic"}
              => i < j
    BY <1>1, SourcesAssumption
  <2>3. QED
    BY <2>1, <2>2, AsFunction
<1>3. PICK m \in 0..Len(source) :
        /\ UpTo(source, ops) = SubSeq(source, 1, m)
        /\ \A i \in 1..m : source[i].op \notin ops
        /\ m < Len(source) => source[m + 1].op \in ops
  BY <1>2, UpToIsFront
<1>4. /\ IsSeq(b) /\ DOMAIN b = 1..m
      /\ \A i \in 1..m : b[i] = source[i] /\ i \in DOMAIN source
  BY <1>2, <1>3, FrontOf
<1>5. ASSUME NEW i \in DOMAIN source, source[i].op \in Data \cup {"message"} PROVE i <= m
  <2>1. CASE m < Len(source)
    <3>1. m + 1 \in DOMAIN source
      BY <1>2, <2>1
    <3>2. source[m + 1].op \in {"dataEnd", "footer", "torn", "magic"}
      BY <1>3, <2>1 DEF Ends
    <3>3. source[i].op \in {"chunk", "attachment", "metadata", "message"}
      BY <1>5 DEF Data
    <3>4. i < m + 1
      BY <1>2, <3>1, <3>2, <3>3
    <3>5. QED
      BY <1>2, <3>4
  <2>2. CASE ~ (m < Len(source))
    BY <1>2, <2>2
  <2>3. QED
    BY <2>1, <2>2
<1>6. \A op \in Data : Bodies(b, op) = Bodies(source, op)
  <2>1. TAKE op \in Data
  <2>2. \A i \in DOMAIN source : source[i].op = op => i <= m
    BY <1>5, <2>1
  <2>3. QED
    BY <1>2, <1>3, <2>2, FrontHasAll
<1>7. ASSUME \A i \in DOMAIN b : b[i].op # "message" PROVE OfKind(source, {"message"}) = <<>>
  <2>1. \A i \in DOMAIN source : source[i].op \notin {"message"}
    <3>1. SUFFICES ASSUME NEW i \in DOMAIN source, source[i].op = "message" PROVE FALSE
      OBVIOUS
    <3>2. i \in 1..m
      BY <1>2, <1>5, <3>1
    <3>3. QED
      BY <1>4, <1>7, <3>1, <3>2
  <2>2. QED
    BY <1>2, <2>1, OfKindNone
<1>8. QED
  BY <1>4, <1>6, <1>7

\* The data of a file that an encryptor seals, record by record, carries that
\* of the body b.
LEMMA SealedDataCarries ==
  ASSUME NEW b, IsSeq(b), NEW k, metadataMode \in {"plaintext", "encrypt"}
  PROVE  LET s == SealedData(b, k, metadataMode)
         IN /\ IsSeq(s) /\ Carried(s, OfKind(b, Data))
            /\ \A W : Within(s, W)
            /\ Unended(s) /\ Slotless(s)
<1> DEFINE at == KindAt(b, Data)
           q == Sorted(at)
           c == Cardinality(at)
           p == OfKind(b, Data)
           s == SealedData(b, k, metadataMode)
<1>1. Len(b) \in Nat /\ DOMAIN b = 1..Len(b)
  BY AsFunction
<1>2. at \in SUBSET (1..Len(b)) /\ at \in SUBSET DOMAIN b
  BY <1>1 DEF KindAt
<1>3. p = Selected(b, at)
  BY OfKindForm
<1> HIDE DEF at
<1>4. IsSeq(q) /\ DOMAIN q = 1..c /\ c \in Nat /\ Elements(q) = at
  BY <1>1, <1>2, SortedIsSeq
<1>5. \A j \in 1..c : q[j] \in at
  BY <1>4 DEF Elements
<1>6. /\ DOMAIN s = 1..c
      /\ \A j \in 1..c : s[j] = Sealed(b, q[j], k, metadataMode)
      /\ s = [j \in DOMAIN q |-> s[j]]
  BY <1>4 DEF SealedData, Records, at
<1>7. IsSeq(p) /\ DOMAIN p = 1..c /\ \A j \in 1..c : p[j] = b[q[j]]
  <2>1. IsSeq(p)
    BY OfKindIsSeq
  <2>2. p = [j \in DOMAIN q |-> b[q[j]]]
    BY <1>3 DEF Selected
  <2>3. QED
    BY <1>4, <2>1, <2>2
<1> HIDE DEF q, s, p
<1>8. IsSeq(s)
  BY <1>4, <1>6, OfPositions
<1>9. \A j \in 1..c : b[q[j]].op \in Data
  BY <1>5 DEF at, KindAt
<1>10. \A j \in 1..c :
         /\ s[j].body = p[j].body
         /\ \/ p[j].op = "chunk" /\ s[j].op = "encChunk"
            \/ p[j].op = "attachment" /\ s[j].op = "encAttachment"
            \/ p[j].op = "metadata" /\ s[j].op = MetadataOp
  <2>1. TAKE j \in 1..c
  <2> DEFINE i == q[j]
  <2>2. s[j] = Sealed(b, i, k, metadataMode) /\ p[j] = b[i] /\ b[i].op \in Data
    BY <1>6, <1>7, <1>9
  <2> HIDE DEF i
  <2>3. CASE b[i].op = "chunk"
    BY <2>2, <2>3 DEF Sealed, EncChunk
  <2>4. CASE b[i].op = "attachment"
    BY <2>2, <2>4 DEF Sealed, EncAttachment
  <2>5. CASE b[i].op = "metadata" /\ metadataMode = "encrypt"
    BY <2>2, <2>5 DEF Sealed, EncMetadata, MetadataOp
  <2>6. CASE b[i].op = "metadata" /\ metadataMode = "plaintext"
    BY <2>2, <2>6 DEF Sealed, MetadataOp
  <2>7. QED
    BY <2>2, <2>3, <2>4, <2>5, <2>6 DEF Data
<1>11. Carried(s, p)
  BY <1>6, <1>7, <1>8, <1>10, CarriedPairwise
<1>12. \A j \in DOMAIN s : s[j].op \in {"encChunk", "encAttachment", "metadata", "encMetadata"}
  BY <1>6, <1>10 DEF MetadataOp
<1>13. (\A W : Within(s, W)) /\ Unended(s) /\ Slotless(s)
  BY <1>12 DEF Within, Unended, Slotless, Ends
<1>14. QED
  BY <1>8, <1>11, <1>13 DEF s, p

\* So it holds what is left of the source, if b has all of it.
LEMMA SealedDataHolds ==
  ASSUME NEW b, IsSeq(b), NEW k, metadataMode \in {"plaintext", "encrypt"}, rotatedBy = {},
         \A op \in Data : Bodies(b, op) = Bodies(source, op)
  PROVE  Holds(SealedData(b, k, metadataMode),
               Bodies(source, "attachment"), PlainMetadata, SealedMetadata)
<1> DEFINE s == SealedData(b, k, metadataMode)
           p == OfKind(b, Data)
<1>1. IsSeq(s) /\ Carried(s, p)
  BY SealedDataCarries
<1>2. \A op \in Data : Bodies(p, op) = Bodies(b, op)
  BY BodiesOfKind
<1>3. Bodies(p, "attachment") = Bodies(source, "attachment")
      /\ Bodies(p, "metadata") = Bodies(source, "metadata")
  BY <1>2 DEF Data
<1> HIDE DEF s, p
<1>4. Holds(s, Bodies(source, "attachment"), PlainMetadata, SealedMetadata)
  BY <1>1, <1>3, CarriedHolds
<1>5. QED
  BY <1>4 DEF s

\* A file of Python is in order and holds all of the source but the
\* definitions that are in chunks only.
LEMMA PyEncryptedIntact ==
  ASSUME EncBase, PyEncrypts(source, recipients), rotatedBy = {},
         metadataMode \in {"plaintext", "encrypt"}
  PROVE  LET s == PyEncrypted(source, recipients, SymKey, metadataMode)
         IN /\ Sound(s, Elements(PyDefinitions(source)))
            /\ Holds(s, Bodies(source, "attachment"), PlainMetadata, SealedMetadata)
<1> DEFINE b == UpTo(source, PyEnds)
           known == PyDefinitions(source)
           W == Elements(known)
           head == <<Header>> \o Records(known, Def)
           data == SealedData(b, SymKey, metadataMode)
           n == Tally(data)
<1>1. IsSeq(b) /\ IsSeq(known) /\ IsSeq(recipients)
  BY PyEncryptedForm, InputIs
<1>2. PICK ps : /\ IsSeq(ps)
                /\ PyEncrypted(source, recipients, SymKey, metadataMode)
                     = Laid(head, recipients, SymKey, n, data, known, ps)
  BY PyEncryptedForm
<1>3. PyEnds \subseteq Ends
  BY DEF PyEnds, Ends
<1>4. \A op \in Data : Bodies(b, op) = Bodies(source, op)
  BY <1>3, FrontHasData
<1> HIDE DEF b, known
<1>5. Holds(data, Bodies(source, "attachment"), PlainMetadata, SealedMetadata)
  BY <1>1, <1>4, SealedDataHolds
<1>6. IsSeq(data) /\ Within(data, W) /\ Unended(data) /\ Slotless(data)
  BY <1>1, SealedDataCarries
<1>7. /\ IsSeq(head) /\ Within(head, W) /\ Unended(head) /\ Slotless(head)
      /\ Lateless(head) /\ Defined(head, W) /\ Blank(head)
  BY <1>1, HeadIs
<1>8. Elements(known) \subseteq W
  OBVIOUS
<1> HIDE DEF head, data, W, n
<1>9. Fit(head, data, W)
  BY <1>6, <1>7 DEF Fit
<1>10. Together(head, data, Bodies(source, "attachment"), PlainMetadata, SealedMetadata)
  BY <1>5, <1>6, <1>7, BehindBlank
<1> DEFINE s == Laid(head, recipients, SymKey, n, data, known, ps)
<1>11. IsSeq(ps)
  BY <1>2
<1>12. Sound(s, W) /\ Holds(s, Bodies(source, "attachment"), PlainMetadata, SealedMetadata)
  BY <1>1, <1>8, <1>9, <1>10, <1>11, LaidIntact
<1> HIDE DEF s
<1>13. QED
  BY <1>2, <1>12 DEF s, W, known

\* A file of an earlier release is in order and holds all of the source.
LEMMA LegacyEncryptedIntact ==
  ASSUME EncBase, LegacyEncrypts, rotatedBy = {}, metadataMode \in {"plaintext", "encrypt"}
  PROVE  /\ Sound(LegacyEncrypted, AllDefs)
         /\ Holds(LegacyEncrypted, Bodies(source, "attachment"), PlainMetadata, SealedMetadata)
<1> DEFINE known == Definitions(source)
           W == AllDefs
           body == LegacyBody
           m == <<Magic>>
           a == m \o <<Header>>
           ds == Records(known, Def)
           sl == LegacySlots
           data == SealedData(body, SymKey, metadataMode)
           z == <<DataEnd, Footer, Magic>>
           u == (a \o ds) \o sl
           v == u \o data
           x == v \o z
<1>1. IsSeq(known) /\ IsSeq(recipients) /\ IsSeq(body)
  BY LegacyForm
<1>2. LegacyEncrypted = x
  <2>1. LegacyEncrypted = <<Magic, Header>> \o ds \o sl \o data \o z
    BY LegacyForm
  <2>2. <<Magic, Header>> = a
    BY PairIsConcat
  <2> HIDE DEF ds, sl, data, z, a
  <2>3. QED
    BY <2>1, <2>2
<1>3. \A op \in Data : Bodies(body, op) = Bodies(source, op)
  <2> DEFINE b == UpTo(source, {"dataEnd"})
  <2>1. {"dataEnd"} \subseteq Ends
    BY DEF Ends
  <2>2. IsSeq(b) /\ \A op \in Data : Bodies(b, op) = Bodies(source, op)
    BY <2>1, FrontHasData
  <2> HIDE DEF b
  <2>3. \A op \in Data : Bodies(OfKind(b, Data), op) = Bodies(b, op)
    BY <2>2, BodiesOfKind
  <2>4. QED
    BY <2>2, <2>3 DEF LegacyBody, b
<1> HIDE DEF body
<1>4. Holds(data, Bodies(source, "attachment"), PlainMetadata, SealedMetadata)
  BY <1>1, <1>3, SealedDataHolds
<1>5. IsSeq(data) /\ Within(data, W) /\ Unended(data) /\ Slotless(data)
  BY <1>1, SealedDataCarries
<1>6. /\ Settled(m, W) /\ Open(m) /\ Slotless(m) /\ Lateless(m) /\ m # <<>> /\ IsSeq(m)
      /\ m[1] = Magic /\ DOMAIN m = {1} /\ Magic.op = "magic"
  BY SettledMagic, Single DEF Magic
<1>7. Blank(m)
  BY <1>6 DEF Blank, Contents
<1> HIDE DEF m
<1>8. Header.op = "header"
  BY DEF Header
<1>9. IsSeq(a) /\ a # <<>> /\ Settled(a, W) /\ Open(a) /\ a[1] = Magic /\ Lateless(a) /\ Blank(a)
  <2> DEFINE e == Header
             h == <<e>>
  <2>1. e.op = "header"
    BY <1>8
  <2>2. IsSeq(h) /\ DOMAIN h = {1} /\ h[1] = e
    BY Single
  <2> HIDE DEF e
  <2>3. e.op \notin {"def", "slot"} /\ e.op \notin Ends
    BY <2>1 DEF Ends
  <2>4. IsSeq(m \o h) /\ m \o h # <<>> /\ Settled(m \o h, W) /\ (m \o h)[1] = Magic /\ Open(m \o h)
    BY <1>6, <2>3, LaysOne
  <2> HIDE DEF h
  <2>5. Lateless(h) /\ Blank(h)
    BY <2>1, <2>2 DEF Lateless, Late, Blank, Contents
  <2>6. Lateless(m \o h)
    BY <1>6, <2>2, <2>5, SettledParts
  <2>7. Blank(m \o h)
    BY <1>6, <1>7, <2>2, <2>5, BlankJoin
  <2>8. QED
    BY <2>4, <2>6, <2>7 DEF h, e
<1> HIDE DEF a
<1>10. /\ IsSeq(ds) /\ Within(ds, W) /\ Unended(ds) /\ Slotless(ds) /\ Lateless(ds)
       /\ Defined(ds, W) /\ Hollow(ds)
  <2>1. Elements(known) \subseteq W /\ Elements(known) = W
    BY DEF AllDefs
  <2> HIDE DEF W, known
  <2>2. QED
    BY <1>1, <2>1, DefRecords
<1>11. IsSeq(sl) /\ \A i \in DOMAIN sl : sl[i].op = "slot"
  <2> DEFINE e(r) == [Slot(r, SymKey) EXCEPT !.version = LegacyVersion]
  <2>1. IsSeq(sl)
    BY <1>1, LegacySlotsArePart
  <2>2. sl = [i \in DOMAIN recipients |-> e(recipients[i])]
    BY DEF LegacySlots, Records
  <2>3. \A r : e(r).op = "slot"
    BY DEF Slot
  <2> HIDE DEF sl, e
  <2>4. QED
    BY <2>1, <2>2, <2>3
<1>12. IsSeq(z) /\ Hollow(z) /\ Slotless(z) /\ Within(z, W)
  <2>1. /\ DataEnd.op = "dataEnd" /\ Footer.op = "footer" /\ Magic.op = "magic"
    BY DEF DataEnd, Footer, Magic
  <2>2. IsSeq(z)
    BY TripleIsQuiet, QuietIs
  <2>3. DOMAIN z = 1..3 /\ z[1] = DataEnd /\ z[2] = Footer /\ z[3] = Magic
    OBVIOUS
  <2> HIDE DEF z
  <2>4. \A i \in DOMAIN z : z[i].op \in {"dataEnd", "footer", "magic"}
    BY <2>1, <2>3
  <2>5. Mute(z)
    BY <2>4 DEF Mute, Sought, Loads, Late
  <2>6. QED
    BY <2>2, <2>5, MuteIs
<1> HIDE DEF ds, sl, z, data, W
<1>13. Blank(ds) /\ Blank(sl) /\ Blank(z)
  BY <1>10, <1>11, <1>12 DEF Blank, Hollow, Contents, Sought, Loads, Late
<1>14. IsSeq(u) /\ u # <<>> /\ Settled(u, W) /\ Open(u) /\ u[1] = Magic
  BY <1>9, <1>10, <1>11, SettledOpening
<1>15. Blank(u)
  <2>1. IsSeq(a \o ds)
    BY <1>9, <1>10, Concat
  <2>2. Blank(a \o ds)
    BY <1>9, <1>10, <1>13, BlankJoin
  <2>3. QED
    BY <1>11, <1>13, <2>1, <2>2, BlankJoin
<1> HIDE DEF u
<1>16. IsSeq(v) /\ v # <<>> /\ Settled(v, W) /\ v[1] = Magic
  <2>1. Settled(v, W)
    BY <1>5, <1>14, SettledMore
  <2>2. IsSeq(v)
    BY <1>5, <1>14, Concat
  <2>3. v # <<>> /\ v[1] = Magic
    BY <1>5, <1>14, StaysFilled
  <2>4. QED
    BY <2>1, <2>2, <2>3
<1>17. \A op \in Contents : Bodies(v, op) = Bodies(data, op)
  BY <1>5, <1>14, <1>15, BlankAdds
<1> HIDE DEF v
<1>18. IsSeq(x) /\ x # <<>> /\ Settled(x, W) /\ x[1] = Magic
  <2>1. Settled(x, W)
    BY <1>12, <1>16, SettledMore
  <2>2. IsSeq(x)
    BY <1>12, <1>16, Concat
  <2>3. x # <<>> /\ x[1] = Magic
    BY <1>12, <1>16, StaysFilled
  <2>4. QED
    BY <2>1, <2>2, <2>3
<1>19. \A op \in Contents : Bodies(x, op) = Bodies(v, op)
  BY <1>12, <1>13, <1>16, BlankAdds
<1> HIDE DEF x
<1>20. Holds(x, Bodies(source, "attachment"), PlainMetadata, SealedMetadata)
  <2>1. \A op \in Contents : Bodies(x, op) = Bodies(data, op)
    BY <1>17, <1>19
  <2>2. QED
    BY <1>4, <2>1, HoldsAlike
<1>21. Sound(x, W)
  BY <1>18 DEF Sound
<1>22. QED
  BY <1>2, <1>20, <1>21 DEF W

\* p, written behind s for the record r, leaves the file in order and carries
\* the record.
LaysPiece(r, s, p, W) ==
  /\ IsSeq(p) /\ Carried(p, <<r>>)
  /\ IsSeq(s \o p) /\ s \o p # <<>> /\ (s \o p)[1] = Magic /\ Settled(s \o p, W)
  /\ Open(s) /\ r.op # "dataEnd" => Open(s \o p)
  /\ r.op \notin TsFlushes => Lateless(p)

\* So does what the TypeScript loop writes for one record.
LEMMA TsPieceLays ==
  ASSUME NEW W, NEW b, NEW i \in DOMAIN b, b[i].op \notin Encrypted,
         metadataMode \in {"plaintext", "encrypt"},
         NEW s, IsSeq(s), s # <<>>, s[1] = Magic, Settled(s, W),
         b[i].op \in Data => Open(s),
         NEW p, p = TsPiece(b, i, SymKey, metadataMode)
  PROVE  LaysPiece(b[i], s, p, W)
<1> DEFINE r == b[i]
<1>1. IsSeq(<<r>>) /\ DOMAIN <<r>> = {1} /\ <<r>>[1] = r
  BY Single
<1>2. CASE r.op \in Data \cup {"header"}
  <2> DEFINE e == Sealed(b, i, SymKey, metadataMode)
             t == <<e>>
  <2>1. p = t
    BY <1>2 DEF TsPiece, Data
  <2>2. /\ r.op = "header" => e = r
        /\ r.op = "chunk" => e.op = "encChunk" /\ e.body = r.body
        /\ r.op = "attachment" => e.op = "encAttachment" /\ e.body = r.body
        /\ r.op = "metadata" => e.op = MetadataOp /\ e.body = r.body
    <3>1. CASE r.op = "header"
      BY <3>1 DEF Sealed
    <3>2. CASE r.op = "chunk"
      BY <3>2 DEF Sealed, EncChunk
    <3>3. CASE r.op = "attachment"
      BY <3>3 DEF Sealed, EncAttachment
    <3>4. CASE r.op = "metadata"
      <4>1. CASE metadataMode = "encrypt"
        BY <3>4, <4>1 DEF Sealed, EncMetadata, MetadataOp
      <4>2. CASE metadataMode = "plaintext"
        BY <3>4, <4>2 DEF Sealed, MetadataOp
      <4>3. QED
        BY <4>1, <4>2
    <3>5. QED
      BY <1>2, <3>1, <3>2, <3>3, <3>4 DEF Data
  <2>3. IsSeq(t) /\ DOMAIN t = {1} /\ t[1] = e
    BY Single
  <2>4. MetadataOp \in {"metadata", "encMetadata"}
    BY DEF MetadataOp
  <2> HIDE DEF e, r
  <2>5. e.op \notin {"def", "slot"} /\ e.op \notin Ends /\ (r.op = "header" => e.op \notin Loads)
    BY <1>2, <2>2, <2>4 DEF Data, Ends, Loads, Late
  <2>6. Carried(t, <<r>>)
    <3>1. CASE r.op \in Data
      <4>1. e.body = r.body /\ \/ r.op = "chunk" /\ e.op = "encChunk"
                               \/ r.op = "attachment" /\ e.op = "encAttachment"
                               \/ r.op = "metadata" /\ e.op = MetadataOp
        BY <2>2, <3>1 DEF Data
      <4>2. QED
        BY <4>1, CarriedOne
    <3>2. CASE r.op = "header"
      <4>1. e = r
        BY <2>2, <3>2
      <4> DEFINE q == <<r>>
      <4>2. Bare(t)
        BY <2>3, <3>2, <4>1 DEF Bare, Elements, Carriers, Encrypted
      <4>3. IsSeq(q) /\ \A j \in DOMAIN q : q[j].op \notin Carriers
        BY <1>1, <3>2 DEF Carriers
      <4> HIDE DEF q, t
      <4>4. Carried(t, q)
        BY <2>3, <4>2, <4>3, CarriedNothing
      <4>5. QED
        BY <4>4 DEF q
    <3>3. QED
      BY <1>2, <3>1, <3>2 DEF r
  <2>7. (Open(s) /\ e.op \notin Ends) \/ e.op \notin Loads
    BY <1>2, <2>5 DEF r
  <2>8. /\ IsSeq(s \o t) /\ s \o t # <<>> /\ Settled(s \o t, W) /\ (s \o t)[1] = s[1]
        /\ Open(s) => Open(s \o t)
    <3>1. e.op \notin {"def", "slot"}
      BY <2>5
    <3>2. QED
      BY <2>5, <2>7, <3>1, LaysOne
  <2>9. r.op \notin TsFlushes => Lateless(t)
    BY <1>2, <2>2, <2>3 DEF TsFlushes, Data, Lateless, Late
  <2> HIDE DEF t
  <2>10. QED
    BY <2>1, <2>3, <2>6, <2>8, <2>9 DEF r, LaysPiece
<1>3. CASE r.op = "dataEnd"
  <2> DEFINE e == Manifest(SymKey, CountBefore(b, i, "chunk"))
             d == DataEnd
             m == <<e>>
             z == <<d>>
  <2>1. p = <<e, d>>
    BY <1>3 DEF TsPiece
  <2>2. m \o z = <<e, d>>
    BY PairIsConcat
  <2>3. e.op = "manifest" /\ d.op = "dataEnd"
    BY DEF Manifest, DataEnd
  <2> HIDE DEF e, d
  <2>4. IsSeq(m) /\ IsSeq(z) /\ DOMAIN m = {1} /\ DOMAIN z = {1} /\ m[1] = e /\ z[1] = d
    BY Single
  <2>5. e.op \notin {"def", "slot"} /\ e.op \notin Loads /\ d.op \notin {"def", "slot"} /\ d.op \notin Loads
    BY <2>3 DEF Loads, Late
  <2>6. IsSeq(s \o m) /\ s \o m # <<>> /\ Settled(s \o m, W) /\ (s \o m)[1] = s[1]
    BY <2>5, LaysOne
  <2> DEFINE u == s \o m
  <2> HIDE DEF u
  <2>7. IsSeq(u \o z) /\ u \o z # <<>> /\ Settled(u \o z, W) /\ (u \o z)[1] = u[1]
    BY <2>5, <2>6, LaysOne DEF u
  <2>12. p = m \o z
    BY <2>1, <2>2
  <2> HIDE DEF m, z
  <2>13. IsSeq(m) /\ IsSeq(z)
    BY <2>4
  <2>8. u \o z = s \o p
    <3>1. (s \o m) \o z = s \o (m \o z)
      BY <2>13, Grouped
    <3>2. QED
      BY <2>12, <3>1 DEF u
  <2>9. IsSeq(p)
    <3>1. IsSeq(m \o z)
      BY <2>13, Concat
    <3>2. QED
      BY <2>12, <3>1
  <2>10. Carried(p, <<r>>)
    <3> DEFINE q == <<r>>
    <3>1. Bare(m) /\ Bare(z)
      BY <2>3, <2>4 DEF Bare, Elements, Carriers, Encrypted
    <3>2. Bare(m \o z)
      BY <2>4, <3>1, BareConcat
    <3>3. IsSeq(q) /\ \A j \in DOMAIN q : q[j].op \notin Carriers
      BY <1>1, <1>3 DEF Carriers
    <3>4. Bare(p)
      BY <2>12, <3>2
    <3> HIDE DEF q
    <3>5. Carried(p, q)
      BY <2>9, <3>3, <3>4, CarriedNothing
    <3>6. QED
      BY <3>5 DEF q
  <2>11. QED
    BY <1>3, <2>6, <2>7, <2>8, <2>9, <2>10 DEF u, TsFlushes, LaysPiece
<1>4. CASE r.op \notin Data \cup {"header", "dataEnd"}
  <2>1. p = <<>>
    BY <1>4 DEF TsPiece, Data
  <2>2. s \o <<>> = s /\ IsSeq(<<>>)
    BY ConcatLen
  <2>3. Carried(<<>>, <<r>>)
    <3> DEFINE q == <<r>>
    <3>1. Bare(<<>>)
      BY NoneIsBare
    <3>2. IsSeq(q) /\ \A j \in DOMAIN q : q[j].op \notin Carriers
      BY <1>1, <1>4 DEF Carriers, Data
    <3> HIDE DEF q
    <3>3. Carried(<<>>, q)
      BY <2>2, <3>1, <3>2, CarriedNothing
    <3>4. QED
      BY <3>3 DEF q
  <2>4. Lateless(<<>>)
    BY DEF Lateless
  <2>5. QED
    BY <2>1, <2>2, <2>3, <2>4 DEF LaysPiece
<1>5. QED
  BY <1>2, <1>3, <1>4 DEF LaysPiece

\* The first n records are written: everything is in order and carried, the
\* data is not closed before it is over, and nothing that is late is written
\* ahead of the definitions and slots.
TsLaid(b, s, n, W) ==
  /\ IsSeq(s) /\ s # <<>> /\ s[1] = Magic /\ Settled(s, W)
  /\ Carried(s, SubSeq(b, 1, n))
  /\ (\A i \in 1..n : b[i].op # "dataEnd") => Open(s)
  /\ n <= Len(UpTo(b, TsFlushes)) => Lateless(s)

\* One more record is written.
LEMMA TsLaysNext ==
  ASSUME NEW W, NEW b, IsSeq(b), \A i \in DOMAIN b : b[i].op \notin Encrypted,
         \A i, j \in DOMAIN b : b[i].op \in Data /\ b[j].op = "dataEnd" => i < j,
         metadataMode \in {"plaintext", "encrypt"},
         NEW a, IsSeq(a), Within(a, W), Unended(a), Slotless(a), Lateless(a), Defined(a, W),
         NEW c, IsSeq(c), \A i \in DOMAIN c : c[i].op = "slot", Bare(a \o c),
         NEW n \in 0..Len(b), n < Len(b), NEW s, TsLaid(b, s, n, W)
  PROVE  TsLaid(b, s \o TsWrites(b, a \o c, SymKey, metadataMode, n + 1), n + 1, W)
<1> DEFINE m == Len(UpTo(b, TsFlushes))
           past == SubSeq(b, 1, n)
           next == SubSeq(b, 1, n + 1)
           r == b[n + 1]
           flush == IF n + 1 = m + 1 THEN a \o c ELSE <<>>
           p == TsPiece(b, n + 1, SymKey, metadataMode)
           u == s \o flush
<1>1. /\ Len(b) \in Nat /\ DOMAIN b = 1..Len(b) /\ n + 1 \in DOMAIN b /\ n \in Nat
  BY AsFunction
<1>2. /\ m \in 0..Len(b) /\ \A i \in 1..m : b[i].op \notin TsFlushes
      /\ m < Len(b) => b[m + 1].op \in TsFlushes
  <2>1. PICK l \in 0..Len(b) :
           /\ UpTo(b, TsFlushes) = SubSeq(b, 1, l)
           /\ \A i \in 1..l : b[i].op \notin TsFlushes
           /\ l < Len(b) => b[l + 1].op \in TsFlushes
    BY UpToIsFront
  <2>2. m = l
    BY <2>1, FrontOf
  <2>3. QED
    BY <2>1, <2>2
<1>3. TsWrites(b, a \o c, SymKey, metadataMode, n + 1) = flush \o p
  BY DEF TsWrites
<1>4. IsSeq(past) /\ IsSeq(<<r>>) /\ next = past \o <<r>>
  BY <1>1, FrontOf, FrontGrows, Single
<1>5. /\ IsSeq(s) /\ s # <<>> /\ s[1] = Magic /\ Settled(s, W) /\ Carried(s, past)
      /\ (\A i \in 1..n : b[i].op # "dataEnd") => Open(s)
      /\ n <= m => Lateless(s)
  BY DEF TsLaid
<1> HIDE DEF past, next, m
<1>6. /\ IsSeq(flush) /\ IsSeq(u) /\ u # <<>> /\ u[1] = Magic /\ Settled(u, W) /\ Carried(u, past)
      /\ Open(s) => Open(u)
      /\ n + 1 <= m => u = s
  <2>1. CASE n # m
    <3>1. flush = <<>>
      BY <1>1, <1>2, <2>1
    <3>2. s \o <<>> = s /\ IsSeq(<<>>)
      BY <1>5, ConcatLen
    <3>3. u = s /\ IsSeq(flush)
      BY <3>1, <3>2
    <3> HIDE DEF u, flush
    <3>4. QED
      BY <1>5, <3>3
  <2>2. CASE n = m
    <3> DEFINE v == a \o c
    <3>1. flush = v
      BY <2>2
    <3>2. \A i \in 1..n : b[i].op # "dataEnd"
      BY <1>2, <2>2 DEF TsFlushes
    <3>3. Lateless(s) /\ Open(s)
      BY <1>1, <1>5, <2>2, <3>2
    <3>4. /\ IsSeq((s \o a) \o c) /\ (s \o a) \o c # <<>> /\ Settled((s \o a) \o c, W)
          /\ Open((s \o a) \o c) /\ ((s \o a) \o c)[1] = s[1]
      BY <1>5, <3>3, SettledOpening
    <3>12. IsSeq(v)
      BY Concat
    <3>5. (s \o a) \o c = s \o v /\ IsSeq(v)
      BY <1>5, <3>12, Grouped, SMTT(30)
    <3> DEFINE q == <<>>
    <3>6. IsSeq(q) /\ \A j \in DOMAIN q : q[j].op \notin Carriers
      BY DEF IsSeq, Elements
    <3>7. past \o q = past
      BY <1>4, ConcatLen
    <3> HIDE DEF q, v
    <3>8. Carried(v, q)
      BY <3>5, <3>6, CarriedNothing DEF v
    <3>9. Carried(s \o v, past \o q)
      BY <1>4, <1>5, <3>5, <3>6, <3>8, CarriedConcat
    <3>10. ~ (n + 1 <= m)
      BY <1>1, <2>2
    <3>11. QED
      BY <1>5, <3>1, <3>4, <3>5, <3>7, <3>9, <3>10
  <2>3. QED
    BY <2>1, <2>2
<1> HIDE DEF flush, u
<1>7. r.op \in Data => Open(u)
  <2>1. SUFFICES ASSUME r.op \in Data, NEW i \in 1..n PROVE b[i].op # "dataEnd"
    BY <1>5, <1>6
  <2>2. i \in DOMAIN b /\ ~ (n + 1 < i)
    BY <1>1
  <2>3. QED
    BY <1>1, <2>1, <2>2
<1>8. r.op \notin Encrypted
  BY <1>1
<1>9. /\ IsSeq(p) /\ Carried(p, <<r>>)
      /\ IsSeq(u \o p) /\ u \o p # <<>> /\ (u \o p)[1] = Magic /\ Settled(u \o p, W)
      /\ Open(u) /\ r.op # "dataEnd" => Open(u \o p)
      /\ r.op \notin TsFlushes => Lateless(p)
  <2> DEFINE i == n + 1
  <2>1. /\ p = TsPiece(b, i, SymKey, metadataMode)
        /\ i \in DOMAIN b /\ b[i].op \notin Encrypted
        /\ b[i].op \in Data => Open(u)
    BY <1>1, <1>7, <1>8
  <2>2. IsSeq(u) /\ u # <<>> /\ u[1] = Magic /\ Settled(u, W)
    BY <1>6
  <2> HIDE DEF p, i, r
  <2>3. LaysPiece(b[i], u, p, W)
    BY <2>1, <2>2, TsPieceLays, Zenon
  <2>4. QED
    BY <2>3 DEF i, r, LaysPiece
<1> DEFINE t == flush \o p
<1>10. s \o t = u \o p
  <2> HIDE DEF p
  <2>3. IsSeq(s) /\ IsSeq(flush) /\ IsSeq(p)
    BY <1>5, <1>6, <1>9
  <2>1. (s \o flush) \o p = s \o (flush \o p)
    BY <2>3, Grouped, SMTT(30)
  <2>2. QED
    BY <2>1 DEF u
<1> HIDE DEF p
<1>11. Carried(u \o p, past \o <<r>>)
  <2> DEFINE q == <<r>>
  <2> HIDE DEF q, r
  <2>1. IsSeq(q) /\ Carried(p, q)
    BY <1>4, <1>9 DEF q, r
  <2>2. Carried(u \o p, past \o q)
    BY <1>4, <1>6, <1>9, <2>1, CarriedConcat
  <2>3. QED
    BY <2>2 DEF q, r
<1>12. ASSUME \A i \in 1..(n + 1) : b[i].op # "dataEnd" PROVE Open(u \o p)
  <2>1. \A i \in 1..n : i \in 1..(n + 1)
    BY <1>1
  <2>2. n + 1 \in 1..(n + 1)
    BY <1>1
  <2>3. QED
    BY <1>5, <1>6, <1>9, <1>12, <2>1, <2>2
<1>13. ASSUME n + 1 <= m PROVE Lateless(u \o p)
  <2>1. n + 1 \in 1..m /\ n <= m
    BY <1>1, <1>2, <1>13
  <2>2. Lateless(s) /\ Lateless(p)
    BY <1>2, <1>5, <1>9, <2>1
  <2>3. u = s
    BY <1>6, <1>13
  <2>4. QED
    BY <1>5, <1>9, <2>2, <2>3, SettledParts
<1> DEFINE x == u \o p
<1>14. IsSeq(x) /\ x # <<>> /\ x[1] = Magic /\ Settled(x, W) /\ Carried(x, next)
  BY <1>4, <1>9, <1>11
<1> HIDE DEF x
<1>15. TsLaid(b, x, n + 1, W)
  BY <1>12, <1>13, <1>14 DEF TsLaid, x, m, next
<1>16. QED
  BY <1>3, <1>10, <1>15 DEF x

\* All records are written.
LEMMA TsLoopLays ==
  ASSUME NEW W, NEW b, IsSeq(b), \A i \in DOMAIN b : b[i].op \notin Encrypted,
         \A i, j \in DOMAIN b : b[i].op \in Data /\ b[j].op = "dataEnd" => i < j,
         metadataMode \in {"plaintext", "encrypt"},
         NEW a, IsSeq(a), Within(a, W), Unended(a), Slotless(a), Lateless(a), Defined(a, W),
         NEW c, IsSeq(c), \A i \in DOMAIN c : c[i].op = "slot", Bare(a \o c),
         NEW f, f = TsLoop(b, a \o c, SymKey, metadataMode, f)
  PROVE  TsLaid(b, f[Len(b)], Len(b), W)
<1> DEFINE N == Len(b)
           G == {n \in 0..N : TsLaid(b, f[n], n, W)}
<1>1. N \in Nat
  BY AsFunction
<1>2. f = [i \in 0..N |-> IF i = 0 THEN <<Magic>>
                          ELSE f[i - 1] \o TsWrites(b, a \o c, SymKey, metadataMode, i)]
  BY DEF TsLoop
<1>3. f[0] = <<Magic>>
  BY <1>1, <1>2
<1>4. 0 \in G
  <2> DEFINE m == <<Magic>>
             q == SubSeq(b, 1, 0)
  <2>1. /\ Settled(m, W) /\ Open(m) /\ Lateless(m) /\ m # <<>> /\ IsSeq(m) /\ m[1] = Magic
        /\ DOMAIN m = {1} /\ Magic.op = "magic"
    BY SettledMagic, Single DEF Magic
  <2>2. IsSeq(q) /\ \A j \in DOMAIN q : q[j].op \notin Carriers
    <3>1. IsSeq(q) /\ DOMAIN q = 1..0
      BY <1>1, FrontOf
    <3>2. QED
      BY <3>1
  <2> HIDE DEF m, q
  <2>3. Bare(m)
    BY <2>1 DEF Bare, Elements, Carriers, Encrypted
  <2>4. Carried(m, q)
    BY <2>1, <2>2, <2>3, CarriedNothing
  <2>5. TsLaid(b, m, 0, W)
    BY <2>1, <2>4 DEF TsLaid, q
  <2>6. QED
    BY <1>1, <1>3, <2>5 DEF m
<1>5. ASSUME NEW n \in 0..(N - 1), n \in G PROVE n + 1 \in G
  <2>1. n + 1 \in 0..N /\ n + 1 # 0 /\ (n + 1) - 1 = n /\ n \in 0..N /\ n < N
    BY <1>1
  <2>2. f[n + 1] = f[n] \o TsWrites(b, a \o c, SymKey, metadataMode, n + 1)
    BY <1>2, <2>1
  <2>3. TsLaid(b, f[n], n, W)
    BY <1>5
  <2>4. TsLaid(b, f[n] \o TsWrites(b, a \o c, SymKey, metadataMode, n + 1), n + 1, W)
    BY <2>1, <2>3, TsLaysNext
  <2>5. QED
    BY <2>1, <2>2, <2>4
<1> HIDE DEF G
<1>6. \A n \in 0..N : n \in G
  BY <1>1, <1>4, <1>5, Induction
<1>7. N \in G
  BY <1>1, <1>6
<1>8. QED
  BY <1>7 DEF G

\* Neither slots nor definitions are data.
LEMMA OpeningIsBare ==
  ASSUME NEW ds, IsSeq(ds), NEW list, IsSeq(list), NEW k
  PROVE  /\ IsSeq(MadeSlots(list, k)) /\ \A i \in DOMAIN MadeSlots(list, k) : MadeSlots(list, k)[i].op = "slot"
         /\ Bare(Records(ds, Def) \o MadeSlots(list, k))
<1> DEFINE d == Records(ds, Def)
           c == MadeSlots(list, k)
<1>1. IsSeq(d) /\ Bare(d)
  <2>1. IsSeq(d) /\ Elements(d) = {Def(x) : x \in Elements(ds)}
    BY MadeDefs
  <2> HIDE DEF d
  <2>2. QED
    BY <2>1 DEF Bare, Def, Carriers, Encrypted
<1>2. \A i \in DOMAIN c : c[i].op = "slot"
  BY DEF MadeSlots, Records, Slot
<1>3. IsSeq(c)
  <2> DEFINE to == Elements(list) \X {k}
  <2>1. \A h \in Elements(list) : <<h, k>> \in to
    OBVIOUS
  <2> HIDE DEF to
  <2>2. QED
    BY <2>1, SlotsArePart
<1> HIDE DEF d, c
<1>4. Bare(c)
  BY <1>2 DEF Bare, Elements, Carriers, Encrypted
<1>5. Bare(d \o c)
  BY <1>1, <1>3, <1>4, BareConcat
<1>6. QED
  BY <1>2, <1>3, <1>5 DEF c, d

\* A file that TypeScript encrypted is in order and holds all of the source,
\* which has no message outside of chunks.
LEMMA TsEncryptedIntact ==
  ASSUME EncBase, TsEncrypts(source, recipients), rotatedBy = {},
         metadataMode \in {"plaintext", "encrypt"}
  PROVE  LET s == TsEncrypted(source, recipients, SymKey, metadataMode)
         IN /\ Sound(s, Elements(TsDefinitions(TsBody)))
            /\ Holds(s, Bodies(source, "attachment"), PlainMetadata, SealedMetadata)
            /\ OfKind(source, {"message"}) = <<>>
<1> DEFINE b == TsBody
           N == Len(b)
           known == TsDefinitions(b)
           W == Elements(known)
           a == Records(known, Def)
           c == MadeSlots(recipients, SymKey)
           s == TsEncrypted(source, recipients, SymKey, metadataMode)
           t == TsTail
<1>1. /\ IsSeq(b) /\ IsSeq(recipients) /\ IsSeq(known)
      /\ \A i \in DOMAIN b : b[i].op \notin Encrypted \cup {"message"}
      /\ TsOpening = a \o c
  BY TsEncryptedForm DEF TsOpening
<1>2. PICK w : w = TsLoop(b, TsOpening, SymKey, metadataMode, w) /\ s = w[N] \o t
  BY TsEncryptedForm
<1>3. /\ \A op \in Data : Bodies(b, op) = Bodies(source, op)
      /\ OfKind(source, {"message"}) = <<>>
  <2>1. {"footer"} \subseteq Ends
    BY DEF Ends
  <2>2. \A i \in DOMAIN b : b[i].op # "message"
    BY <1>1
  <2>3. QED
    BY <2>1, <2>2, FrontHasData DEF TsBody
<1>4. \A i, j \in DOMAIN b : b[i].op \in Data /\ b[j].op = "dataEnd" => i < j
  <2>1. IsSeq(source)
    BY InputIs
  <2>2. PICK m \in 0..Len(source) : b = SubSeq(source, 1, m)
    BY <2>1, UpToIsFront DEF TsBody
  <2> HIDE DEF b
  <2>3. DOMAIN b = 1..m /\ \A i \in 1..m : b[i] = source[i] /\ i \in DOMAIN source
    BY <2>1, <2>2, FrontOf
  <2>4. \A i, j \in DOMAIN source : source[i].op \in Data /\ source[j].op = "dataEnd" => i < j
    BY InputIs DEF Data
  <2>5. QED
    BY <2>3, <2>4
<1>5. t = <<Footer>> \o <<Magic>> \/ t = <<>> \o <<Magic>>
  BY DEF TsTail
<1> HIDE DEF b, s, t
<1>6. /\ IsSeq(a) /\ Within(a, W) /\ Unended(a) /\ Slotless(a) /\ Lateless(a) /\ Defined(a, W)
  <2>1. Elements(known) \subseteq W /\ Elements(known) = W
    OBVIOUS
  <2> HIDE DEF W, known
  <2>2. QED
    BY <1>1, <2>1, DefRecords
<1>7. IsSeq(c) /\ (\A i \in DOMAIN c : c[i].op = "slot") /\ Bare(a \o c)
  <2> HIDE DEF known
  <2>1. QED
    BY <1>1, OpeningIsBare
<1> HIDE DEF a, c, W, known
<1>8. TsLaid(b, w[N], N, W)
  <2>1. \A i \in DOMAIN b : b[i].op \notin Encrypted
    BY <1>1
  <2>2. w = TsLoop(b, a \o c, SymKey, metadataMode, w)
    BY <1>1, <1>2
  <2>3. QED
    BY <1>1, <1>4, <1>6, <1>7, <2>1, <2>2, TsLoopLays
<1> DEFINE x == w[N]
<1>9. /\ IsSeq(x) /\ x # <<>> /\ x[1] = Magic /\ Settled(x, W) /\ Carried(x, b)
  <2>1. SubSeq(b, 1, N) = b
    BY <1>1, FrontIsAll
  <2>2. QED
    BY <1>8, <2>1 DEF TsLaid
<1>10. IsSeq(t) /\ \A i \in DOMAIN t : t[i].op \in {"footer", "magic"}
  <2> DEFINE f == <<Footer>>
             m == <<Magic>>
  <2>1. /\ IsSeq(f) /\ DOMAIN f = {1} /\ f[1].op = "footer"
        /\ IsSeq(m) /\ DOMAIN m = {1} /\ m[1].op = "magic"
    BY Single DEF Footer, Magic
  <2>2. t = f \o m \/ t = <<>> \o m
    BY <1>5
  <2> HIDE DEF f, m
  <2>3. <<>> \o m = m
    BY <2>1, ConcatLen
  <2>4. CASE t = m
    BY <2>1, <2>4
  <2>5. CASE t = f \o m
    <3>1. IsSeq(f \o m)
      BY <2>1, Concat
    <3>2. \A k \in DOMAIN (f \o m) : (f \o m)[k].op \in {"footer", "magic"}
      <4>1. SUFFICES ASSUME NEW k \in DOMAIN (f \o m) PROVE (f \o m)[k].op \in {"footer", "magic"}
        OBVIOUS
      <4>2. \/ k \in DOMAIN f /\ (f \o m)[k] = f[k]
            \/ \E i \in DOMAIN m : k = Len(f) + i /\ (f \o m)[k] = m[i]
        BY <2>1, ConcatSplit
      <4>3. QED
        BY <2>1, <4>2
    <3>3. QED
      BY <2>5, <3>1, <3>2
  <2>6. QED
    BY <2>2, <2>3, <2>4, <2>5
<1>11. Hollow(t) /\ Slotless(t) /\ Within(t, W) /\ Blank(t)
  <2>1. Mute(t)
    BY <1>10 DEF Mute, Sought, Loads, Late
  <2>2. Blank(t)
    BY <1>10 DEF Blank, Contents
  <2>3. QED
    BY <2>1, <2>2, MuteIs
<1> HIDE DEF x
<1>12. s = x \o t
  BY <1>2 DEF x
<1>13. Sound(x \o t, W)
  <2>1. Settled(x \o t, W)
    BY <1>9, <1>10, <1>11, SettledMore
  <2>2. IsSeq(x \o t)
    BY <1>9, <1>10, Concat
  <2>3. x \o t # <<>> /\ (x \o t)[1] = Magic
    BY <1>9, <1>10, StaysFilled
  <2>4. QED
    BY <2>1, <2>2, <2>3 DEF Sound
<1>14. Holds(x, Bodies(source, "attachment"), PlainMetadata, SealedMetadata)
  <2>1. Bodies(b, "attachment") = Bodies(source, "attachment")
        /\ Bodies(b, "metadata") = Bodies(source, "metadata")
    BY <1>3 DEF Data
  <2>2. QED
    BY <1>9, <2>1, CarriedHolds
<1>15. Holds(x \o t, Bodies(source, "attachment"), PlainMetadata, SealedMetadata)
  <2>1. \A op \in Contents : Bodies(x \o t, op) = Bodies(x, op)
    BY <1>9, <1>10, <1>11, BlankAdds
  <2>2. QED
    BY <1>14, <2>1, HoldsAlike
<1>16. QED
  BY <1>3, <1>12, <1>13, <1>15 DEF s, W, known, b

\* What Go has encrypted is in order and holds all of the source when it is
\* stored.
LEMMA StoreIsIntact ==
  ASSUME EncInv, SealInv, LayInv, Store, rotatedBy = {},
         metadataMode \in {"plaintext", "encrypt"}
  PROVE  Intact(stored)' /\ OfKind(source', {"message"}) = <<>>
<1>1. /\ encState = "done" /\ stored' = out /\ encryptedBy' = "go" /\ rotatedBy' = rotatedBy
      /\ source' = source /\ metadataMode' = metadataMode
  BY DEF Store, encVars
<1>2. IsSeq(source) /\ IsSeq(out)
  BY InputIsSeq DEF EncInv, Written
<1>3. Sound(out, AllKnown)
  BY <1>1, <1>2 DEF LayInv, Sound
<1>4. Holds(out, Bodies(source, "attachment"), PlainMetadata, SealedMetadata)
  <2>1. Carried(out, Seen)
    BY DEF SealInv
  <2>2. Bodies(Seen, "attachment") = Bodies(source, "attachment")
        /\ Bodies(Seen, "metadata") = Bodies(source, "metadata")
    BY <1>1 DEF SealInv, Carriers
  <2> DEFINE p == Seen
  <2> HIDE DEF p
  <2>3. Carried(out, p) /\ Bodies(p, "attachment") = Bodies(source, "attachment")
        /\ Bodies(p, "metadata") = Bodies(source, "metadata")
    BY <2>1, <2>2 DEF p
  <2>4. QED
    BY <1>2, <2>3, CarriedHolds
<1>5. WrittenDefs' = AllKnown
  BY <1>1 DEF WrittenDefs, AllKnown
<1>6. PlainMetadata' = PlainMetadata /\ SealedMetadata' = SealedMetadata
  BY <1>1 DEF PlainMetadata, SealedMetadata
<1>7. OfKind(source, {"message"}) = <<>>
  BY <1>1, <1>2, NoMessages DEF LayInv
<1>8. QED
  BY <1>1, <1>3, <1>4, <1>5, <1>6, <1>7 DEF Intact

\* What another tool has encrypted is, too; all of them but Python refuse
\* messages outside of chunks.
LEMMA ElsewhereIsIntact ==
  ASSUME EncBase, NEW tool \in Tools, EncryptElsewhere(tool), rotatedBy = {},
         metadataMode \in {"plaintext", "encrypt"}
  PROVE  /\ Intact(stored)'
         /\ OfKind(source', {"message"}) = <<>> \/ encryptedBy' = "python"
<1>1. /\ EncryptsElsewhere(tool) /\ stored' = EncryptedElsewhere(tool) /\ encryptedBy' = tool
      /\ rotatedBy' = rotatedBy /\ source' = source /\ metadataMode' = metadataMode
  BY DEF EncryptElsewhere, encVars
<1>2. PlainMetadata' = PlainMetadata /\ SealedMetadata' = SealedMetadata
  BY <1>1 DEF PlainMetadata, SealedMetadata
<1> DEFINE as == Bodies(source, "attachment")
           ps == PlainMetadata
           es == SealedMetadata
<1>3. CASE tool = "python"
  <2> DEFINE s == PyEncrypted(source, recipients, SymKey, metadataMode)
  <2>1. PyEncrypts(source, recipients) /\ stored' = s
    BY <1>1, <1>3 DEF EncryptsElsewhere, EncryptedElsewhere
  <2>2. Sound(s, Elements(PyDefinitions(source))) /\ Holds(s, as, ps, es)
    BY <2>1, PyEncryptedIntact
  <2>3. WrittenDefs' = Elements(PyDefinitions(source))
    BY <1>1, <1>3 DEF WrittenDefs
  <2> HIDE DEF s
  <2>4. QED
    BY <1>1, <1>2, <1>3, <2>1, <2>2, <2>3 DEF Intact
<1>4. CASE tool = "typescript"
  <2> DEFINE s == TsEncrypted(source, recipients, SymKey, metadataMode)
  <2>1. TsEncrypts(source, recipients) /\ stored' = s
    BY <1>1, <1>4 DEF EncryptsElsewhere, EncryptedElsewhere
  <2>2. /\ Sound(s, Elements(TsDefinitions(TsBody))) /\ Holds(s, as, ps, es)
        /\ OfKind(source, {"message"}) = <<>>
    BY <2>1, TsEncryptedIntact
  <2>3. WrittenDefs' = Elements(TsDefinitions(TsBody))
    BY <1>1, <1>4 DEF WrittenDefs, TsBody
  <2> HIDE DEF s
  <2>4. QED
    BY <1>1, <1>2, <2>1, <2>2, <2>3 DEF Intact
<1>5. CASE tool = "legacy"
  <2> DEFINE s == LegacyEncrypted
  <2>1. LegacyEncrypts /\ stored' = s
    BY <1>1, <1>5 DEF EncryptsElsewhere, EncryptedElsewhere
  <2>2. Sound(s, AllDefs) /\ Holds(s, as, ps, es)
    BY <2>1, LegacyEncryptedIntact
  <2>3. WrittenDefs' = AllDefs
    BY <1>1, <1>5 DEF WrittenDefs, AllDefs
  <2>4. OfKind(source, {"message"}) = <<>>
    <3>1. IsSeq(source)
      BY InputIs
    <3>2. OfKind(source, Encrypted \cup {"message", "torn"}) = <<>>
      BY <2>1 DEF LegacyEncrypts
    <3>3. \A i \in DOMAIN source : source[i].op \notin Encrypted \cup {"message", "torn"}
      BY <3>1, <3>2, OfKindEmpty
    <3>4. QED
      BY <3>1, <3>3, NoMessages
  <2> HIDE DEF s
  <2>5. QED
    BY <1>1, <1>2, <2>1, <2>2, <2>3, <2>4 DEF Intact
<1>6. QED
  BY <1>3, <1>4, <1>5, ToolsAssumption

\* A rotation by Python leaves a file in order that has everything but the
\* encrypted metadata.
LEMMA PyRotatedIntact ==
  ASSUME StoredPart, NEW h, NEW new \in NewLists, PyRotates(stored, h, new), NEW W, NEW as, NEW ps,
         NEW es, Sound(stored, W), Holds(stored, as, ps, es)
  PROVE  LET s == PyRotated(stored, h, new)
         IN Sound(s, W) /\ Holds(s, as, ps, <<>>)
<1> DEFINE r == PyRead
           L == {"header", "def"}
           head == OfKind(r, L)
           data == OfKind(r, PyKept)
           k == KeyFor(r, h)
           ds == DefIds(r)
           s == PyRotated(stored, h, new)
<1>1. /\ IsSeq(r) /\ Part(r, Rec, Given(readers)) /\ k \in Keys /\ IsSeq(ds) /\ IsSeq(new)
      /\ IsSeq(head) /\ IsSeq(data)
  BY PyRotatedForm
<1>2. PICK at : IsSeq(at) /\ s = Laid(head, new, k, Tally(data), data, ds, at)
  BY PyRotatedForm
<1>3. Settled(r, W) /\ \A op \in Contents : Bodies(r, op) = Bodies(stored, op)
  <2>1. PyRotationEnds \subseteq Ends
    BY DEF PyRotationEnds, PyEnds, Ends
  <2>2. r = UpTo(SubSeq(stored, 2, Len(stored)), PyRotationEnds)
    BY DEF PyRead, PySection
  <2> HIDE DEF r
  <2>3. QED
    BY <2>1, <2>2, SectionKeeps
<1> HIDE DEF r, s
<1>4. Defined(r, W) /\ Elements(ds) \subseteq W
  <2>1. Keyed(r) /\ k # NoKey
    <3>1. Keyed(r)
      BY <1>1, PartIsKeyed
    <3>2. k # NoKey
      BY <1>1, SymKeyAssumption, OtherKeyAssumption DEF Keys
    <3>3. QED
      BY <3>1, <3>2
  <2>2. QED
    BY <1>1, <1>3, <2>1, KeyedIsDefined
<1>5. /\ Elements(head) = {e \in Elements(r) : e.op \in L}
      /\ Elements(data) = {e \in Elements(r) : e.op \in PyKept}
  BY <1>1, OfKindIsSeq
<1>6. Defined(head, W)
  <2>1. head = Selected(r, KindAt(r, L)) /\ KindAt(r, L) \in SUBSET DOMAIN r
    BY OfKindForm
  <2>2. KindAt(r, {"def"}) \subseteq KindAt(r, L)
    BY DEF KindAt
  <2> HIDE DEF head
  <2>3. QED
    BY <1>1, <1>4, <2>1, <2>2, DefinedKind
<1>7. \A op \in PyKept : Bodies(data, op) = Bodies(r, op)
  BY <1>1, BodiesOfKind
<1> HIDE DEF head, data, k, ds
<1>8. /\ \A i \in DOMAIN head : head[i] \in Elements(r) /\ head[i].op \in L
      /\ \A i \in DOMAIN data : data[i] \in Elements(r) /\ data[i].op \in PyKept
  BY <1>5 DEF Elements
<1>9. Fit(head, data, W)
  <2>1. Within(head, W)
    BY <1>3, <1>8 DEF Settled, Within, Elements
  <2>2. Unended(head) /\ Slotless(head) /\ Lateless(head)
    BY <1>8 DEF Unended, Ends, Slotless, Lateless, Late
  <2>3. Within(data, W) /\ Unended(data) /\ Slotless(data)
    BY <1>8 DEF Within, Unended, Ends, Slotless, PyKept
  <2>4. QED
    BY <1>1, <1>6, <2>1, <2>2, <2>3 DEF Fit
<1>10. Together(head, data, as, ps, <<>>)
  <2>1. Blank(head)
    BY <1>8 DEF Blank, Contents
  <2>2. Bodies(data, "encMetadata") = <<>>
    <3>1. \A i \in DOMAIN data : data[i].op # "encMetadata"
      BY <1>8 DEF PyKept
    <3>2. QED
      BY <1>1, <3>1, BodiesNone
  <2>3. Holds(data, as, ps, <<>>)
    BY <1>3, <1>7, <2>2 DEF Holds, Contents, PyKept
  <2>4. QED
    BY <1>1, <2>1, <2>3, BehindBlank
<1> DEFINE n == Tally(data)
<1> HIDE DEF n
<1>11. s = Laid(head, new, k, n, data, ds, at)
  BY <1>2 DEF n, head, data, k, ds
<1>12. Sound(Laid(head, new, k, n, data, ds, at), W) /\ Holds(Laid(head, new, k, n, data, ds, at), as, ps, <<>>)
  BY <1>1, <1>2, <1>4, <1>9, <1>10, LaidIntact, Zenon
<1>13. QED
  BY <1>11, <1>12 DEF s

\* A rotation by TypeScript leaves one that has everything.
LEMMA TsRotatedIntact ==
  ASSUME StoredPart, NEW h, NEW new \in NewLists, TsRotates(stored, h, new), NEW W, NEW as, NEW ps,
         NEW es, Sound(stored, W), Holds(stored, as, ps, es)
  PROVE  LET s == TsRotated(stored, h, new)
         IN Sound(s, W) /\ Holds(s, as, ps, es)
<1> DEFINE r == TsRead
           ha == TsHeadAt
           da == TsDataAt
           e == TsEarly
           head == Selected(r, ha)
           data == Selected(r, da)
           k == KeyFor(r, h)
           ds == DefIds(r)
           s == TsRotated(stored, h, new)
<1>1. /\ IsSeq(r) /\ Part(r, Rec, Given(readers)) /\ Unended(r) /\ k \in Keys /\ IsSeq(ds)
      /\ IsSeq(new) /\ IsSeq(head) /\ IsSeq(data)
  BY TsRotatedForm
<1>2. PICK at : IsSeq(at) /\ s = Laid(head, new, k, Tally(data), data, ds, at)
  BY TsRotatedForm
<1>3. Settled(r, W) /\ \A op \in Contents : Bodies(r, op) = Bodies(stored, op)
  <2>1. TsRotationEnds \subseteq Ends
    BY DEF TsRotationEnds, Ends
  <2>2. r = UpTo(SubSeq(stored, 2, Len(stored)), TsRotationEnds)
    BY DEF TsRead, TsSection
  <2> HIDE DEF r
  <2>3. QED
    BY <2>1, <2>2, SectionKeeps
<1>4. /\ ha \in SUBSET DOMAIN r /\ da \in SUBSET DOMAIN r
      /\ \A i \in DOMAIN r : i \in ha <=>
           \/ r[i].op \in {"header", "def"}
           \/ i <= e /\ r[i].op \notin PyKept \cup {"slot", "manifest"}
      /\ \A i \in DOMAIN r : i \in da <=> i \notin ha /\ r[i].op \notin {"slot", "manifest"}
  BY DEF TsHeadAt, TsDataAt, TsAhead
<1>5. e \in 0..Len(r)
  <2>1. PICK m \in 0..Len(r) : UpTo(r, Late) = SubSeq(r, 1, m)
    BY <1>1, UpToIsFront
  <2>2. e = m
    BY <1>1, <2>1, FrontOf DEF TsEarly
  <2>3. QED
    BY <2>1, <2>2
<1> HIDE DEF r, s, ha, da, e
<1>6. Defined(r, W) /\ Elements(ds) \subseteq W
  <2>1. Keyed(r)
    BY <1>1, PartIsKeyed
  <2>2. k # NoKey
    BY <1>1, SymKeyAssumption, OtherKeyAssumption DEF Keys
  <2>3. QED
    BY <1>1, <1>3, <2>1, <2>2, KeyedIsDefined
<1>7. Defined(head, W)
  <2>1. KindAt(r, {"def"}) \subseteq ha
    BY <1>4 DEF KindAt
  <2>2. QED
    BY <1>1, <1>4, <1>6, <2>1, DefinedKind
<1>8. Elements(head) = {r[i] : i \in ha} /\ Elements(data) = {r[i] : i \in da}
  BY <1>1, <1>4, SelectedIsSeq
<1>9. ASSUME NEW op \in {"attachment", "encAttachment", "metadata"}
      PROVE  Bodies(r, op) = Bodies(head, op) \o Bodies(data, op)
  <2>1. op \in PyKept /\ op \notin {"header", "def", "slot", "manifest"}
    BY DEF PyKept
  <2>2. \A i \in KindAt(r, {op}) : i \in DOMAIN r /\ r[i].op = op
    BY DEF KindAt
  <2>3. DOMAIN r = 1..Len(r) /\ Len(r) \in Nat
    BY <1>1, AsFunction
  <2>4. \A i \in KindAt(r, {op}) : (i \in ha <=> i <= 0) /\ (i \in da <=> i > 0)
    BY <1>4, <2>1, <2>2, <2>3
  <2>5. 0 \in 0..Len(r)
    BY <2>3
  <2>6. QED
    BY <1>1, <1>4, <2>4, <2>5, SplitBodies, SMTT(60)
<1>10. Bodies(r, "encMetadata") = Bodies(head, "encMetadata") \o Bodies(data, "encMetadata")
  <2> DEFINE op == "encMetadata"
  <2>1. op \notin PyKept /\ op \notin {"header", "def", "slot", "manifest"}
    BY DEF PyKept
  <2> HIDE DEF op
  <2>2. \A i \in KindAt(r, {op}) : i \in DOMAIN r /\ r[i].op = op
    BY DEF KindAt
  <2>3. DOMAIN r = 1..Len(r) /\ Len(r) \in Nat
    BY <1>1, AsFunction
  <2>4. \A i \in KindAt(r, {op}) : (i \in ha <=> i <= e) /\ (i \in da <=> i > e)
    BY <1>4, <1>5, <2>1, <2>2, <2>3
  <2>5. Bodies(r, op) = Bodies(head, op) \o Bodies(data, op)
    BY <1>1, <1>4, <1>5, <2>4, SplitBodies, SMTT(60)
  <2>6. QED
    BY <2>5 DEF op
<1> HIDE DEF head, data, k, ds
<1>11. /\ \A i \in DOMAIN head : \E j \in ha : j \in DOMAIN r /\ head[i] = r[j]
       /\ \A i \in DOMAIN data : \E j \in da : j \in DOMAIN r /\ data[i] = r[j]
  BY <1>4, <1>8 DEF Elements
<1>12. Fit(head, data, W)
  <2>1. Within(head, W) /\ Within(data, W)
    BY <1>3, <1>11 DEF Settled, Within
  <2>2. Unended(head) /\ Unended(data)
    BY <1>1, <1>11 DEF Unended
  <2>3. Slotless(head) /\ Slotless(data) /\ Lateless(head)
    BY <1>4, <1>11 DEF Slotless, Lateless, Late, PyKept
  <2>4. QED
    BY <1>1, <1>7, <2>1, <2>2, <2>3 DEF Fit
<1>13. Together(head, data, as, ps, es)
  BY <1>3, <1>9, <1>10 DEF Together, Holds, Contents
<1> DEFINE n == Tally(data)
<1> HIDE DEF n
<1>14. s = Laid(head, new, k, n, data, ds, at)
  BY <1>2 DEF n, head, data, k, ds
<1>15. Sound(Laid(head, new, k, n, data, ds, at), W) /\ Holds(Laid(head, new, k, n, data, ds, at), as, ps, es)
  BY <1>1, <1>2, <1>6, <1>12, <1>13, LaidIntact, Zenon
<1>16. QED
  BY <1>14, <1>15 DEF s

\* Whoever rotates an intact file, it stays intact.
LEMMA RotatedElsewhereIsIntact ==
  ASSUME StoredPart, NEW tool \in Tools, NEW h \in Holders, NEW new \in NewLists,
         RotateElsewhere(tool, h, new), Intact(stored)
  PROVE  Intact(stored)'
<1>1. /\ RotatesElsewhere(tool, h, new) /\ stored' = RotatedElsewhere(tool, h, new)
      /\ rotatedBy' = rotatedBy \cup {tool} /\ source' = source /\ metadataMode' = metadataMode
      /\ encryptedBy' = encryptedBy
  BY DEF RotateElsewhere, encVars
<1>2. PlainMetadata' = PlainMetadata /\ WrittenDefs' = WrittenDefs
  BY <1>1 DEF PlainMetadata, WrittenDefs
<1> DEFINE as == Bodies(source, "attachment")
           ps == PlainMetadata
           es == SealedMetadata
           W == WrittenDefs
<1>3. Sound(stored, W) /\ Holds(stored, as, ps, es)
  BY DEF Intact
<1> HIDE DEF W, ps, es
<1>4. CASE tool = "python"
  <2>1. PyRotates(stored, h, new) /\ stored' = PyRotated(stored, h, new)
    BY <1>1, <1>4 DEF RotatesElsewhere, RotatedElsewhere
  <2>2. Sound(stored', W) /\ Holds(stored', as, ps, <<>>)
    BY <1>3, <2>1, PyRotatedIntact
  <2>3. SealedMetadata' = <<>>
    BY <1>1, <1>4 DEF SealedMetadata
  <2>4. QED
    BY <1>1, <1>2, <2>2, <2>3 DEF Intact, W, ps
<1>5. CASE tool = "typescript"
  <2>1. TsRotates(stored, h, new) /\ stored' = TsRotated(stored, h, new)
    BY <1>1, <1>5 DEF RotatesElsewhere, RotatedElsewhere
  <2>2. Sound(stored', W) /\ Holds(stored', as, ps, es)
    BY <1>3, <2>1, TsRotatedIntact
  <2>3. SealedMetadata' = SealedMetadata
    BY <1>1, <1>5 DEF SealedMetadata
  <2>4. QED
    BY <1>1, <1>2, <2>2, <2>3 DEF Intact, W, ps, es
<1>6. tool = "python" \/ tool = "typescript"
  BY <1>1 DEF RotatesElsewhere
<1>7. QED
  BY <1>4, <1>5, <1>6

-----------------------------------------------------------------------------
(* A rotation by Go: records are sorted into two buffers as they come.     *)

\* What a rotation by Go has read.
Scan == SubSeq(rotFile, 1, rotPos - 1)

\* What a rotation by Go has made of it (Rotator): everything the file contains
\* is in one of the buffers, encrypted metadata in the header buffer until the
\* first chunk or attachment comes, and a key has come from a slot.
Moving ==
  /\ rotPos \in 2..(Len(rotFile) + 1)
  /\ SortedInto(headerBuf, dataBuf, Scan, WrittenDefs)
  /\ ~ seenFirstChunk => Bodies(dataBuf, "encMetadata") = <<>>
  /\ IsSeq(rotDefs) /\ Elements(rotDefs) \subseteq WrittenDefs
  /\ rotKey # NoKey => ~ Slotless(Scan)

\* Nothing has been read.
Unscanned == headerBuf = <<>> /\ dataBuf = <<>> /\ rotDefs = <<>> /\ rotKey = NoKey

\* The state of a rotation by Go of an undisturbed file.
RotContent ==
  /\ rotState = "idle" => Unscanned
  /\ rotState \in {"scanning", "scanned", "done"} => Moving
  /\ rotState \in {"scanned", "done"} =>
       \A op \in Contents : Bodies(Scan, op) = Bodies(rotFile, op)
  /\ rotState = "done" => Intact(rotated)

\* What the content of a file depends on beside the file.
ContentUnmoved == UNCHANGED <<source, encryptedBy, metadataMode, rotatedBy>>

\* What a file ought to contain does not change while ContentUnmoved.
LEMMA SameContent ==
  ASSUME ContentUnmoved
  PROVE  /\ WrittenDefs' = WrittenDefs /\ PlainMetadata' = PlainMetadata
         /\ SealedMetadata' = SealedMetadata
         /\ Bodies(source', "attachment") = Bodies(source, "attachment")
<1>1. source' = source /\ encryptedBy' = encryptedBy /\ metadataMode' = metadataMode
      /\ rotatedBy' = rotatedBy
  BY DEF ContentUnmoved
<1>2. WrittenDefs' = WrittenDefs
  BY <1>1 DEF WrittenDefs
<1>3. PlainMetadata' = PlainMetadata /\ SealedMetadata' = SealedMetadata
  BY <1>1 DEF PlainMetadata, SealedMetadata
<1>4. QED
  BY <1>1, <1>2, <1>3

\* The scan reads one record (Scans and Move of Rotator).
LEMMA ScanTakes ==
  ASSUME IsSeq(rotFile), NEW W, Settled(rotFile, W), rotPos \in 2..(Len(rotFile) + 1),
         NEW ops, Scans(ops), Move, rotFile' = rotFile
  PROVE  /\ IsSeq(Scan) /\ Scan' = Scan \o <<Scanned>>
         /\ Scanned.op \in ops /\ (Scanned.op = "def" => Scanned.id \in W)
         /\ rotPos' \in 2..(Len(rotFile') + 1)
         /\ rotState = "scanning" /\ rotState' = "scanning"
<1> DEFINE m == rotPos - 1
           l == Len(rotFile)
<1>1. /\ rotState = "scanning" /\ rotPos <= l /\ Scanned.op \in ops
      /\ rotPos' = rotPos + 1 /\ rotState' = rotState
  BY DEF Scans, Move
<1>2. l \in Nat /\ DOMAIN rotFile = 1..l
  BY AsFunction
<1> HIDE DEF l
<1>3. /\ m \in 0..l /\ m < l /\ m + 1 = rotPos /\ rotPos \in 1..l
      /\ (rotPos + 1) - 1 = m + 1 /\ rotPos + 1 \in 2..(l + 1)
  BY <1>1, <1>2 DEF l
<1>4. IsSeq(SubSeq(rotFile, 1, m))
      /\ SubSeq(rotFile, 1, m + 1) = SubSeq(rotFile, 1, m) \o <<rotFile[m + 1]>>
  BY <1>3, FrontOf, FrontGrows DEF l
<1>5. Scan' = SubSeq(rotFile, 1, (rotPos + 1) - 1)
  BY <1>1 DEF Scan
<1>6. Scanned.op = "def" => Scanned.id \in W
  BY <1>2, <1>3 DEF Settled, Within, Scanned
<1>7. IsSeq(Scan) /\ Scan' = Scan \o <<Scanned>>
  BY <1>3, <1>4, <1>5 DEF Scan, Scanned
<1>8. QED
  BY <1>1, <1>3, <1>6, <1>7 DEF l

\* Each record that a rotation reads goes where it belongs (KeepHeader to
\* KeepUnknown of Rotator).
LEMMA RecordMoves ==
  ASSUME IsSeq(rotFile), Settled(rotFile, WrittenDefs), Moving, ContentUnmoved, rotFile' = rotFile,
         \/ KeepHeader \/ KeepData \/ DropSlot \/ DropManifest \/ KeepChunk
         \/ KeepEncAttachment \/ KeepUnknown
  PROVE  Moving' /\ rotState' = "scanning"
<1> DEFINE W == WrittenDefs
           e == Scanned
           q == Scan
<1>1. /\ rotPos \in 2..(Len(rotFile) + 1)
      /\ SortedInto(headerBuf, dataBuf, q, W)
      /\ ~ seenFirstChunk => Bodies(dataBuf, "encMetadata") = <<>>
      /\ IsSeq(rotDefs) /\ Elements(rotDefs) \subseteq W
      /\ rotKey # NoKey => ~ Slotless(q)
  BY DEF Moving
<1>2. W' = W
  BY SameContent
<1>3. IsSeq(headerBuf) /\ IsSeq(dataBuf)
  BY <1>1 DEF SortedInto
<1>4. ASSUME NEW ops, Scans(ops), Move
      PROVE  /\ IsSeq(q) /\ q' = q \o <<e>>
             /\ e.op \in ops /\ (e.op = "def" => e.id \in W)
             /\ rotPos' \in 2..(Len(rotFile') + 1)
             /\ rotState' = "scanning"
  BY <1>1, <1>4, ScanTakes
<1> HIDE DEF W, e, q
<1>5. ASSUME NEW ops, Scans(ops), Move, ops \cap Ends = {},
             SortedInto(headerBuf', dataBuf', q \o <<e>>, W),
             ~ seenFirstChunk' => Bodies(dataBuf', "encMetadata") = <<>>,
             IsSeq(rotDefs') /\ Elements(rotDefs') \subseteq W,
             rotKey' = rotKey \/ e.op = "slot"
      PROVE  Moving' /\ rotState' = "scanning"
  <2>1. /\ IsSeq(q) /\ q' = q \o <<e>> /\ rotPos' \in 2..(Len(rotFile') + 1)
        /\ rotState' = "scanning"
    BY <1>4, <1>5
  <2>2. rotKey' # NoKey => ~ Slotless(q \o <<e>>)
    BY <1>1, <1>5, <2>1, SlotStays
  <2>3. QED
    BY <1>2, <1>5, <2>1, <2>2 DEF Moving, W, q
<1>6. CASE KeepHeader
  <2> DEFINE ops == {"header", "def"}
  <2>1. /\ Scans(ops) /\ Move /\ headerBuf' = Append(headerBuf, e) /\ dataBuf' = dataBuf
        /\ rotDefs' = IF e.op = "def" THEN Append(rotDefs, e.id) ELSE rotDefs
        /\ rotKey' = rotKey /\ seenFirstChunk' = seenFirstChunk
    BY <1>6 DEF KeepHeader, e
  <2>2. e.op \in ops /\ (e.op = "def" => e.id \in W)
    BY <1>4, <2>1
  <2>3. ops \cap Ends = {}
    BY DEF Ends
  <2>4. /\ e.op \notin Ends \cup {"slot"} \cup Late
        /\ \A op \in Contents : e.op = op => Bodies(dataBuf, op) = <<>>
    BY <2>2 DEF Ends, Late, Contents
  <2> HIDE DEF ops
  <2>5. headerBuf' = headerBuf \o <<e>>
    BY <1>3, <2>1, AppendOne
  <2>6. SortedInto(headerBuf \o <<e>>, dataBuf, q \o <<e>>, W)
    BY <1>1, <2>2, <2>4, SortsAhead
  <2>7. IsSeq(rotDefs') /\ Elements(rotDefs') \subseteq W
    <3>1. CASE e.op = "def"
      <4> DEFINE d == e.id
      <4>1. d \in W /\ rotDefs' = Append(rotDefs, d)
        BY <2>1, <2>2, <3>1
      <4> HIDE DEF d
      <4>2. Append(rotDefs, d) = rotDefs \o <<d>>
        BY <1>1, AppendOne
      <4>3. IsSeq(rotDefs \o <<d>>) /\ Elements(rotDefs \o <<d>>) = Elements(rotDefs) \cup {d}
        BY <1>1, OneMore
      <4>4. QED
        BY <1>1, <4>1, <4>2, <4>3
    <3>2. CASE e.op # "def"
      BY <1>1, <2>1, <3>2
    <3>3. QED
      BY <3>1, <3>2
  <2>8. QED
    BY <1>1, <1>5, <2>1, <2>3, <2>5, <2>6, <2>7
<1>7. ASSUME NEW ops, Scans(ops), Move, ops \cap (Ends \cup {"slot", "def"}) = {},
             dataBuf' = Append(dataBuf, e), headerBuf' = headerBuf, rotDefs' = rotDefs,
             rotKey' = rotKey,
             seenFirstChunk' \/ (seenFirstChunk' = seenFirstChunk /\ e.op # "encMetadata")
      PROVE  Moving' /\ rotState' = "scanning"
  <2>1. e.op \in ops
    BY <1>4, <1>7
  <2>2. e.op \notin Ends \cup {"slot", "def"} /\ ops \cap Ends = {}
    BY <1>7, <2>1
  <2>3. dataBuf' = dataBuf \o <<e>>
    BY <1>3, <1>7, AppendOne
  <2>4. SortedInto(headerBuf, dataBuf \o <<e>>, q \o <<e>>, W)
    BY <1>1, <2>2, SortsBehind
  <2>5. ~ seenFirstChunk' => Bodies(dataBuf', "encMetadata") = <<>>
    <3>1. CASE seenFirstChunk' = seenFirstChunk /\ e.op # "encMetadata"
      <4>1. Bodies(dataBuf \o <<e>>, "encMetadata") = Bodies(dataBuf, "encMetadata")
        BY <1>3, <3>1, NoBodyAdded
      <4>2. QED
        BY <1>1, <2>3, <3>1, <4>1, Zenon
    <3>2. CASE seenFirstChunk'
      BY <3>2, Zenon
    <3>3. QED
      BY <1>7, <3>1, <3>2, Zenon
  <2>6. QED
    BY <1>1, <1>5, <1>7, <2>2, <2>3, <2>4, <2>5
<1>8. ASSUME NEW ops, Scans(ops), Move, ops \cap (Ends \cup Contents \cup {"def"}) = {},
             dataBuf' = dataBuf, headerBuf' = headerBuf, rotDefs' = rotDefs,
             rotKey' = rotKey \/ ops = {"slot"}, seenFirstChunk' = seenFirstChunk
      PROVE  Moving' /\ rotState' = "scanning"
  <2>1. e.op \in ops
    BY <1>4, <1>8
  <2>2. e.op \notin Contents \cup {"def"} /\ ops \cap Ends = {}
    BY <1>8, <2>1
  <2>3. rotKey' = rotKey \/ e.op = "slot"
    BY <1>8, <2>1
  <2>4. SortedInto(headerBuf, dataBuf, q \o <<e>>, W)
    BY <1>1, <2>2, SortsOut
  <2>5. QED
    BY <1>1, <1>5, <1>8, <2>2, <2>3, <2>4
<1>9. CASE KeepData
  <2>1. {"metadata", "attachment"} \cap (Ends \cup {"slot", "def"}) = {}
    BY DEF Ends
  <2>2. \A ops : Scans(ops) /\ Move => e.op \in ops
    BY <1>4
  <2>3. QED
    BY <1>7, <1>9, <2>1, <2>2 DEF KeepData, rotMarks, e
<1>10. CASE KeepChunk \/ KeepEncAttachment
  <2>1. \A op \in {"encChunk", "encAttachment"} : {op} \cap (Ends \cup {"slot", "def"}) = {}
    BY DEF Ends
  <2>2. CASE KeepChunk
    BY <1>7, <2>1, <2>2 DEF KeepChunk, e
  <2>3. CASE KeepEncAttachment
    BY <1>7, <2>1, <2>3 DEF KeepEncAttachment, e
  <2>4. QED
    BY <1>10, <2>2, <2>3
<1>11. CASE DropSlot \/ DropManifest
  <2>1. \A op \in {"slot", "manifest"} : {op} \cap (Ends \cup Contents \cup {"def"}) = {}
    BY DEF Ends, Contents
  <2>2. CASE DropSlot
    BY <1>8, <2>1, <2>2 DEF DropSlot, rotMarks
  <2>3. CASE DropManifest
    BY <1>8, <2>1, <2>3 DEF DropManifest, rotMarks
  <2>4. QED
    BY <1>11, <2>2, <2>3
<1>12. CASE KeepUnknown
  <2> DEFINE ops == {"encMetadata", "chunk", "message"} \cup Indexes
  <2>1. /\ Scans(ops) /\ Move /\ rotDefs' = rotDefs /\ rotKey' = rotKey
        /\ seenFirstChunk' = seenFirstChunk
        /\ IF seenFirstChunk
           THEN dataBuf' = Append(dataBuf, e) /\ UNCHANGED headerBuf
           ELSE headerBuf' = Append(headerBuf, e) /\ UNCHANGED dataBuf
    BY <1>12 DEF KeepUnknown, rotMarks, e
  <2>2. ops \cap (Ends \cup {"slot", "def"}) = {} /\ ops \cap Ends = {}
    BY DEF Ends, Indexes
  <2>3. e.op \in ops
    BY <1>4, <2>1
  <2>4. /\ e.op \notin Ends \cup {"slot"} \cup Late /\ e.op # "def"
        /\ \A op \in Contents : e.op = op => op = "encMetadata"
    BY <2>3 DEF Ends, Indexes, Late, Contents
  <2> HIDE DEF ops
  <2>5. CASE seenFirstChunk
    BY <1>7, <2>1, <2>2, <2>5
  <2>6. CASE ~ seenFirstChunk
    <3>1. headerBuf' = headerBuf \o <<e>> /\ dataBuf' = dataBuf
      BY <1>3, <2>1, <2>6, AppendOne
    <3>2. SortedInto(headerBuf \o <<e>>, dataBuf, q \o <<e>>, W)
      <4>1. \A op \in Contents : e.op = op => Bodies(dataBuf, op) = <<>>
        BY <1>1, <2>4, <2>6
      <4>2. QED
        BY <1>1, <2>4, <4>1, SortsAhead
    <3>3. QED
      BY <1>1, <1>5, <2>1, <2>2, <3>1, <3>2
  <2>7. QED
    BY <2>5, <2>6
<1>13. QED
  BY <1>6, <1>9, <1>10, <1>11, <1>12

\* A scan that stops at DataEnd, a footer or the end of the file has read
\* everything the file contains (ScanEnds of Rotator).
LEMMA ScanIsComplete ==
  ASSUME NEW W, Sound(rotFile, W), rotPos \in 2..(Len(rotFile) + 1), ScanEnds
  PROVE  \A op \in Contents : Bodies(Scan, op) = Bodies(rotFile, op)
<1>1. rotPos <= Len(rotFile) => rotFile[rotPos].op \in Ends
  BY DEF ScanEnds, Scanned, Ends
<1>2. Contents \subseteq Loads
  BY DEF Contents, Loads, Late
<1> DEFINE p == rotPos
<1> HIDE DEF p
<1>3. \A op \in Loads : Bodies(SubSeq(rotFile, 1, p - 1), op) = Bodies(rotFile, op)
  BY <1>1, StopsBehindAll DEF p
<1>4. QED
  BY <1>2, <1>3 DEF Scan, p

\* Whoever has the key has read a slot, and with it, ahead of it, every
\* definition of the file: they are all in the header buffer.
LEMMA HeaderIsDefined ==
  ASSUME Moving, Sound(rotFile, WrittenDefs), rotKey # NoKey
  PROVE  Defined(headerBuf, WrittenDefs)
<1> DEFINE W == WrittenDefs
           q == Scan
           m == rotPos - 1
           l == Len(rotFile)
<1>1. /\ IsSeq(rotFile) /\ Settled(rotFile, W) /\ ~ Slotless(q)
      /\ rotPos \in 2..(l + 1)
      /\ \A i \in DOMAIN q : q[i].op = "def" => \E j \in DOMAIN headerBuf : headerBuf[j] = q[i]
  BY DEF Moving, SortedInto, Sound
<1>2. l \in Nat /\ DOMAIN rotFile = 1..l
  BY <1>1, AsFunction
<1>3. m \in 0..Len(rotFile)
  BY <1>1, <1>2
<1>4. DOMAIN q = 1..m /\ \A i \in 1..m : q[i] = rotFile[i] /\ i \in DOMAIN rotFile
  BY <1>1, <1>3, FrontOf DEF Scan
<1>5. PICK i \in DOMAIN q : q[i].op = "slot"
  BY <1>1 DEF Slotless
<1>6. \A d \in W : \E j \in DOMAIN rotFile : j < i /\ rotFile[j].op = "def" /\ rotFile[j].id = d
  BY <1>1, <1>4, <1>5 DEF Settled
<1> HIDE DEF W, q, l
<1>7. ASSUME NEW d \in W
      PROVE  \E j \in DOMAIN headerBuf : headerBuf[j].op = "def" /\ headerBuf[j].id = d
  <2>1. PICK j \in DOMAIN rotFile : j < i /\ rotFile[j].op = "def" /\ rotFile[j].id = d
    BY <1>6
  <2>2. j \in DOMAIN q /\ q[j] = rotFile[j]
    BY <1>2, <1>3, <1>4, <1>5, <2>1
  <2>3. PICK k \in DOMAIN headerBuf : headerBuf[k] = q[j]
    BY <1>1, <2>1, <2>2
  <2>4. QED
    BY <2>1, <2>2, <2>3
<1>8. QED
  BY <1>7 DEF Defined, W

\* The file that a rotation writes contains what the old one did (RotWrite of
\* Rotator).
LEMMA RotatedIsIntact ==
  ASSUME Rotating, Moving, rotState = "scanned",
         \A op \in Contents : Bodies(Scan, op) = Bodies(rotFile, op),
         Intact(rotFile), RotWrite, rotState' = "done"
  PROVE  Intact(rotated')
<1> DEFINE W == WrittenDefs
           n == Len(chunkMetas)
           as == Bodies(source, "attachment")
           ps == PlainMetadata
           es == SealedMetadata
           s == Laid(headerBuf, newRecipients, rotKey, n, dataBuf, rotDefs, Positions)
<1>1. rotKey # NoKey /\ rotated' = s
  BY DEF RotWrite, Laid, Lead, Prefix, MadeSlots
<1>2. Sound(rotFile, W) /\ Holds(rotFile, as, ps, es)
  BY DEF Intact
<1>3. Defined(headerBuf, W)
  BY <1>1, <1>2, HeaderIsDefined
<1>4. SortedInto(headerBuf, dataBuf, Scan, W) /\ IsSeq(rotDefs) /\ Elements(rotDefs) \subseteq W
  BY DEF Moving
<1>5. IsSeq(newRecipients)
  BY NewListsAssumption DEF Rotating, IsSeq
<1>6. IsSeq(Positions)
  <2>1. IsSeq(chunkMetas)
    BY DEF Rotating, Buffered, PointsInto
  <2>2. DOMAIN Positions = DOMAIN chunkMetas
        /\ Positions = [i \in DOMAIN chunkMetas |-> Positions[i]]
    BY DEF Positions
  <2>3. QED
    BY <2>1, <2>2, OfPositions
<1> HIDE DEF W, n, as, ps, es
<1>7. Fit(headerBuf, dataBuf, W)
  BY <1>3, <1>4 DEF Fit, SortedInto
<1>8. Together(headerBuf, dataBuf, as, ps, es)
  <2>1. \A op \in Contents : Bodies(headerBuf, op) \o Bodies(dataBuf, op) = Bodies(rotFile, op)
    BY <1>4 DEF SortedInto
  <2>2. QED
    BY <1>2, <2>1 DEF Together, Holds, Contents
<1> DEFINE at == Positions
<1> HIDE DEF at
<1>9. IsSeq(at)
  BY <1>6 DEF at
<1> DEFINE u == Laid(headerBuf, newRecipients, rotKey, n, dataBuf, rotDefs, at)
<1>10. Sound(u, W) /\ Holds(u, as, ps, es)
  BY <1>4, <1>5, <1>7, <1>8, <1>9, LaidIntact
<1>11. s = u
  BY DEF at
<1> HIDE DEF s, u
<1>12. QED
  BY <1>1, <1>10, <1>11 DEF Intact, W, as, ps, es

\* Nothing has been read yet but the leading magic (RotStart of Rotator).
LEMMA ScanBegins ==
  ASSUME IsSeq(rotFile), Len(rotFile) > 0, rotFile[1].op = "magic", NEW W
  PROVE  /\ SortedInto(<<>>, <<>>, SubSeq(rotFile, 1, 1), W)
         /\ \A op : Bodies(<<>>, op) = <<>>
         /\ 2 \in 2..(Len(rotFile) + 1)
<1> DEFINE q == SubSeq(rotFile, 1, 1)
           z == <<>>
<1>1. Len(rotFile) \in Nat
  BY AsFunction
<1>2. 1 \in 0..Len(rotFile) /\ 2 \in 2..(Len(rotFile) + 1)
  BY <1>1
<1>3. IsSeq(q) /\ DOMAIN q = 1..1 /\ \A i \in 1..1 : q[i] = rotFile[i]
  BY <1>2, FrontOf
<1>4. IsSeq(z)
  BY ConcatLen, <1>3
<1>5. \A i \in DOMAIN z : FALSE
  OBVIOUS
<1> HIDE DEF q
<1>6. \A i \in DOMAIN q : q[i].op = "magic"
  BY <1>3
<1> HIDE DEF z
<1>7. \A op : Bodies(z, op) = <<>>
  BY <1>4, <1>5, BodiesNone
<1>8. ASSUME NEW op \in Contents
      PROVE  Bodies(z, op) \o Bodies(z, op) = Bodies(q, op)
  <2>1. Bodies(q, op) = <<>>
    <3>1. \A i \in DOMAIN q : q[i].op # op
      BY <1>6 DEF Contents
    <3>2. QED
      BY <1>3, <3>1, BodiesNone
  <2>2. z \o <<>> = z
    BY <1>4, ConcatLen
  <2>3. Bodies(z, op) = z
    BY <1>7 DEF z
  <2>4. QED
    BY <2>1, <2>2, <2>3 DEF z
<1>9. /\ Within(z, W) /\ Unended(z) /\ Slotless(z) /\ Lateless(z)
  BY <1>5 DEF Within, Unended, Slotless, Lateless
<1>10. SortedInto(z, z, q, W)
  BY <1>3, <1>4, <1>6, <1>8, <1>9 DEF SortedInto
<1>11. QED
  BY <1>2, <1>7, <1>10 DEF z, q

\* Every step of a rotation of an intact file keeps RotContent.
LEMMA RotContentKeeps ==
  ASSUME StoredPart, Rotating, Intact(stored), RotContent, RotNext, rotFile' = rotFile,
         ContentUnmoved
  PROVE  RotContent'
<1> DEFINE W == WrittenDefs
<1>1. rotFile = stored /\ IsSeq(rotFile) /\ Intact(rotFile)
  BY DEF Rotating, StoredPart, Part
<1>2. Sound(rotFile, W) /\ Settled(rotFile, W)
  BY <1>1 DEF Intact, Sound
<1>3. W' = W
  BY SameContent
<1>4. ASSUME rotState' = "failed"
      PROVE  RotContent'
  BY <1>4 DEF RotContent
<1>5. CASE RotStart
  <2>1. /\ rotState = "idle" /\ UNCHANGED <<rotKey, headerBuf, dataBuf, rotDefs>>
        /\ \/ /\ Len(rotFile) > 0 /\ rotFile[1].op = "magic"
              /\ rotState' = "scanning" /\ rotPos' = 2
           \/ rotState' = "failed"
    BY <1>5 DEF RotStart, rotMarks
  <2>2. CASE /\ Len(rotFile) > 0 /\ rotFile[1].op = "magic"
             /\ rotState' = "scanning" /\ rotPos' = 2
    <3>1. headerBuf' = <<>> /\ dataBuf' = <<>> /\ rotDefs' = <<>> /\ rotKey' = NoKey
      BY <2>1 DEF RotContent, Unscanned
    <3>2. Scan' = SubSeq(rotFile, 1, 1)
      <4>1. rotPos' - 1 = 1
        BY <2>2
      <4>2. QED
        BY <4>1 DEF Scan
    <3>3. /\ SortedInto(<<>>, <<>>, SubSeq(rotFile, 1, 1), W)
          /\ \A op : Bodies(<<>>, op) = <<>>
          /\ 2 \in 2..(Len(rotFile) + 1)
      BY <1>1, <2>2, ScanBegins
    <3>4. IsSeq(<<>>) /\ Elements(<<>>) \subseteq W
      <4>1. IsSeq(<<>>)
        BY <1>1, ConcatLen
      <4>2. QED
        BY <4>1 DEF Elements
    <3> HIDE DEF W
    <3>5. SortedInto(headerBuf', dataBuf', Scan', W)
      BY <3>1, <3>2, <3>3
    <3>6. Bodies(dataBuf', "encMetadata") = <<>> /\ rotPos' \in 2..(Len(rotFile') + 1)
      BY <2>2, <3>1, <3>3
    <3>7. IsSeq(rotDefs') /\ Elements(rotDefs') \subseteq W
      BY <3>1, <3>4
    <3>8. Moving'
      BY <1>3, <3>1, <3>5, <3>6, <3>7 DEF Moving, W
    <3>9. QED
      BY <2>2, <3>8 DEF RotContent
  <2>3. QED
    BY <1>4, <2>1, <2>2
<1>6. CASE \/ KeepHeader \/ KeepData \/ DropSlot \/ DropManifest \/ KeepChunk
           \/ KeepEncAttachment \/ KeepUnknown
  <2>1. rotState = "scanning"
    BY <1>6 DEF KeepHeader, KeepData, DropSlot, DropManifest, KeepChunk, KeepEncAttachment,
         KeepUnknown, Scans
  <2>2. Moving
    BY <2>1 DEF RotContent
  <2>3. Moving' /\ rotState' = "scanning"
    BY <1>1, <1>2, <1>6, <2>2, RecordMoves
  <2>4. QED
    BY <2>3 DEF RotContent
<1>7. CASE ScanFails
  BY <1>4, <1>7 DEF ScanFails
<1>8. CASE ScanEnds
  <2>1. /\ rotState = "scanning" /\ rotState' = "scanned"
        /\ UNCHANGED <<rotPos, rotKey, headerBuf, dataBuf, rotDefs, seenFirstChunk>>
    BY <1>8 DEF ScanEnds, rotMarks
  <2>2. Moving
    BY <2>1 DEF RotContent
  <2>3. \A op \in Contents : Bodies(Scan, op) = Bodies(rotFile, op)
    BY <1>2, <1>8, <2>2, ScanIsComplete DEF Moving
  <2>4. Scan' = Scan
    BY <2>1 DEF Scan
  <2>5. Moving'
    BY <1>3, <2>1, <2>2, <2>4 DEF Moving
  <2>6. QED
    BY <2>1, <2>3, <2>4, <2>5 DEF RotContent
<1>9. CASE RotWrite
  <2>1. /\ rotState = "scanned" /\ (rotState' = "failed" \/ rotState' = "done")
        /\ UNCHANGED <<rotPos, rotKey, headerBuf, dataBuf, rotDefs, seenFirstChunk>>
    BY <1>9 DEF RotWrite, rotMarks
  <2>2. Moving /\ \A op \in Contents : Bodies(Scan, op) = Bodies(rotFile, op)
    BY <2>1 DEF RotContent
  <2>3. Scan' = Scan
    BY <2>1 DEF Scan
  <2>4. Moving'
    BY <1>3, <2>1, <2>2, <2>3 DEF Moving
  <2>5. CASE rotState' = "done"
    <3>1. Intact(rotated')
      BY <1>1, <1>9, <2>1, <2>2, <2>5, RotatedIsIntact
    <3>2. Intact(rotated)'
      BY <1>3, <3>1, SameContent DEF Intact
    <3>3. QED
      BY <2>2, <2>3, <2>4, <2>5, <3>2 DEF RotContent
  <2>6. QED
    BY <1>4, <2>1, <2>5
<1>10. QED
  BY <1>5, <1>6, <1>7, <1>8, <1>9 DEF RotNext

-----------------------------------------------------------------------------
(* The content of an undisturbed file, from the source to its decryption.  *)

\* While the recording is encrypted undisturbed the invariants of the encryptor
\* hold; the file that comes of it, and of every rotation of it, is intact.
ContentInv ==
  /\ changes \in Nat
  /\ metadataMode \in {"plaintext", "encrypt"}
  /\ stage = "encrypt" => rotatedBy = {}
  /\ stage = "encrypt" /\ changes = 0 => EncInv /\ SealInv /\ LayInv
  /\ stage # "encrypt" /\ Undisturbed =>
       /\ Intact(stored)
       /\ OfKind(source, {"message"}) = <<>> \/ encryptedBy = "python"
  /\ stage = "rotate" /\ Undisturbed => RotContent

\* The initial states satisfy ContentInv (Init of Pipeline).
LEMMA ContentStarts ==
  ASSUME Init PROVE ContentInv
<1>1. EncInit /\ stage = "encrypt" /\ changes = 0 /\ rotatedBy = {}
  BY DEF Init
<1>2. metadataMode \in {"plaintext", "encrypt"}
  BY <1>1, MetadataModesAssumption DEF EncInit
<1>3. EncInv /\ SealInv /\ LayInv
  BY <1>1, BeginsWell, BeginsCarrying, BeginsLaid
<1>4. QED
  BY <1>1, <1>2, <1>3 DEF ContentInv

\* A file whose content nothing has touched stays intact.
LEMMA IntactRests ==
  ASSUME NEW f, Intact(f), ContentUnmoved
  PROVE  /\ Sound(f, WrittenDefs')
         /\ Holds(f, Bodies(source', "attachment"), PlainMetadata', SealedMetadata')
<1>1. Sound(f, WrittenDefs)
      /\ Holds(f, Bodies(source, "attachment"), PlainMetadata, SealedMetadata)
  BY DEF Intact
<1>2. QED
  BY <1>1, SameContent

\* A rotation by Go that ends leaves an intact file (EndRotate of Pipeline): the
\* new one, or after a failure the old one.
LEMMA EndIsIntact ==
  ASSUME Intact(stored), RotContent, EndRotate
  PROVE  Intact(stored)'
<1>1. /\ source' = source /\ encryptedBy' = encryptedBy /\ metadataMode' = metadataMode
  BY DEF EndRotate, encVars
<1>2. \/ rotState = "done" /\ stored' = rotated /\ rotatedBy' = rotatedBy \cup {"go"}
      \/ stored' = stored /\ rotatedBy' = rotatedBy
  BY DEF EndRotate
<1>3. "python" \in rotatedBy' <=> "python" \in rotatedBy
  BY <1>2
<1>4. WrittenDefs' = WrittenDefs
  BY <1>1 DEF WrittenDefs
<1>5. PlainMetadata' = PlainMetadata /\ SealedMetadata' = SealedMetadata
  BY <1>1, <1>3 DEF PlainMetadata, SealedMetadata
<1>6. Intact(stored')
  BY <1>2 DEF RotContent
<1>7. Sound(stored', WrittenDefs)
      /\ Holds(stored', Bodies(source, "attachment"), PlainMetadata, SealedMetadata)
  BY <1>6 DEF Intact
<1>8. QED
  BY <1>1, <1>4, <1>5, <1>7 DEF Intact

\* Every step keeps ContentInv.
LEMMA ContentKeeps ==
  ASSUME PipeInv, ContentInv, [Next]_vars PROVE ContentInv'
<1>1. /\ changes \in Nat /\ metadataMode \in {"plaintext", "encrypt"}
      /\ EncBase /\ faults \in Nat
      /\ stage \in {"encrypt", "stored", "rotate", "decrypt"}
      /\ stage = "encrypt" => faults = 0 /\ vouched
  BY DEF PipeInv, ContentInv
<1>2. ASSUME stage # "encrypt", stage' \in {"stored", "rotate", "decrypt"}, changes' = changes,
             faults' \in {faults, faults + 1}, ContentUnmoved,
             faults' = faults => stored' = stored, stage' = "rotate" /\ Undisturbed => RotContent'
      PROVE  ContentInv'
  <2>1. source' = source /\ encryptedBy' = encryptedBy /\ metadataMode' = metadataMode
    BY <1>2 DEF ContentUnmoved
  <2>2. CASE ~ Undisturbed'
    BY <1>1, <1>2, <2>1, <2>2 DEF ContentInv, Undisturbed
  <2>3. CASE Undisturbed'
    <3>1. Undisturbed /\ faults' = faults
      BY <1>1, <1>2, <2>3 DEF Undisturbed
    <3>2. Intact(stored) /\ (OfKind(source, {"message"}) = <<>> \/ encryptedBy = "python")
      BY <1>2, <3>1 DEF ContentInv
    <3>3. Intact(stored)'
      <4>1. Sound(stored, WrittenDefs')
            /\ Holds(stored, Bodies(source', "attachment"), PlainMetadata', SealedMetadata')
        BY <1>2, <3>2, IntactRests
      <4>2. stored' = stored
        BY <1>2, <3>1
      <4>3. QED
        BY <4>1, <4>2 DEF Intact
    <3>4. QED
      BY <1>1, <1>2, <2>1, <3>1, <3>2, <3>3 DEF ContentInv
  <2>4. QED
    BY <2>2, <2>3
<1>3. ASSUME stage # "rotate", stage' = "stored", changes' = changes, source' = source,
             metadataMode' = metadataMode,
             Undisturbed' => /\ Intact(stored)'
                             /\ OfKind(source', {"message"}) = <<>> \/ encryptedBy' = "python"
      PROVE  ContentInv'
  BY <1>1, <1>3 DEF ContentInv
<1>4. CASE Encrypt
  <2>1. /\ stage = "encrypt" /\ stage' = "encrypt" /\ EncNext
        /\ changes' = changes /\ rotatedBy' = rotatedBy
    BY <1>4 DEF Encrypt, fileVars, lineage
  <2>2. metadataMode' = metadataMode
    BY <2>1 DEF EncNext, Check, Collect, OpenPass2, TakeHeader, TakeChunk, TakeAttachment,
       TakeMetadata, TakeDataEnd, TakeFooter, EndOfInput, Skip, TakeFrameworkAttachment,
       TakeUnusable, encInput
  <2>3. changes = 0 => (EncInv /\ SealInv /\ LayInv)'
    BY <2>1, StepsWell, StepsCarry, StepsLay DEF ContentInv
  <2>4. QED
    BY <1>1, <2>1, <2>2, <2>3 DEF ContentInv
<1>5. CASE InputChanges
  <2>1. /\ stage = "encrypt" /\ stage' = "encrypt" /\ changes' = changes + 1
        /\ rotatedBy' = rotatedBy /\ metadataMode' = metadataMode
    BY <1>5 DEF InputChanges, lineage
  <2>2. changes' \in Nat /\ changes' # 0
    BY <1>1, <2>1
  <2>3. QED
    BY <1>1, <2>1, <2>2 DEF ContentInv
<1>6. CASE Store
  <2>1. /\ stage = "encrypt" /\ stage' = "stored" /\ changes' = changes /\ source' = source
        /\ metadataMode' = metadataMode
    BY <1>6 DEF Store, encVars
  <2>2. ASSUME Undisturbed'
        PROVE  Intact(stored)' /\ OfKind(source', {"message"}) = <<>>
    <3>1. changes = 0
      BY <2>1, <2>2 DEF Undisturbed
    <3>2. EncInv /\ SealInv /\ LayInv /\ rotatedBy = {}
      BY <2>1, <3>1 DEF ContentInv
    <3>3. QED
      BY <1>1, <1>6, <3>2, StoreIsIntact
  <2>3. QED
    BY <1>3, <2>1, <2>2
<1>7. CASE Interrupt
  <2>1. /\ stage = "encrypt" /\ stage' = "stored" /\ changes' = changes /\ source' = source
        /\ metadataMode' = metadataMode /\ faults' = faults + 1
    BY <1>7 DEF Interrupt, encVars
  <2>2. ~ Undisturbed'
    BY <1>1, <2>1 DEF Undisturbed
  <2>3. QED
    BY <1>3, <2>1, <2>2
<1>8. CASE Damage
  <2>1. /\ stage = "stored" /\ stage' = "stored" /\ changes' = changes /\ faults' = faults + 1
        /\ ContentUnmoved
    BY <1>8 DEF Damage, encVars, lineage, ContentUnmoved
  <2>2. faults' # faults
    BY <1>1, <2>1
  <2>3. QED
    BY <1>2, <2>1, <2>2
<1>9. ASSUME NEW h \in Holders, NEW new \in NewLists, BeginRotate(h, new) PROVE ContentInv'
  <2>1. /\ stage = "stored" /\ stage' = "rotate" /\ changes' = changes /\ faults' = faults
        /\ ContentUnmoved /\ stored' = stored
        /\ UNCHANGED <<rotKey, headerBuf, dataBuf, rotDefs, rotState>>
    BY <1>9 DEF BeginRotate, encVars, lineage, ContentUnmoved, rotMarks
  <2>2. RotInit
    BY <2>1 DEF PipeInv, RotPart
  <2>3. RotContent'
    BY <2>1, <2>2 DEF RotContent, RotInit, Unscanned
  <2>4. QED
    BY <1>2, <2>1, <2>3
<1>10. CASE Rotate
  <2>1. /\ stage = "rotate" /\ stage' = "rotate" /\ changes' = changes /\ faults' = faults
        /\ ContentUnmoved /\ stored' = stored /\ RotNext
    BY <1>10 DEF Rotate, encVars, fileVars, lineage, ContentUnmoved
  <2>2. rotFile' = rotFile
    BY <2>1 DEF RotNext, RotStart, KeepHeader, KeepData, DropSlot, DropManifest, KeepChunk,
       KeepEncAttachment, KeepUnknown, ScanFails, ScanEnds, RotWrite, rotInput
  <2>3. Undisturbed => RotContent'
    BY <2>1, <2>2, RotContentKeeps DEF ContentInv, PipeInv, RotPart
  <2>4. QED
    BY <1>2, <2>1, <2>3
<1>11. CASE EndRotate
  <2>1. /\ stage = "rotate" /\ stage' = "stored" /\ changes' = changes /\ faults' = faults
        /\ source' = source /\ metadataMode' = metadataMode /\ encryptedBy' = encryptedBy
    BY <1>11 DEF EndRotate, encVars
  <2>2. Undisturbed' => Undisturbed
    BY <2>1 DEF Undisturbed
  <2>3. Undisturbed => /\ Intact(stored)'
                       /\ OfKind(source, {"message"}) = <<>> \/ encryptedBy = "python"
    BY <1>11, <2>1, EndIsIntact DEF ContentInv
  <2>4. QED
    BY <1>1, <2>1, <2>2, <2>3 DEF ContentInv
<1>12. ASSUME NEW tool \in Tools, EncryptElsewhere(tool) PROVE ContentInv'
  <2>1. /\ stage = "encrypt" /\ stage' = "stored" /\ changes' = changes /\ source' = source
        /\ metadataMode' = metadataMode
    BY <1>12 DEF EncryptElsewhere, encVars
  <2>2. rotatedBy = {}
    BY <2>1 DEF ContentInv
  <2>3. Intact(stored)' /\ (OfKind(source', {"message"}) = <<>> \/ encryptedBy' = "python")
    BY <1>1, <1>12, <2>2, ElsewhereIsIntact
  <2>4. QED
    BY <1>3, <2>1, <2>3
<1>13. ASSUME NEW tool \in Tools, NEW h \in Holders, NEW new \in NewLists,
              RotateElsewhere(tool, h, new)
       PROVE  ContentInv'
  <2>1. /\ stage = "stored" /\ stage' = "stored" /\ changes' = changes /\ faults' = faults
        /\ source' = source /\ metadataMode' = metadataMode /\ encryptedBy' = encryptedBy
    BY <1>13 DEF RotateElsewhere, encVars
  <2>2. ASSUME Undisturbed'
        PROVE  /\ Intact(stored)'
               /\ OfKind(source', {"message"}) = <<>> \/ encryptedBy' = "python"
    <3>1. Undisturbed
      BY <2>1, <2>2 DEF Undisturbed
    <3>2. Intact(stored) /\ StoredPart
          /\ (OfKind(source, {"message"}) = <<>> \/ encryptedBy = "python")
      BY <2>1, <3>1 DEF ContentInv, PipeInv
    <3>3. Intact(stored)'
      BY <1>13, <3>2, RotatedElsewhereIsIntact
    <3>4. QED
      BY <2>1, <3>2, <3>3
  <2>3. QED
    BY <1>3, <2>1, <2>2
<1>14. ASSUME NEW h \in Holders, BeginDecrypt(h) PROVE ContentInv'
  <2>1. /\ stage = "stored" /\ stage' = "decrypt" /\ changes' = changes /\ faults' = faults
        /\ ContentUnmoved /\ stored' = stored
    BY <1>14 DEF BeginDecrypt, encVars, fileVars, lineage, ContentUnmoved
  <2>2. QED
    BY <1>2, <2>1
<1>15. CASE Decrypt
  <2>1. /\ stage = "decrypt" /\ stage' = "decrypt" /\ changes' = changes /\ faults' = faults
        /\ ContentUnmoved /\ stored' = stored
    BY <1>15 DEF Decrypt, encVars, fileVars, lineage, ContentUnmoved
  <2>2. QED
    BY <1>2, <2>1
<1>16. CASE UNCHANGED vars
  <2>1. /\ stage' = stage /\ changes' = changes /\ faults' = faults /\ rotatedBy' = rotatedBy
        /\ ContentUnmoved /\ stored' = stored /\ UNCHANGED encVars /\ UNCHANGED rotVars
    BY <1>16 DEF vars, encVars, fileVars, lineage, ContentUnmoved
  <2>2. CASE stage = "encrypt"
    <3>1. changes = 0 => (EncInv /\ SealInv /\ LayInv)'
      BY <2>1, <2>2, StepsWell, StepsCarry, StepsLay DEF ContentInv
    <3>2. metadataMode' = metadataMode
      BY <2>1 DEF ContentUnmoved
    <3>3. QED
      BY <1>1, <2>1, <2>2, <3>1, <3>2 DEF ContentInv
  <2>3. CASE stage # "encrypt"
    <3>1. ASSUME stage' = "rotate", Undisturbed PROVE RotContent'
      <4>1. RotContent
        BY <2>1, <3>1 DEF ContentInv
      <4>2. /\ Scan' = Scan /\ rotFile' = rotFile /\ rotated' = rotated /\ rotPos' = rotPos
            /\ UNCHANGED <<rotKey, headerBuf, dataBuf, rotDefs, rotState, seenFirstChunk>>
        BY <2>1 DEF rotVars, Scan
      <4>3. rotState = "done" => Intact(rotated)'
        <5>1. ASSUME rotState = "done"
              PROVE  /\ Sound(rotated, WrittenDefs')
                     /\ Holds(rotated, Bodies(source', "attachment"), PlainMetadata', SealedMetadata')
          BY <2>1, <4>1, <5>1, IntactRests DEF RotContent
        <5>2. QED
          BY <4>2, <5>1 DEF Intact
      <4>4. WrittenDefs' = WrittenDefs
        BY <2>1, SameContent
      <4>5. Moving => Moving'
        BY <4>2, <4>4 DEF Moving
      <4>6. QED
        BY <4>1, <4>2, <4>3, <4>5 DEF RotContent, Unscanned
    <3>2. QED
      BY <1>1, <1>2, <2>1, <2>3, <3>1
  <2>4. QED
    BY <2>2, <2>3
<1>17. QED
  BY <1>4, <1>5, <1>6, <1>7, <1>8, <1>9, <1>10, <1>11, <1>12, <1>13, <1>14, <1>15, <1>16
     DEF Next

-----------------------------------------------------------------------------
(* A decryption of an undisturbed file, by whomever, a KMS included.       *)

\* What the decryptor has read of the file, its leading magic included.
Passed == SubSeq(encFile, 1, decPos - 1)

\* What a decryptor holds that has read s, of a file with the definitions W
\* and no plain attachment.
Gathered(s, W) ==
  /\ decChunkIdx = Tally(s)
  /\ defs = DefIds(s)
  /\ metadataRecs = Bodies(s, "metadata")
  /\ encMetadataRecs = OfKind(s, {"encMetadata"})
  /\ attachments = IF symKey = NoKey THEN <<>> ELSE Bodies(s, "encAttachment")
  /\ symKey # NoKey => ~ Slotless(s)
  /\ writer \in {<<>>, <<W>>}

\* The state of the decryption of an undisturbed file.
Holding ==
  /\ decState \in {"idle", "reading", "checking", "done", "failed"}
  /\ decState = "idle" => DecInit
  /\ decState \in {"reading", "checking", "done"} =>
       /\ decPos \in 2..(Len(encFile) + 1)
       /\ Gathered(Passed, WrittenDefs)
  /\ decState \in {"checking", "done"} /\ decPos <= Len(encFile) => encFile[decPos].op = "footer"
  /\ decState = "done" => symKey # NoKey /\ writer = <<WrittenDefs>>

\* How the decryptor takes up a record (Buffer to StepOver of Decryptor).
TakesUp(e) ==
  /\ decState' = "reading" /\ decPos' = decPos + 1
  /\ defs' = IF e.op = "def" THEN Append(defs, e.id) ELSE defs
  /\ metadataRecs' = IF e.op = "metadata" THEN Append(metadataRecs, e.body) ELSE metadataRecs
  /\ encMetadataRecs' = IF e.op = "encMetadata" THEN Append(encMetadataRecs, e)
                        ELSE encMetadataRecs
  /\ e.op # "attachment" =>
       attachments' = IF e.op = "encAttachment" /\ symKey # NoKey
                      THEN Append(attachments, e.body) ELSE attachments
  /\ decChunkIdx' = IF e.op = "encChunk" THEN decChunkIdx + 1 ELSE decChunkIdx
  /\ symKey' = symKey \/ (symKey = NoKey /\ e.op = "slot")
  /\ writer' = writer \/ (symKey # NoKey /\ e.op = "encChunk" /\ writer' = EnsuredWriter)

\* Every step of a decryption is the leading magic, one of the last two, a
\* failure, or a record that is taken up.
LEMMA DecTakesUp ==
  ASSUME DecNext, UNCHANGED encFile
  PROVE  \/ /\ decState = "reading" /\ decPos <= Len(encFile)
            /\ TakesUp(Current)
         \/ decState' = "failed"
         \/ LeadingMagic \/ EndScan \/ Verify
<1>1. CASE Buffer
  <2>1. /\ decState = "reading" /\ decState' = "reading"
        /\ decPos <= Len(encFile) /\ decPos' = decPos + 1
        /\ Current.op \in {"def", "metadata", "attachment", "encMetadata", "manifest"}
    BY <1>1 DEF Buffer, Reads, Consume
  <2>2. TakesUp(Current)
    BY <1>1, <2>1 DEF Buffer, TakesUp, decKeys, decOutput
  <2>3. QED
    BY <2>1, <2>2
<1>2. CASE TrySlot
  <2>1. /\ decState = "reading" /\ decState' = "reading"
        /\ decPos <= Len(encFile) /\ decPos' = decPos + 1 /\ Current.op = "slot"
    BY <1>2 DEF TrySlot, Reads, Consume
  <2>2. TakesUp(Current)
    BY <1>2, <2>1 DEF TrySlot, TakesUp, decBuffers, decOutput
  <2>3. QED
    BY <2>1, <2>2
<1>3. CASE OpenAttachment
  <2>1. /\ decState = "reading" /\ decPos <= Len(encFile) /\ Current.op = "encAttachment"
    BY <1>3 DEF OpenAttachment, Reads
  <2>2. CASE Reject
    BY <2>2 DEF Reject
  <2>3. CASE Consume
    <3>1. decState' = "reading" /\ decPos' = decPos + 1
      BY <2>1, <2>3 DEF Consume
    <3>2. attachments' = IF symKey # NoKey THEN Append(attachments, Current.body) ELSE attachments
      BY <1>3, <2>1, <3>1 DEF OpenAttachment, Reject
    <3>3. TakesUp(Current)
      BY <1>3, <2>1, <3>1, <3>2 DEF OpenAttachment, TakesUp, decKeys, decOutput
    <3>4. QED
      BY <2>1, <3>3
  <2>4. QED
    BY <1>3, <2>2, <2>3 DEF OpenAttachment
<1>4. CASE OpenEncChunk
  <2>1. /\ decState = "reading" /\ decPos <= Len(encFile) /\ Current.op = "encChunk"
        /\ UNCHANGED symKey /\ UNCHANGED decBuffers
    BY <1>4 DEF OpenEncChunk, Reads, decKeys
  <2>2. \/ decState' = "failed"
        \/ symKey # NoKey /\ OpenChunkOk(Current.body)
    BY <1>4 DEF OpenEncChunk, Reject
  <2>3. CASE symKey # NoKey /\ OpenChunkOk(Current.body)
    <3>1. /\ decChunkIdx' = decChunkIdx + 1 /\ writer' = EnsuredWriter
          /\ Consume \/ Reject
      BY <2>3 DEF OpenChunkOk
    <3>2. CASE Consume
      BY <2>1, <2>3, <3>1, <3>2 DEF TakesUp, Consume, decBuffers
    <3>3. CASE Reject
      BY <3>3 DEF Reject
    <3>4. QED
      BY <3>1, <3>2, <3>3
  <2>4. QED
    BY <2>2, <2>3
<1>5. CASE StepOver
  <2>1. /\ decState = "reading" /\ decState' = "reading"
        /\ decPos <= Len(encFile) /\ decPos' = decPos + 1
        /\ Current.op \in {"header", "dataEnd", "chunk", "message"} \cup Indexes
        /\ UNCHANGED <<decKeys, decBuffers, decOutput>>
    BY <1>5 DEF StepOver, Reads, Consume
  <2>2. TakesUp(Current)
    BY <2>1 DEF TakesUp, Indexes, decKeys, decBuffers, decOutput
  <2>3. QED
    BY <2>1, <2>2
<1>6. CASE CutShort
  BY <1>6 DEF CutShort, Reject
<1>7. QED
  BY <1>1, <1>2, <1>3, <1>4, <1>5, <1>6 DEF DecNext

\* A writer that is made behind the key has all definitions of the file.
LEMMA WriterKnowsAll ==
  ASSUME NEW f, IsSeq(f), NEW W, Settled(f, W), NEW m \in 0..Len(f),
         NEW s, s = SubSeq(f, 1, m), Gathered(s, W), symKey # NoKey
  PROVE  EnsuredWriter = <<W>>
<1>1. defs = DefIds(s) /\ ~ Slotless(s) /\ writer \in {<<>>, <<W>>}
  BY DEF Gathered
<1>2. Elements(defs) = W
  BY <1>1, SlotDefines
<1>3. QED
  BY <1>1, <1>2 DEF EnsuredWriter

\* What is held after one more record of a file without plain attachments.
LEMMA GatheredNext ==
  ASSUME NEW s, IsSeq(s), NEW W, NEW e, e.op # "attachment", Gathered(s, W), TakesUp(e),
         e.op = "slot" => Bodies(s, "encAttachment") = <<>>,
         symKey # NoKey => EnsuredWriter = <<W>>
  PROVE  Gathered(s \o <<e>>, W)'
<1>1. IsSeq(s)
  OBVIOUS
<1>2. Tally(s \o <<e>>) = IF e.op = "encChunk" THEN Tally(s) + 1 ELSE Tally(s)
  <2>1. IsSeq(<<e>>)
    BY Single
  <2>2. Tally(s \o <<e>>) = Tally(s) + Tally(<<e>>) /\ Tally(s) \in Nat
    BY <1>1, <2>1, Joining
  <2>3. QED
    BY <2>2, TallySingle
<1>3. decChunkIdx' = Tally(s \o <<e>>)
  BY <1>2 DEF Gathered, TakesUp
<1>4. defs' = DefIds(s \o <<e>>)
  <2>1. DefIds(s \o <<e>>) = IF e.op = "def" THEN Append(DefIds(s), e.id) ELSE DefIds(s)
    BY <1>1, DefIdsNext
  <2>2. defs = DefIds(s)
    BY DEF Gathered
  <2>3. defs' = IF e.op = "def" THEN Append(defs, e.id) ELSE defs
    BY DEF TakesUp
  <2>4. QED
    BY <2>1, <2>2, <2>3
<1>5. metadataRecs' = Bodies(s \o <<e>>, "metadata")
  <2>1. Bodies(s \o <<e>>, "metadata")
          = IF e.op = "metadata" THEN Append(Bodies(s, "metadata"), e.body)
            ELSE Bodies(s, "metadata")
    BY <1>1, BodiesNext
  <2>2. metadataRecs = Bodies(s, "metadata")
    BY DEF Gathered
  <2>3. metadataRecs' = IF e.op = "metadata" THEN Append(metadataRecs, e.body) ELSE metadataRecs
    BY DEF TakesUp
  <2>4. QED
    BY <2>1, <2>2, <2>3
<1>6. encMetadataRecs' = OfKind(s \o <<e>>, {"encMetadata"})
  <2>1. OfKind(s \o <<e>>, {"encMetadata"})
          = IF e.op \in {"encMetadata"} THEN Append(OfKind(s, {"encMetadata"}), e)
            ELSE OfKind(s, {"encMetadata"})
    BY <1>1, OfKindNext
  <2>2. encMetadataRecs = OfKind(s, {"encMetadata"})
    BY DEF Gathered
  <2>3. encMetadataRecs' = IF e.op = "encMetadata" THEN Append(encMetadataRecs, e)
                           ELSE encMetadataRecs
    BY DEF TakesUp
  <2>4. QED
    BY <2>1, <2>2, <2>3
<1>7. Bodies(s \o <<e>>, "encAttachment")
        = IF e.op = "encAttachment" THEN Append(Bodies(s, "encAttachment"), e.body)
          ELSE Bodies(s, "encAttachment")
  BY <1>1, BodiesNext
<1>8. attachments' = IF symKey' = NoKey THEN <<>> ELSE Bodies(s \o <<e>>, "encAttachment")
  <2>1. attachments' = IF e.op = "encAttachment" /\ symKey # NoKey
                       THEN Append(attachments, e.body) ELSE attachments
    BY DEF TakesUp
  <2>2. attachments = IF symKey = NoKey THEN <<>> ELSE Bodies(s, "encAttachment")
    BY DEF Gathered
  <2>3. CASE symKey' = symKey
    BY <1>7, <2>1, <2>2, <2>3
  <2>4. CASE symKey' # symKey
    <3>1. symKey = NoKey /\ e.op = "slot"
      BY <2>4 DEF TakesUp
    <3>2. Bodies(s, "encAttachment") = <<>>
      BY <3>1
    <3>3. QED
      BY <1>7, <2>1, <2>2, <2>4, <3>1, <3>2
  <2>5. QED
    BY <2>3, <2>4
<1>9. symKey' # NoKey => ~ Slotless(s \o <<e>>)
  <2>1. symKey' # NoKey => ~ Slotless(s) \/ e.op = "slot"
    BY DEF Gathered, TakesUp
  <2>2. QED
    BY <1>1, <2>1, SlotStays
<1>10. writer' \in {<<>>, <<W>>}
  <2>1. CASE writer' = writer
    BY <2>1 DEF Gathered
  <2>2. CASE writer' # writer
    <3>1. symKey # NoKey /\ writer' = EnsuredWriter
      BY <2>2 DEF TakesUp
    <3>2. EnsuredWriter = <<W>>
      BY <3>1
    <3>3. QED
      BY <3>1, <3>2
  <2>3. QED
    BY <2>1, <2>2
<1>11. QED
  BY <1>3, <1>4, <1>5, <1>6, <1>8, <1>9, <1>10 DEF Gathered

\* Nothing is held behind the leading magic.
LEMMA GatheredNothing ==
  ASSUME NEW s, IsSeq(s), \A i \in DOMAIN s : s[i].op = "magic", DecInit, NEW W
  PROVE  Gathered(s, W)
<1>1. Tally(s) = 0
  BY TallyNone DEF Chunkless
<1>2. OfKind(s, {"def"}) = <<>> /\ OfKind(s, {"encMetadata"}) = <<>>
  BY OfKindNone
<1>3. DefIds(s) = <<>>
  BY <1>2 DEF DefIds
<1>4. Bodies(s, "metadata") = <<>>
  BY BodiesNone
<1>5. QED
  BY <1>1, <1>2, <1>3, <1>4 DEF Gathered, DecInit

\* A record that is taken up keeps the state of the decryption.
LEMMA TakenUp ==
  ASSUME encFile = stored, Intact(stored), Holding, UNCHANGED encFile, ContentUnmoved,
         decState = "reading", decPos <= Len(encFile), TakesUp(Current)
  PROVE  Holding'
<1>1. /\ decPos \in 2..(Len(encFile) + 1) /\ Gathered(Passed, WrittenDefs)
  BY DEF Holding
<1>2. PICK f, W, s, e, m : /\ f = encFile /\ W = WrittenDefs /\ s = Passed /\ e = Current
                           /\ m = decPos - 1
  OBVIOUS
<1>3. /\ IsSeq(f) /\ Settled(f, W)
      /\ Bodies(f, "attachment") = <<>>
  BY <1>2 DEF Intact, Sound, Holds
<1>4. Len(f) \in Nat /\ DOMAIN f = 1..Len(f)
  BY <1>3, AsFunction
<1>5. /\ m \in 0..Len(f) /\ m < Len(f) /\ m + 1 \in DOMAIN f
      /\ m + 1 = decPos /\ (decPos + 1) - 1 = m + 1
      /\ decPos + 1 \in 2..(Len(f) + 1)
  BY <1>1, <1>2, <1>4
<1>6. s = SubSeq(f, 1, m) /\ e = f[m + 1]
  BY <1>2, <1>5 DEF Passed, Current
<1>7. IsSeq(s)
  BY <1>3, <1>5, <1>6, FrontOf
<1>8. SubSeq(f, 1, m + 1) = s \o <<e>>
  BY <1>3, <1>5, <1>6, FrontGrows
<1>9. decPos' = decPos + 1 /\ decState' = "reading" /\ encFile' = f
  BY <1>2 DEF TakesUp
<1>10. Passed' = s \o <<e>>
  BY <1>5, <1>8, <1>9 DEF Passed
<1>11. e.op # "attachment"
  BY <1>3, <1>5, <1>6, NoneOfKind
<1>12. e.op = "slot" => Bodies(s, "encAttachment") = <<>>
  BY <1>3, <1>5, <1>6, SlotIsEarly
<1>13. symKey # NoKey => EnsuredWriter = <<W>>
  BY <1>1, <1>2, <1>3, <1>5, <1>6, WriterKnowsAll
<1>14. Gathered(s \o <<e>>, W)'
  BY <1>1, <1>2, <1>7, <1>11, <1>12, <1>13, GatheredNext
<1>15. WrittenDefs' = W
  BY <1>2, SameContent
<1>16. Gathered(Passed, WrittenDefs)'
  BY <1>10, <1>14, <1>15 DEF Gathered
<1>17. decPos' \in 2..(Len(encFile') + 1)
  BY <1>5, <1>9
<1>18. QED
  BY <1>9, <1>16, <1>17 DEF Holding

\* So does the leading magic.
LEMMA MagicTakenUp ==
  ASSUME encFile = stored, Intact(stored), Holding, UNCHANGED encFile, LeadingMagic
  PROVE  Holding'
<1>1. decState = "idle" /\ DecInit
  BY DEF LeadingMagic, Holding
<1>2. IsSeq(encFile) /\ encFile # <<>> /\ encFile[1] = Magic
  BY DEF Intact, Sound
<1>3. Len(encFile) \in Nat /\ Len(encFile) > 0
  BY <1>2, AsFunction DEF IsSeq
<1>4. encFile[1].op = "magic"
  BY <1>2 DEF Magic
<1>5. decState' = "reading" /\ decPos' = 2
  BY <1>3, <1>4 DEF LeadingMagic
<1>6. PICK f, s, W : f = encFile /\ s = SubSeq(f, 1, 1) /\ W = WrittenDefs'
  OBVIOUS
<1>7. 1 \in 0..Len(f) /\ 2 \in 2..(Len(f) + 1)
  BY <1>3, <1>6
<1>8. IsSeq(s) /\ DOMAIN s = 1..1 /\ \A i \in 1..1 : s[i] = f[i]
  BY <1>2, <1>6, <1>7, FrontOf
<1>9. \A i \in DOMAIN s : s[i].op = "magic"
  BY <1>4, <1>6, <1>8
<1>10. Gathered(s, W)
  BY <1>1, <1>8, <1>9, GatheredNothing
<1>11. Gathered(s, W)'
  BY <1>10 DEF LeadingMagic, Gathered, decKeys, decBuffers, decOutput
<1>12. Passed' = s
  <2>1. 2 - 1 = 1
    OBVIOUS
  <2>2. QED
    BY <1>5, <1>6, <2>1 DEF Passed
<1>13. Gathered(Passed, WrittenDefs)'
  BY <1>6, <1>11, <1>12 DEF Gathered
<1>14. QED
  BY <1>5, <1>6, <1>7, <1>13 DEF Holding

\* Every step of the decryption of an undisturbed file keeps what is known
\* of it.
LEMMA HoldingKeeps ==
  ASSUME encFile = stored, Intact(stored), Holding, UNCHANGED encFile, ContentUnmoved, DecNext
  PROVE  Holding'
<1>1. WrittenDefs' = WrittenDefs
  BY SameContent
<1>2. CASE decState' = "failed"
  BY <1>2 DEF Holding
<1>3. CASE EndScan
  <2>1. /\ decState = "reading" /\ decState' = "checking" /\ decPos' = decPos
        /\ decPos <= Len(encFile) => Current.op = "footer"
        /\ UNCHANGED <<decKeys, decBuffers, decOutput>>
    BY <1>3 DEF EndScan
  <2>2. Passed' = Passed
    BY <2>1 DEF Passed
  <2>3. Gathered(Passed, WrittenDefs)'
    BY <1>1, <2>1, <2>2 DEF Holding, Gathered, decKeys, decBuffers, decOutput
  <2>4. QED
    BY <2>1, <2>3 DEF Holding, Current
<1>4. CASE Verify
  <2>1. /\ decState = "checking" /\ decPos' = decPos
        /\ UNCHANGED <<decKeys, decBuffers, decChunkIdx>>
        /\ decState' = IF /\ symKey # NoKey
                          /\ ManifestHolds
                          /\ \A i \in DOMAIN encMetadataRecs : encMetadataRecs[i].key = symKey
                       THEN "done" ELSE "failed"
        /\ writer' = IF symKey # NoKey /\ ManifestHolds THEN EnsuredWriter ELSE writer
    BY <1>4 DEF Verify
  <2>2. CASE decState' = "done"
    <3>1. symKey # NoKey /\ writer' = EnsuredWriter
      BY <2>1, <2>2
    <3>2. PICK f, s, W, m : /\ f = encFile /\ s = Passed /\ W = WrittenDefs /\ m = decPos - 1
      OBVIOUS
    <3>3. Gathered(s, W) /\ decPos \in 2..(Len(f) + 1)
      BY <2>1, <3>2 DEF Holding
    <3>4. IsSeq(f) /\ Settled(f, W)
      BY <3>2 DEF Intact, Sound
    <3>5. Len(f) \in Nat
      BY <3>4, AsFunction
    <3>6. m \in 0..Len(f)
      BY <3>2, <3>3, <3>5
    <3>7. s = SubSeq(f, 1, m)
      BY <3>2 DEF Passed
    <3>8. writer' = <<W>>
      BY <3>1, <3>3, <3>4, <3>6, <3>7, WriterKnowsAll
    <3>9. Passed' = s
      BY <2>1, <3>2 DEF Passed
    <3>10. UNCHANGED <<symKey, defs, attachments, metadataRecs, encMetadataRecs, decChunkIdx>>
      BY <2>1 DEF decKeys, decBuffers
    <3>11. Gathered(Passed, WrittenDefs)'
      BY <1>1, <3>2, <3>3, <3>8, <3>9, <3>10 DEF Gathered
    <3>12. QED
      BY <1>1, <2>1, <2>2, <3>1, <3>2, <3>3, <3>8, <3>10, <3>11 DEF Holding
  <2>3. QED
    BY <1>2, <2>1, <2>2
<1>5. QED
  BY <1>2, <1>3, <1>4, TakenUp, MagicTakenUp, DecTakesUp

\* The decryption of a file that nobody has disturbed.
HoldPart == stage = "decrypt" /\ Undisturbed => Holding

\* Every step of the life of a file keeps what is known of its decryption.
LEMMA HoldKeeps ==
  ASSUME PipeInv, ContentInv, HoldPart, [Next]_vars PROVE HoldPart'
<1>1. CASE Decrypt
  <2>1. /\ stage = "decrypt" /\ changes' = changes /\ faults' = faults
        /\ ContentUnmoved /\ DecNext
    BY <1>1 DEF Decrypt, encVars, fileVars, lineage, ContentUnmoved
  <2>2. encFile' = encFile
    BY <2>1 DEF DecNext, LeadingMagic, Buffer, TrySlot, OpenAttachment, OpenEncChunk, StepOver,
       CutShort, EndScan, Verify
  <2>3. encFile = stored
    BY <2>1 DEF PipeInv, DecPart, Decrypting
  <2>4. Undisturbed => Intact(stored) /\ Holding
    BY <2>1 DEF ContentInv, HoldPart
  <2>5. Undisturbed => Holding'
    BY <2>1, <2>2, <2>3, <2>4, HoldingKeeps
  <2>6. QED
    BY <2>1, <2>5 DEF HoldPart, Undisturbed
<1>2. ASSUME NEW h \in Holders, BeginDecrypt(h) PROVE HoldPart'
  <2>1. DecInit /\ UNCHANGED <<decPos, decKeys, decBuffers, decOutput, decState>>
    BY <1>2 DEF BeginDecrypt, PipeInv, DecPart
  <2>2. DecInit'
    BY <2>1 DEF DecInit, decKeys, decBuffers, decOutput
  <2>3. decState' = "idle"
    BY <2>2 DEF DecInit
  <2>4. QED
    BY <2>2, <2>3 DEF HoldPart, Holding
<1>3. CASE UNCHANGED vars
  <2>1. /\ stage' = stage /\ changes' = changes /\ faults' = faults
        /\ ContentUnmoved /\ UNCHANGED decVars
    BY <1>3 DEF vars, encVars, fileVars, lineage, ContentUnmoved
  <2>2. WrittenDefs' = WrittenDefs
    BY <2>1, SameContent
  <2>3. Passed' = Passed
    BY <2>1 DEF decVars, Passed
  <2>4. Holding => Holding'
    BY <2>1, <2>2, <2>3 DEF Holding, Gathered, DecInit, decVars
  <2>5. QED
    BY <2>1, <2>4 DEF HoldPart, Undisturbed
<1>4. ASSUME stage' # "decrypt" PROVE HoldPart'
  BY <1>4 DEF HoldPart
<1>5. QED
  <2>1. ASSUME Encrypt PROVE stage' = "encrypt"
    BY <2>1 DEF Encrypt
  <2>2. ASSUME InputChanges PROVE stage' = "encrypt"
    BY <2>2 DEF InputChanges
  <2>3. ASSUME Store \/ Interrupt \/ Damage \/ EndRotate PROVE stage' # "decrypt"
    BY <2>3 DEF Store, Interrupt, Damage, EndRotate
  <2>4. ASSUME Rotate PROVE stage' # "decrypt"
    BY <2>4 DEF Rotate
  <2>5. ASSUME NEW h \in Holders, NEW new \in NewLists, BeginRotate(h, new)
        PROVE  stage' # "decrypt"
    BY <2>5 DEF BeginRotate
  <2>6. ASSUME NEW tool \in Tools, EncryptElsewhere(tool) PROVE stage' # "decrypt"
    BY <2>6 DEF EncryptElsewhere
  <2>7. ASSUME NEW tool \in Tools, NEW h \in Holders, NEW new \in NewLists,
               RotateElsewhere(tool, h, new)
        PROVE  stage' # "decrypt"
    BY <2>7 DEF RotateElsewhere
  <2>8. QED
    BY <1>1, <1>2, <1>3, <1>4, <2>1, <2>2, <2>3, <2>4, <2>5, <2>6, <2>7 DEF Next

\* What a decryption has read of a file at the footer or at the end of file is
\* all the file has.
LEMMA PassedIsAll ==
  ASSUME encFile = stored, Intact(stored), Holding, decState = "done"
  PROVE  \A op \in Loads : Bodies(Passed, op) = Bodies(stored, op)
<1>1. decPos \in 2..(Len(stored) + 1)
  BY DEF Holding
<1>2. decPos <= Len(stored) => stored[decPos].op \in Ends
  BY DEF Holding, Ends
<1> DEFINE p == decPos
<1> HIDE DEF p
<1>3. \A op \in Loads : Bodies(SubSeq(stored, 1, p - 1), op) = Bodies(stored, op)
  <2>1. Sound(stored, WrittenDefs)
    BY DEF Intact
  <2>2. QED
    BY <1>1, <1>2, <2>1, StopsBehindAll DEF p
<1>4. QED
  BY <1>3 DEF Passed, p

\* The metadata of an undisturbed file are those that are expected.
LEMMA MetadataIsKept ==
  ASSUME metadataMode \in {"plaintext", "encrypt"}, NEW s, IsSeq(s),
         Bodies(s, "metadata") = PlainMetadata, Bodies(s, "encMetadata") = SealedMetadata
  PROVE  Bodies(s, "metadata") \o Bodies(s, "encMetadata") = KeptMetadata
<1> DEFINE m == Bodies(source, "metadata")
           p == Bodies(s, "metadata")
           e == Bodies(s, "encMetadata")
<1>1. IsSeq(p) /\ IsSeq(e)
  BY BodiesForm
<1>2. p = (IF metadataMode = "plaintext" THEN m ELSE <<>>)
      /\ e = (IF metadataMode = "plaintext" \/ "python" \in rotatedBy THEN <<>> ELSE m)
  BY DEF PlainMetadata, SealedMetadata
<1>3. KeptMetadata = IF "python" \in rotatedBy /\ metadataMode = "encrypt" THEN <<>> ELSE m
  BY DEF KeptMetadata
<1> HIDE DEF m, p, e
<1>4. p \o <<>> = p /\ <<>> \o e = e
  BY <1>1, ConcatLen
<1>5. CASE metadataMode = "plaintext"
  <2>1. e = <<>> /\ p = m /\ KeptMetadata = m
    BY <1>2, <1>3, <1>5
  <2>2. QED
    BY <1>4, <2>1 DEF p, e
<1>6. CASE metadataMode = "encrypt"
  <2>1. p = <<>> /\ e = KeptMetadata
    BY <1>2, <1>3, <1>6
  <2>2. QED
    BY <1>4, <2>1 DEF p, e
<1>7. QED
  BY <1>5, <1>6

\* What an undisturbed file gives back when it is decrypted.
LEMMA ComesBack ==
  ASSUME PipeInv, ContentInv, HoldPart PROVE RoundTrip
<1> SUFFICES ASSUME decState = "done", Undisturbed
             PROVE  /\ delivered = Original
                    /\ attachments = Bodies(source, "attachment")
                    /\ WrittenMetadata = KeptMetadata
                    /\ writer[1] = WrittenDefs
                    /\ encryptedBy \in {"go", "legacy"} => WrittenDefs = AllDefs
                    /\ OfKind(source, {"message"}) = <<>> \/ encryptedBy = "python"
  BY DEF RoundTrip
<1>1. stage = "decrypt"
  BY DEF PipeInv, DecPart, DecInit
<1>2. EncBase /\ StoredPart /\ Decrypting
  BY <1>1 DEF PipeInv, DecPart
<1>3. Holding /\ Intact(stored) /\ encFile = stored
  BY <1>1, <1>2 DEF HoldPart, ContentInv, Decrypting
<1>4. /\ metadataMode \in {"plaintext", "encrypt"}
      /\ OfKind(source, {"message"}) = <<>> \/ encryptedBy = "python"
  BY <1>1 DEF ContentInv
<1>5. \A op \in Loads : Bodies(Passed, op) = Bodies(stored, op)
  BY <1>3, PassedIsAll
<1>6. Gathered(Passed, WrittenDefs) /\ symKey # NoKey /\ writer = <<WrittenDefs>>
  BY <1>3 DEF Holding
<1>7. Bodies(Passed, "encAttachment") = Bodies(source, "attachment")
      /\ Bodies(Passed, "metadata") = PlainMetadata
      /\ Bodies(Passed, "encMetadata") = SealedMetadata
  BY <1>3, <1>5 DEF Intact, Holds, Loads, Late
<1>8. IsSeq(Passed) /\ IsSeq(stored)
  <2>1. IsSeq(stored) /\ decPos \in 2..(Len(stored) + 1)
    BY <1>3 DEF Intact, Sound, Holding
  <2>2. Len(stored) \in Nat
    BY <2>1, AsFunction
  <2>3. decPos - 1 \in 0..Len(stored)
    BY <2>1, <2>2
  <2>4. IsSeq(SubSeq(stored, 1, decPos - 1))
    BY <2>1, <2>3, FrontOf
  <2>5. QED
    BY <1>3, <2>1, <2>4 DEF Passed
<1>9. delivered = Original
  <2>1. Bodies(Passed, "encChunk") = Bodies(stored, "encChunk")
    BY <1>5 DEF Loads, Late
  <2>2. Tally(Passed) = Tally(stored)
    BY <1>8, <2>1, SameTally
  <2>3. Tally(stored) = Len(Rec)
    BY <1>2 DEF StoredPart, Whole, Undisturbed
  <2>4. decChunkIdx = Len(Rec)
    BY <1>6, <2>2, <2>3 DEF Gathered
  <2>5. PICK n \in 0..Len(Rec) : Played(n) /\ n = decChunkIdx
    BY <1>2 DEF Decrypting
  <2>6. delivered = Yielding(SubSeq(Rec, 1, n)) /\ n = Len(Rec)
    BY <2>4, <2>5 DEF Played
  <2>7. QED
    BY <1>2, <2>6, PlayedAndRest
<1>10. WrittenMetadata = KeptMetadata
  <2>1. metadataRecs = Bodies(Passed, "metadata")
        /\ encMetadataRecs = OfKind(Passed, {"encMetadata"})
    BY <1>6 DEF Gathered
  <2>2. WrittenMetadata = Bodies(Passed, "metadata") \o Bodies(Passed, "encMetadata")
    BY <2>1 DEF WrittenMetadata, Bodies
  <2>3. QED
    BY <1>4, <1>7, <1>8, <2>2, MetadataIsKept
<1>11. encryptedBy \in {"go", "legacy"} => WrittenDefs = AllDefs
  BY DEF WrittenDefs, AllDefs
<1>12. attachments = Bodies(source, "attachment")
  BY <1>6, <1>7 DEF Gathered
<1>13. QED
  BY <1>4, <1>6, <1>9, <1>10, <1>11, <1>12

\* Decrypting an undisturbed file, whoever encrypted and rotated it, restores
\* the chunks, the attachments and the metadata of the source in their order,
\* and the definitions that came into the file: all of them, if Go wrote it.
THEOREM RecordingComesBack == Spec => []RoundTrip
<1>1. Init => PipeInv /\ ContentInv /\ HoldPart
  BY PipeStarts, ContentStarts DEF Init, HoldPart
<1>2. PipeInv /\ ContentInv /\ HoldPart /\ [Next]_vars => (PipeInv /\ ContentInv /\ HoldPart)'
  BY PipeKeeps, ContentKeeps, HoldKeeps
<1>3. PipeInv /\ ContentInv /\ HoldPart => RoundTrip
  BY ComesBack
<1>4. QED
  BY <1>1, <1>2, <1>3, PTL DEF Spec

=============================================================================
