---------------------------- MODULE MCPipeline -----------------------------
(***************************************************************************)
(* Small instances of Pipeline.  c1 brings its own definition along, c2    *)
(* uses definitions found elsewhere.  The headers of c0 and c3 declare size *)
(* zero: c0 is empty, c3 holds messages.                                   *)
(***************************************************************************)
EXTENDS Pipeline

MCInner == [c0 |-> <<>>, c1 |-> <<"d2">>, c2 |-> <<"d2">>, c3 |-> <<>>]
MCUses == [c0 |-> {}, c1 |-> {"d2"}, c2 |-> {"d1", "d2"}, c3 |-> {"d1"}]
UnsizedChunks == {"c0", "c3"}

Complete(data) == <<Header>> \o data \o <<DataEnd, Def("d1"), Statistics(2), Footer>>

\* Chunks only; definitions where the usual writers put them, in the chunk and
\* in the summary; attachments and metadata ahead of and among the chunks,
\* chunks of declared size zero in the middle; no chunk at all; no end.
Plain == Complete(<<Def("d1"), Chunk("c1"), Chunk("c2")>>)
Usual == <<Header, Chunk("c1"), MessageIndex, DataEnd, Def("d2"), Statistics(1),
           ChunkIndex(2), Footer>>
Mixed == Complete(<<Metadata("m1"), Def("d1"), Chunk("c1"), Attachment("a1"),
                    Chunk("c0"), MessageIndex, Chunk("c3"), Chunk("c2"),
                    Metadata("m2")>>)
Early == Complete(<<Attachment("a1"), Attachment("a2"), Chunk("c2"), Metadata("m1")>>)
Chunkless == Complete(<<Attachment("a1"), Def("d1"), Metadata("m1")>>)
CutSource == <<Header, Def("d1"), Chunk("c1"), Chunk("c2")>>
Unsized == Complete(<<Def("d1"), Chunk("c3"), Chunk("c1")>>)

\* The records of Alphabet in every order of up to n, complete, cut short
\* between two records or inside one.
Alphabet == {Def("d1"), Chunk("c1"), Chunk("c2"), Attachment("a1"), Metadata("m1")}
Orders(n) == UNION {{s \in [1..k -> Alphabet] : \A i, j \in 1..k : s[i] = s[j] => i = j}
                    : k \in 0..n}
Cut(s) == <<Header>> \o s
CutInside(s) == <<Header>> \o s \o <<Torn>>

\* Outputs of both modes under another key, one of them without a chunk, and
\* recordings that are not chunked.
OtherSources ==
  { <<Header, Def("d1"), Slot("alice", 7), Manifest(7, 1), EncChunk("c1", 7, 0),
      DataEnd, Def("d1"), Statistics(1), ChunkIndex(6), Footer>>,
    <<Header, Slot("alice", 7), EncMetadata("m1", 7), EncAttachment("a1", 7),
      EncChunk("c1", 7, 0), DataEnd, Manifest(7, 1), Statistics(1), Footer>>,
    <<Header, Slot("alice", 7), Manifest(7, 0), DataEnd, Statistics(0), Footer>>,
    <<Header, Def("d1"), Message, DataEnd, Footer>>,
    <<Header, Chunk("c1"), Message, DataEnd, Footer>> }

ManySources ==
  {Complete(s) : s \in Orders(3)} \cup {Mixed, Early, Usual, CutSource} \cup OtherSources
    \cup {Cut(s) : s \in Orders(2)} \cup {CutInside(s) : s \in Orders(2)}
FaultySources == {Plain, CutSource, Unsized, Chunkless}
UsualSources == {Usual, Plain, Early}
PlainSource == {Plain}

NoOtherTools == {}
AllTools == {"python", "typescript", "legacy"}
OtherPackages == {"python", "typescript"}
EarlierRelease == {"legacy"}

NobodyUsesKms == {}
CarolUsesKms == {"carol"}

BothModes == {"file", "stream"}
FileMode == {"file"}
MetaModes == {"plaintext", "encrypt"}
MetaEncrypt == {"encrypt"}
OneList == {<<"alice">>}
SomeLists == {<<>>, <<"bob", "alice">>}
RotationLists == {<<"bob">>, <<"carol", "bob">>}
BobList == {<<"bob">>}

=============================================================================
