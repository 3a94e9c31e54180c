------------------------- MODULE Encryptor_proofs --------------------------
(***************************************************************************)
(* Proofs about Encryptor, for every source, mode and list of recipients.  *)
(* No property is inductive.  KeysComeFirst needs that the keys and        *)
(* definitions are in the output once flushed is set and that nothing      *)
(* encrypted is before; that a stream, which sets the flag at the header,  *)
(* meets the header first; and that the patched manifest replaces no key.  *)
(* EverythingSealed compares two whole files and is made to speak of the   *)
(* records read so far; NeverEncryptTwice needs that a stream has met no   *)
(* slot yet and where the loop can end.                                    *)
(***************************************************************************)
EXTENDS Encryptor, McapRecords_proofs

\* What has to be ahead of an encrypted record.
Needed == {Slot(r, SymKey) : r \in Elements(recipients)}
            \cup {Def(d) : d \in Elements(Definitions(source))}

Before(s, i) == {s[j] : j \in 1..(i - 1)}

Led(s, N) == \A i \in DOMAIN s : s[i].op \in Encrypted => N \subseteq Before(s, i)

Plain(s) == \A i \in DOMAIN s : s[i].op \notin Encrypted

\* The positions m are those of the encrypted chunks of s, in order of index.
Noted(s, m) ==
  /\ \A i \in DOMAIN m :
       /\ m[i] \in DOMAIN s
       /\ s[m[i]].op = "encChunk"
       /\ Opens(s[m[i]], SymKey, i - 1)
  /\ \A j \in DOMAIN s : s[j].op = "encChunk" => \E i \in DOMAIN m : m[i] = j

\* The part of the invariant that is about the output.
Written(s, m) ==
  /\ IsSeq(s)
  /\ Led(s, Needed)
  /\ Noted(s, m)

EncInv ==
  /\ source \in Sources /\ recipients \in RecipientLists
  /\ mode \in {"file", "stream"}
  /\ flushed \in BOOLEAN
  /\ encPos \in Nat \ {0}
  /\ encState \in {"start", "checked", "collected"} =>
       out = <<>> /\ encChunkMetas = <<>> /\ chunkIdx = 0 /\ ~ flushed /\ encPos = 1
  /\ encState \in {"collected", "reading"} => pending = Definitions(source)
  /\ flushed => Needed \subseteq Elements(out)
  /\ ~ flushed => Plain(out)
  /\ mode = "file" /\ flushed => manifestAt \in DOMAIN out /\ out[manifestAt].op = "manifest"
  /\ encState = "reading" /\ mode = "stream" /\ ~ flushed => encPos = 1
  /\ encChunkMetas \in Seq(Nat) /\ Len(encChunkMetas) = chunkIdx
  /\ Written(out, encChunkMetas)

-----------------------------------------------------------------------------
(* Sequences.                                                              *)

\* Two parts without encrypted records.
LEMMA PlainConcat ==
  ASSUME NEW s, NEW t, IsSeq(s), IsSeq(t), Plain(s), Plain(t)
  PROVE  Plain(s \o t)
<1> SUFFICES ASSUME NEW k \in DOMAIN (s \o t)
             PROVE  (s \o t)[k].op \notin Encrypted
  BY DEF Plain
<1>1. QED
  BY ConcatSplit DEF Plain

\* Records may be appended if they need no key, or the keys are there.
LEMMA LedConcat ==
  ASSUME NEW s, NEW t, NEW N, IsSeq(s), IsSeq(t), Led(s, N),
         Plain(t) \/ N \subseteq Elements(s)
  PROVE  Led(s \o t, N)
<1> SUFFICES ASSUME NEW k \in DOMAIN (s \o t), (s \o t)[k].op \in Encrypted
             PROVE  N \subseteq Before(s \o t, k)
  BY DEF Led
<1>1. /\ Len(s) \in Nat /\ Len(t) \in Nat
      /\ DOMAIN s = 1..Len(s) /\ DOMAIN t = 1..Len(t)
      /\ \A i \in 1..Len(s) : (s \o t)[i] = s[i]
  BY Concat
<1>2. CASE k \in DOMAIN s /\ (s \o t)[k] = s[k]
  <2>1. N \subseteq Before(s, k)
    BY <1>2 DEF Led
  <2>2. \A j \in 1..(k - 1) : (s \o t)[j] = s[j]
    BY <1>1, <1>2
  <2>3. QED
    BY <2>1, <2>2 DEF Before
<1>3. ASSUME NEW i \in DOMAIN t, k = Len(s) + i, (s \o t)[k] = t[i]
      PROVE  N \subseteq Before(s \o t, k)
  <2>1. N \subseteq Elements(s)
    BY <1>3 DEF Plain
  <2>2. \A j \in 1..Len(s) : j \in 1..(k - 1)
    BY <1>1, <1>3
  <2>3. Elements(s) \subseteq Before(s \o t, k)
    BY <1>1, <2>2 DEF Elements, Before
  <2>4. QED
    BY <2>1, <2>3
<1>4. QED
  BY <1>2, <1>3, ConcatSplit

-----------------------------------------------------------------------------
(* Noted positions.                                                        *)

\* Records other than chunks move nothing that has been noted.
LEMMA NotedConcat ==
  ASSUME NEW s, NEW t, NEW m, IsSeq(s), IsSeq(t), Noted(s, m), Chunkless(t)
  PROVE  Noted(s \o t, m)
<1>1. /\ DOMAIN s \subseteq DOMAIN (s \o t)
      /\ \A i \in DOMAIN s : (s \o t)[i] = s[i]
  BY Concat
<1>2. \A i \in DOMAIN m : /\ m[i] \in DOMAIN (s \o t)
                          /\ (s \o t)[m[i]].op = "encChunk"
                          /\ Opens((s \o t)[m[i]], SymKey, i - 1)
  BY <1>1 DEF Noted
<1>3. ASSUME NEW j \in DOMAIN (s \o t), (s \o t)[j].op = "encChunk"
      PROVE  \E i \in DOMAIN m : m[i] = j
  <2>1. j \in DOMAIN s /\ (s \o t)[j] = s[j]
    BY <1>3, ConcatSplit DEF Chunkless
  <2>2. QED
    BY <1>3, <2>1 DEF Noted
<1>4. QED
  BY <1>2, <1>3 DEF Noted

\* A chunk is noted at the place it gets.
LEMMA NotedChunk ==
  ASSUME NEW s, NEW m \in Seq(Nat), NEW r, IsSeq(s), Noted(s, m),
         r.op = "encChunk", Opens(r, SymKey, Len(m))
  PROVE  Noted(s \o <<r>>, Append(m, Len(s) + 1))
<1> DEFINE t == s \o <<r>>
           n == Append(m, Len(s) + 1)
<1>1. IsSeq(<<r>>) /\ Len(<<r>>) = 1 /\ DOMAIN <<r>> = {1} /\ <<r>>[1] = r
  BY Single
<1>2. /\ Len(s) \in Nat /\ DOMAIN s = 1..Len(s)
      /\ DOMAIN t = 1..(Len(s) + 1)
      /\ \A i \in DOMAIN s : t[i] = s[i]
      /\ t[Len(s) + 1] = r
  <2>1. /\ Len(s) \in Nat /\ DOMAIN s = 1..Len(s) /\ DOMAIN t = 1..(Len(s) + Len(<<r>>))
        /\ \A i \in 1..Len(s) : t[i] = s[i]
        /\ \A i \in 1..Len(<<r>>) : t[Len(s) + i] = <<r>>[i]
    BY <1>1, Concat
  <2>2. 1 \in 1..Len(<<r>>)
    BY <1>1
  <2>3. QED
    BY <1>1, <2>1, <2>2
<1>3. /\ Len(m) \in Nat /\ DOMAIN m = 1..Len(m) /\ DOMAIN n = 1..(Len(m) + 1)
      /\ \A i \in DOMAIN m : n[i] = m[i]
      /\ n[Len(m) + 1] = Len(s) + 1
  <2>1. Len(s) + 1 \in Nat
    BY <1>2
  <2> HIDE DEF t
  <2>2. QED
    BY <2>1
<1> HIDE DEF t, n
<1>4. ASSUME NEW i \in DOMAIN n
      PROVE  n[i] \in DOMAIN t /\ t[n[i]].op = "encChunk" /\ Opens(t[n[i]], SymKey, i - 1)
  <2>1. CASE i \in DOMAIN m
    <3>1. m[i] \in DOMAIN s /\ s[m[i]].op = "encChunk" /\ Opens(s[m[i]], SymKey, i - 1)
      BY <2>1 DEF Noted
    <3>2. n[i] = m[i] /\ t[m[i]] = s[m[i]] /\ m[i] \in DOMAIN t
      BY <1>2, <1>3, <2>1, <3>1
    <3>3. QED
      BY <3>1, <3>2
  <2>2. CASE i = Len(m) + 1
    <3>1. n[i] = Len(s) + 1 /\ Len(s) + 1 \in DOMAIN t /\ t[n[i]] = r /\ i - 1 = Len(m)
      BY <1>2, <1>3, <2>2
    <3>2. QED
      BY <3>1
  <2>3. QED
    BY <1>3, <2>1, <2>2
<1>5. ASSUME NEW j \in DOMAIN t, t[j].op = "encChunk"
      PROVE  \E i \in DOMAIN n : n[i] = j
  <2>1. CASE j \in DOMAIN s
    <3>1. PICK i \in DOMAIN m : m[i] = j
      BY <1>2, <1>5, <2>1 DEF Noted
    <3>2. i \in DOMAIN n /\ n[i] = j
      BY <1>3, <3>1
    <3>3. QED
      BY <3>2
  <2>2. CASE j = Len(s) + 1
    <3>1. Len(m) + 1 \in DOMAIN n /\ n[Len(m) + 1] = j
      BY <1>3, <2>2
    <3>2. QED
      BY <3>1
  <2>3. QED
    BY <1>2, <2>1, <2>2
<1>6. Noted(t, n)
  BY <1>4, <1>5 DEF Noted
<1>7. QED
  BY <1>6 DEF t, n

-----------------------------------------------------------------------------
(* The manifest that is patched.                                           *)

\* A manifest in the place of another leaves all else as it was.
LEMMA Patched ==
  ASSUME NEW s, IsSeq(s), NEW p \in DOMAIN s, s[p].op = "manifest",
         NEW e, e.op = "manifest", NEW N, \A n \in N : n.op # "manifest",
         NEW m
  PROVE  LET t == [s EXCEPT ![p] = e]
         IN /\ IsSeq(t)
            /\ p \in DOMAIN t /\ t[p].op = "manifest"
            /\ N \subseteq Elements(s) => N \subseteq Elements(t)
            /\ Led(s, N) => Led(t, N)
            /\ Noted(s, m) => Noted(t, m)
<1> DEFINE t == [s EXCEPT ![p] = e]
<1>1. /\ DOMAIN t = DOMAIN s /\ t[p] = e
      /\ \A i \in DOMAIN s : i # p => t[i] = s[i]
  BY DEF IsSeq
<1>2. IsSeq(t)
  <2>1. Len(s) \in Nat /\ DOMAIN s = 1..Len(s)
    BY DEF IsSeq
  <2>2. t \in [1..Len(s) -> Elements(t)]
    BY <1>1, <2>1 DEF Elements
  <2>3. QED
    BY <2>1, <2>2, OfFunction
<1> HIDE DEF t
<1>3. \A i \in DOMAIN s : s[i] \in N => t[i] = s[i]
  BY <1>1
<1>4. ASSUME N \subseteq Elements(s) PROVE N \subseteq Elements(t)
  <2> SUFFICES ASSUME NEW n \in N PROVE n \in Elements(t)
    OBVIOUS
  <2>1. PICK i \in DOMAIN s : s[i] = n
    BY <1>4 DEF Elements
  <2>2. QED
    BY <1>1, <1>3, <2>1 DEF Elements
<1>5. ASSUME Led(s, N) PROVE Led(t, N)
  <2> SUFFICES ASSUME NEW i \in DOMAIN t, t[i].op \in Encrypted, NEW n \in N
               PROVE  n \in Before(t, i)
    BY DEF Led
  <2>1. i \in DOMAIN s /\ t[i] = s[i]
    BY <1>1 DEF Encrypted
  <2>2. n \in Before(s, i)
    BY <1>5, <2>1 DEF Led
  <2>3. PICK j \in 1..(i - 1) : s[j] = n
    BY <2>2 DEF Before
  <2>4. j \in DOMAIN s
    BY <2>1, <2>3 DEF IsSeq
  <2>5. t[j] = n
    BY <1>3, <2>3, <2>4
  <2>6. QED
    BY <2>3, <2>5 DEF Before
<1>6. ASSUME Noted(s, m) PROVE Noted(t, m)
  <2>1. \A i \in DOMAIN m : m[i] \in DOMAIN s /\ m[i] # p
    BY <1>6 DEF Noted
  <2>2. \A i \in DOMAIN m : t[m[i]] = s[m[i]]
    BY <1>1, <2>1
  <2>3. \A j \in DOMAIN t : t[j].op = "encChunk" => j # p /\ t[j] = s[j]
    BY <1>1
  <2>4. QED
    BY <1>1, <1>6, <2>1, <2>2, <2>3 DEF Noted
<1>7. QED
  BY <1>1, <1>2, <1>4, <1>5, <1>6 DEF t

-----------------------------------------------------------------------------
(* What is written in front of the data.                                   *)

\* Definitions as they are written.
LEMMA MadeDefs ==
  ASSUME NEW s, IsSeq(s)
  PROVE  LET t == Records(s, Def)
         IN /\ IsSeq(t) /\ Plain(t) /\ Chunkless(t)
            /\ Elements(t) = {Def(d) : d \in Elements(s)}
<1> DEFINE t == Records(s, Def)
<1>1. Len(s) \in Nat /\ DOMAIN s = 1..Len(s)
  BY DEF IsSeq
<1>2. /\ DOMAIN t = DOMAIN s /\ \A i \in DOMAIN s : t[i] = Def(s[i])
      /\ t = [i \in DOMAIN t |-> t[i]]
  BY DEF Records
<1> HIDE DEF t
<1>3. t \in [1..Len(s) -> Elements(t)]
  BY <1>1, <1>2 DEF Elements
<1>4. IsSeq(t)
  BY <1>1, <1>3, OfFunction
<1>5. \A i \in DOMAIN t : t[i].op = "def"
  BY <1>2 DEF Def
<1>6. Elements(t) = {Def(d) : d \in Elements(s)}
  BY <1>2 DEF Elements
<1>7. Plain(t) /\ Chunkless(t)
  BY <1>5 DEF Plain, Chunkless, Encrypted
<1>8. QED
  BY <1>4, <1>6, <1>7 DEF t

\* The chunk index of the summary.
LEMMA MadeIndex ==
  ASSUME NEW s \in Seq(Nat)
  PROVE  IsSeq(Records(s, ChunkIndex)) /\ Plain(Records(s, ChunkIndex))
<1> DEFINE t == Records(s, ChunkIndex)
<1>1. Len(s) \in Nat /\ DOMAIN s = 1..Len(s)
  OBVIOUS
<1>2. /\ DOMAIN t = DOMAIN s /\ \A i \in DOMAIN s : t[i] = ChunkIndex(s[i])
      /\ t = [i \in DOMAIN t |-> t[i]]
  BY DEF Records
<1> HIDE DEF t
<1>3. t \in [1..Len(s) -> Elements(t)]
  BY <1>1, <1>2 DEF Elements
<1>4. Plain(t)
  BY <1>2 DEF Plain, ChunkIndex, Encrypted
<1>5. QED
  BY <1>1, <1>3, <1>4, OfFunction DEF t

\* The slots, one for each recipient.
LEMMA SlotsAre ==
  ASSUME IsSeq(recipients)
  PROVE  /\ IsSeq(Slots) /\ Plain(Slots) /\ Chunkless(Slots)
         /\ Elements(Slots) = {Slot(r, SymKey) : r \in Elements(recipients)}
<1> DEFINE s == recipients
           t == Slots
<1>1. Len(s) \in Nat /\ DOMAIN s = 1..Len(s)
  BY DEF IsSeq
<1>2. /\ DOMAIN t = DOMAIN s /\ \A i \in DOMAIN s : t[i] = Slot(s[i], SymKey)
      /\ t = [i \in DOMAIN t |-> t[i]]
  BY DEF Records, Slots
<1> HIDE DEF t
<1>3. t \in [1..Len(s) -> Elements(t)]
  BY <1>1, <1>2 DEF Elements
<1>4. IsSeq(t)
  BY <1>1, <1>3, OfFunction
<1>5. \A i \in DOMAIN t : t[i].op = "slot"
  BY <1>2 DEF Slot
<1>6. Elements(t) = {Slot(r, SymKey) : r \in Elements(s)}
  BY <1>2 DEF Elements
<1>7. Plain(t) /\ Chunkless(t)
  BY <1>5 DEF Plain, Chunkless, Encrypted
<1>8. QED
  BY <1>4, <1>6, <1>7 DEF t

\* Two parts without chunks.
LEMMA ChunklessConcat ==
  ASSUME NEW s, NEW t, IsSeq(s), IsSeq(t), Chunkless(s), Chunkless(t)
  PROVE  Chunkless(s \o t)
<1> SUFFICES ASSUME NEW k \in DOMAIN (s \o t)
             PROVE  (s \o t)[k].op # "encChunk"
  BY DEF Chunkless
<1>1. QED
  BY ConcatSplit DEF Chunkless

\* Definitions and slots are all that is needed.
LEMMA MadeOpening ==
  ASSUME IsSeq(recipients), IsSeq(pending), pending = Definitions(source)
  PROVE  /\ IsSeq(Opening) /\ Plain(Opening) /\ Chunkless(Opening)
         /\ Elements(Opening) = Needed
<1> DEFINE d == Records(pending, Def)
<1>1. /\ IsSeq(d) /\ Plain(d) /\ Chunkless(d)
      /\ Elements(d) = {Def(x) : x \in Elements(pending)}
  BY MadeDefs
<1>2. /\ IsSeq(Slots) /\ Plain(Slots) /\ Chunkless(Slots)
      /\ Elements(Slots) = {Slot(r, SymKey) : r \in Elements(recipients)}
  BY SlotsAre
<1> HIDE DEF d
<1>3. Elements(d) \cup Elements(Slots) = Needed
  BY <1>1, <1>2 DEF Needed
<1> DEFINE s == Slots
<1> HIDE DEF s
<1>4. IsSeq(d \o s) /\ Elements(d \o s) = Elements(d) \cup Elements(s)
  BY <1>1, <1>2, Concat DEF s
<1>5. Plain(d \o s) /\ Chunkless(d \o s)
  BY <1>1, <1>2, PlainConcat, ChunklessConcat DEF s
<1>6. QED
  BY <1>3, <1>4, <1>5 DEF Opening, d, s

\* The placeholder is the last record of the preamble.
LEMMA MadePreamble ==
  ASSUME IsSeq(recipients), IsSeq(pending), pending = Definitions(source)
  PROVE  /\ IsSeq(Preamble) /\ Plain(Preamble) /\ Chunkless(Preamble)
         /\ Needed \subseteq Elements(Preamble)
         /\ Len(Preamble) \in DOMAIN Preamble
         /\ Preamble[Len(Preamble)].op = "manifest"
<1> DEFINE o == Opening
           e == Placeholder
<1>1. IsSeq(o) /\ Plain(o) /\ Chunkless(o) /\ Elements(o) = Needed
  BY MadeOpening
<1>2. e.op = "manifest"
  BY DEF Placeholder, Manifest
<1>3. Preamble = o \o <<e>>
  BY DEF Preamble
<1> HIDE DEF o, e
<1>4. IsSeq(<<e>>) /\ DOMAIN <<e>> = {1} /\ Len(<<e>>) = 1 /\ <<e>>[1] = e
  BY Single
<1>5. Plain(<<e>>) /\ Chunkless(<<e>>)
  BY <1>2, <1>4 DEF Plain, Chunkless, Encrypted
<1>6. /\ IsSeq(o \o <<e>>)
      /\ Elements(o) \subseteq Elements(o \o <<e>>)
      /\ Plain(o \o <<e>>) /\ Chunkless(o \o <<e>>)
  BY <1>1, <1>4, <1>5, Concat, PlainConcat, ChunklessConcat
<1>7. Len(o) + 1 \in DOMAIN (o \o <<e>>) /\ (o \o <<e>>)[Len(o) + 1] = e
  <2>1. /\ Len(o) \in Nat
        /\ DOMAIN (o \o <<e>>) = 1..(Len(o) + Len(<<e>>))
        /\ \A i \in 1..Len(<<e>>) : (o \o <<e>>)[Len(o) + i] = <<e>>[i]
    BY <1>1, <1>4, Concat
  <2>2. 1 \in 1..Len(<<e>>)
    BY <1>4
  <2>3. QED
    BY <1>4, <2>1, <2>2
<1>8. Len(o \o <<e>>) = Len(o) + 1
  <2>1. o \in Seq(Elements(o) \cup {e}) /\ <<e>> \in Seq(Elements(o) \cup {e})
    BY <1>1 DEF IsSeq
  <2>2. QED
    BY <1>4, <2>1
<1>9. QED
  BY <1>1, <1>2, <1>3, <1>6, <1>7, <1>8

-----------------------------------------------------------------------------
(* What has been written by then, and how a step adds to it.               *)

\* Records that are neither encrypted nor in need of anything.
LEMMA WritePlain ==
  ASSUME NEW s, NEW t, NEW m, Written(s, m), IsSeq(t), Plain(t)
  PROVE  /\ Written(s \o t, m)
         /\ Elements(s) \subseteq Elements(s \o t)
         /\ Elements(t) \subseteq Elements(s \o t)
         /\ Plain(s) => Plain(s \o t)
         /\ \A p \in DOMAIN s : p \in DOMAIN (s \o t) /\ (s \o t)[p] = s[p]
<1>1. Chunkless(t)
  BY DEF Plain, Chunkless, Encrypted
<1>2. /\ IsSeq(s \o t) /\ Elements(s \o t) = Elements(s) \cup Elements(t)
      /\ \A p \in DOMAIN s : p \in DOMAIN (s \o t) /\ (s \o t)[p] = s[p]
  BY Concat DEF Written
<1>3. Led(s \o t, Needed) /\ Noted(s \o t, m)
  BY <1>1, LedConcat, NotedConcat DEF Written
<1>4. Plain(s) => Plain(s \o t)
  BY PlainConcat DEF Written
<1>5. QED
  BY <1>2, <1>3, <1>4 DEF Written

\* One record that is no chunk, if the keys are there.
LEMMA WriteSealed ==
  ASSUME NEW s, NEW e, NEW m, Written(s, m), Needed \subseteq Elements(s),
         e.op # "encChunk"
  PROVE  Written(s \o <<e>>, m)
<1>1. IsSeq(<<e>>) /\ DOMAIN <<e>> = {1} /\ <<e>>[1] = e
  BY Single
<1>2. Chunkless(<<e>>)
  BY <1>1 DEF Chunkless
<1>3. IsSeq(s \o <<e>>)
  BY <1>1, Concat DEF Written
<1>4. Led(s \o <<e>>, Needed) /\ Noted(s \o <<e>>, m)
  BY <1>1, <1>2, LedConcat, NotedConcat DEF Written
<1>5. QED
  BY <1>3, <1>4 DEF Written

\* One chunk, if the keys are there.
LEMMA WriteChunk ==
  ASSUME NEW s, NEW e, NEW m \in Seq(Nat), Written(s, m), Needed \subseteq Elements(s),
         e.op = "encChunk", Opens(e, SymKey, Len(m))
  PROVE  Written(s \o <<e>>, Append(m, Len(s) + 1))
<1>1. IsSeq(<<e>>)
  BY Single
<1>2. IsSeq(s \o <<e>>) /\ Led(s \o <<e>>, Needed)
  BY <1>1, Concat, LedConcat DEF Written
<1>3. Noted(s \o <<e>>, Append(m, Len(s) + 1))
  BY NotedChunk DEF Written
<1>4. QED
  BY <1>2, <1>3 DEF Written

-----------------------------------------------------------------------------
(* The actions.                                                            *)

\* What is read and what is collected from it are sequences.
LEMMA InputIsSeq ==
  ASSUME EncInv PROVE IsSeq(recipients) /\ IsSeq(source) /\ IsSeq(Definitions(source))
<1>1. source \in Sources /\ IsSeq(recipients)
  BY RecipientListsAssumption DEF EncInv, IsSeq
<1>2. /\ IsSeq(source)
      /\ \A i \in DOMAIN source : source[i].op = "chunk" => source[i].body \in DOMAIN Uses
  BY <1>1, SourcesAssumption DEF IsSeq
<1>3. QED
  BY <1>1, <1>2, CollectedAreSeq

\* Past the header, an output that was not flushed before is flushed now.
LEMMA FlushedIsWritten ==
  ASSUME EncInv, NEW ops, At(ops), "header" \notin ops, "torn" \notin ops
  PROVE  /\ Written(FlushedOut, encChunkMetas)
         /\ Needed \subseteq Elements(FlushedOut)
         /\ mode = "file" => FlushedAt \in DOMAIN FlushedOut
                             /\ FlushedOut[FlushedAt].op = "manifest"
         /\ mode = "stream" => flushed
<1>1. mode = "stream" => flushed
  <2> SUFFICES ASSUME mode = "stream", ~ flushed PROVE FALSE
    OBVIOUS
  <2>1. encPos = 1 /\ source[1].op \in ops /\ 1 <= Len(source)
    BY DEF EncInv, At
  <2>2. source # <<>>
    BY <2>1
  <2>3. source[1].op \in {"header", "torn"}
    BY <2>2, SourcesAssumption DEF EncInv
  <2>4. QED
    BY <2>1, <2>3
<1>2. CASE MustFlush
  <2>1. IsSeq(recipients) /\ IsSeq(pending) /\ pending = Definitions(source)
    BY InputIsSeq DEF EncInv, At
  <2> DEFINE p == Preamble
  <2>2. /\ IsSeq(p) /\ Plain(p) /\ Needed \subseteq Elements(p)
        /\ Len(p) \in DOMAIN p /\ p[Len(p)].op = "manifest"
    BY <2>1, MadePreamble
  <2>3. FlushedOut = out \o p /\ FlushedAt = Len(out) + Len(p)
    BY <1>2 DEF FlushedOut, FlushedAt
  <2> HIDE DEF p
  <2>4. Written(out \o p, encChunkMetas) /\ Needed \subseteq Elements(out \o p)
    BY <2>2, WritePlain DEF EncInv
  <2>5. Len(out) + Len(p) \in DOMAIN (out \o p) /\ (out \o p)[Len(out) + Len(p)] = p[Len(p)]
    <3>1. /\ Len(out) \in Nat /\ Len(p) \in Nat /\ DOMAIN p = 1..Len(p)
          /\ DOMAIN (out \o p) = 1..(Len(out) + Len(p))
          /\ \A i \in 1..Len(p) : (out \o p)[Len(out) + i] = p[i]
      BY <2>2, Concat DEF EncInv, Written
    <3>2. QED
      BY <2>2, <3>1
  <2>6. QED
    BY <1>1, <2>2, <2>3, <2>4, <2>5
<1>3. CASE ~ MustFlush
  <2>1. FlushedOut = out /\ FlushedAt = manifestAt /\ flushed
    BY <1>1, <1>3 DEF FlushedOut, FlushedAt, MustFlush, EncInv
  <2>2. QED
    BY <1>1, <2>1 DEF EncInv
<1>4. QED
  BY <1>2, <1>3

\* What follows from the invariant for a step that leaves the input alone and
\* has begun to read.
LEMMA NeedStays ==
  ASSUME EncInv, UNCHANGED encInput, encState = "reading"
  PROVE  Needed' = Needed
BY DEF Needed, encInput

\* A flush and one record.
LEMMA FlushStep ==
  ASSUME EncInv, NEW ops, At(ops), "header" \notin ops, "torn" \notin ops,
         NEW e, FlushAndWrite(<<e>>), UNCHANGED <<encInput, pending, encState>>, Advance,
         \/ e.op # "encChunk" /\ UNCHANGED <<chunkIdx, encChunkMetas>>
         \/ /\ e.op = "encChunk" /\ Opens(e, SymKey, chunkIdx)
            /\ chunkIdx' = chunkIdx + 1
            /\ encChunkMetas' = Append(encChunkMetas, Len(FlushedOut) + 1)
  PROVE  EncInv'
<1> DEFINE f == FlushedOut
           at == FlushedAt
<1>1. /\ Written(f, encChunkMetas) /\ Needed \subseteq Elements(f)
      /\ mode = "file" => at \in DOMAIN f /\ f[at].op = "manifest"
      /\ mode = "stream" => flushed
  BY FlushedIsWritten
<1>2. out' = f \o <<e>> /\ manifestAt' = at /\ flushed' = TRUE
  BY <1>1 DEF FlushAndWrite, EncInv
<1>3. encState = "reading" /\ Needed' = Needed
  BY NeedStays DEF At
<1> HIDE DEF f, at
<1>4. /\ IsSeq(<<e>>) /\ IsSeq(f)
      /\ Elements(f) \subseteq Elements(f \o <<e>>)
      /\ \A p \in DOMAIN f : p \in DOMAIN (f \o <<e>>) /\ (f \o <<e>>)[p] = f[p]
  <2>1. IsSeq(<<e>>) /\ IsSeq(f)
    BY <1>1, Single DEF Written
  <2>2. QED
    BY <2>1, Concat
<1>5. /\ encChunkMetas' \in Seq(Nat) /\ Len(encChunkMetas') = chunkIdx'
      /\ Written(f \o <<e>>, encChunkMetas')
  <2>1. CASE e.op # "encChunk" /\ UNCHANGED <<chunkIdx, encChunkMetas>>
    BY <1>1, <2>1, WriteSealed DEF EncInv
  <2>2. CASE /\ e.op = "encChunk" /\ Opens(e, SymKey, chunkIdx)
             /\ chunkIdx' = chunkIdx + 1
             /\ encChunkMetas' = Append(encChunkMetas, Len(f) + 1)
    <3>1. encChunkMetas \in Seq(Nat) /\ Len(encChunkMetas) = chunkIdx
      BY DEF EncInv
    <3>2. Len(f) + 1 \in Nat
      BY <1>4 DEF IsSeq
    <3>3. encChunkMetas' \in Seq(Nat) /\ Len(encChunkMetas') = chunkIdx'
      BY <2>2, <3>1, <3>2
    <3>4. Written(f \o <<e>>, Append(encChunkMetas, Len(f) + 1))
      BY <1>1, <2>2, <3>1, WriteChunk
    <3>5. QED
      BY <2>2, <3>3, <3>4
  <2>3. QED
    BY <2>1, <2>2 DEF f
<1>6. Written(out, encChunkMetas)'
  BY <1>2, <1>3, <1>5 DEF Written, Noted
<1>7. encPos' \in Nat \ {0}
  BY DEF EncInv, Advance
<1>8. QED
  BY <1>1, <1>2, <1>3, <1>4, <1>5, <1>6, <1>7 DEF EncInv, encInput

\* A step that adds nothing that is encrypted and moves no mark.
LEMMA PlainStep ==
  ASSUME EncInv, encState = "reading", NEW t, IsSeq(t), Plain(t), out' = out \o t,
         UNCHANGED <<encInput, pending, manifestAt, chunkIdx, encChunkMetas>>,
         flushed' \in BOOLEAN, flushed => flushed',
         mode = "file" => flushed' = flushed,
         ~ flushed /\ flushed' => Needed \subseteq Elements(t),
         encPos' \in Nat \ {0}, encState' \in {"reading", "done"},
         encState' = "reading" /\ mode = "stream" => flushed'
  PROVE  EncInv'
<1>1. Needed' = Needed
  BY NeedStays
<1>2. /\ Written(out \o t, encChunkMetas)
      /\ Elements(out) \subseteq Elements(out \o t)
      /\ Elements(t) \subseteq Elements(out \o t)
      /\ Plain(out) => Plain(out \o t)
      /\ \A p \in DOMAIN out : p \in DOMAIN (out \o t) /\ (out \o t)[p] = out[p]
  BY WritePlain DEF EncInv
<1>3. Written(out, encChunkMetas)'
  BY <1>1, <1>2 DEF Written, Noted
<1>4. QED
  BY <1>1, <1>2, <1>3 DEF EncInv, encInput

\* A step that writes nothing.
LEMMA SilentStep ==
  ASSUME EncInv, UNCHANGED <<encInput, encMarks, chunkIdx, encChunkMetas, out>>,
         encPos' \in Nat \ {0},
         \/ /\ encState = "reading" /\ UNCHANGED pending
            /\ \/ encState' = "failed"
               \/ encState' = "reading" /\ (mode = "stream" => flushed)
         \/ encState = "start" /\ encState' \in {"checked", "failed"} /\ UNCHANGED <<pending, encPos>>
         \/ /\ encState = "checked" /\ encState' = "collected"
            /\ pending' = Definitions(source) /\ UNCHANGED encPos
  PROVE  EncInv'
<1>1. Needed' = Needed
  BY DEF Needed, encInput
<1>2. Written(out, encChunkMetas)'
  BY <1>1 DEF Written, Noted, EncInv
<1>3. QED
  BY <1>1, <1>2 DEF EncInv, encInput, encMarks

\* The header.
LEMMA HeaderStep ==
  ASSUME EncInv, TakeHeader
  PROVE  EncInv'
<1>1. /\ encState = "reading" /\ encState' = "reading" /\ flushed \in BOOLEAN
      /\ encPos \in Nat /\ encPos' = encPos + 1
      /\ flushed' = (flushed \/ mode = "stream")
      /\ UNCHANGED <<encInput, pending, manifestAt, chunkIdx, encChunkMetas>>
  BY DEF TakeHeader, At, Advance, EncInv
<1>2. IsSeq(out) /\ mode \in {"file", "stream"}
  BY DEF EncInv, Written
<1>3. CASE mode = "file"
  <2>1. out' = out \o <<Header>>
    BY <1>2, <1>3, AppendOne DEF TakeHeader
  <2>2. IsSeq(<<Header>>) /\ Plain(<<Header>>)
    BY Single DEF Plain, Header, Encrypted
  <2>3. flushed' = flushed
    BY <1>1, <1>3
  <2>4. encPos' \in Nat \ {0}
    BY <1>1
  <2>5. mode # "stream"
    BY <1>3
  <2>6. QED
    BY <1>1, <2>1, <2>2, <2>3, <2>4, <2>5, PlainStep
<1>4. CASE mode = "stream" /\ ~ flushed
  <2> DEFINE a == <<Magic, Header>>
             o == Opening
             t == a \o o
  <2>1. IsSeq(recipients) /\ IsSeq(pending) /\ pending = Definitions(source)
    BY <1>1, InputIsSeq DEF EncInv
  <2>2. IsSeq(a) /\ Plain(a)
    BY Pair DEF Plain, Magic, Header, Encrypted
  <2>3. IsSeq(o) /\ Plain(o) /\ Elements(o) = Needed
    BY <2>1, MadeOpening
  <2>4. out' = (out \o a) \o o
    BY <1>4 DEF TakeHeader
  <2> HIDE DEF a, o
  <2>5. out' = out \o t
    BY <1>2, <2>2, <2>3, <2>4, Grouped
  <2>6. IsSeq(t) /\ Plain(t) /\ Needed \subseteq Elements(t)
    BY <2>2, <2>3, Concat, PlainConcat
  <2> HIDE DEF t
  <2>7. mode # "file" /\ encPos' \in Nat \ {0}
    BY <1>1, <1>4
  <2>8. flushed' = TRUE
    BY <1>1, <1>4, Zenon
  <2>9. QED
    BY <1>1, <2>5, <2>6, <2>7, <2>8, PlainStep
<1>5. CASE mode = "stream" /\ flushed
  <2>1. out' = out
    BY <1>5 DEF TakeHeader
  <2>2. flushed' = flushed
    BY <1>1, <1>5, Zenon
  <2>3. UNCHANGED <<encInput, encMarks, chunkIdx, encChunkMetas, out>> /\ UNCHANGED pending
    BY <1>1, <2>1, <2>2 DEF encMarks
  <2>4. encPos' \in Nat \ {0}
    BY <1>1
  <2>5. QED
    BY <1>1, <1>5, <2>3, <2>4, SilentStep
<1>6. QED
  BY <1>2, <1>3, <1>4, <1>5 DEF EncInv

\* An attachment or a metadata record.
LEMMA SealStep ==
  ASSUME EncInv, TakeAttachment \/ TakeMetadata
  PROVE  EncInv'
<1>1. CASE TakeAttachment
  <2>1. EncAttachment(source[encPos].body, SymKey).op # "encChunk"
    BY DEF EncAttachment
  <2>2. QED
    BY <1>1, <2>1, FlushStep DEF TakeAttachment
<1>2. CASE TakeMetadata
  <2> DEFINE e == IF metadataMode = "plaintext" THEN source[encPos]
                  ELSE EncMetadata(source[encPos].body, SymKey)
  <2>1. e.op # "encChunk"
    BY <1>2 DEF TakeMetadata, At, EncMetadata
  <2>2. At({"metadata"}) /\ FlushAndWrite(<<e>>) /\ Advance
        /\ UNCHANGED <<encInput, pending, chunkIdx, encChunkMetas, encState>>
    BY <1>2 DEF TakeMetadata
  <2> HIDE DEF e
  <2>3. QED
    BY <2>1, <2>2, FlushStep
<1>3. QED
  BY <1>1, <1>2

\* A chunk, which is noted.
LEMMA ChunkStep ==
  ASSUME EncInv, TakeChunk
  PROVE  EncInv'
<1> DEFINE e == EncChunk(source[encPos].body, SymKey, chunkIdx)
<1>1. e.op = "encChunk" /\ Opens(e, SymKey, chunkIdx)
  BY DEF EncChunk, Opens
<1>2. /\ At({"chunk"}) /\ FlushAndWrite(<<e>>) /\ Advance
      /\ UNCHANGED <<encInput, pending, encState>>
      /\ chunkIdx' = chunkIdx + 1
      /\ encChunkMetas' = Append(encChunkMetas, Len(FlushedOut) + 1)
  BY DEF TakeChunk
<1> HIDE DEF e
<1>3. QED
  BY <1>1, <1>2, FlushStep

\* The patch, then DataEnd; or both behind the data.
LEMMA DataEndStep ==
  ASSUME EncInv, TakeDataEnd
  PROVE  EncInv'
<1> DEFINE f == FlushedOut
           at == FlushedAt
           e == Manifest(SymKey, chunkIdx)
           g == [f EXCEPT ![at] = e]
<1>1. /\ Written(f, encChunkMetas) /\ Needed \subseteq Elements(f)
      /\ mode = "file" => at \in DOMAIN f /\ f[at].op = "manifest"
      /\ mode = "stream" => flushed
  BY FlushedIsWritten DEF TakeDataEnd
<1>2. /\ encState = "reading" /\ encState' = "reading" /\ mode \in {"file", "stream"}
      /\ encPos \in Nat /\ encPos' = encPos + 1 /\ flushed \in BOOLEAN
      /\ UNCHANGED <<encInput, pending, chunkIdx, encChunkMetas>>
  BY DEF TakeDataEnd, At, Advance, EncInv
<1>3. Needed' = Needed
  BY <1>2, NeedStays
<1>4. e.op = "manifest" /\ DataEnd.op = "dataEnd"
  BY DEF Manifest, DataEnd
<1>5. CASE mode = "file"
  <2>1. out' = Append(g, DataEnd) /\ flushed' = TRUE /\ manifestAt' = at
    BY <1>5 DEF TakeDataEnd
  <2>2. \A n \in Needed : n.op # "manifest"
    BY DEF Needed, Slot, Def
  <2> HIDE DEF f, at, e
  <2>3. /\ IsSeq(g) /\ at \in DOMAIN g /\ g[at].op = "manifest"
        /\ Needed \subseteq Elements(g)
        /\ Led(g, Needed) /\ Noted(g, encChunkMetas)
    BY <1>1, <1>4, <1>5, <2>2, Patched DEF Written
  <2> HIDE DEF g
  <2>4. Written(g, encChunkMetas)
    BY <2>3 DEF Written
  <2>5. out' = g \o <<DataEnd>>
    BY <2>1, <2>3, AppendOne
  <2>6. IsSeq(<<DataEnd>>) /\ Plain(<<DataEnd>>)
    BY <1>4, Single DEF Plain, Encrypted
  <2>7. /\ Written(g \o <<DataEnd>>, encChunkMetas)
        /\ Needed \subseteq Elements(g \o <<DataEnd>>)
        /\ at \in DOMAIN (g \o <<DataEnd>>)
        /\ (g \o <<DataEnd>>)[at].op = "manifest"
    BY <2>3, <2>4, <2>6, WritePlain
  <2>8. Written(out, encChunkMetas)'
    BY <1>2, <1>3, <2>5, <2>7 DEF Written, Noted
  <2>9. QED
    BY <1>2, <1>3, <1>5, <2>1, <2>5, <2>7, <2>8 DEF EncInv, encInput
<1>6. CASE mode = "stream"
  <2> DEFINE t == <<DataEnd, e>>
  <2>1. IsSeq(t) /\ Plain(t)
    BY <1>4, Pair DEF Plain, Encrypted
  <2>2. out' = out \o t /\ UNCHANGED encMarks
    BY <1>6 DEF TakeDataEnd
  <2> HIDE DEF t
  <2>3. QED
    BY <1>1, <1>2, <1>6, <2>1, <2>2, PlainStep DEF encMarks
<1>7. QED
  BY <1>2, <1>5, <1>6

\* Summary, footer and magic are no more than what is there already.
LEMMA EndStep ==
  ASSUME EncInv, TakeFooter \/ EndOfInput
  PROVE  EncInv'
<1>1. /\ encState = "reading" /\ encState' = "done" /\ encPos' \in Nat \ {0}
      /\ UNCHANGED <<encInput, pending, manifestAt, chunkIdx, encChunkMetas>>
      /\ flushed \in BOOLEAN /\ flushed' = flushed
  BY DEF TakeFooter, EndOfInput, At, EncInv, encMarks
<1>2. IsSeq(out)
  BY DEF EncInv, Written
<1>3. CASE TakeFooter
  <2> DEFINE d == Records(pending, Def)
             n == <<Statistics(Len(encChunkMetas))>>
             i == Records(encChunkMetas, ChunkIndex)
             a == (d \o n) \o i
             z == <<Footer, Magic>>
             t == a \o z
  <2>1. IsSeq(d) /\ Plain(d)
    BY <1>1, InputIsSeq, MadeDefs DEF EncInv
  <2>2. IsSeq(n) /\ Plain(n)
    BY Single DEF Plain, Statistics, Encrypted
  <2>3. IsSeq(i) /\ Plain(i)
    BY MadeIndex DEF EncInv
  <2>4. IsSeq(z) /\ Plain(z)
    BY Pair DEF Plain, Footer, Magic, Encrypted
  <2>5. out' = (out \o a) \o z
    BY <1>3 DEF TakeFooter, Summary
  <2> HIDE DEF d, n, i, z
  <2>6. IsSeq(d \o n) /\ Plain(d \o n)
    BY <2>1, <2>2, Concat, PlainConcat
  <2>7. IsSeq(a) /\ Plain(a)
    BY <2>3, <2>6, Concat, PlainConcat
  <2> HIDE DEF a
  <2>8. IsSeq(t) /\ Plain(t)
    BY <2>4, <2>7, Concat, PlainConcat
  <2>9. out' = out \o t
    <3>1. (out \o a) \o z = out \o (a \o z)
      BY ONLY <1>2, <2>4, <2>7, Grouped
    <3>2. QED
      BY <2>5, <3>1
  <2> HIDE DEF t
  <2>10. QED
    BY <1>1, <2>8, <2>9, PlainStep
<1>4. CASE EndOfInput
  <2>1. IsSeq(<<Magic>>) /\ Plain(<<Magic>>)
    BY Single DEF Plain, Magic, Encrypted
  <2>2. out' = out \o <<Magic>>
    BY <1>2, <1>4, AppendOne DEF EndOfInput
  <2>3. QED
    BY <1>1, <2>1, <2>2, PlainStep
<1>5. QED
  BY <1>3, <1>4

\* What passes over a record, or gives up.
LEMMA PassStep ==
  ASSUME EncInv, Skip \/ TakeFrameworkAttachment \/ TakeUnusable
  PROVE  EncInv'
<1>1. encState = "reading" /\ UNCHANGED <<encInput, pending, encMarks, chunkIdx, encChunkMetas, out>>
  BY DEF Skip, TakeFrameworkAttachment, TakeUnusable, At
<1>2. encPos \in Nat \ {0} /\ encPos' \in Nat \ {0}
  BY DEF Skip, TakeFrameworkAttachment, TakeUnusable, Advance, EncInv
<1>3. CASE TakeUnusable
  BY <1>1, <1>2, <1>3, SilentStep DEF TakeUnusable, Fail
<1>4. CASE Skip
  <2>1. mode = "stream" => flushed
    BY <1>4, FlushedIsWritten DEF Skip, Indexes, Encrypted
  <2>2. QED
    BY <1>1, <1>2, <1>4, <2>1, SilentStep DEF Skip
<1>5. CASE TakeFrameworkAttachment
  <2>1. mode = "stream" => flushed
    BY <1>5, FlushedIsWritten DEF TakeFrameworkAttachment
  <2>2. encState' \in {"reading", "failed"}
    BY <1>1, <1>5 DEF TakeFrameworkAttachment, Fail
  <2>3. QED
    BY <1>1, <1>2, <2>1, <2>2, SilentStep
<1>6. QED
  BY <1>3, <1>4, <1>5

\* What precedes pass 2, and its first bytes.
LEMMA BeginStep ==
  ASSUME EncInv, Check \/ Collect \/ OpenPass2
  PROVE  EncInv'
<1>1. encPos \in Nat \ {0}
  BY DEF EncInv
<1>2. CASE Check
  BY <1>1, <1>2, SilentStep DEF Check, Fail, encMarks
<1>3. CASE Collect
  BY <1>1, <1>3, SilentStep DEF Collect, encMarks
<1>4. CASE OpenPass2
  <2>1. /\ encState = "collected" /\ encState' = "reading"
        /\ out = <<>> /\ encChunkMetas = <<>> /\ chunkIdx = 0 /\ ~ flushed /\ encPos = 1
        /\ pending = Definitions(source)
        /\ UNCHANGED <<encInput, encPos, pending, flushed, chunkIdx, encChunkMetas>>
        /\ out' = <<Magic>> \/ out' = <<>>
    BY <1>4 DEF OpenPass2, EncInv, encMarks
  <2>2. Needed' = Needed
    BY <2>1 DEF Needed, encInput
  <2>3. IsSeq(<<>>) /\ Plain(<<>>)
    BY DEF IsSeq, Plain
  <2>4. IsSeq(<<Magic>>) /\ Plain(<<Magic>>)
    BY Single DEF Plain, Magic, Encrypted
  <2>5. IsSeq(out') /\ Plain(out')
    BY <2>1, <2>3, <2>4
  <2>6. Led(out', Needed) /\ Noted(out', <<>>)
    BY <2>5 DEF Led, Noted, Plain, Encrypted
  <2>7. Written(out, encChunkMetas)'
    BY <2>1, <2>2, <2>5, <2>6 DEF Written, Noted
  <2>8. QED
    BY <2>1, <2>5, <2>7 DEF EncInv, encInput
<1>5. QED
  BY <1>2, <1>3, <1>4

\* The invariant holds at first.
LEMMA BeginsWell == EncInit => EncInv
<1> SUFFICES ASSUME EncInit PROVE EncInv
  OBVIOUS
<1>1. out = <<>> /\ encChunkMetas = <<>> /\ chunkIdx = 0 /\ encPos = 1
      /\ encState = "start" /\ source \in Sources /\ recipients \in RecipientLists
      /\ mode \in {"file", "stream"}
  BY ModesAssumption DEF EncInit
<1>2. IsSeq(out) /\ Led(out, Needed) /\ Noted(out, encChunkMetas) /\ Plain(out)
  BY <1>1 DEF IsSeq, Led, Noted, Plain
<1>3. encChunkMetas \in Seq(Nat) /\ Len(encChunkMetas) = chunkIdx
  BY <1>1
<1>4. Written(out, encChunkMetas)
  BY <1>2 DEF Written
<1>5. ~ flushed /\ flushed \in BOOLEAN
  BY Zenon DEF EncInit
<1>6. QED
  BY <1>1, <1>2, <1>3, <1>4, <1>5 DEF EncInv

\* Every step keeps it.
LEMMA StepsWell == EncInv /\ [EncNext]_encVars => EncInv'
<1> SUFFICES ASSUME EncInv, [EncNext]_encVars PROVE EncInv'
  OBVIOUS
<1>1. CASE UNCHANGED encVars
  <2>1. Needed' = Needed
    BY <1>1 DEF Needed, encVars
  <2>2. QED
    BY <1>1, <2>1 DEF EncInv, Written, Noted, encVars
<1>2. CASE Check \/ Collect \/ OpenPass2
  BY <1>2, BeginStep
<1>3. CASE TakeHeader
  BY <1>3, HeaderStep
<1>4. CASE Skip \/ TakeFrameworkAttachment \/ TakeUnusable
  BY <1>4, PassStep
<1>5. CASE TakeAttachment \/ TakeMetadata
  BY <1>5, SealStep
<1>6. CASE TakeChunk
  BY <1>6, ChunkStep
<1>7. CASE TakeDataEnd
  BY <1>7, DataEndStep
<1>8. CASE TakeFooter \/ EndOfInput
  BY <1>8, EndStep
<1>9. QED
  BY <1>1, <1>2, <1>3, <1>4, <1>5, <1>6, <1>7, <1>8 DEF EncNext

\* Whatever comes first in the input, in either shape of the encryptor and
\* however little has been written, every slot and every definition is ahead
\* of everything encrypted (encrypt.go:399-402, 753-756).
THEOREM KeysAreFirst == EncSpec => []KeysComeFirst
<1>1. EncInv => KeysComeFirst
  BY DEF EncInv, Written, Led, Before, Needed, KeysComeFirst
<1>2. QED
  BY <1>1, BeginsWell, StepsWell, PTL DEF EncSpec

\* The positions that make the ChunkIndex are those of the encrypted chunks,
\* each sealed under its index, at every moment and for every source
\* (encrypt.go:544-552).
THEOREM IndexStaysRight == EncSpec => []IndexPointsAtChunks
<1>1. EncInv => IndexPointsAtChunks
  BY DEF EncInv, Written, Noted, IndexPointsAtChunks
<1>2. QED
  BY <1>1, BeginsWell, StepsWell, PTL DEF EncSpec

-----------------------------------------------------------------------------
(* What has been carried over.                                             *)

Carriers == {"chunk", "attachment", "metadata"}

MetadataOp == IF metadataMode = "plaintext" THEN "metadata" ELSE "encMetadata"

\* The kinds of records that are not to be in the output.
Bared == {"chunk", "attachment"}
           \cup (IF metadataMode = "plaintext" THEN {"encMetadata"} ELSE {"metadata"})

\* The chunks, attachments and metadata records of p are those of s, sealed.
Carried(s, p) ==
  /\ Bodies(s, "encChunk") = Bodies(p, "chunk")
  /\ Bodies(s, "encAttachment") = Bodies(p, "attachment")
  /\ Bodies(s, MetadataOp) = Bodies(p, "metadata")
  /\ OfKind(s, Bared) = <<>>

\* Records that carry nothing.
Bare(s) == \A e \in Elements(s) : e.op \notin Carriers \cup Encrypted

\* What pass 2 has read.
Seen == SubSeq(source, 1, encPos - 1)

SealInv ==
  /\ encPos \in 1..(Len(source) + 1)
  /\ Carried(out, Seen)
  /\ encState = "done" => \A op \in Carriers : Bodies(source, op) = Bodies(Seen, op)

\* What is carried over of two files.
LEMMA CarriedConcat ==
  ASSUME NEW s, NEW t, NEW p, NEW q, IsSeq(s), IsSeq(t), IsSeq(p), IsSeq(q),
         Carried(s, p), Carried(t, q)
  PROVE  Carried(s \o t, p \o q)
<1>1. \A op : /\ Bodies(s \o t, op) = Bodies(s, op) \o Bodies(t, op)
              /\ Bodies(p \o q, op) = Bodies(p, op) \o Bodies(q, op)
  BY BodiesConcat
<1>2. OfKind(s \o t, Bared) = <<>> \o <<>>
  BY OfKindConcat DEF Carried
<1>3. <<>> \o <<>> = <<>>
  OBVIOUS
<1>4. QED
  BY <1>1, <1>2, <1>3 DEF Carried

\* Records that carry nothing stand for records that need not be carried.
LEMMA CarriedNothing ==
  ASSUME NEW t, IsSeq(t), Bare(t), NEW q, IsSeq(q), \A i \in DOMAIN q : q[i].op \notin Carriers
  PROVE  Carried(t, q)
<1>1. \A i \in DOMAIN t : t[i].op \notin Carriers \cup Encrypted
  BY DEF Bare, Elements
<1>2. \A op \in Carriers \cup Encrypted : Bodies(t, op) = <<>>
  BY <1>1, BodiesNone
<1>3. \A op \in Carriers : Bodies(q, op) = <<>>
  BY BodiesNone
<1>4. Bared \subseteq Carriers \cup Encrypted /\ MetadataOp \in Carriers \cup Encrypted
  BY DEF Bared, Carriers, MetadataOp, Encrypted
<1>5. OfKind(t, Bared) = <<>>
  BY <1>1, <1>4, OfKindNone
<1>6. QED
  BY <1>2, <1>3, <1>4, <1>5 DEF Carried, Carriers, Encrypted

\* The record that is written for a chunk, an attachment or a metadata record.
LEMMA CarriedOne ==
  ASSUME NEW e, NEW r, e.body = r.body,
         \/ r.op = "chunk" /\ e.op = "encChunk"
         \/ r.op = "attachment" /\ e.op = "encAttachment"
         \/ r.op = "metadata" /\ e.op = MetadataOp
  PROVE  Carried(<<e>>, <<r>>)
<1>1. \A op : /\ Bodies(<<e>>, op) = IF e.op = op THEN <<e.body>> ELSE <<>>
              /\ Bodies(<<r>>, op) = IF r.op = op THEN <<r.body>> ELSE <<>>
  BY BodiesSingle
<1>2. OfKind(<<e>>, Bared) = IF e.op \in Bared THEN <<e>> ELSE <<>>
  BY OfKindSingle
<1>3. e.op \notin Bared
  BY DEF Bared, MetadataOp
<1>4. QED
  BY <1>1, <1>2, <1>3 DEF Carried, MetadataOp

\* Joining records that carry nothing.
LEMMA BareConcat ==
  ASSUME NEW s, NEW t, IsSeq(s), IsSeq(t), Bare(s), Bare(t)
  PROVE  Bare(s \o t)
BY Concat DEF Bare

\* Definitions, slots and the placeholder carry nothing.
LEMMA PreambleIsBare ==
  ASSUME IsSeq(recipients), IsSeq(pending), pending = Definitions(source)
  PROVE  IsSeq(Opening) /\ Bare(Opening) /\ IsSeq(Preamble) /\ Bare(Preamble)
<1> DEFINE o == Opening
           t == <<Placeholder>>
<1>1. IsSeq(o) /\ Elements(o) = Needed
  BY MadeOpening
<1>2. Bare(o)
  BY <1>1 DEF Bare, Needed, Slot, Def, Carriers, Encrypted
<1>3. IsSeq(t) /\ Bare(t)
  BY Single DEF Bare, Placeholder, Manifest, Carriers, Encrypted
<1>4. Preamble = o \o t
  BY DEF Preamble
<1> HIDE DEF o, t
<1>5. IsSeq(o \o t) /\ Bare(o \o t)
  BY <1>1, <1>2, <1>3, Concat, BareConcat
<1>6. QED
  BY <1>1, <1>2, <1>4, <1>5 DEF o

\* Neither does the summary.
LEMMA SummaryIsBare ==
  ASSUME NEW ds, IsSeq(ds), NEW ps \in Seq(Nat)
  PROVE  IsSeq(Summary(ds, ps)) /\ Bare(Summary(ds, ps))
<1> DEFINE d == Records(ds, Def)
           n == <<Statistics(Len(ps))>>
           i == Records(ps, ChunkIndex)
<1>1. IsSeq(d) /\ Bare(d)
  <2>1. IsSeq(d) /\ Elements(d) = {Def(x) : x \in Elements(ds)}
    BY MadeDefs
  <2> HIDE DEF d
  <2>2. QED
    BY <2>1 DEF Bare, Def, Carriers, Encrypted
<1>2. IsSeq(n) /\ Bare(n)
  BY Single DEF Bare, Statistics, Carriers, Encrypted
<1>3. IsSeq(i)
  BY MadeIndex
<1>4. Bare(i)
  <2>1. \A k \in DOMAIN i : i[k] = ChunkIndex(ps[k])
    BY DEF Records
  <2> HIDE DEF i
  <2>2. QED
    BY <2>1 DEF Bare, Elements, ChunkIndex, Carriers, Encrypted
<1>5. Summary(ds, ps) = (d \o n) \o i
  BY DEF Summary
<1> HIDE DEF d, n, i
<1>6. IsSeq(d \o n) /\ Bare(d \o n)
  BY <1>1, <1>2, Concat, BareConcat
<1>7. QED
  BY <1>3, <1>4, <1>5, <1>6, Concat, BareConcat

\* A manifest may take the place of a manifest.
LEMMA CarriedPatched ==
  ASSUME NEW s, IsSeq(s), NEW p, Carried(s, p), NEW at \in DOMAIN s, s[at].op = "manifest",
         NEW e, e.op = "manifest"
  PROVE  IsSeq([s EXCEPT ![at] = e]) /\ Carried([s EXCEPT ![at] = e], p)
<1> DEFINE t == [s EXCEPT ![at] = e]
           K == Carriers \cup Encrypted
<1>1. /\ DOMAIN t = DOMAIN s /\ t[at] = e /\ t = [i \in DOMAIN s |-> t[i]]
      /\ \A i \in DOMAIN s : i # at => t[i] = s[i]
  BY AsFunction
<1> HIDE DEF t
<1>2. IsSeq(t)
  <2>1. DOMAIN s = 1..Len(s) /\ Len(s) \in Nat
    BY AsFunction
  <2>2. t \in [1..Len(s) -> Elements(t)]
    BY <1>1, <2>1 DEF Elements
  <2>3. QED
    BY <2>1, <2>2, OfFunction
<1>3. "manifest" \notin K
  BY DEF Carriers, Encrypted
<1>4. ASSUME NEW L \in SUBSET K PROVE OfKind(t, L) = OfKind(s, L)
  <2> DEFINE as == KindAt(s, L)
             q == Sorted(as)
  <2>1. KindAt(t, L) = as
    BY <1>1, <1>3 DEF KindAt
  <2>2. as \in SUBSET DOMAIN s /\ at \notin as
    BY <1>3 DEF KindAt
  <2> HIDE DEF as
  <2>3. q \in [1..Cardinality(as) -> as]
    BY <2>2, SelectedBy DEF Enumerates
  <2> HIDE DEF q
  <2>4. \A k \in DOMAIN q : t[q[k]] = s[q[k]]
    BY <1>1, <2>2, <2>3
  <2>5. Selected(t, as) = Selected(s, as)
    BY <2>4 DEF Selected, q
  <2>6. QED
    BY <2>1, <2>5, OfKindForm DEF as
<1>5. \A op \in K : Bodies(t, op) = Bodies(s, op)
  <2> TAKE op \in K
  <2>1. OfKind(t, {op}) = OfKind(s, {op})
    BY <1>4
  <2>2. QED
    BY <2>1 DEF Bodies
<1>6. Bared \in SUBSET K /\ MetadataOp \in K /\ "encChunk" \in K /\ "encAttachment" \in K
  BY DEF Bared, MetadataOp, Carriers, Encrypted
<1>7. Carried(t, p)
  BY <1>4, <1>5, <1>6 DEF Carried
<1>8. QED
  BY <1>2, <1>7 DEF t

-----------------------------------------------------------------------------
(* The steps.                                                              *)

\* What is written for the next record of the source, behind s.
LEMMA CarriesFrom ==
  ASSUME IsSeq(source), SealInv, encPos <= Len(source), NEW s, IsSeq(s), Carried(s, Seen),
         NEW t, IsSeq(t), Carried(t, <<source[encPos]>>),
         out' = s \o t, encPos' = encPos + 1, encState' # "done",
         UNCHANGED <<source, metadataMode>>
  PROVE  SealInv'
<1> DEFINE p == Seen
           q == <<source[encPos]>>
           m == encPos - 1
<1>1. Len(source) \in Nat /\ encPos \in 1..(Len(source) + 1) /\ Carried(s, p)
  BY AsFunction DEF SealInv
<1>2. m \in 0..Len(source) /\ m < Len(source) /\ m + 1 = encPos
  BY <1>1
<1>3. IsSeq(p) /\ SubSeq(source, 1, m + 1) = SubSeq(source, 1, m) \o <<source[m + 1]>>
  BY <1>2, FrontOf, FrontGrows DEF Seen
<1>4. p = SubSeq(source, 1, m)
  BY DEF Seen
<1>5. SubSeq(source, 1, encPos) = p \o q
  BY <1>2, <1>3, <1>4
<1>6. Seen' = p \o q
  <2>1. encPos' - 1 = encPos
    BY <1>1
  <2>2. QED
    BY <1>5, <2>1 DEF Seen
<1>7. IsSeq(q)
  BY Single
<1> HIDE DEF p, q, m
<1>8. Carried(s \o t, p \o q)
  BY <1>1, <1>3, <1>7, CarriedConcat DEF q
<1>9. Carried(out, Seen)'
  BY <1>6, <1>8 DEF Carried, Bared, MetadataOp
<1>10. encPos' \in 1..(Len(source) + 1)
  BY <1>1
<1>11. QED
  BY <1>9, <1>10 DEF SealInv

\* What is added to the output for it.
LEMMA CarriesOn ==
  ASSUME IsSeq(source), SealInv, IsSeq(out), encPos <= Len(source),
         NEW t, IsSeq(t), Carried(t, <<source[encPos]>>),
         out' = out \o t, encPos' = encPos + 1, encState' # "done",
         UNCHANGED <<source, metadataMode>>
  PROVE  SealInv'
<1>1. Carried(out, Seen)
  BY DEF SealInv
<1>2. QED
  BY <1>1, CarriesFrom

\* A record for which nothing is written, or only records that carry nothing.
LEMMA CarriesNothing ==
  ASSUME IsSeq(source), SealInv, IsSeq(out), encPos <= Len(source),
         source[encPos].op \notin Carriers, NEW t, IsSeq(t), Bare(t),
         out' = out \o t, encPos' = encPos + 1, encState' # "done",
         UNCHANGED <<source, metadataMode>>
  PROVE  SealInv'
<1> DEFINE q == <<source[encPos]>>
<1>1. IsSeq(q) /\ \A i \in DOMAIN q : q[i].op \notin Carriers
  BY Single
<1> HIDE DEF q
<1>2. Carried(t, q)
  BY <1>1, CarriedNothing
<1>3. QED
  BY <1>2, CarriesOn DEF q

\* No record is a sequence of records that carry nothing.
LEMMA NoneIsBare == IsSeq(<<>>) /\ Bare(<<>>)
<1>1. <<>> \in Seq(Elements(<<>>)) /\ DOMAIN <<>> = {}
  OBVIOUS
<1>2. QED
  BY <1>1 DEF IsSeq, Bare, Elements

\* What is in front of the next record, once the output has been flushed.
LEMMA Flushes ==
  ASSUME EncInv, encState = "reading"
  PROVE  \E t : IsSeq(t) /\ Bare(t) /\ FlushedOut = out \o t
<1>1. CASE MustFlush
  <2>1. IsSeq(recipients) /\ IsSeq(pending) /\ pending = Definitions(source)
    BY InputIsSeq DEF EncInv
  <2>2. IsSeq(Preamble) /\ Bare(Preamble) /\ FlushedOut = out \o Preamble
    BY <1>1, <2>1, PreambleIsBare DEF FlushedOut
  <2>3. QED
    BY <2>2
<1>2. CASE ~ MustFlush
  <2>1. FlushedOut = out /\ IsSeq(out)
    BY <1>2 DEF FlushedOut, EncInv, Written
  <2>2. out \o <<>> = out
    <3> DEFINE S == Elements(out)
    <3>1. out \in Seq(S)
      BY <2>1 DEF IsSeq
    <3> HIDE DEF S
    <3>2. QED
      BY <3>1
  <2>3. QED
    BY <2>1, <2>2, NoneIsBare
<1>3. QED
  BY <1>1, <1>2

\* A record that is written behind what is flushed.
LEMMA FlushCarries ==
  ASSUME EncInv, SealInv, encState = "reading", encPos <= Len(source),
         NEW e, Carried(<<e>>, <<source[encPos]>>), FlushAndWrite(<<e>>), Advance,
         encState' # "done", UNCHANGED encInput
  PROVE  SealInv'
<1> DEFINE u == <<e>>
           q == <<source[encPos]>>
<1>1. PICK t : IsSeq(t) /\ Bare(t) /\ FlushedOut = out \o t
  BY Flushes
<1>2. IsSeq(u) /\ IsSeq(q) /\ IsSeq(out) /\ IsSeq(source)
  BY Single, InputIsSeq DEF EncInv, Written
<1>3. out' = (out \o t) \o u /\ encPos' = encPos + 1 /\ UNCHANGED <<source, metadataMode>>
  BY <1>1 DEF FlushAndWrite, Advance, encInput
<1>4. Carried(u, q)
  OBVIOUS
<1> HIDE DEF u, q
<1>5. out' = out \o (t \o u)
  <2>1. IsSeq(out) /\ IsSeq(t) /\ IsSeq(u)
    BY <1>1, <1>2
  <2>2. (out \o t) \o u = out \o (t \o u)
    BY <2>1, Grouped, SMTT(20)
  <2>3. QED
    BY <1>3, <2>2
<1>6. Carried(t, <<>>)
  BY <1>1, NoneIsBare, CarriedNothing
<1>7. <<>> \o q = q
  <2> DEFINE S == Elements(q)
  <2>1. q \in Seq(S)
    BY <1>2 DEF IsSeq
  <2> HIDE DEF S
  <2>2. QED
    BY <2>1
<1>8. Carried(t \o u, <<>> \o q)
  BY <1>1, <1>2, <1>4, <1>6, NoneIsBare, CarriedConcat
<1>9. IsSeq(t \o u) /\ Carried(t \o u, q)
  BY <1>1, <1>2, <1>7, <1>8, Concat
<1>10. QED
  BY <1>2, <1>3, <1>5, <1>9, CarriesOn DEF q

\* A step that writes nothing for the next record.
LEMMA SilentCarries ==
  ASSUME EncInv, SealInv, encPos <= Len(source), source[encPos].op \notin Carriers,
         UNCHANGED <<encInput, out>>, Advance, encState' # "done"
  PROVE  SealInv'
<1>1. IsSeq(out) /\ IsSeq(source)
  BY InputIsSeq DEF EncInv, Written
<1> DEFINE S == Elements(out)
<1>2. out \in Seq(S)
  BY <1>1 DEF IsSeq
<1> HIDE DEF S
<1>3. out' = out \o <<>>
  BY <1>2
<1>4. encPos' = encPos + 1 /\ UNCHANGED <<source, metadataMode>>
  BY DEF Advance, encInput
<1>5. QED
  BY <1>1, <1>3, <1>4, NoneIsBare, CarriesNothing

\* A step that neither writes nor advances.
LEMMA IdleCarries ==
  ASSUME SealInv, UNCHANGED <<encInput, out, encPos>>,
         encState' # "done" \/ encState' = encState
  PROVE  SealInv'
BY DEF SealInv, Carried, Seen, Bared, MetadataOp, encInput

\* The first step that writes: the magic carries nothing.
LEMMA OpenPass2Carries ==
  ASSUME EncInv, SealInv, OpenPass2
  PROVE  SealInv'
<1>1. /\ out = <<>> /\ encState' = "reading" /\ UNCHANGED <<source, metadataMode, encPos>>
      /\ out' = IF mode = "file" THEN <<Magic>> ELSE <<>>
  BY DEF OpenPass2, EncInv, encInput
<1>2. IsSeq(out') /\ Bare(out')
  <2>1. IsSeq(<<Magic>>) /\ Bare(<<Magic>>)
    BY Single DEF Bare, Magic, Carriers, Encrypted
  <2>2. QED
    BY <1>1, <2>1, NoneIsBare
<1>3. encPos = 1
  BY DEF EncInv, OpenPass2
<1>4. IsSeq(source)
  BY InputIsSeq
<1>5. IsSeq(Seen) /\ DOMAIN Seen = {}
  <2>1. encPos - 1 = 0 /\ 0 \in 0..Len(source)
    BY <1>3, <1>4, AsFunction
  <2>2. IsSeq(SubSeq(source, 1, 0)) /\ DOMAIN SubSeq(source, 1, 0) = 1..0
    BY <1>4, <2>1, FrontOf
  <2>3. QED
    BY <2>1, <2>2 DEF Seen
<1>6. Carried(out', Seen)
  <2> DEFINE t == out'
             p == Seen
  <2>1. IsSeq(t) /\ Bare(t) /\ IsSeq(p) /\ DOMAIN p = {}
    BY <1>2, <1>5
  <2> HIDE DEF t, p
  <2>2. Carried(t, p)
    BY <2>1, CarriedNothing
  <2>3. QED
    BY <2>2 DEF t, p
<1>7. QED
  BY <1>1, <1>6 DEF SealInv, Carried, Seen, Bared, MetadataOp

\* The header, with all that a stream puts behind it.
LEMMA HeaderCarries ==
  ASSUME EncInv, SealInv, TakeHeader
  PROVE  SealInv'
<1>1. /\ encState = "reading" /\ encState' = "reading" /\ encPos <= Len(source)
      /\ source[encPos].op \notin Carriers /\ encPos' = encPos + 1 /\ UNCHANGED encInput
  BY DEF TakeHeader, At, Advance, Carriers
<1>2. IsSeq(out) /\ IsSeq(source) /\ mode \in {"file", "stream"}
  BY InputIsSeq DEF EncInv, Written
<1>3. CASE mode = "file"
  <2>1. out' = out \o <<Header>>
    BY <1>2, <1>3, AppendOne DEF TakeHeader
  <2>2. IsSeq(<<Header>>) /\ Bare(<<Header>>)
    BY Single DEF Bare, Header, Carriers, Encrypted
  <2>3. QED
    BY <1>1, <1>2, <2>1, <2>2, CarriesNothing DEF encInput
<1>4. CASE mode = "stream" /\ ~ flushed
  <2> DEFINE a == <<Magic, Header>>
             o == Opening
             t == a \o o
  <2>1. IsSeq(recipients) /\ IsSeq(pending) /\ pending = Definitions(source)
    BY <1>1, InputIsSeq DEF EncInv
  <2>2. IsSeq(a) /\ Bare(a)
    <3>1. IsSeq(a) /\ DOMAIN a = {1, 2} /\ a[1] = Magic /\ a[2] = Header
      BY Pair
    <3> HIDE DEF a
    <3>2. \A i \in DOMAIN a : a[i] \in {Magic, Header}
      BY <3>1
    <3>3. QED
      BY <3>1, <3>2 DEF Bare, Elements, Magic, Header, Carriers, Encrypted
  <2>3. IsSeq(o) /\ Bare(o)
    BY <2>1, PreambleIsBare
  <2>4. out' = (out \o a) \o o
    BY <1>4 DEF TakeHeader
  <2> HIDE DEF a, o
  <2>5. out' = out \o t
    BY <1>2, <2>2, <2>3, <2>4, Grouped
  <2>6. IsSeq(t) /\ Bare(t)
    BY <2>2, <2>3, Concat, BareConcat
  <2> HIDE DEF t
  <2>7. QED
    BY <1>1, <1>2, <2>5, <2>6, CarriesNothing DEF encInput
<1>5. CASE mode = "stream" /\ flushed
  <2>1. UNCHANGED <<encInput, out>> /\ Advance
    BY <1>1, <1>5 DEF TakeHeader
  <2>2. QED
    BY <1>1, <2>1, SilentCarries
<1>6. QED
  BY <1>2, <1>3, <1>4, <1>5 DEF EncInv

\* A record of the data section is sealed, behind what is flushed.
LEMMA DataCarries ==
  ASSUME EncInv, SealInv, TakeChunk \/ TakeAttachment \/ TakeMetadata
  PROVE  SealInv'
<1> DEFINE r == source[encPos]
<1>1. /\ encState = "reading" /\ encState' # "done" /\ encPos <= Len(source)
      /\ UNCHANGED encInput /\ Advance
  BY DEF TakeChunk, TakeAttachment, TakeMetadata, At
<1>2. CASE TakeChunk
  <2> DEFINE e == EncChunk(r.body, SymKey, chunkIdx)
  <2>1. r.op = "chunk" /\ FlushAndWrite(<<e>>) /\ e.op = "encChunk" /\ e.body = r.body
    BY <1>2 DEF TakeChunk, At, EncChunk
  <2> HIDE DEF e, r
  <2>2. Carried(<<e>>, <<r>>)
    BY <2>1, CarriedOne
  <2>3. QED
    BY <1>1, <2>1, <2>2, FlushCarries DEF r
<1>3. CASE TakeAttachment
  <2> DEFINE e == EncAttachment(r.body, SymKey)
  <2>1. /\ r.op = "attachment" /\ FlushAndWrite(<<e>>)
        /\ e.op = "encAttachment" /\ e.body = r.body
    BY <1>3 DEF TakeAttachment, At, EncAttachment
  <2> HIDE DEF e, r
  <2>2. Carried(<<e>>, <<r>>)
    BY <2>1, CarriedOne
  <2>3. QED
    BY <1>1, <2>1, <2>2, FlushCarries DEF r
<1>4. CASE TakeMetadata
  <2> DEFINE e == IF metadataMode = "plaintext" THEN r ELSE EncMetadata(r.body, SymKey)
  <2>1. r.op = "metadata" /\ FlushAndWrite(<<e>>)
    BY <1>4 DEF TakeMetadata, At
  <2>2. e.op = MetadataOp /\ e.body = r.body
    BY <2>1 DEF EncMetadata, MetadataOp
  <2> HIDE DEF e, r
  <2>3. Carried(<<e>>, <<r>>)
    BY <2>1, <2>2, CarriedOne
  <2>4. QED
    BY <1>1, <2>1, <2>3, FlushCarries DEF r
<1>5. QED
  BY <1>2, <1>3, <1>4

\* The manifest is patched, or written behind the data.
LEMMA DataEndCarries ==
  ASSUME EncInv, SealInv, TakeDataEnd
  PROVE  SealInv'
<1> DEFINE e == Manifest(SymKey, chunkIdx)
           at == FlushedAt
           f == FlushedOut
           g == [f EXCEPT ![at] = e]
           d == <<DataEnd>>
           q == <<source[encPos]>>
<1>1. /\ encState = "reading" /\ encState' # "done" /\ encPos <= Len(source)
      /\ source[encPos].op = "dataEnd" /\ encPos' = encPos + 1 /\ UNCHANGED encInput
  BY DEF TakeDataEnd, At, Advance
<1>2. IsSeq(out) /\ IsSeq(source) /\ mode \in {"file", "stream"}
  BY InputIsSeq DEF EncInv, Written
<1>3. e.op = "manifest"
  BY DEF Manifest
<1>4. IsSeq(d) /\ Bare(d)
  BY Single DEF Bare, DataEnd, Carriers, Encrypted
<1>5. source[encPos].op \notin Carriers
  BY <1>1 DEF Carriers
<1>6. CASE mode = "stream"
  <2> DEFINE t == <<DataEnd, e>>
  <2>1. IsSeq(t) /\ DOMAIN t = {1, 2} /\ t[1] = DataEnd /\ t[2] = e
    BY Pair
  <2>2. out' = out \o t
    BY <1>6 DEF TakeDataEnd
  <2> HIDE DEF t, e
  <2>3. \A i \in DOMAIN t : t[i] \in {DataEnd, e}
    BY <2>1
  <2>4. Bare(t)
    BY <1>3, <2>3 DEF Bare, Elements, DataEnd, Carriers, Encrypted
  <2>5. QED
    BY <1>1, <1>2, <1>5, <2>1, <2>2, <2>4, CarriesNothing DEF encInput
<1>7. CASE mode = "file"
  <2>1. out' = Append(g, DataEnd)
    BY <1>7 DEF TakeDataEnd
  <2>2. at \in DOMAIN f /\ f[at].op = "manifest" /\ IsSeq(f)
    BY <1>7, FlushedIsWritten DEF TakeDataEnd, Written
  <2>3. PICK t : IsSeq(t) /\ Bare(t) /\ f = out \o t
    BY <1>1, Flushes
  <2> HIDE DEF f, at, e, d
  <2>4. Carried(f, Seen)
    <3> DEFINE p == Seen
    <3>1. encPos - 1 \in 0..Len(source)
      BY <1>2, AsFunction DEF SealInv
    <3>2. IsSeq(p)
      BY <1>2, <3>1, FrontOf DEF Seen
    <3>3. Carried(out, p)
      BY DEF SealInv
    <3> HIDE DEF p
    <3>4. Carried(t, <<>>)
      BY <2>3, NoneIsBare, CarriedNothing
    <3>5. Carried(out \o t, p \o <<>>)
      BY <1>2, <2>3, <3>2, <3>3, <3>4, NoneIsBare, CarriedConcat
    <3>6. p \o <<>> = p
      <4> DEFINE S == Elements(p)
      <4>1. p \in Seq(S)
        BY <3>2 DEF IsSeq
      <4> HIDE DEF S
      <4>2. QED
        BY <4>1
    <3>7. QED
      BY <2>3, <3>5, <3>6 DEF p
  <2>5. IsSeq(g) /\ Carried(g, Seen)
    BY <1>3, <2>2, <2>4, CarriedPatched
  <2> HIDE DEF g
  <2>6. out' = g \o d
    BY <2>1, <2>5, AppendOne DEF d
  <2>7. Carried(d, q)
    <3>1. IsSeq(q) /\ \A i \in DOMAIN q : q[i].op \notin Carriers
      BY <1>5, Single
    <3> HIDE DEF q
    <3>2. QED
      BY <1>4, <3>1, CarriedNothing DEF d
  <2>8. UNCHANGED <<source, metadataMode>>
    BY <1>1 DEF encInput
  <2>9. IsSeq(d)
    BY <1>4 DEF d
  <2>10. QED
    BY <1>1, <1>2, <2>5, <2>6, <2>7, <2>8, <2>9, CarriesFrom
<1>8. QED
  BY <1>2, <1>6, <1>7

\* What is written at the end, when all data has been read.
LEMMA EndCarries ==
  ASSUME EncInv, SealInv, NEW t, IsSeq(t), Bare(t), out' = out \o t,
         UNCHANGED <<encInput, encPos>>,
         \A i \in DOMAIN source : i >= encPos => source[i].op \notin Carriers
  PROVE  SealInv'
<1> DEFINE m == encPos - 1
           p == Seen
           b == SubSeq(source, m + 1, Len(source))
<1>1. IsSeq(out) /\ IsSeq(source) /\ UNCHANGED <<source, metadataMode, encPos>>
  BY InputIsSeq DEF EncInv, Written, encInput
<1>2. m \in 0..Len(source) /\ Len(source) \in Nat /\ encPos \in Nat
  BY <1>1, AsFunction DEF SealInv
<1>3. IsSeq(p)
  BY <1>1, <1>2, FrontOf DEF Seen
<1>4. /\ IsSeq(b) /\ DOMAIN b = 1..(Len(source) - m)
      /\ \A i \in 1..(Len(source) - m) : b[i] = source[m + i] /\ m + i \in DOMAIN source
  BY <1>1, <1>2, BackOf
<1>5. source = p \o b
  BY <1>1, <1>2, FrontAndBack DEF Seen
<1>6. \A i \in DOMAIN b : b[i].op \notin Carriers
  <2> SUFFICES ASSUME NEW i \in 1..(Len(source) - m) PROVE b[i].op \notin Carriers
    BY <1>4
  <2>1. m + i >= encPos
    BY <1>2
  <2> HIDE DEF m, b
  <2>2. QED
    BY <1>4, <2>1
<1>7. Carried(out, p)
  BY DEF SealInv
<1>8. Seen' = p
  BY <1>1 DEF Seen
<1>9. encPos' \in 1..(Len(source) + 1) /\ source' = source /\ metadataMode' = metadataMode
  BY <1>1 DEF SealInv
<1> HIDE DEF m, b, p
<1>10. ASSUME NEW op \in Carriers PROVE Bodies(source, op) = Bodies(p, op)
  <2>1. Bodies(source, op) = Bodies(p, op) \o Bodies(b, op)
    BY <1>3, <1>4, <1>5, BodiesConcat
  <2>2. Bodies(b, op) = <<>>
    BY <1>4, <1>6, BodiesNone
  <2> DEFINE x == Bodies(p, op)
             S == Elements(x)
  <2>3. x \in Seq(S)
    BY <1>3, BodiesForm DEF IsSeq
  <2> HIDE DEF S, x
  <2>4. x \o <<>> = x
    BY <2>3
  <2>5. QED
    BY <2>1, <2>2, <2>4 DEF x
<1>11. Carried(out \o t, p)
  <2>1. Carried(t, <<>>)
    BY NoneIsBare, CarriedNothing
  <2>2. Carried(out \o t, p \o <<>>)
    BY <1>1, <1>3, <1>7, <2>1, NoneIsBare, CarriedConcat
  <2>3. p \o <<>> = p
    <3> DEFINE S == Elements(p)
    <3>1. p \in Seq(S)
      BY <1>3 DEF IsSeq
    <3> HIDE DEF S
    <3>2. QED
      BY <3>1
  <2>4. QED
    BY <2>2, <2>3
<1>12. Carried(out, Seen)'
  BY <1>8, <1>9, <1>11 DEF Carried, Bared, MetadataOp
<1>13. \A op \in Carriers : Bodies(source, op)' = Bodies(Seen, op)'
  BY <1>8, <1>9, <1>10
<1>14. QED
  BY <1>9, <1>12, <1>13 DEF SealInv

\* The footer: all data is ahead of it.
LEMMA FooterCarries ==
  ASSUME EncInv, SealInv, TakeFooter
  PROVE  SealInv'
<1> DEFINE s == Summary(pending, encChunkMetas)
           t == <<Footer, Magic>>
<1>1. IsSeq(out) /\ IsSeq(source) /\ IsSeq(pending) /\ encChunkMetas \in Seq(Nat)
  BY InputIsSeq DEF EncInv, Written, TakeFooter, At
<1>2. IsSeq(s) /\ Bare(s)
  BY <1>1, SummaryIsBare
<1>3. IsSeq(t) /\ Bare(t)
  <2>1. IsSeq(t) /\ DOMAIN t = {1, 2} /\ t[1] = Footer /\ t[2] = Magic
    BY Pair
  <2> HIDE DEF t
  <2>2. \A i \in DOMAIN t : t[i] \in {Footer, Magic}
    BY <2>1
  <2>3. QED
    BY <2>1, <2>2 DEF Bare, Elements, Footer, Magic, Carriers, Encrypted
<1>4. out' = (out \o s) \o t /\ UNCHANGED <<encInput, encPos>>
  BY DEF TakeFooter
<1>5. \A i \in DOMAIN source : i >= encPos => source[i].op \notin Carriers
  <2>1. encPos \in DOMAIN source /\ source[encPos].op = "footer"
    BY <1>1, AsFunction DEF TakeFooter, At, EncInv
  <2>2. DOMAIN source \subseteq Nat
    BY <1>1, AsFunction
  <2>3. source \in Sources
    BY DEF EncInv
  <2> SUFFICES ASSUME NEW i \in DOMAIN source, i >= encPos, source[i].op \in Carriers PROVE FALSE
    OBVIOUS
  <2>4. i < encPos
    <3>1. \A k, j \in DOMAIN source :
             /\ source[k].op \in {"chunk", "attachment", "metadata"}
             /\ source[j].op \in {"dataEnd", "footer", "torn", "magic"}
             => k < j
      BY <2>3, SourcesAssumption
    <3>2. QED
      BY <2>1, <3>1 DEF Carriers
  <2>5. i \in Nat /\ encPos \in Nat /\ i >= encPos
    BY <2>1, <2>2
  <2>6. QED
    BY <2>4, <2>5
<1> HIDE DEF s, t
<1>6. out' = out \o (s \o t)
  <2>1. IsSeq(out) /\ IsSeq(s) /\ IsSeq(t)
    BY <1>1, <1>2, <1>3
  <2>2. (out \o s) \o t = out \o (s \o t)
    BY <2>1, Grouped
  <2>3. QED
    BY <1>4, <2>2
<1>7. IsSeq(s \o t) /\ Bare(s \o t)
  BY <1>2, <1>3, Concat, BareConcat
<1>8. QED
  BY <1>4, <1>5, <1>6, <1>7, EndCarries

\* The end of an input that is cut short.
LEMMA EndOfInputCarries ==
  ASSUME EncInv, SealInv, EndOfInput
  PROVE  SealInv'
<1>1. IsSeq(out) /\ IsSeq(source)
  BY InputIsSeq DEF EncInv, Written
<1>2. out' = out \o <<Magic>> /\ UNCHANGED <<encInput, encPos>>
  BY <1>1, AppendOne DEF EndOfInput
<1>3. IsSeq(<<Magic>>) /\ Bare(<<Magic>>)
  BY Single DEF Bare, Magic, Carriers, Encrypted
<1>4. \A i \in DOMAIN source : i >= encPos => source[i].op \notin Carriers
  <2>1. DOMAIN source = 1..Len(source) /\ Len(source) \in Nat /\ encPos \in Nat
    BY <1>1, AsFunction DEF EncInv
  <2>2. QED
    BY <2>1 DEF EndOfInput
<1>5. QED
  BY <1>2, <1>3, <1>4, EndCarries

\* To begin with, nothing is carried over.
LEMMA BeginsCarrying == EncInit => SealInv
<1> SUFFICES ASSUME EncInit PROVE SealInv
  OBVIOUS
<1>1. EncInv
  BY BeginsWell
<1>2. IsSeq(source) /\ encPos = 1 /\ out = <<>> /\ encState = "start"
  BY <1>1, InputIsSeq DEF EncInit
<1>3. Len(source) \in Nat /\ 0 \in 0..Len(source) /\ encPos - 1 = 0
  BY <1>2, AsFunction
<1> DEFINE p == Seen
<1>4. IsSeq(p) /\ DOMAIN p = 1..0
  BY <1>2, <1>3, FrontOf DEF Seen
<1> HIDE DEF p
<1>5. Carried(out, p)
  BY <1>2, <1>4, NoneIsBare, CarriedNothing
<1>6. QED
  BY <1>2, <1>3, <1>5 DEF SealInv, p

\* What has been read is carried over by every step.
LEMMA StepsCarry ==
  ASSUME EncInv, SealInv, [EncNext]_encVars
  PROVE  SealInv'
<1>1. CASE OpenPass2
  BY <1>1, OpenPass2Carries
<1>2. CASE TakeHeader
  BY <1>2, HeaderCarries
<1>3. CASE TakeChunk \/ TakeAttachment \/ TakeMetadata
  BY <1>3, DataCarries
<1>4. CASE TakeDataEnd
  BY <1>4, DataEndCarries
<1>5. CASE TakeFooter
  BY <1>5, FooterCarries
<1>6. CASE EndOfInput
  BY <1>6, EndOfInputCarries
<1>7. CASE Check \/ Collect \/ TakeUnusable \/ UNCHANGED encVars
  <2>1. /\ UNCHANGED <<encInput, out, encPos>>
        /\ encState' # "done" \/ encState' = encState
    BY <1>7 DEF Check, Collect, TakeUnusable, Fail, encVars, encInput
  <2>2. QED
    BY <2>1, IdleCarries
<1>8. CASE Skip \/ TakeFrameworkAttachment
  <2>1. /\ encPos <= Len(source) /\ source[encPos].op \notin Carriers
        /\ UNCHANGED <<encInput, out>> /\ encState' # "done"
    BY <1>8 DEF Skip, TakeFrameworkAttachment, At, Carriers, Indexes, Encrypted, Fail
  <2>2. CASE Advance
    BY <2>1, <2>2, SilentCarries
  <2>3. CASE UNCHANGED encPos
    BY <2>1, <2>3, IdleCarries
  <2>4. QED
    BY <1>8, <2>2, <2>3 DEF Skip, TakeFrameworkAttachment
<1>9. QED
  BY <1>1, <1>2, <1>3, <1>4, <1>5, <1>6, <1>7, <1>8 DEF EncNext

\* A successful encryption has sealed every chunk and attachment of its input
\* exactly once and in order and left nothing in the clear.
THEOREM AllIsSealed == EncSpec => []EverythingSealed
<1>1. ASSUME EncInv, SealInv PROVE EverythingSealed
  <2> SUFFICES ASSUME encState = "done" PROVE EverythingSealed
    BY DEF EverythingSealed
  <2>1. Carried(out, Seen) /\ \A op \in Carriers : Bodies(source, op) = Bodies(Seen, op)
    BY <1>1 DEF SealInv
  <2>2. IsSeq(out) /\ OfKind(out, Bared) = <<>>
    BY <1>1, <2>1 DEF EncInv, Written, Carried
  <2>3. ASSUME NEW K \in SUBSET Bared PROVE OfKind(out, K) = <<>>
    <3>1. \A i \in DOMAIN out : out[i].op \notin Bared
      BY <2>2, OfKindEmpty
    <3>2. \A i \in DOMAIN out : out[i].op \notin K
      BY <3>1
    <3>3. QED
      BY <2>2, <3>2, OfKindNone
  <2>4. OfKind(out, {"chunk", "attachment"}) = <<>>
    BY <2>3 DEF Bared
  <2>5. metadataMode = "plaintext" \/ OfKind(out, {"metadata"}) = <<>>
    BY <2>3 DEF Bared
  <2>6. /\ Bodies(out, "encChunk") = Bodies(source, "chunk")
        /\ Bodies(out, "encAttachment") = Bodies(source, "attachment")
        /\ Bodies(out, MetadataOp) = Bodies(source, "metadata")
    BY <2>1 DEF Carried, Carriers
  <2>7. QED
    BY <2>4, <2>5, <2>6 DEF EverythingSealed, MetadataOp
<1>2. EncInit => EncInv /\ SealInv
  BY BeginsWell, BeginsCarrying
<1>3. EncInv /\ SealInv /\ [EncNext]_encVars => (EncInv /\ SealInv)'
  BY StepsWell, StepsCarry
<1>4. EncInv /\ SealInv => EverythingSealed
  BY <1>1
<1>5. QED
  BY <1>2, <1>3, <1>4, PTL DEF EncSpec

-----------------------------------------------------------------------------
(* Inputs that are encrypted already.                                      *)

\* A file that has passed the check holds no encrypted record; a stream has
\* met no slot so far, and both have read up to the footer when they are done.
TwiceInv ==
  /\ mode = "file" /\ encState \notin {"start", "failed"} => OfKind(source, Encrypted) = <<>>
  /\ mode = "stream" /\ encState \in {"reading", "done"} =>
       \A i \in DOMAIN source : i < encPos => source[i].op # "slot"
  /\ encState = "done" => encPos > Len(source) \/ source[encPos].op = "footer"

\* A step that goes on to the next record.
LEMMA PassesOver ==
  ASSUME EncInv, TwiceInv, encState = "reading", encState' = "reading", encPos <= Len(source),
         mode = "stream" => source[encPos].op # "slot", UNCHANGED encInput, Advance
  PROVE  TwiceInv'
<1>1. DOMAIN source \subseteq Nat /\ encPos \in Nat
  BY InputIsSeq, AsFunction DEF EncInv
<1>2. ASSUME mode = "stream", NEW i \in DOMAIN source, i < encPos + 1
      PROVE  source[i].op # "slot"
  <2>1. i < encPos \/ i = encPos
    BY <1>1, <1>2
  <2>2. QED
    BY <1>2, <2>1 DEF TwiceInv
<1>3. encPos' = encPos + 1 /\ source' = source /\ mode' = mode
  BY DEF Advance, encInput
<1>4. mode = "file" => OfKind(source, Encrypted) = <<>>
  BY DEF TwiceInv
<1>5. QED
  BY <1>2, <1>3, <1>4 DEF TwiceInv

\* No step passes over a slot in a stream, or anything encrypted in a file.
LEMMA StepsOnce ==
  ASSUME EncInv, TwiceInv, [EncNext]_encVars
  PROVE  TwiceInv'
<1>1. CASE Check
  <2>1. encState' \in {"checked", "failed"} /\ UNCHANGED <<source, mode>>
    BY <1>1 DEF Check, Fail, encInput
  <2>2. mode = "file" /\ encState' # "failed" => OfKind(source, Encrypted) = <<>>
    BY <1>1 DEF Check, Fail
  <2>3. QED
    BY <2>1, <2>2 DEF TwiceInv
<1>2. CASE Collect \/ OpenPass2
  <2>1. /\ encState \in {"checked", "collected"} /\ encState' \in {"collected", "reading"}
        /\ UNCHANGED <<source, mode, encPos>> /\ encPos = 1
    BY <1>2 DEF Collect, OpenPass2, encInput, EncInv
  <2>2. DOMAIN source = 1..Len(source) /\ Len(source) \in Nat
    BY InputIsSeq, AsFunction
  <2>3. \A i \in DOMAIN source : ~ (i < 1)
    BY <2>2
  <2>4. mode = "file" => OfKind(source, Encrypted) = <<>>
    BY <2>1 DEF TwiceInv
  <2>5. QED
    BY <2>1, <2>3, <2>4 DEF TwiceInv
<1>3. CASE TakeHeader \/ Skip \/ TakeAttachment \/ TakeMetadata \/ TakeChunk \/ TakeDataEnd
  <2>1. /\ encState = "reading" /\ encState' = "reading" /\ encPos <= Len(source)
        /\ source[encPos].op # "slot" /\ UNCHANGED encInput /\ Advance
    BY <1>3 DEF TakeHeader, Skip, TakeAttachment, TakeMetadata, TakeChunk, TakeDataEnd, At,
                Indexes, Encrypted
  <2>2. QED
    BY <2>1, PassesOver
<1>4. CASE TakeFrameworkAttachment
  <2>1. CASE mode = "stream" /\ source[encPos].op = "slot"
    <3>1. encState' = "failed"
      BY <1>4, <2>1 DEF TakeFrameworkAttachment, Fail
    <3>2. QED
      BY <3>1 DEF TwiceInv
  <2>2. CASE ~ (mode = "stream" /\ source[encPos].op = "slot")
    <3>1. /\ encState = "reading" /\ encState' = "reading" /\ encPos <= Len(source)
          /\ UNCHANGED encInput /\ Advance
      BY <1>4, <2>2 DEF TakeFrameworkAttachment, At
    <3>2. QED
      BY <2>2, <3>1, PassesOver
  <2>3. QED
    BY <2>1, <2>2
<1>5. CASE TakeUnusable
  <2>1. encState' = "failed"
    BY <1>5 DEF TakeUnusable, Fail
  <2>2. QED
    BY <2>1 DEF TwiceInv
<1>6. CASE TakeFooter \/ EndOfInput
  <2>1. /\ encState = "reading" /\ encState' = "done" /\ UNCHANGED <<source, mode, encPos>>
        /\ encPos > Len(source) \/ source[encPos].op = "footer"
    BY <1>6 DEF TakeFooter, EndOfInput, At, encInput
  <2>2. QED
    BY <2>1 DEF TwiceInv
<1>7. CASE UNCHANGED encVars
  BY <1>7 DEF TwiceInv, encVars
<1>8. QED
  BY <1>1, <1>2, <1>3, <1>4, <1>5, <1>6, <1>7 DEF EncNext

\* What is encrypted already is never encrypted again: a file is refused by
\* the check, and a stream fails at the slot that is ahead of what it would
\* have skipped.
THEOREM EncryptedOnce == EncSpec => []NeverEncryptTwice
<1>1. EncInit => EncInv /\ TwiceInv
  <2>1. EncInit => TwiceInv
    BY DEF EncInit, TwiceInv
  <2>2. QED
    BY <2>1, BeginsWell
<1>2. EncInv /\ TwiceInv /\ [EncNext]_encVars => (EncInv /\ TwiceInv)'
  BY StepsWell, StepsOnce
<1>3. EncInv /\ TwiceInv => NeverEncryptTwice
  <2> SUFFICES ASSUME EncInv, TwiceInv, encState = "done" PROVE OfKind(source, Encrypted) = <<>>
    BY DEF NeverEncryptTwice
  <2>1. CASE mode = "file"
    BY <2>1 DEF TwiceInv
  <2>2. CASE mode = "stream"
    <3>1. /\ source \in Sources /\ IsSeq(source)
          /\ DOMAIN source = 1..Len(source) /\ Len(source) \in Nat /\ encPos \in Nat \ {0}
      BY InputIsSeq, AsFunction DEF EncInv
    <3>2. ASSUME NEW i \in DOMAIN source, source[i].op \in Encrypted PROVE FALSE
      <4>1. PICK j \in DOMAIN source : j < i /\ source[j].op = "slot"
        BY <3>1, <3>2, EncryptedSourcesAssumption
      <4>2. ~ (j < encPos)
        BY <2>2, <4>1 DEF TwiceInv
      <4>3. encPos \in DOMAIN source /\ encPos < i
        BY <3>1, <4>1, <4>2
      <4>4. source[encPos].op = "footer"
        BY <3>1, <4>3 DEF TwiceInv
      <4>5. i < encPos
        BY <3>1, <3>2, <4>3, <4>4, EncryptedSourcesAssumption
      <4>6. QED
        BY <3>1, <4>3, <4>5
    <3>3. QED
      BY <3>1, <3>2, OfKindNone
  <2>3. QED
    BY <2>1, <2>2 DEF EncInv
<1>4. QED
  BY <1>1, <1>2, <1>3, PTL DEF EncSpec

-----------------------------------------------------------------------------
(* Where everything is.                                                    *)

AllKnown == Elements(Definitions(source))

\* The output is settled, whatever part of it has been written.  Nothing is
\* written behind its data before DataEnd is read, and no keys before they are
\* flushed, which is ahead of DataEnd; and no loose message has been met.
LayInv ==
  /\ Settled(out, AllKnown)
  /\ out # <<>> => out[1] = Magic
  /\ encState = "reading" => (out = <<>> <=> mode = "stream" /\ ~ flushed)
  /\ out = <<>> => encState # "done"
  /\ encState = "reading" /\ (\A i \in 1..(encPos - 1) : source[i].op # "dataEnd") => Open(out)
  /\ ~ flushed => Slotless(out)
  /\ encState = "reading" /\ ~ flushed => \A i \in 1..(encPos - 1) : source[i].op # "dataEnd"
  /\ \A i \in 1..(encPos - 1) : source[i].op # "message"
  /\ encState = "done" => \A i \in DOMAIN source : source[i].op # "message"

\* The slots are slots.
LEMMA SlotsAreSlots ==
  ASSUME IsSeq(recipients)
  PROVE  IsSeq(Slots) /\ \A i \in DOMAIN Slots : Slots[i].op = "slot"
<1>1. DOMAIN Slots = DOMAIN recipients /\ \A i \in DOMAIN recipients : Slots[i] = Slot(recipients[i], SymKey)
  BY DEF Slots, Records
<1>2. \A i \in DOMAIN Slots : Slots[i].op = "slot"
  BY <1>1 DEF Slot
<1>3. QED
  BY <1>2, SlotsAre

\* Behind what is written so far, definitions and slots are where they belong.
LEMMA OpeningLays ==
  ASSUME IsSeq(recipients), IsSeq(pending), pending = Definitions(source),
         NEW s, IsSeq(s), s # <<>>, Settled(s, AllKnown), Open(s), Lateless(s)
  PROVE  LET u == s \o Opening
         IN IsSeq(u) /\ u # <<>> /\ Settled(u, AllKnown) /\ Open(u) /\ u[1] = s[1]
<1> DEFINE a == Records(pending, Def)
           b == Slots
<1>1. /\ IsSeq(a) /\ Within(a, AllKnown) /\ Slotless(a) /\ Lateless(a) /\ Unended(a)
      /\ Defined(a, AllKnown)
  BY DefRecords DEF AllKnown
<1>2. IsSeq(b) /\ \A i \in DOMAIN b : b[i].op = "slot"
  BY SlotsAreSlots
<1>3. Opening = a \o b
  BY DEF Opening
<1> HIDE DEF a, b
<1> DEFINE v == (s \o a) \o b
<1>4. IsSeq(v) /\ v # <<>> /\ Settled(v, AllKnown) /\ Open(v) /\ v[1] = s[1]
  BY <1>1, <1>2, SettledOpening
<1>5. v = s \o Opening
  BY <1>1, <1>2, <1>3, Grouped
<1> HIDE DEF v
<1>6. QED
  BY <1>4, <1>5

\* What has been flushed for the next record.
LEMMA FlushLays ==
  ASSUME EncInv, LayInv, NEW ops, At(ops), "header" \notin ops, "torn" \notin ops
  PROVE  LET f == FlushedOut
         IN /\ IsSeq(f) /\ f # <<>> /\ f[1] = Magic /\ Settled(f, AllKnown)
            /\ Open(out) => Open(f)
            /\ mode = "stream" => flushed /\ f = out
<1>1. /\ encState = "reading" /\ IsSeq(out) /\ IsSeq(recipients) /\ IsSeq(pending)
      /\ pending = Definitions(source) /\ mode \in {"file", "stream"}
  BY InputIsSeq DEF At, EncInv, Written
<1>2. mode = "stream" => flushed
  BY FlushedIsWritten
<1>3. out # <<>> /\ out[1] = Magic /\ Settled(out, AllKnown)
  BY <1>1, <1>2 DEF LayInv
<1>4. CASE ~ MustFlush
  BY <1>1, <1>2, <1>3, <1>4 DEF FlushedOut
<1>5. CASE MustFlush
  <2>1. mode = "file" /\ ~ flushed /\ FlushedOut = out \o Preamble
    BY <1>5 DEF MustFlush, FlushedOut
  <2>2. Open(out)
    BY <1>1, <2>1 DEF LayInv
  <2>3. Lateless(out)
    BY <2>1 DEF EncInv, Plain, Lateless, Late, Encrypted
  <2> DEFINE a == Opening
             e == Placeholder
             u == out \o a
  <2>4. IsSeq(u) /\ u # <<>> /\ Settled(u, AllKnown) /\ Open(u) /\ u[1] = out[1]
    BY <1>1, <1>3, <2>2, <2>3, OpeningLays
  <2>5. IsSeq(a) /\ Preamble = a \o <<e>>
    BY <1>1, MadeOpening DEF Preamble
  <2>6. e.op = "manifest"
    BY DEF Placeholder, Manifest
  <2> HIDE DEF a, e, u
  <2>7. LET v == u \o <<e>>
        IN /\ IsSeq(v) /\ v # <<>> /\ Settled(v, AllKnown) /\ v[1] = u[1]
           /\ Open(u) /\ e.op \notin Ends => Open(v)
    BY <2>4, <2>6, LaysOne DEF Loads, Late
  <2>8. Open(u \o <<e>>)
    BY <2>4, <2>6, <2>7 DEF Ends
  <2>9. FlushedOut = u \o <<e>>
    <3>1. IsSeq(<<e>>)
      BY Single
    <3> DEFINE g == <<e>>
    <3> HIDE DEF g
    <3>2. out \o (a \o g) = (out \o a) \o g
      BY <1>1, <2>5, <3>1, Grouped DEF g
    <3>3. QED
      BY <2>1, <2>5, <3>2 DEF u, g
  <2>10. QED
    BY <1>3, <2>1, <2>4, <2>7, <2>8, <2>9
<1>6. QED
  BY <1>4, <1>5

\* A record of the source that may still be met has its data ahead of it.
LEMMA SourceIsLaid ==
  ASSUME EncInv
  PROVE  /\ DOMAIN source = 1..Len(source) /\ Len(source) \in Nat
         /\ source # <<>> => source[1].op \in {"header", "torn"}
         /\ \A i, j \in DOMAIN source :
              /\ source[i].op \in {"chunk", "attachment", "metadata", "message"}
              /\ source[j].op \in {"dataEnd", "footer", "torn", "magic"}
              => i < j
<1>1. source \in Sources /\ IsSeq(source)
  BY InputIsSeq DEF EncInv
<1>2. QED
  BY <1>1, AsFunction, SourcesAssumption

\* The steps that leave the output as it is and do not read on.
LEMMA StopsLaying ==
  ASSUME LayInv, UNCHANGED <<source, out, encPos>>, flushed => flushed',
         encState' \notin {"reading", "done"}
  PROVE  LayInv'
<1>1. AllKnown' = AllKnown
  BY DEF AllKnown
<1>2. QED
  BY <1>1 DEF LayInv

\* The lexer takes a record that may be in an input, and what is written keeps
\* the output settled.
LEMMA LaysOn ==
  ASSUME EncInv, LayInv, NEW ops, At(ops), "message" \notin ops, Advance,
         UNCHANGED <<source, encState>>,
         Settled(out', AllKnown), out' # <<>>, out'[1] = Magic,
         source[encPos].op # "dataEnd" /\ Open(out) => Open(out'),
         flushed' = TRUE \/ (flushed' = flushed /\ mode' # "stream" /\ source[encPos].op # "dataEnd"
                             /\ (Slotless(out) => Slotless(out')))
  PROVE  LayInv'
<1>1. encState = "reading" /\ source[encPos].op # "message" /\ encPos \in Nat /\ encPos' = encPos + 1
      /\ source' = source /\ encState' = encState
  BY DEF At, Advance, EncInv
<1>2. AllKnown' = AllKnown
  BY <1>1 DEF AllKnown
<1>3. \A i \in 1..(encPos' - 1) : i \in 1..(encPos - 1) \/ i = encPos
  BY <1>1
<1>4. \A i \in 1..(encPos - 1) : i \in 1..(encPos' - 1)
  BY <1>1
<1>5. encPos \in 1..(encPos' - 1)
  BY <1>1 DEF EncInv
<1>6. (\A i \in 1..(encPos' - 1) : source[i].op # "dataEnd") => Open(out')
  BY <1>1, <1>4, <1>5 DEF LayInv
<1>7. \A i \in 1..(encPos' - 1) : source[i].op # "message"
  BY <1>1, <1>3 DEF LayInv
<1>8. ~ flushed' => Slotless(out') /\ mode' # "stream"
  BY DEF LayInv
<1>9. ~ flushed' => \A i \in 1..(encPos' - 1) : source[i].op # "dataEnd"
  BY <1>1, <1>3 DEF LayInv
<1>10. QED
  BY <1>1, <1>2, <1>6, <1>7, <1>8, <1>9 DEF LayInv

\* A record is passed over.
LEMMA PassLays ==
  ASSUME EncInv, LayInv, Skip \/ TakeFrameworkAttachment \/ TakeUnusable
  PROVE  LayInv'
<1>1. UNCHANGED <<encInput, encMarks, out>> /\ encState = "reading"
  BY DEF Skip, TakeFrameworkAttachment, TakeUnusable, At
<1>2. UNCHANGED <<source, mode, out, flushed>>
  BY <1>1 DEF encInput, encMarks
<1>3. CASE encState' = "failed" /\ encPos' = encPos
  BY <1>2, <1>3, StopsLaying
<1>4. CASE ~ (encState' = "failed" /\ encPos' = encPos)
  <2> DEFINE ops == {"def", "slot", "manifest"} \cup Indexes \cup Encrypted
  <2>1. At(ops) /\ Advance /\ UNCHANGED encState
    BY <1>4 DEF Skip, TakeFrameworkAttachment, TakeUnusable, Fail, At
  <2>2. "header" \notin ops /\ "torn" \notin ops /\ "message" \notin ops /\ "dataEnd" \notin ops
    BY DEF Indexes, Encrypted
  <2> HIDE DEF ops
  <2>3. mode = "stream" => flushed
    BY <2>1, <2>2, FlushedIsWritten
  <2>4. out # <<>> /\ out[1] = Magic /\ Settled(out, AllKnown)
    BY <1>1, <2>3 DEF LayInv
  <2>5. source[encPos].op # "dataEnd"
    BY <2>1, <2>2 DEF At
  <2>6. flushed' = TRUE \/ (flushed' = flushed /\ mode' # "stream")
    <3>1. flushed \in BOOLEAN /\ mode \in {"file", "stream"}
      BY DEF EncInv
    <3>2. QED
      BY <1>2, <2>3, <3>1, Zenon
  <2>7. QED
    BY <1>2, <2>1, <2>2, <2>4, <2>5, <2>6, LaysOn
<1>5. QED
  BY <1>3, <1>4
\* Pass 1 and the leading magic.
LEMMA BeginLays ==
  ASSUME EncInv, LayInv, Check \/ Collect \/ OpenPass2
  PROVE  LayInv'
<1>1. CASE Check \/ Collect
  <2>1. UNCHANGED <<source, out, encPos, flushed>> /\ encState' \notin {"reading", "done"}
    BY <1>1 DEF Check, Collect, Fail, encInput, encMarks
  <2>2. QED
    BY <2>1, StopsLaying
<1>2. CASE OpenPass2
  <2>1. /\ encState = "collected" /\ encState' = "reading"
        /\ UNCHANGED <<source, mode, encPos, flushed>>
        /\ encPos = 1 /\ ~ flushed /\ mode \in {"file", "stream"}
    BY <1>2 DEF OpenPass2, EncInv, encInput, encMarks
  <2>2. out' = IF mode = "file" THEN <<Magic>> ELSE <<>>
    BY <1>2 DEF OpenPass2
  <2>3. /\ Settled(out', AllKnown) /\ Open(out') /\ Slotless(out')
        /\ out' # <<>> => out'[1] = Magic
        /\ out' = <<>> <=> mode = "stream"
    <3>1. CASE mode = "file"
      <4>1. out' = <<Magic>> /\ mode # "stream"
        BY <2>2, <3>1
      <4> DEFINE s == <<Magic>>
      <4>2. Settled(s, AllKnown) /\ Open(s) /\ Slotless(s) /\ s # <<>>
        BY SettledMagic
      <4>3. s[1] = Magic
        BY Single
      <4> HIDE DEF s
      <4>4. out' = s
        BY <4>1 DEF s
      <4>5. QED
        BY <4>1, <4>2, <4>3, <4>4
    <3>2. CASE mode = "stream"
      <4> DEFINE s == <<>>
      <4>1. DOMAIN s = {} /\ s = <<>>
        OBVIOUS
      <4>2. Settled(s, AllKnown) /\ Slotless(s)
        BY NothingIsSettled
      <4> HIDE DEF s
      <4>3. Open(s)
        BY <4>1 DEF Open
      <4>4. QED
        BY <2>2, <3>2, <4>1, <4>2, <4>3
    <3>3. QED
      BY <2>1, <3>1, <3>2
  <2>4. AllKnown' = AllKnown
    BY <2>1 DEF AllKnown
  <2>5. 1..(encPos' - 1) = {}
    BY <2>1
  <2>6. QED
    BY <2>1, <2>3, <2>4, <2>5 DEF LayInv
<1>3. QED
  BY <1>1, <1>2

\* The header, with all that leaves a stream together with it.
LEMMA HeaderLays ==
  ASSUME EncInv, LayInv, TakeHeader
  PROVE  LayInv'
<1>1. /\ At({"header"}) /\ Advance /\ UNCHANGED <<source, mode, encState>>
      /\ flushed' = (flushed \/ mode = "stream")
      /\ encState = "reading" /\ source[encPos].op = "header"
      /\ flushed \in BOOLEAN /\ mode \in {"file", "stream"}
  BY DEF TakeHeader, At, EncInv, encInput
<1>2. IsSeq(out)
  BY DEF EncInv, Written
<1> DEFINE e == Header
           m == <<Magic>>
<1>3. e.op \notin {"def", "slot"} /\ e.op \notin Ends /\ e.op \notin Loads
  BY DEF Header, Ends, Loads, Late
<1>4. IsSeq(m) /\ m # <<>> /\ Settled(m, AllKnown) /\ Open(m) /\ Lateless(m) /\ m[1] = Magic
  BY SettledMagic, Single
<1>5. <<Magic, Header>> = m \o <<e>>
  BY PairIsConcat
<1>6. e.op \notin Late
  BY <1>3 DEF Loads
<1> HIDE DEF e, m
<1>7. CASE mode = "file"
  <2>1. out # <<>> /\ out[1] = Magic /\ Settled(out, AllKnown)
    BY <1>1, <1>7 DEF LayInv
  <2>2. out' = out \o <<e>>
    BY <1>2, <1>7, AppendOne DEF TakeHeader, e
  <2>3. /\ out' # <<>> /\ Settled(out', AllKnown) /\ out'[1] = Magic
        /\ Open(out) => Open(out')
        /\ Slotless(out) => Slotless(out')
    BY <1>2, <1>3, <2>1, <2>2, LaysOne
  <2>4. flushed' = TRUE \/ (flushed' = flushed /\ mode' # "stream")
    BY <1>1, <1>7, Zenon
  <2>5. source[encPos].op # "dataEnd" /\ "message" \notin {"header"}
    BY <1>1
  <2>6. UNCHANGED <<source, encState>>
    BY <1>1
  <2>7. flushed' = TRUE \/ (flushed' = flushed /\ mode' # "stream" /\ source[encPos].op # "dataEnd"
                             /\ (Slotless(out) => Slotless(out')))
    BY <2>3, <2>4, <2>5
  <2>8. QED
    BY <1>1, <2>3, <2>5, <2>6, <2>7, LaysOn
<1>8. CASE mode = "stream" /\ ~ flushed
  <2>1. out = <<>>
    BY <1>1, <1>8 DEF LayInv
  <2>2. IsSeq(recipients) /\ IsSeq(pending) /\ pending = Definitions(source)
    BY <1>1, InputIsSeq DEF EncInv
  <2> DEFINE s == m \o <<e>>
  <2>3. IsSeq(s) /\ s # <<>> /\ Settled(s, AllKnown) /\ s[1] = Magic /\ Open(s)
    BY <1>3, <1>4, LaysOne
  <2>4. Lateless(s)
    <3>1. IsSeq(<<e>>) /\ Lateless(<<e>>)
      <4>1. IsSeq(<<e>>) /\ DOMAIN <<e>> = {1} /\ <<e>>[1] = e
        BY Single
      <4> DEFINE g == <<e>>
      <4> HIDE DEF g
      <4>2. IsSeq(g) /\ Lateless(g)
        BY <1>6, <4>1 DEF g, Lateless
      <4>3. QED
        BY <4>2 DEF g
    <3>2. QED
      BY <1>4, <3>1, SettledParts
  <2>5. out' = (out \o <<Magic, Header>>) \o Opening
    BY <1>8 DEF TakeHeader
  <2> HIDE DEF s
  <2>6. out' = s \o Opening
    <3>1. <<>> \o s = s
      BY <2>3, ConcatLen
    <3>2. <<Magic, Header>> = s
      BY <1>5 DEF s
    <3>3. QED
      BY <2>1, <2>5, <3>1, <3>2
  <2>7. out' # <<>> /\ Settled(out', AllKnown) /\ Open(out') /\ out'[1] = Magic
    BY <2>2, <2>3, <2>4, <2>6, OpeningLays
  <2>8. flushed' = TRUE
    BY <1>1, <1>8, Zenon
  <2>9. QED
    BY <1>1, <2>7, <2>8, LaysOn
<1>9. CASE mode = "stream" /\ flushed
  <2>1. out' = out
    BY <1>9 DEF TakeHeader
  <2>2. flushed' = TRUE
    BY <1>1, <1>9, Zenon
  <2>3. out # <<>> /\ Settled(out, AllKnown) /\ out[1] = Magic
    BY <1>1, <1>9 DEF LayInv
  <2>4. QED
    BY <1>1, <2>1, <2>2, <2>3, LaysOn
<1>10. QED
  BY <1>1, <1>7, <1>8, <1>9

\* A record of the data section.
LEMMA DataLays ==
  ASSUME EncInv, LayInv, TakeChunk \/ TakeAttachment \/ TakeMetadata
  PROVE  LayInv'
<1> DEFINE ops == {"chunk", "attachment", "metadata"}
<1>1. \E e : e.op \in Loads /\ FlushAndWrite(<<e>>)
  <2>1. CASE TakeChunk
    <3> DEFINE e == EncChunk(source[encPos].body, SymKey, chunkIdx)
    <3>1. e.op \in Loads
      BY DEF EncChunk, Loads, Late
    <3>2. FlushAndWrite(<<e>>)
      BY <2>1 DEF TakeChunk
    <3>3. QED
      BY <3>1, <3>2
  <2>2. CASE TakeAttachment
    <3> DEFINE e == EncAttachment(source[encPos].body, SymKey)
    <3>1. e.op \in Loads
      BY DEF EncAttachment, Loads, Late
    <3>2. FlushAndWrite(<<e>>)
      BY <2>2 DEF TakeAttachment
    <3>3. QED
      BY <3>1, <3>2
  <2>3. CASE TakeMetadata
    <3> DEFINE e == IF metadataMode = "plaintext" THEN source[encPos]
                    ELSE EncMetadata(source[encPos].body, SymKey)
    <3>1. e.op \in Loads
      BY <2>3 DEF TakeMetadata, At, EncMetadata, Loads
    <3>2. FlushAndWrite(<<e>>)
      BY <2>3 DEF TakeMetadata
    <3>3. QED
      BY <3>1, <3>2
  <2>4. QED
    BY <2>1, <2>2, <2>3
<1>2. PICK e : e.op \in Loads /\ FlushAndWrite(<<e>>)
  BY <1>1
<1>3. /\ At(ops) /\ Advance /\ UNCHANGED <<source, mode, encState>>
      /\ encState = "reading" /\ encPos <= Len(source) /\ source[encPos].op \in ops
      /\ encPos \in Nat \ {0} /\ flushed \in BOOLEAN /\ mode \in {"file", "stream"}
  BY DEF TakeChunk, TakeAttachment, TakeMetadata, At, EncInv, encInput
<1>4. e.op \notin {"def", "slot"} /\ e.op \notin Ends
  BY <1>2 DEF Loads, Late, Ends
<1>5. out' = FlushedOut \o <<e>> /\ flushed' = (flushed \/ mode = "file")
  BY <1>2 DEF FlushAndWrite
<1>6. "header" \notin ops /\ "torn" \notin ops /\ "message" \notin ops
  OBVIOUS
<1>7. Open(out)
  <2>1. encPos \in DOMAIN source
    BY <1>3, SourceIsLaid
  <2>2. \A i \in 1..(encPos - 1) : i \in DOMAIN source /\ i < encPos
    BY <1>3, SourceIsLaid
  <2>3. \A i \in 1..(encPos - 1) : source[i].op # "dataEnd"
    BY <1>3, <2>1, <2>2, SourceIsLaid
  <2>4. QED
    BY <1>3, <2>3 DEF LayInv
<1>8. source[encPos].op # "dataEnd"
  BY <1>3
<1> HIDE DEF ops
<1>9. /\ IsSeq(FlushedOut) /\ FlushedOut # <<>> /\ FlushedOut[1] = Magic
      /\ Settled(FlushedOut, AllKnown) /\ Open(FlushedOut)
      /\ mode = "stream" => flushed
  BY <1>3, <1>6, <1>7, FlushLays
<1> DEFINE f == FlushedOut
<1> HIDE DEF f
<1>10. out' # <<>> /\ Settled(out', AllKnown) /\ Open(out') /\ out'[1] = Magic
  <2>1. IsSeq(f) /\ f # <<>> /\ f[1] = Magic /\ Settled(f, AllKnown) /\ Open(f) /\ out' = f \o <<e>>
    BY <1>5, <1>9 DEF f
  <2>2. QED
    BY <1>4, <2>1, LaysOne
<1>11. flushed' = TRUE
  BY <1>3, <1>5, <1>9, Zenon
<1>12. QED
  BY <1>3, <1>6, <1>10, <1>11, LaysOn
\* The patch and DataEnd; or, in a stream, DataEnd and the manifest.
LEMMA DataEndLays ==
  ASSUME EncInv, LayInv, TakeDataEnd
  PROVE  LayInv'
<1>1. /\ At({"dataEnd"}) /\ Advance /\ UNCHANGED <<source, mode, encState>>
      /\ encState = "reading" /\ source[encPos].op = "dataEnd"
      /\ flushed \in BOOLEAN /\ mode \in {"file", "stream"}
  BY DEF TakeDataEnd, At, EncInv, encInput
<1> DEFINE ops == {"dataEnd"}
<1>2. At(ops) /\ "header" \notin ops /\ "torn" \notin ops /\ "message" \notin ops
  BY <1>1
<1> HIDE DEF ops
<1> DEFINE f == FlushedOut
           at == FlushedAt
<1>3. /\ IsSeq(f) /\ f # <<>> /\ f[1] = Magic /\ Settled(f, AllKnown)
      /\ mode = "stream" => flushed /\ f = out
  BY <1>2, FlushLays
<1>4. mode = "file" => at \in DOMAIN f /\ f[at].op = "manifest"
  BY <1>2, FlushedIsWritten
<1>5. mode = "file" => out' = Append([f EXCEPT ![at] = Manifest(SymKey, chunkIdx)], DataEnd)
                       /\ flushed' = TRUE
  BY DEF TakeDataEnd
<1>6. mode = "stream" => out' = out \o <<DataEnd, Manifest(SymKey, chunkIdx)>> /\ flushed' = flushed
  BY DEF TakeDataEnd, encMarks
<1> HIDE DEF f, at
<1> DEFINE e == DataEnd
           m == Manifest(SymKey, chunkIdx)
<1>7. /\ e.op \notin {"def", "slot"} /\ e.op \notin Loads
      /\ m.op = "manifest" /\ m.op \notin {"def", "slot"} /\ m.op \notin Loads
  BY DEF DataEnd, Manifest, Loads, Late
<1>8. out' # <<>> /\ Settled(out', AllKnown) /\ out'[1] = Magic /\ flushed' = TRUE
  <2>1. CASE mode = "file"
    <3> DEFINE t == [f EXCEPT ![at] = m]
    <3>1. DOMAIN f = 1..Len(f) /\ Len(f) \in Nat /\ 1 \in DOMAIN f
      <4>1. IsSeq(<<e>>)
        BY Single
      <4>2. QED
        BY <1>3, <4>1, AsFunction, StaysFilled
    <3>2. /\ DOMAIN t = DOMAIN f /\ t[at] = m
          /\ \A i \in DOMAIN f : i # at => t[i] = f[i]
      BY <1>4, <2>1
    <3>3. IsSeq(t)
      <4>1. t = [i \in 1..Len(f) |-> t[i]]
        BY <3>1
      <4> HIDE DEF t
      <4>2. t \in [1..Len(f) -> Elements(t)]
        BY <3>1, <3>2, <4>1 DEF Elements
      <4>3. QED
        BY <3>1, <4>2, OfFunction
    <3>4. out' = Append(t, e)
      BY <1>5, <2>1
    <3> HIDE DEF t, e, m
    <3>5. \A i \in DOMAIN f : t[i].op = f[i].op /\ (f[i].op = "def" => t[i] = f[i])
      BY <1>4, <1>7, <2>1, <3>2
    <3>6. Settled(t, AllKnown)
      BY <1>3, <3>2, <3>5, SettledSame
    <3>7. t # <<>>
      <4>1. DOMAIN <<>> = {}
        OBVIOUS
      <4>2. QED
        BY <3>1, <3>2, <4>1
    <3>8. t[1] = Magic
      <4>1. Magic.op # "manifest"
        BY DEF Magic
      <4>2. QED
        BY <1>3, <1>4, <2>1, <3>1, <3>2, <4>1
    <3>9. out' = t \o <<e>>
      BY <3>3, <3>4, AppendOne
    <3>10. out' # <<>> /\ Settled(out', AllKnown) /\ out'[1] = Magic
      BY <1>7, <3>3, <3>6, <3>7, <3>8, <3>9, LaysOne
    <3>11. QED
      BY <1>5, <2>1, <3>10
  <2>2. CASE mode = "stream"
    <3>1. flushed' = TRUE
      BY <1>1, <1>3, <1>6, <2>2, Zenon
    <3>2. out' = out \o <<e, m>> /\ f = out
      BY <1>3, <1>6, <2>2
    <3>3. <<e>> \o <<m>> = <<e, m>> /\ IsSeq(<<e>>) /\ IsSeq(<<m>>)
      BY PairIsConcat, Single
    <3> HIDE DEF e, m
    <3>4. out' = (f \o <<e>>) \o <<m>>
      <4> DEFINE a == <<e>>
                 b == <<m>>
      <4>1. IsSeq(a) /\ IsSeq(b) /\ out' = f \o (a \o b)
        BY <3>2, <3>3
      <4> HIDE DEF a, b
      <4>2. out' = (f \o a) \o b
        BY <1>3, <4>1, Grouped
      <4>3. QED
        BY <4>2 DEF a, b
    <3> DEFINE u == f \o <<e>>
    <3>5. IsSeq(u) /\ u # <<>> /\ Settled(u, AllKnown) /\ u[1] = Magic
      BY <1>3, <1>7, LaysOne
    <3> HIDE DEF u
    <3>6. LET v == u \o <<m>> IN v # <<>> /\ Settled(v, AllKnown) /\ v[1] = Magic
      BY <1>7, <3>5, LaysOne
    <3>7. QED
      BY <3>1, <3>4, <3>6 DEF u
  <2>3. QED
    BY <1>1, <2>1, <2>2
<1>9. QED
  BY <1>1, <1>2, <1>8, LaysOn

\* The pass is over, and what is written then holds nothing that is looked for.
LEMMA ClosingLays ==
  ASSUME EncInv, LayInv, UNCHANGED <<source, mode, encPos, flushed>>, encState' = "done",
         Settled(out', AllKnown), out' # <<>>, out'[1] = Magic,
         Slotless(out) => Slotless(out'),
         encPos \in DOMAIN source => source[encPos].op = "footer"
  PROVE  LayInv'
<1>1. AllKnown' = AllKnown
  BY DEF AllKnown
<1>2. \A i \in DOMAIN source : source[i].op # "message"
  <2>1. /\ DOMAIN source = 1..Len(source) /\ Len(source) \in Nat
        /\ encPos \in Nat \ {0}
    BY SourceIsLaid DEF EncInv
  <2>2. ASSUME NEW i \in DOMAIN source, i < encPos PROVE source[i].op # "message"
    <3>1. i \in 1..(encPos - 1)
      BY <2>1, <2>2
    <3>2. QED
      BY <3>1 DEF LayInv
  <2>3. ASSUME NEW i \in DOMAIN source, ~ (i < encPos) PROVE source[i].op # "message"
    <3>1. encPos \in DOMAIN source
      BY <2>1, <2>3
    <3>2. source[i].op = "message" => i < encPos
      BY <3>1, SourceIsLaid
    <3>3. QED
      BY <2>3, <3>2
  <2>4. QED
    BY <2>2, <2>3
<1>3. QED
  BY <1>1, <1>2 DEF LayInv

\* Summary, footer and trailing magic, or the magic alone.
LEMMA EndLays ==
  ASSUME EncInv, LayInv, TakeFooter \/ EndOfInput
  PROVE  LayInv'
<1>1. /\ encState = "reading" /\ encState' = "done" /\ UNCHANGED <<source, mode, encPos, flushed>>
      /\ encPos \in Nat \ {0} /\ mode \in {"file", "stream"}
      /\ IsSeq(out) /\ pending = Definitions(source) /\ IsSeq(pending) /\ IsSeq(encChunkMetas)
  <2>1. encChunkMetas \in Seq(Nat)
    BY DEF EncInv
  <2>2. QED
    BY <2>1, OfSeq, InputIsSeq DEF TakeFooter, EndOfInput, At, EncInv, Written, encInput, encMarks
<1> DEFINE e == Magic
<1>2. e.op \notin {"def", "slot"} /\ e.op \notin Loads
  BY DEF Magic, Loads, Late
<1>3. CASE TakeFooter
  <2> DEFINE ops == {"footer"}
  <2>1. At(ops) /\ "header" \notin ops /\ "torn" \notin ops /\ source[encPos].op = "footer"
    BY <1>3 DEF TakeFooter, At
  <2> HIDE DEF ops
  <2>2. mode = "stream" => flushed
    BY <2>1, FlushedIsWritten
  <2>3. out # <<>> /\ out[1] = Magic /\ Settled(out, AllKnown)
    BY <1>1, <2>2 DEF LayInv
  <2> DEFINE a == Summary(pending, encChunkMetas)
             g == Footer
  <2>4. IsSeq(a) /\ Within(a, AllKnown) /\ Hollow(a) /\ Slotless(a)
    BY <1>1, SummaryIsHollow DEF AllKnown
  <2>5. g.op \notin {"def", "slot"} /\ g.op \notin Loads
    BY DEF Footer, Loads, Late
  <2>6. <<g>> \o <<e>> = <<g, e>> /\ IsSeq(<<g>>) /\ IsSeq(<<e>>)
    BY PairIsConcat, Single
  <2>7. out' = (out \o a) \o <<g, e>>
    BY <1>3 DEF TakeFooter
  <2> HIDE DEF a, g, e
  <2> DEFINE s == out \o a
             t == s \o <<g>>
             u == t \o <<e>>
  <2>8. /\ IsSeq(s) /\ s # <<>> /\ Settled(s, AllKnown) /\ s[1] = Magic
        /\ Slotless(out) => Slotless(s)
    BY <1>1, <2>3, <2>4, Concat, StaysFilled, SettledMore, SettledParts
  <2>9. out' = u
    <3> DEFINE b == <<g>>
               c == <<e>>
    <3>1. IsSeq(b) /\ IsSeq(c) /\ out' = s \o (b \o c)
      BY <2>6, <2>7
    <3> HIDE DEF b, c, s
    <3>2. out' = (s \o b) \o c
      BY <2>8, <3>1, Grouped
    <3>3. QED
      BY <3>2 DEF b, c
  <2> HIDE DEF s
  <2>10. /\ IsSeq(t) /\ t # <<>> /\ Settled(t, AllKnown) /\ t[1] = Magic
         /\ Slotless(s) => Slotless(t)
    BY <2>5, <2>8, LaysOne
  <2> HIDE DEF t
  <2>11. /\ u # <<>> /\ Settled(u, AllKnown) /\ u[1] = Magic
         /\ Slotless(t) => Slotless(u)
    BY <1>2, <2>10, LaysOne DEF e
  <2> HIDE DEF u
  <2>12. QED
    BY <1>1, <2>1, <2>8, <2>9, <2>10, <2>11, ClosingLays
<1>4. CASE EndOfInput
  <2>1. encPos > Len(source)
    BY <1>4 DEF EndOfInput
  <2>2. encPos \notin DOMAIN source
    BY <1>1, <2>1, SourceIsLaid
  <2>3. out' = out \o <<e>>
    BY <1>1, <1>4, AppendOne DEF EndOfInput
  <2>4. CASE out = <<>>
    <3>1. out' = <<e>>
      <4>1. IsSeq(<<e>>)
        BY Single
      <4>2. <<>> \o <<e>> = <<e>>
        BY <4>1, ConcatLen
      <4>3. QED
        BY <2>3, <2>4, <4>2
    <3>2. LET v == <<Magic>> IN v # <<>> /\ Settled(v, AllKnown) /\ Slotless(v) /\ v[1] = Magic
      BY SettledMagic, Single
    <3>3. QED
      BY <1>1, <2>2, <3>1, <3>2, ClosingLays
  <2>5. CASE out # <<>>
    <3>1. Settled(out, AllKnown) /\ out[1] = Magic
      BY <2>5 DEF LayInv
    <3> HIDE DEF e
    <3>2. /\ out' # <<>> /\ Settled(out', AllKnown) /\ out'[1] = Magic
          /\ Slotless(out) => Slotless(out')
      BY <1>1, <1>2, <2>3, <2>5, <3>1, LaysOne
    <3>3. QED
      BY <1>1, <2>2, <3>2, ClosingLays
  <2>6. QED
    BY <2>4, <2>5
<1>5. QED
  BY <1>3, <1>4

\* Nothing is written at first.
LEMMA BeginsLaid == EncInit => LayInv
<1> SUFFICES ASSUME EncInit PROVE LayInv
  OBVIOUS
<1>1. out = <<>> /\ encState = "start" /\ encPos = 1
  BY DEF EncInit
<1>2. Settled(out, AllKnown) /\ Slotless(out)
  BY <1>1, NothingIsSettled
<1>3. 1..(encPos - 1) = {}
  BY <1>1
<1>4. QED
  BY <1>1, <1>2, <1>3 DEF LayInv

\* Every step leaves everything where it belongs.
LEMMA StepsLay ==
  ASSUME EncInv, LayInv, [EncNext]_encVars
  PROVE  LayInv'
<1>1. CASE UNCHANGED encVars
  <2>1. AllKnown' = AllKnown
    BY <1>1 DEF AllKnown, encVars
  <2>2. QED
    BY <1>1, <2>1 DEF LayInv, encVars
<1>2. CASE Check \/ Collect \/ OpenPass2
  BY <1>2, BeginLays
<1>3. CASE TakeHeader
  BY <1>3, HeaderLays
<1>4. CASE Skip \/ TakeFrameworkAttachment \/ TakeUnusable
  BY <1>4, PassLays
<1>5. CASE TakeAttachment \/ TakeMetadata \/ TakeChunk
  BY <1>5, DataLays
<1>6. CASE TakeDataEnd
  BY <1>6, DataEndLays
<1>7. CASE TakeFooter \/ EndOfInput
  BY <1>7, EndLays
<1>8. QED
  BY <1>1, <1>2, <1>3, <1>4, <1>5, <1>6, <1>7 DEF EncNext

=============================================================================
