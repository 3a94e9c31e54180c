-------------------------- MODULE Pipeline_proofs --------------------------
(***************************************************************************)
(* What holds of the life of a recording, for every recording, every list  *)
(* of recipients, any number of rotations and whatever faults its file     *)
(* suffers.                                                                *)
(*                                                                         *)
(* The argument is about files.  A file is part of a recording if each of  *)
(* its encrypted chunks, under whatever key, has the body of the chunk of  *)
(* the recording that its index says, and each of its slots is for a       *)
(* recipient.  Encryption writes such files, whoever encrypts; each        *)
(* record of one may be lost, repeated, exchanged or altered, and it is    *)
(* still one; and rotation makes such a file of another.  A file is        *)
(* vouched for if its manifests count the chunks of the recording: so they *)
(* do when it is written, and whatever happens to it afterwards can only   *)
(* take manifests away, as long as no damaged file is rotated.             *)
(*                                                                         *)
(* The invariant PipeInv has a part for each stage.  From it follow the    *)
(* refinement of Recording and the invariants of Pipeline that are about   *)
(* damaged files.                                                          *)
(***************************************************************************)
EXTENDS Pipeline, McapRecords_proofs

-----------------------------------------------------------------------------
(* Damage.                                                                 *)

\* The keys in circulation, and what slots may give the recipients R.
Keys == {SymKey, OtherKey}
Given(R) == R \X Keys

\* Whoever is given a key may be given the other one.
Spreads(to) == \A h, k : <<h, k>> \in to => <<h, OtherKey>> \in to

\* A record that is altered vouches for nothing new.
LEMMA AlteredIs ==
  ASSUME NEW r, NEW rec, NEW to, Spreads(to), Genuine(r, rec, to)
  PROVE  /\ Genuine(Foreign(r), rec, to) /\ Genuine(Garbled(r), rec, to)
         /\ Foreign(r).op = r.op /\ Garbled(r).op = r.op
         /\ r = Placeholder => Foreign(r) = r /\ Garbled(r) = r
         /\ r.op = "manifest" => r = Placeholder \/ Foreign(r).count = r.count
         /\ r.op = "manifest" => Garbled(r) = r
         /\ r.op = "slot" => Foreign(r).version = r.version /\ Garbled(r).version = Malformed
<1>1. "op" \in DOMAIN r
  BY DEF Genuine, HasShape
<1>2. CASE Foreign(r) = r
  BY <1>1, <1>2 DEF Genuine, HasShape, Garbled, Placeholder, Manifest
<1>3. CASE Foreign(r) # r
  <2>1. "key" \in DOMAIN r /\ r # Placeholder /\ Foreign(r) = [r EXCEPT !.key = OtherKey]
    BY <1>3 DEF Foreign
  <2>2. /\ Foreign(r).op = r.op /\ DOMAIN Foreign(r) = DOMAIN r
        /\ "idx" \in DOMAIN r => Foreign(r).idx = r.idx
        /\ "body" \in DOMAIN r => Foreign(r).body = r.body
        /\ "to" \in DOMAIN r => Foreign(r).to = r.to
        /\ "count" \in DOMAIN r => Foreign(r).count = r.count
        /\ "version" \in DOMAIN r => Foreign(r).version = r.version
        /\ Foreign(r).key = OtherKey
    BY <1>1, <2>1
  <2>3. QED
    BY <1>1, <2>1, <2>2 DEF Genuine, HasShape, Garbled, Placeholder, Manifest, Spreads
<1>4. QED
  BY <1>2, <1>3

\* What a fault can put into a file.
Strewn(s) ==
  Elements(s) \cup {Foreign(r) : r \in Elements(s)} \cup {Garbled(r) : r \in Elements(s)}
    \cup {Attachment("note"), Torn}

\* What a fault leaves is made of the records that were there, of altered ones, of a
\* foreign attachment and of a torn record.
LEMMA DamagedFrom ==
  ASSUME IsSeq(stored), NEW i \in 2..Len(stored), NEW t \in Damaged(i)
  PROVE  t \in Seq(Strewn(stored))
<1> DEFINE T == Strewn(stored)
           L == Len(stored)
<1>1. /\ L \in Nat /\ DOMAIN stored = 1..L /\ i \in 1..L /\ i - 1 \in 0..L /\ i \in Nat
      /\ stored[i] \in Elements(stored)
  BY AsFunction
<1>2. stored[i] \in T /\ Foreign(stored[i]) \in T /\ Garbled(stored[i]) \in T
      /\ Attachment("note") \in T /\ Torn \in T /\ Elements(stored) \subseteq T
  BY <1>1 DEF Strewn
<1>3. stored \in Seq(T)
  BY <1>2 DEF IsSeq
<1> SUFFICES t \in Seq(T)
  OBVIOUS
<1> HIDE DEF T
<1> DEFINE a == SubSeq(stored, 1, i - 1)
           b == SubSeq(stored, i, L)
           c == SubSeq(stored, i + 1, L)
           d == SubSeq(stored, 1, i)
<1>4. a \in Seq(T) /\ b \in Seq(T) /\ c \in Seq(T) /\ d \in Seq(T)
  BY <1>1, <1>3
<1>5. CASE t = S!RemoveAt(stored, i)
  <2>1. t = a \o c
    BY <1>5 DEF S!RemoveAt
  <2> HIDE DEF a, c
  <2>2. QED
    BY <1>4, <2>1
<1>6. ASSUME NEW e \in T, t = S!InsertAt(stored, i, e) PROVE t \in Seq(T)
  <2>1. t = a \o <<e>> \o b
    BY <1>6 DEF S!InsertAt
  <2> HIDE DEF a, b
  <2>2. <<e>> \in Seq(T)
    OBVIOUS
  <2>3. a \o <<e>> \in Seq(T)
    BY <1>4, <2>2
  <2>4. QED
    BY <1>4, <2>1, <2>3
<1>7. ASSUME NEW e \in T, t = S!ReplaceAt(stored, i, e) PROVE t \in Seq(T)
  <2>1. t = [stored EXCEPT ![i] = e]
    BY <1>7 DEF S!ReplaceAt
  <2>2. QED
    BY <1>1, <1>3, <2>1
<1>8. CASE t = Append(SubSeq(stored, 1, i), Torn)
  <2> HIDE DEF d
  <2>1. Append(d, Torn) \in Seq(T)
    BY <1>2, <1>4
  <2>2. QED
    BY <1>8, <2>1 DEF d
<1>9. CASE i < L /\ t = [stored EXCEPT ![i] = stored[i + 1], ![i + 1] = stored[i]]
  <2>1. i + 1 \in 1..L /\ stored[i + 1] \in T
    BY <1>1, <1>3, <1>9
  <2> DEFINE u == [stored EXCEPT ![i] = stored[i + 1]]
  <2>2. u \in Seq(T) /\ Len(u) = L
    BY <1>1, <1>3, <2>1
  <2>3. t = [u EXCEPT ![i + 1] = stored[i]]
    BY <1>9
  <2> HIDE DEF u
  <2>4. QED
    BY <1>2, <2>1, <2>2, <2>3
<1>10. QED
  <2>1. \/ t = S!RemoveAt(stored, i)
        \/ t = S!InsertAt(stored, i, stored[i])
        \/ t = S!ReplaceAt(stored, i, Foreign(stored[i]))
        \/ t = S!ReplaceAt(stored, i, Garbled(stored[i]))
        \/ t = S!InsertAt(stored, i, Attachment("note"))
        \/ t = SubSeq(stored, 1, i)
        \/ t = Append(SubSeq(stored, 1, i), Torn)
        \/ i < L /\ t = [stored EXCEPT ![i] = stored[i + 1], ![i + 1] = stored[i]]
    BY DEF Damaged
  <2>2. QED
    BY <1>2, <1>4, <1>5, <1>6, <1>7, <1>8, <1>9, <2>1

\* Whatever a fault does to a file, its chunks are still those of the
\* recording, each under its index, and its manifests and slots vouch for
\* what they vouched for.
LEMMA DamageKeeps ==
  ASSUME IsSeq(stored), NEW i \in 2..Len(stored), NEW t \in Damaged(i)
  PROVE  /\ \A rec, to : Spreads(to) /\ Part(stored, rec, to) => Part(t, rec, to)
         /\ \A n : Vouches(stored, n) /\ (\A j \in DOMAIN stored : HasShape(stored[j])) => Vouches(t, n)
<1>1. IsSeq(t) /\ Elements(t) \subseteq Strewn(stored)
  BY DamagedFrom, OfSeq
<1>2. \A j \in DOMAIN t : t[j] \in Strewn(stored)
  BY <1>1 DEF Elements
<1>3. \A r \in Strewn(stored) : \/ r \in {Attachment("note"), Torn}
                               \/ \E j \in DOMAIN stored :
                                    r \in {stored[j], Foreign(stored[j]), Garbled(stored[j])}
  BY DEF Strewn, Elements
<1>4. ASSUME NEW rec, NEW to, Spreads(to), Part(stored, rec, to) PROVE Part(t, rec, to)
  <2>1. \A j \in DOMAIN stored : Genuine(stored[j], rec, to)
    BY <1>4 DEF Part
  <2>2. \A j \in DOMAIN stored : Genuine(Foreign(stored[j]), rec, to) /\ Genuine(Garbled(stored[j]), rec, to)
    BY <1>4, <2>1, AlteredIs
  <2>3. Genuine(Attachment("note"), rec, to) /\ Genuine(Torn, rec, to)
    BY DEF Genuine, HasShape, Attachment, Torn
  <2>4. \A r \in Strewn(stored) : Genuine(r, rec, to)
    BY <1>3, <2>1, <2>2, <2>3
  <2>5. QED
    BY <1>1, <1>2, <2>4 DEF Part
<1>5. ASSUME NEW n, Vouches(stored, n), \A j \in DOMAIN stored : HasShape(stored[j])
      PROVE  Vouches(t, n)
  <2> DEFINE Good(r) == /\ r.op = "manifest" => r = Placeholder \/ r.count = n
                        /\ r.op = "slot" => r.version # LegacyVersion
  <2>1. ASSUME NEW j \in DOMAIN stored
        PROVE  Good(stored[j]) /\ Good(Foreign(stored[j])) /\ Good(Garbled(stored[j]))
    <3> DEFINE r == stored[j]
    <3>1. Good(r)
      BY <1>5 DEF Vouches
    <3>2. HasShape(r)
      BY <1>5
    <3> DEFINE to == {<<r.to, r.key>>, <<r.to, OtherKey>>}
    <3>3. /\ \A rec : Genuine(r, <<>>, to) \/ r.op = "encChunk"
          /\ Spreads(to)
      BY <3>2 DEF Genuine, HasShape, Spreads
    <3> HIDE DEF r, to
    <3>4. CASE r.op = "encChunk"
      <4>1. Foreign(r).op = r.op
        <5>1. "op" \in DOMAIN r
          BY <3>2 DEF HasShape
        <5>2. QED
          BY <5>1 DEF Foreign
      <4>2. Garbled(r) = r
        BY <3>4 DEF Garbled
      <4>3. QED
        BY <3>1, <3>4, <4>1, <4>2 DEF r
    <3>5. CASE Genuine(r, <<>>, to)
      <4>1. /\ Foreign(r).op = r.op /\ Garbled(r).op = r.op
            /\ r = Placeholder => Foreign(r) = r /\ Garbled(r) = r
            /\ r.op = "manifest" => r = Placeholder \/ Foreign(r).count = r.count
            /\ r.op = "manifest" => Garbled(r) = r
            /\ r.op = "slot" => Foreign(r).version = r.version /\ Garbled(r).version = Malformed
        BY <3>3, <3>5, AlteredIs
      <4>2. Good(Foreign(r))
        BY <3>1, <4>1
      <4>3. Good(Garbled(r))
        BY <3>1, <4>1 DEF Malformed, LegacyVersion
      <4>4. QED
        BY <3>1, <4>2, <4>3 DEF r
    <3>6. QED
      BY <3>3, <3>4, <3>5
  <2>2. Good(Attachment("note")) /\ Good(Torn)
    BY DEF Attachment, Torn
  <2> HIDE DEF Good
  <2>3. \A r \in Strewn(stored) : Good(r)
    BY <1>3, <2>1, <2>2
  <2>4. \A j \in DOMAIN t : Good(t[j])
    BY <1>2, <2>3
  <2>5. QED
    BY <2>4 DEF Vouches, Good
<1>6. QED
  BY <1>4, <1>5

-----------------------------------------------------------------------------
(* What an encryption has written.                                         *)

DataOver(past) == \E i \in DOMAIN past : past[i].op = "dataEnd"

\* s is what an encryption for the recipients to has written of the records
\* past: their chunks, all of them, and what vouches for them.
Covers(s, past, to) ==
  /\ Part(s, Recorded(past), to)
  /\ Vouches(s, Len(Recorded(past)))
  /\ Ahead(s)
  /\ Tally(s) = Len(Recorded(past))

\* A manifest is filled in, and the data of s ends, where that of the input does.
Unclosed(s, past) ==
  /\ \A i \in DOMAIN s : s[i].op = "manifest" /\ s[i] # Placeholder => DataOver(past)
  /\ ~ Open(s) => DataOver(past)

\* Records that may be written at any time.
Silent(t, to) ==
  /\ IsSeq(t) /\ Chunkless(t) /\ Unended(t)
  /\ \A rec : Part(t, rec, to)
  /\ \A n : Vouches(t, n)
  /\ \A i \in DOMAIN t : t[i].op = "manifest" => t[i] = Placeholder

\* An output stays unclosed when nothing is added that closes it.
LEMMA UnclosedConcat ==
  ASSUME NEW s, NEW t, IsSeq(s), IsSeq(t), NEW past, Unclosed(s, past), Unended(t),
         \A i \in DOMAIN t : t[i].op = "manifest" => t[i] = Placeholder
  PROVE  Unclosed(s \o t, past)
<1> DEFINE u == s \o t
<1>1. ASSUME NEW k \in DOMAIN u
      PROVE  \/ k \in DOMAIN s /\ u[k] = s[k]
             \/ \E i \in DOMAIN t : k = Len(s) + i /\ u[k] = t[i]
  BY <1>1, ConcatSplit
<1>2. Open(s) => Open(u)
  BY Joining
<1> HIDE DEF u
<1>3. \A k \in DOMAIN u : u[k].op = "manifest" /\ u[k] # Placeholder => DataOver(past)
  BY <1>1 DEF Unclosed
<1>4. Unclosed(u, past)
  BY <1>2, <1>3 DEF Unclosed
<1>5. QED
  BY <1>4 DEF u

\* What is silent may be added.
LEMMA CoverSilent ==
  ASSUME NEW s, NEW past, NEW to, Covers(s, past, to), NEW t, Silent(t, to)
  PROVE  /\ Covers(s \o t, past, to)
         /\ Unclosed(s, past) => Unclosed(s \o t, past)
<1> DEFINE rec == Recorded(past)
           u == s \o t
<1>1. IsSeq(s) /\ IsSeq(t)
  BY DEF Covers, Part, Silent
<1>2. Part(u, rec, to)
  <2>1. Part(s, rec, to) /\ Part(t, rec, to)
    BY DEF Covers, Silent
  <2>2. QED
    BY <1>1, <2>1, Joining
<1>3. Vouches(u, Len(rec))
  <2>1. Vouches(s, Len(rec)) /\ Vouches(t, Len(rec))
    BY DEF Covers, Silent
  <2>2. QED
    BY <1>1, <2>1, Joining
<1>4. Ahead(u)
  BY <1>1, Joining DEF Covers, Silent
<1>5. Tally(u) = Len(rec)
  <2>1. Tally(u) = Tally(s) + Tally(t) /\ Tally(s) \in Nat
    BY <1>1, Joining
  <2>2. Tally(t) = 0
    BY <1>1, TallyNone DEF Silent
  <2>3. Tally(s) = Len(rec)
    BY DEF Covers
  <2> HIDE DEF u, rec
  <2>4. QED
    BY <2>1, <2>2, <2>3
<1>6. Unclosed(s, past) => Unclosed(u, past)
  BY <1>1, UnclosedConcat DEF Silent
<1>7. QED
  BY <1>2, <1>3, <1>4, <1>5, <1>6 DEF Covers

\* The data is over once a DataEnd is among the records, however many follow.
LEMMA OverGrows ==
  ASSUME NEW file, IsSeq(file), NEW m \in 0..Len(file), m < Len(file)
  PROVE  /\ DataOver(SubSeq(file, 1, m)) => DataOver(SubSeq(file, 1, m + 1))
         /\ file[m + 1].op = "dataEnd" => DataOver(SubSeq(file, 1, m + 1))
<1> DEFINE a == SubSeq(file, 1, m)
           b == SubSeq(file, 1, m + 1)
<1>1. m + 1 \in 0..Len(file) /\ m \in Nat
  BY AsFunction
<1>2. DOMAIN a = 1..m /\ \A i \in 1..m : a[i] = file[i]
  BY FrontOf
<1>3. DOMAIN b = 1..(m + 1) /\ \A i \in 1..(m + 1) : b[i] = file[i]
  BY <1>1, FrontOf
<1> HIDE DEF a, b
<1>4. \A i \in 1..m : i \in 1..(m + 1)
  BY <1>1
<1>5. m + 1 \in 1..(m + 1)
  BY <1>1
<1>6. DataOver(a) => DataOver(b)
  BY <1>2, <1>3, <1>4 DEF DataOver
<1>7. file[m + 1].op = "dataEnd" => DataOver(b)
  BY <1>3, <1>5 DEF DataOver
<1>8. QED
  BY <1>6, <1>7 DEF a, b

\* A record that is not a chunk adds nothing to the recording.
LEMMA CoverPass ==
  ASSUME NEW file, IsSeq(file), NEW m \in 0..Len(file), m < Len(file),
         file[m + 1].op # "chunk", NEW s, NEW to, Covers(s, SubSeq(file, 1, m), to)
  PROVE  /\ Covers(s, SubSeq(file, 1, m + 1), to)
         /\ Unclosed(s, SubSeq(file, 1, m)) => Unclosed(s, SubSeq(file, 1, m + 1))
         /\ Recorded(SubSeq(file, 1, m + 1)) = Recorded(SubSeq(file, 1, m))
<1> DEFINE a == SubSeq(file, 1, m)
           b == SubSeq(file, 1, m + 1)
<1>1. Recorded(b) = Recorded(a) \o <<>>
  BY RecordedGrows
<1>2. IsSeq(Recorded(a))
  BY RecordedFront
<1>3. Recorded(b) = Recorded(a)
  BY <1>1, <1>2, ConcatLen
<1>4. DataOver(a) => DataOver(b)
  BY OverGrows
<1> HIDE DEF a, b
<1>5. Covers(s, a, to) => Covers(s, b, to)
  BY <1>3 DEF Covers
<1>6. Unclosed(s, a) => Unclosed(s, b)
  BY <1>4 DEF Unclosed
<1>7. QED
  BY <1>3, <1>5, <1>6 DEF a, b

\* A chunk is sealed under its place in the recording.
LEMMA CoverChunk ==
  ASSUME NEW file, IsSeq(file), NEW m \in 0..Len(file), m < Len(file),
         file[m + 1].op = "chunk", ~ DataOver(SubSeq(file, 1, m)),
         NEW s, NEW to, Covers(s, SubSeq(file, 1, m), to), Unclosed(s, SubSeq(file, 1, m)),
         NEW k
  PROVE  LET e == EncChunk(file[m + 1].body, k, Len(Recorded(SubSeq(file, 1, m))))
         IN /\ Covers(s \o <<e>>, SubSeq(file, 1, m + 1), to)
            /\ Unclosed(s \o <<e>>, SubSeq(file, 1, m + 1))
<1> DEFINE a == SubSeq(file, 1, m)
           b == SubSeq(file, 1, m + 1)
           ra == Recorded(a)
           rb == Recorded(b)
           n == Len(ra)
           e == EncChunk(file[m + 1].body, k, n)
           t == <<e>>
           u == s \o t
<1>1. n \in Nat /\ Len(rb) = n + 1 /\ rb[n + 1] = file[m + 1].body
  BY RecordedAt
<1>2. \A i \in 1..n : rb[i] = ra[i]
  <2>1. rb = ra \o <<file[m + 1].body>>
    BY RecordedGrows
  <2>2. IsSeq(ra)
    BY RecordedFront
  <2> HIDE DEF ra, rb
  <2>3. \A x : \A i \in 1..Len(ra) : (ra \o <<x>>)[i] = ra[i]
    BY <2>2, OneMore
  <2>4. QED
    BY <2>1, <2>3
<1>3. /\ e.op = "encChunk" /\ e.idx = n /\ e.body = file[m + 1].body
      /\ DOMAIN e = {"op", "body", "key", "idx"}
  BY DEF EncChunk
<1>4. IsSeq(t) /\ DOMAIN t = {1} /\ t[1] = e
  BY Single
<1>5. IsSeq(s) /\ Part(s, ra, to) /\ Ahead(s) /\ Tally(s) = n
  BY DEF Covers, Part
<1>6. Tally(t) = 1
  BY <1>3, TallySingle
<1>7. \A i \in DOMAIN s : s[i].op = "manifest" => s[i] = Placeholder
  BY DEF Unclosed
<1>8. Open(s)
  BY DEF Unclosed
<1>9. \A i \in DOMAIN s : s[i].op = "slot" => s[i].version # LegacyVersion
  BY DEF Covers, Vouches
<1> HIDE DEF a, b, ra, rb, e, t
<1>10. Part(s, rb, to)
  <2> SUFFICES ASSUME NEW i \in DOMAIN s PROVE Genuine(s[i], rb, to)
    BY <1>5 DEF Part
  <2>1. Genuine(s[i], ra, to)
    BY <1>5 DEF Part
  <2>2. CASE s[i].op = "encChunk"
    <3>1. s[i].idx \in Nat /\ s[i].idx < n /\ s[i].body = ra[s[i].idx + 1]
      BY <2>1, <2>2 DEF Genuine
    <3>2. s[i].idx + 1 \in 1..n /\ s[i].idx < n + 1
      BY <1>1, <3>1
    <3>3. QED
      BY <1>1, <1>2, <2>1, <3>1, <3>2 DEF Genuine
  <2>3. CASE s[i].op # "encChunk"
    BY <2>1, <2>3 DEF Genuine
  <2>4. QED
    BY <2>2, <2>3
<1>11. Part(t, rb, to)
  BY <1>1, <1>3, <1>4 DEF Part, Genuine, HasShape
<1>12. Unended(t) /\ Vouches(t, n + 1)
  BY <1>3, <1>4 DEF Unended, Ends, Vouches
<1>13. Vouches(s, n + 1)
  BY <1>7, <1>9 DEF Vouches
<1>14. IsSeq(u) /\ Part(u, rb, to) /\ Vouches(u, n + 1) /\ Tally(u) = n + 1
  <2>1. IsSeq(u) /\ Vouches(u, n + 1) /\ Tally(u) = Tally(s) + Tally(t)
    BY <1>4, <1>5, <1>12, <1>13, Joining
  <2>2. Part(u, rb, to)
    BY <1>4, <1>5, <1>10, <1>11, Joining
  <2>3. QED
    BY <1>5, <1>6, <2>1, <2>2
<1>15. Open(u)
  BY <1>4, <1>5, <1>8, <1>12, Joining
<1>16. Ahead(u)
  BY <1>15, OpenIsAhead
<1>17. Covers(u, b, to)
  BY <1>1, <1>14, <1>16 DEF Covers, rb
<1>18. Unclosed(u, b)
  <2>1. \A i \in DOMAIN t : t[i].op # "manifest"
    BY <1>3, <1>4
  <2>2. \A i \in DOMAIN u : u[i].op = "manifest" => u[i] = Placeholder
    <3>1. ASSUME NEW i \in DOMAIN u
          PROVE  \/ i \in DOMAIN s /\ u[i] = s[i]
                 \/ \E j \in DOMAIN t : i = Len(s) + j /\ u[i] = t[j]
      BY <1>4, <1>5, <3>1, ConcatSplit
    <3>2. QED
      BY <1>7, <2>1, <3>1
  <2>3. QED
    BY <1>15, <2>2 DEF Unclosed
<1>19. QED
  BY <1>17, <1>18 DEF u, t, e, b, a, ra, rb

\* Records of some kinds stay what they are where only others are replaced.
LEMMA OfKindSame ==
  ASSUME NEW s, NEW t, IsSeq(s), IsSeq(t), DOMAIN t = DOMAIN s, NEW K,
         \A i \in DOMAIN s : t[i] = s[i] \/ (s[i].op \notin K /\ t[i].op \notin K)
  PROVE  OfKind(t, K) = OfKind(s, K)
<1> DEFINE at == KindAt(s, K)
           bt == KindAt(t, K)
<1>1. bt = at
  BY DEF KindAt
<1>2. at \in SUBSET DOMAIN s /\ \A i \in at : t[i] = s[i]
  BY DEF KindAt
<1>3. OfKind(s, K) = Selected(s, at) /\ OfKind(t, K) = Selected(t, bt)
  BY OfKindForm
<1> HIDE DEF at, bt
<1> DEFINE n == Cardinality(at)
           q == Sorted(at)
<1>4. /\ n \in Nat /\ q \in [1..n -> at]
      /\ Selected(s, at) = [k \in 1..n |-> s[q[k]]]
  BY <1>2, SelectedBy DEF Enumerates
<1>5. Selected(t, at) = [k \in 1..n |-> t[q[k]]]
  BY <1>2, SelectedBy
<1> HIDE DEF n, q
<1>6. \A k \in 1..n : t[q[k]] = s[q[k]]
  BY <1>2, <1>4
<1>7. Selected(t, at) = Selected(s, at)
  BY <1>4, <1>5, <1>6
<1>8. QED
  BY <1>1, <1>3, <1>7

\* Something is written that neither is nor opens a chunk.
LEMMA CoverClose ==
  ASSUME NEW s, NEW past, NEW to, Covers(s, past, to),
         NEW t, IsSeq(t), Chunkless(t), Vouches(t, Len(Recorded(past))),
         \A rec : Part(t, rec, to)
  PROVE  Covers(s \o t, past, to)
<1> DEFINE rec == Recorded(past)
           u == s \o t
<1>1. IsSeq(s) /\ Part(s, rec, to) /\ Vouches(s, Len(rec)) /\ Ahead(s) /\ Tally(s) = Len(rec)
  BY DEF Covers, Part
<1>2. Part(u, rec, to) /\ Vouches(u, Len(rec)) /\ Ahead(u)
  BY <1>1, Joining
<1>3. Tally(u) = Tally(s) + Tally(t) /\ Tally(s) \in Nat
  BY <1>1, Joining
<1>4. Tally(t) = 0
  BY TallyNone
<1> HIDE DEF u, rec
<1>5. Tally(u) = Len(rec)
  BY <1>1, <1>3, <1>4
<1>6. Covers(u, past, to)
  BY <1>2, <1>5 DEF Covers, rec
<1>7. QED
  BY <1>6 DEF u

\* The placeholder is filled in, where there is one.
LEMMA CoverPatch ==
  ASSUME NEW s, NEW past, NEW to, Covers(s, past, to), NEW p,
         p \in DOMAIN s => s[p].op = "manifest", NEW k
  PROVE  Covers([s EXCEPT ![p] = Manifest(k, Len(Recorded(past)))], past, to)
<1> DEFINE rec == Recorded(past)
           e == Manifest(k, Len(rec))
           t == [s EXCEPT ![p] = e]
<1>1. IsSeq(s) /\ Part(s, rec, to) /\ Vouches(s, Len(rec)) /\ Ahead(s) /\ Tally(s) = Len(rec)
  BY DEF Covers, Part
<1>2. e.op = "manifest" /\ e.count = Len(rec) /\ DOMAIN e = {"op", "key", "count"}
  BY DEF Manifest
<1>3. /\ DOMAIN t = DOMAIN s
      /\ \A i \in DOMAIN s : t[i] = IF i = p THEN e ELSE s[i]
  OBVIOUS
<1>4. t = [i \in DOMAIN s |-> t[i]]
  OBVIOUS
<1> HIDE DEF e, t, rec
<1>5. IsSeq(t)
  BY <1>1, <1>3, <1>4, OfPositions
<1>6. \A i \in DOMAIN s : t[i] = s[i] \/ (s[i].op = "manifest" /\ t[i] = e)
  BY <1>3
<1>7. Part(t, rec, to)
  <2>1. Genuine(e, rec, to)
    BY <1>2 DEF Genuine, HasShape
  <2>2. QED
    BY <1>1, <1>3, <1>5, <1>6, <2>1 DEF Part
<1>8. Vouches(t, Len(rec))
  BY <1>1, <1>2, <1>3, <1>6 DEF Vouches
<1>9. Tally(t) = Tally(s)
  <2>1. \A i \in DOMAIN s : t[i] = s[i] \/ (s[i].op \notin {"encChunk"} /\ t[i].op \notin {"encChunk"})
    BY <1>2, <1>6
  <2>2. OfKind(t, {"encChunk"}) = OfKind(s, {"encChunk"})
    BY <1>1, <1>3, <1>5, <2>1, OfKindSame
  <2>3. QED
    BY <2>2 DEF Tally
<1>10. Ahead(t)
  <2> SUFFICES ASSUME NEW i \in DOMAIN s, NEW j \in DOMAIN s, t[i].op = "encChunk",
                      j > 1, t[j].op \in Ends
               PROVE  i < j
    BY <1>3 DEF Ahead
  <2>1. t[i] = s[i] /\ t[j] = s[j]
    BY <1>2, <1>6 DEF Ends
  <2>2. QED
    BY <1>1, <2>1 DEF Ahead
<1>11. QED
  BY <1>1, <1>7, <1>8, <1>9, <1>10 DEF Covers, t, e, rec

\* Where the input is over, all of its chunks are written.
LEMMA CoverStart ==
  ASSUME NEW file, IsSeq(file), NEW to
  PROVE  /\ Covers(<<>>, SubSeq(file, 1, 0), to) /\ Unclosed(<<>>, SubSeq(file, 1, 0))
         /\ Covers(<<Magic>>, SubSeq(file, 1, 0), to) /\ Unclosed(<<Magic>>, SubSeq(file, 1, 0))
         /\ Recorded(SubSeq(file, 1, 0)) = <<>>
<1> DEFINE a == SubSeq(file, 1, 0)
           r == Recorded(a)
           e == <<>>
           s == <<Magic>>
<1>1. 0 \in 0..Len(file)
  BY AsFunction
<1>2. IsSeq(a) /\ Len(a) = 0 /\ DOMAIN a = 1..0
  BY <1>1, FrontOf
<1> HIDE DEF a
<1>3. r = <<>>
  <2>1. \A i \in DOMAIN a : a[i].op \notin {"chunk"}
    BY <1>2
  <2>2. OfKind(a, {"chunk"}) = <<>>
    BY <1>2, <2>1, OfKindNone
  <2>3. QED
    BY <2>2 DEF Recorded, Bodies
<1>4. IsSeq(e) /\ DOMAIN e = {}
  BY <1>2, ConcatLen
<1>5. IsSeq(s) /\ DOMAIN s = {1} /\ s[1] = Magic /\ Quiet(s)
  BY Single, FrameIsQuiet
<1> HIDE DEF e, s
<1>6. Len(r) = 0
  BY <1>3
<1> HIDE DEF r
<1>7. Quiet(e) /\ Open(e)
  BY <1>4 DEF Quiet, Open
<1>8. Open(s)
  BY <1>5 DEF Open
<1>9. ASSUME NEW t \in {e, s} PROVE Covers(t, a, to) /\ Unclosed(t, a)
  <2>1. Quiet(t) /\ Open(t)
    BY <1>5, <1>7, <1>8
  <2>2. /\ Tally(t) = 0 /\ Part(t, r, to) /\ Vouches(t, Len(r))
    BY <2>1, QuietIs
  <2>3. Ahead(t)
    BY <2>1, OpenIsAhead
  <2>4. Covers(t, a, to)
    BY <1>6, <2>2, <2>3 DEF Covers, r
  <2>5. Unclosed(t, a)
    BY <2>1 DEF Unclosed, Quiet
  <2>6. QED
    BY <2>4, <2>5
<1>10. QED
  BY <1>3, <1>9 DEF a, e, s, r

\* Two silent parts, one behind the other.
LEMMA SilentConcat ==
  ASSUME NEW s, NEW t, NEW to, Silent(s, to), Silent(t, to)
  PROVE  Silent(s \o t, to)
<1> DEFINE u == s \o t
<1>1. IsSeq(s) /\ IsSeq(t)
  BY DEF Silent
<1>2. IsSeq(u) /\ Chunkless(u) /\ Unended(u)
  BY <1>1, Joining DEF Silent
<1>3. \A rec : Part(u, rec, to)
  <2> TAKE rec
  <2>1. Part(s, rec, to) /\ Part(t, rec, to)
    BY DEF Silent
  <2>2. QED
    BY <1>1, <2>1, Joining
<1>4. \A n : Vouches(u, n)
  <2> TAKE n
  <2>1. Vouches(s, n) /\ Vouches(t, n)
    BY DEF Silent
  <2>2. QED
    BY <1>1, <2>1, Joining
<1>5. ASSUME NEW k \in DOMAIN u
      PROVE  \/ k \in DOMAIN s /\ u[k] = s[k]
             \/ \E i \in DOMAIN t : k = Len(s) + i /\ u[k] = t[i]
  BY <1>1, <1>5, ConcatSplit
<1> HIDE DEF u
<1>6. \A i \in DOMAIN u : u[i].op = "manifest" => u[i] = Placeholder
  BY <1>5 DEF Silent
<1>7. Silent(u, to)
  BY <1>2, <1>3, <1>4, <1>6 DEF Silent
<1>8. QED
  BY <1>7 DEF u

\* Neither keys nor chunks, and no end of the data.
LEMMA SilentQuiet ==
  ASSUME NEW s, Quiet(s), Unended(s), NEW to
  PROVE  Silent(s, to)
<1>1. IsSeq(s) /\ Chunkless(s) /\ (\A rec : Part(s, rec, to)) /\ \A n : Vouches(s, n)
  BY QuietIs
<1>2. \A i \in DOMAIN s : s[i].op # "manifest"
  BY DEF Quiet
<1>3. QED
  BY <1>1, <1>2 DEF Silent

\* A single record that is neither.
LEMMA SilentOne ==
  ASSUME NEW r, "op" \in DOMAIN r,
         r.op \notin Ends \cup {"encChunk", "slot", "manifest"}, NEW to
  PROVE  Silent(<<r>>, to)
<1>1. IsSeq(<<r>>) /\ DOMAIN <<r>> = {1} /\ <<r>>[1] = r
  BY Single
<1> DEFINE s == <<r>>
<1> HIDE DEF s
<1>2. Quiet(s) /\ Unended(s)
  BY <1>1 DEF s, Quiet, Unended
<1>3. Silent(s, to)
  BY <1>2, SilentQuiet
<1>4. QED
  BY <1>3 DEF s

\* Definitions are silent,
LEMMA SilentDefs ==
  ASSUME NEW ds, IsSeq(ds), NEW to
  PROVE  Silent(Records(ds, Def), to)
<1>1. Quiet(Records(ds, Def)) /\ Unended(Records(ds, Def))
  BY DefsAreQuiet
<1>2. QED
  BY <1>1, SilentQuiet

\* slots are, for their recipients,
LEMMA SilentSlots ==
  ASSUME NEW list, IsSeq(list), NEW k, NEW to, \A h \in Elements(list) : <<h, k>> \in to
  PROVE  Silent(MadeSlots(list, k), to)
<1> DEFINE s == MadeSlots(list, k)
<1>1. /\ IsSeq(s) /\ Chunkless(s) /\ Unended(s)
      /\ \A rec : Part(s, rec, to)
      /\ \A n : Vouches(s, n)
  BY SlotsArePart
<1>2. \A i \in DOMAIN s : s[i].op = "slot"
  BY DEF MadeSlots, Records, Slot
<1> HIDE DEF s
<1>3. Silent(s, to)
  BY <1>1, <1>2 DEF Silent
<1>4. QED
  BY <1>3 DEF s

\* the placeholder of a manifest is,
LEMMA SilentPlaceholder ==
  ASSUME NEW to
  PROVE  Silent(<<Placeholder>>, to)
<1> DEFINE s == <<Placeholder>>
<1>1. /\ IsSeq(s) /\ Chunkless(s) /\ Unended(s)
      /\ \A rec : Part(s, rec, to)
      /\ DOMAIN s = {1} /\ s[1] = Placeholder
  BY ManifestAlone DEF Placeholder
<1>2. Placeholder.op = "manifest"
  BY DEF Placeholder, Manifest
<1> HIDE DEF s
<1>3. Silent(s, to)
  BY <1>1, <1>2 DEF Silent, Vouches
<1>4. QED
  BY <1>3 DEF s

\* What the slots of this encryption give.
To == Given(Elements(recipients))

\* and so is what is written ahead of everything encrypted.
LEMMA SilentOpening ==
  ASSUME IsSeq(pending), IsSeq(recipients)
  PROVE  /\ Silent(Opening, To) /\ Silent(Preamble, To)
         /\ Len(Preamble) \in DOMAIN Preamble /\ Preamble[Len(Preamble)] = Placeholder
<1> DEFINE to == To
           a == Records(pending, Def)
           b == MadeSlots(recipients, SymKey)
           e == Placeholder
<1>1. Silent(a, to) /\ Silent(b, to) /\ Silent(<<e>>, to)
  <2>1. \A h \in Elements(recipients) : <<h, SymKey>> \in to
    BY DEF To, Given, Keys
  <2> HIDE DEF to
  <2>2. QED
    BY <2>1, SilentDefs, SilentSlots, SilentPlaceholder
<1>2. Opening = a \o b
  BY DEF Opening, Slots, MadeSlots
<1>3. Preamble = Opening \o <<e>>
  BY DEF Preamble
<1> HIDE DEF a, b, to, e
<1>4. Silent(Opening, to)
  BY <1>1, <1>2, SilentConcat
<1>5. Silent(Preamble, to)
  BY <1>1, <1>3, <1>4, SilentConcat
<1>6. IsSeq(Opening)
  BY <1>4 DEF Silent
<1> DEFINE o == Opening
<1> HIDE DEF o
<1>7. /\ Len(o) \in Nat /\ Len(o \o <<e>>) = Len(o) + 1
      /\ DOMAIN (o \o <<e>>) = 1..(Len(o) + 1)
      /\ (o \o <<e>>)[Len(o) + 1] = e
  BY <1>6, OneMore DEF o
<1>8. Len(o) + 1 \in 1..(Len(o) + 1)
  BY <1>7
<1>9. Len(Preamble) = Len(o) + 1 /\ DOMAIN Preamble = 1..(Len(o) + 1) /\ Preamble[Len(o) + 1] = e
  BY <1>3, <1>7 DEF o
<1>10. QED
  BY <1>4, <1>5, <1>8, <1>9 DEF to, e

-----------------------------------------------------------------------------
(* The invariant: encryption.                                              *)

Rec == Recorded(source)
Past == SubSeq(source, 1, encPos - 1)
Taken == Recorded(Past)

EncBase ==
  /\ source \in Sources
  /\ mode \in Modes
  /\ recipients \in RecipientLists
  /\ encPos \in 1..(Len(source) + 1)

\* There is a manifest at position p.
ManifestIn(s, p) == p \in DOMAIN s /\ s[p].op = "manifest"

EncPart ==
  /\ IsSeq(pending) /\ IsSeq(encChunkMetas)
  /\ encState \in {"start", "checked", "collected"} => out = <<>> /\ encPos = 1 /\ ~ flushed
  /\ chunkIdx = Len(Taken)
  /\ Covers(out, Past, To)
  /\ encState # "done" => Unclosed(out, Past)
  /\ encState = "done" => Taken = Rec
  /\ mode = "file" /\ flushed => ManifestIn(out, manifestAt)
  /\ mode = "stream" /\ ~ flushed /\ encState # "done" => out = <<>> /\ encPos = 1
  /\ encState \in {"start", "checked", "collected", "reading", "done", "failed"}

\* The input and the recipients are sequences.
LEMMA InputIs ==
  ASSUME EncBase
  PROVE  /\ IsSeq(source) /\ IsSeq(recipients)
         /\ \A i \in DOMAIN source : "op" \in DOMAIN source[i]
         /\ \A i, j \in DOMAIN source :
              /\ source[i].op \in {"chunk", "attachment", "metadata"}
              /\ source[j].op \in {"dataEnd", "footer", "torn", "magic"}
              => i < j
         /\ \A i \in DOMAIN source : source[i].op = "chunk" => source[i].body \in DOMAIN Uses
         /\ DOMAIN source = 1..Len(source) /\ Len(source) \in Nat
<1>1. IsSeq(source) /\ IsSeq(recipients)
  BY SourcesAssumption, RecipientListsAssumption DEF EncBase, IsSeq
<1>2. DOMAIN source = 1..Len(source) /\ Len(source) \in Nat
  BY <1>1, AsFunction
<1>3. /\ \A i \in DOMAIN source : "op" \in DOMAIN source[i]
      /\ \A i, j \in DOMAIN source :
              /\ source[i].op \in {"chunk", "attachment", "metadata"}
              /\ source[j].op \in {"dataEnd", "footer", "torn", "magic"}
              => i < j
      /\ \A i \in DOMAIN source : source[i].op = "chunk" => source[i].body \in DOMAIN Uses
  BY SourcesAssumption DEF EncBase
<1>4. QED
  BY <1>1, <1>2, <1>3

\* Pass 1 yields a sequence of definitions.
LEMMA CollectedIs ==
  ASSUME EncBase
  PROVE  IsSeq(Definitions(source))
BY InputIs, CollectedAreSeq

\* A manifest stays where it is when the output grows.
LEMMA ManifestStays ==
  ASSUME NEW s, NEW t, IsSeq(s), IsSeq(t), NEW p, ManifestIn(s, p)
  PROVE  ManifestIn(s \o t, p)
<1> DEFINE u == s \o t
<1>1. /\ Len(s) \in Nat /\ Len(t) \in Nat /\ DOMAIN s = 1..Len(s)
      /\ DOMAIN u = 1..(Len(s) + Len(t)) /\ \A i \in 1..Len(s) : u[i] = s[i]
  BY Concat
<1> HIDE DEF u
<1>2. p \in 1..Len(s) /\ s[p].op = "manifest"
  BY <1>1 DEF ManifestIn
<1>3. p \in 1..(Len(s) + Len(t)) /\ u[p] = s[p]
  BY <1>1, <1>2
<1>4. ManifestIn(u, p)
  BY <1>1, <1>2, <1>3 DEF ManifestIn
<1>5. QED
  BY <1>4 DEF u

\* flushPending changes nothing that is said of the output.
LEMMA Flushing ==
  ASSUME EncBase, EncPart, encState = "reading"
  PROVE  /\ Covers(FlushedOut, Past, To) /\ Unclosed(FlushedOut, Past) /\ IsSeq(FlushedOut)
         /\ mode = "file" => ManifestIn(FlushedOut, FlushedAt)
<1>1. Covers(out, Past, To) /\ Unclosed(out, Past)
  BY DEF EncPart
<1>2. IsSeq(out)
  BY <1>1 DEF Covers, Part
<1>3. CASE MustFlush
  <2>1. FlushedOut = out \o Preamble /\ FlushedAt = Len(out) + Len(Preamble)
    BY <1>3 DEF FlushedOut, FlushedAt
  <2>2. IsSeq(pending) /\ IsSeq(recipients)
    BY InputIs DEF EncPart
  <2>3. /\ Silent(Preamble, To)
        /\ Len(Preamble) \in DOMAIN Preamble /\ Preamble[Len(Preamble)] = Placeholder
    BY <2>2, SilentOpening
  <2> DEFINE p == Preamble
             u == out \o p
  <2>4. Silent(p, To) /\ Len(p) \in DOMAIN p /\ p[Len(p)] = Placeholder
    BY <2>3
  <2> HIDE DEF p
  <2>5. Covers(u, Past, To) /\ Unclosed(u, Past)
    BY <1>1, <2>4, CoverSilent
  <2>6. IsSeq(u)
    BY <2>5 DEF Covers, Part
  <2>7. IsSeq(p)
    BY <2>4 DEF Silent
  <2>8. u[Len(out) + Len(p)] = Placeholder
    <3>1. DOMAIN p = 1..Len(p) /\ \A i \in 1..Len(p) : (out \o p)[Len(out) + i] = p[i]
      BY <1>2, <2>7, Concat
    <3>2. QED
      BY <2>4, <3>1
  <2>9. Len(out) + Len(p) \in DOMAIN u
    <3>1. DOMAIN p = 1..Len(p) /\ DOMAIN (out \o p) = 1..(Len(out) + Len(p))
          /\ Len(out) \in Nat /\ Len(p) \in Nat
      BY <1>2, <2>7, Concat
    <3>2. Len(p) \in 1..Len(p)
      BY <2>4, <3>1
    <3>3. Len(out) + Len(p) \in 1..(Len(out) + Len(p))
      BY <3>1, <3>2
    <3>4. QED
      BY <3>1, <3>3
  <2>10. QED
    BY <2>1, <2>5, <2>6, <2>8, <2>9 DEF p, Placeholder, Manifest, ManifestIn
<1>4. CASE ~ MustFlush
  <2>1. FlushedOut = out /\ FlushedAt = manifestAt
    BY <1>4 DEF FlushedOut, FlushedAt
  <2>2. mode = "file" => flushed
    BY <1>4 DEF MustFlush
  <2>3. QED
    BY <1>1, <1>2, <2>1, <2>2 DEF EncPart
<1>5. QED
  BY <1>3, <1>4

\* Whatever a stream has taken, its header was first.
LEMMA Started ==
  ASSUME EncBase, EncPart, NEW ops, At(ops), "header" \notin ops, "torn" \notin ops,
         mode = "stream"
  PROVE  flushed
<1> SUFFICES ASSUME ~ flushed PROVE FALSE
  OBVIOUS
<1>1. encState = "reading" /\ encPos <= Len(source) /\ source[encPos].op \in ops
  BY DEF At
<1>2. encPos = 1
  BY <1>1 DEF EncPart
<1>3. source # <<>> => source[1].op \in {"header", "torn"}
  BY SourcesAssumption DEF EncBase
<1>4. source # <<>>
  BY <1>1, <1>2
<1>5. QED
  BY <1>1, <1>2, <1>3, <1>4

\* The record pass 2 is at.
LEMMA Reading ==
  ASSUME EncBase, NEW ops, At(ops)
  PROVE  LET m == encPos - 1
         IN /\ IsSeq(source) /\ m \in 0..Len(source) /\ m < Len(source) /\ m + 1 = encPos
            /\ encPos \in DOMAIN source /\ "op" \in DOMAIN source[encPos]
            /\ encPos + 1 \in 1..(Len(source) + 1) /\ (encPos + 1) - 1 = m + 1
            /\ Past = SubSeq(source, 1, m)
            /\ source[m + 1] = source[encPos] /\ source[encPos].op \in ops
<1>1. IsSeq(source) /\ DOMAIN source = 1..Len(source) /\ Len(source) \in Nat
  BY InputIs
<1>2. encPos \in 1..(Len(source) + 1) /\ encPos <= Len(source) /\ source[encPos].op \in ops
  BY DEF EncBase, At
<1> DEFINE L == Len(source)
<1> HIDE DEF L
<1>3. /\ encPos - 1 \in 0..L /\ encPos - 1 < L /\ (encPos - 1) + 1 = encPos
      /\ encPos \in 1..L /\ encPos + 1 \in 1..(L + 1) /\ (encPos + 1) - 1 = (encPos - 1) + 1
  BY <1>1, <1>2 DEF L
<1>4. encPos \in DOMAIN source
  BY <1>1, <1>3 DEF L
<1>5. "op" \in DOMAIN source[encPos]
  BY <1>4, InputIs
<1>6. QED
  BY <1>1, <1>2, <1>3, <1>4, <1>5 DEF L, Past

\* A record that is not a chunk has been read.
LEMMA PassOver ==
  ASSUME EncBase, EncPart, NEW ops, At(ops), "chunk" \notin ops,
         UNCHANGED <<encInput, pending, chunkIdx, encChunkMetas, encState>>, Advance,
         Covers(out', Past, To), Unclosed(out', Past) \/ source[encPos].op = "dataEnd",
         mode = "file" /\ flushed' => ManifestIn(out', manifestAt'),
         mode = "stream" => flushed'
  PROVE  EncBase' /\ EncPart'
<1> DEFINE m == encPos - 1
           new == SubSeq(source, 1, m + 1)
<1>1. /\ IsSeq(source) /\ m \in 0..Len(source) /\ m < Len(source) /\ m + 1 = encPos
      /\ encPos + 1 \in 1..(Len(source) + 1) /\ (encPos + 1) - 1 = m + 1
      /\ Past = SubSeq(source, 1, m)
      /\ source[m + 1] = source[encPos] /\ source[encPos].op \in ops
  BY Reading
<1>2. /\ source' = source /\ mode' = mode /\ recipients' = recipients /\ encPos' = encPos + 1
      /\ pending' = pending /\ chunkIdx' = chunkIdx /\ encChunkMetas' = encChunkMetas
      /\ encState' = encState /\ encState = "reading"
  BY DEF encInput, Advance, At
<1>3. Past' = new /\ To' = To /\ Rec' = Rec
  BY <1>1, <1>2 DEF Past, To, Rec
<1>4. source[m + 1].op # "chunk"
  BY <1>1
<1>5. Covers(out', SubSeq(source, 1, m), To)
  BY <1>1
<1> DEFINE o == out'
           to == To
<1>6. /\ Covers(o, new, to)
      /\ Unclosed(o, SubSeq(source, 1, m)) => Unclosed(o, new)
      /\ Recorded(new) = Recorded(SubSeq(source, 1, m))
  <2>1. Covers(o, SubSeq(source, 1, m), to)
    BY <1>5
  <2> HIDE DEF o, to, m
  <2>2. QED
    BY <1>1, <1>4, <2>1, CoverPass
<1>7. Unclosed(o, new)
  <2>1. CASE Unclosed(o, Past)
    BY <1>1, <1>6, <2>1
  <2>2. CASE source[encPos].op = "dataEnd"
    <3>1. DataOver(new)
      BY <1>1, <2>2, OverGrows
    <3>2. QED
      BY <3>1 DEF Unclosed
  <2>3. QED
    BY <2>1, <2>2
<1> HIDE DEF new, m
<1>8. Taken' = Taken
  BY <1>1, <1>3, <1>6 DEF Taken, m
<1>9. EncBase'
  BY <1>1, <1>2 DEF EncBase
<1>10. IsSeq(pending)' /\ IsSeq(encChunkMetas)'
  BY <1>2 DEF EncPart
<1>11. (chunkIdx = Len(Taken))'
  BY <1>2, <1>8 DEF EncPart
<1>12. Covers(out, Past, To)' /\ Unclosed(out, Past)'
  BY <1>3, <1>6, <1>7
<1>13. EncPart'
  BY <1>2, <1>10, <1>11, <1>12 DEF EncPart
<1>14. QED
  BY <1>9, <1>13

\* A record that is left out.
LEMMA SkipKeeps ==
  ASSUME EncBase, EncPart, Skip PROVE EncBase' /\ EncPart'
<1> DEFINE ops == {"def"} \cup Indexes \cup Encrypted
<1>1. At(ops) /\ "chunk" \notin ops
  BY DEF Skip, Indexes, Encrypted
<1>2. /\ UNCHANGED <<encInput, pending, chunkIdx, encChunkMetas, encState>> /\ Advance
      /\ out' = out /\ flushed' = flushed /\ manifestAt' = manifestAt /\ encState = "reading"
  BY DEF Skip, encMarks, At
<1>3. Covers(out', Past, To) /\ Unclosed(out', Past)
  BY <1>2 DEF EncPart
<1>4. mode = "file" /\ flushed' => ManifestIn(out', manifestAt')
  BY <1>2 DEF EncPart
<1>5. "header" \notin ops /\ "torn" \notin ops
  BY DEF Indexes, Encrypted
<1> HIDE DEF ops
<1>6. mode = "stream" => flushed'
  BY <1>1, <1>2, <1>5, Started
<1>7. QED
  BY <1>1, <1>2, <1>3, <1>4, <1>6, PassOver

\* The encryption stops, or nothing is said about the output.
LEMMA StopKeeps ==
  ASSUME EncBase, EncPart, UNCHANGED <<encInput, encPos, encMarks, chunkIdx, encChunkMetas, out>>,
         \/ Fail /\ pending' = pending /\ encState \in {"start", "reading"}
         \/ encState = "start" /\ encState' = "checked" /\ pending' = pending
         \/ encState = "checked" /\ encState' = "collected" /\ pending' = Definitions(source)
  PROVE  EncBase' /\ EncPart'
<1>1. /\ source' = source /\ mode' = mode /\ recipients' = recipients /\ encPos' = encPos
      /\ flushed' = flushed /\ manifestAt' = manifestAt
      /\ chunkIdx' = chunkIdx /\ encChunkMetas' = encChunkMetas /\ out' = out
  BY DEF encInput, encMarks
<1>2. Past' = Past /\ To' = To /\ Rec' = Rec /\ Taken' = Taken
  BY <1>1 DEF Past, To, Rec, Taken
<1>3. IsSeq(pending')
  BY CollectedIs DEF EncPart
<1>4. EncBase'
  BY <1>1 DEF EncBase
<1>5. Covers(out, Past, To)' /\ Unclosed(out, Past)'
  BY <1>1, <1>2 DEF EncPart, Fail
<1>6. encState' \in {"checked", "collected"} => encState \in {"start", "checked"}
  BY DEF Fail
<1>7. encState' \in {"failed", "checked", "collected"}
  BY DEF Fail
<1>8. EncPart'
  BY <1>1, <1>2, <1>3, <1>5, <1>6, <1>7 DEF EncPart
<1>9. QED
  BY <1>4, <1>8

\* The beginning of the second pass.
LEMMA OpenPass2Keeps ==
  ASSUME EncBase, EncPart, OpenPass2 PROVE EncBase' /\ EncPart'
<1>1. /\ source' = source /\ mode' = mode /\ recipients' = recipients /\ encPos' = encPos
      /\ flushed' = flushed /\ manifestAt' = manifestAt /\ pending' = pending
      /\ chunkIdx' = chunkIdx /\ encChunkMetas' = encChunkMetas
      /\ encState = "collected" /\ encState' = "reading"
      /\ out' \in {<<>>, <<Magic>>} /\ (mode = "stream" => out' = <<>>)
  BY DEF OpenPass2, encInput, encMarks
<1>2. Past' = Past /\ To' = To /\ Rec' = Rec /\ Taken' = Taken
  BY <1>1 DEF Past, To, Rec, Taken
<1>3. EncBase'
  BY <1>1 DEF EncBase
<1>4. encPos = 1 /\ ~ flushed
  BY <1>1 DEF EncPart
<1>5. Past = SubSeq(source, 1, 0)
  BY <1>4 DEF Past
<1>6. \A t \in {<<>>, <<Magic>>} : Covers(t, Past, To) /\ Unclosed(t, Past)
  BY <1>5, InputIs, CoverStart
<1>7. Covers(out, Past, To)' /\ Unclosed(out, Past)'
  BY <1>1, <1>2, <1>6
<1>9. EncPart'
  BY <1>1, <1>2, <1>4, <1>7 DEF EncPart
<1>10. QED
  BY <1>3, <1>9

\* The header.
LEMMA TakeHeaderKeeps ==
  ASSUME EncBase, EncPart, TakeHeader PROVE EncBase' /\ EncPart'
<1>1. /\ At({"header"}) /\ encState = "reading"
      /\ UNCHANGED <<encInput, pending, chunkIdx, encChunkMetas, encState>> /\ Advance
      /\ manifestAt' = manifestAt /\ flushed' = (flushed \/ mode = "stream")
      /\ out' = CASE mode = "file" -> Append(out, Header)
                  [] mode = "stream" /\ ~ flushed -> out \o <<Magic, Header>> \o Opening
                  [] OTHER -> out
  BY DEF TakeHeader, At
<1>2. Covers(out, Past, To) /\ Unclosed(out, Past) /\ IsSeq(out)
  BY <1>1 DEF EncPart, Covers, Part
<1>3. mode \in {"file", "stream"}
  BY ModesAssumption DEF EncBase
<1>4. CASE mode = "file"
  <2> DEFINE h == Header
             t == <<h>>
  <2>1. Silent(t, To) /\ IsSeq(t)
    <3>1. "op" \in DOMAIN h /\ h.op \notin Ends \cup {"encChunk", "slot", "manifest"}
      BY DEF Header, Ends
    <3> HIDE DEF h
    <3>2. Silent(t, To)
      BY <3>1, SilentOne
    <3>3. QED
      BY <3>2 DEF Silent
  <2>2. out' = out \o t
    <3>1. out' = Append(out, h)
      BY <1>1, <1>4
    <3> HIDE DEF h
    <3>2. QED
      BY <1>2, <3>1, AppendOne
  <2> HIDE DEF t, h
  <2>3. Covers(out', Past, To) /\ Unclosed(out', Past)
    BY <1>2, <2>1, <2>2, CoverSilent
  <2>4. mode = "file" /\ flushed' => ManifestIn(out', manifestAt')
    <3>1. flushed' => flushed
      BY <1>1, <1>4
    <3>2. flushed => ManifestIn(out, manifestAt)
      BY <1>4 DEF EncPart
    <3>3. QED
      BY <1>1, <1>2, <2>1, <2>2, <3>1, <3>2, ManifestStays
  <2>5. QED
    BY <1>1, <1>4, <2>3, <2>4, PassOver
<1>5. CASE mode = "stream" /\ ~ flushed
  <2> DEFINE g == Magic
             h == Header
             t == <<g, h>>
             o == Opening
             u == out \o t
  <2>1. out' = u \o o
    BY <1>1, <1>5
  <2>2. IsSeq(pending) /\ IsSeq(recipients)
    BY InputIs DEF EncPart
  <2>3. Silent(o, To)
    BY <2>2, SilentOpening
  <2>4. out = <<>>
    BY <1>1, <1>5 DEF EncPart
  <2>5. u = t
    <3>1. IsSeq(t)
      BY Pair
    <3> HIDE DEF t
    <3>2. QED
      BY <2>4, <3>1, ConcatLen
  <2>6. Covers(t, Past, To) /\ Unclosed(t, Past)
    <3>1. IsSeq(source) /\ 0 \in 0..Len(source)
      BY InputIs
    <3>2. encPos = 1
      BY <1>1, <1>5 DEF EncPart
    <3>3. Past = SubSeq(source, 1, 0)
      BY <3>2 DEF Past
    <3> DEFINE a == <<g>>
               b == <<h>>
    <3>4. Covers(a, Past, To) /\ Unclosed(a, Past)
      BY <3>1, <3>3, CoverStart
    <3>5. Silent(b, To)
      <4>1. "op" \in DOMAIN h /\ h.op \notin Ends \cup {"encChunk", "slot", "manifest"}
        BY DEF Header, Ends
      <4> HIDE DEF h
      <4>2. QED
        BY <4>1, SilentOne
    <3>6. a \o b = t
      BY PairIsConcat
    <3> HIDE DEF a, b, t
    <3>7. Covers(a \o b, Past, To) /\ Unclosed(a \o b, Past)
      BY <3>4, <3>5, CoverSilent
    <3>8. QED
      BY <3>6, <3>7
  <2> HIDE DEF o, t, u
  <2>7. Covers(t \o o, Past, To) /\ Unclosed(t \o o, Past)
    BY <2>3, <2>6, CoverSilent
  <2>8. Covers(out', Past, To) /\ Unclosed(out', Past)
    BY <2>1, <2>5, <2>7
  <2>9. QED
    BY <1>1, <1>5, <2>8, PassOver
<1>6. CASE mode = "stream" /\ flushed
  <2>1. out' = out
    BY <1>1, <1>6
  <2>2. QED
    BY <1>1, <1>2, <1>6, <2>1, PassOver
<1>7. QED
  BY <1>3, <1>4, <1>5, <1>6

\* A record other than a chunk is written.
LEMMA SealKeeps ==
  ASSUME EncBase, EncPart, NEW ops, At(ops), ops \cap {"chunk", "header", "torn"} = {},
         NEW e, "op" \in DOMAIN e,
         e.op \notin Ends \cup {"encChunk", "slot", "manifest"},
         FlushAndWrite(<<e>>), Advance,
         UNCHANGED <<encInput, pending, chunkIdx, encChunkMetas, encState>>
  PROVE  EncBase' /\ EncPart'
<1> DEFINE t == <<e>>
<1>1. Silent(t, To) /\ IsSeq(t)
  <2>1. Silent(t, To)
    BY SilentOne
  <2>2. QED
    BY <2>1 DEF Silent
<1>2. /\ out' = FlushedOut \o t /\ manifestAt' = FlushedAt /\ flushed' = (flushed \/ mode = "file")
      /\ encState = "reading"
  BY DEF FlushAndWrite, At
<1> HIDE DEF t
<1>3. /\ Covers(FlushedOut, Past, To) /\ Unclosed(FlushedOut, Past) /\ IsSeq(FlushedOut)
      /\ mode = "file" => ManifestIn(FlushedOut, FlushedAt)
  BY <1>2, Flushing
<1>4. Covers(out', Past, To) /\ Unclosed(out', Past)
  BY <1>1, <1>2, <1>3, CoverSilent
<1>5. mode = "file" /\ flushed' => ManifestIn(out', manifestAt')
  BY <1>1, <1>2, <1>3, ManifestStays
<1>6. mode = "stream" => flushed'
  BY <1>2, Started
<1>7. QED
  BY <1>4, <1>5, <1>6, PassOver

\* An attachment, which is encrypted,
LEMMA AttachmentKeeps ==
  ASSUME EncBase, EncPart, TakeAttachment PROVE EncBase' /\ EncPart'
<1> DEFINE e == EncAttachment(source[encPos].body, SymKey)
           ops == {"attachment"}
<1>1. "op" \in DOMAIN e /\ e.op \notin Ends \cup {"encChunk", "slot", "manifest"}
  BY DEF EncAttachment, Ends
<1>2. /\ At(ops) /\ ops \cap {"chunk", "header", "torn"} = {}
      /\ FlushAndWrite(<<e>>) /\ Advance
      /\ UNCHANGED <<encInput, pending, chunkIdx, encChunkMetas, encState>>
  BY DEF TakeAttachment
<1> HIDE DEF e, ops
<1>3. QED
  BY <1>1, <1>2, SealKeeps

\* a metadata record, which may be,
LEMMA MetadataKeeps ==
  ASSUME EncBase, EncPart, TakeMetadata PROVE EncBase' /\ EncPart'
<1> DEFINE s == EncMetadata(source[encPos].body, SymKey)
           e == IF metadataMode = "plaintext" THEN source[encPos] ELSE s
           ops == {"metadata"}
<1>1. /\ At(ops) /\ ops \cap {"chunk", "header", "torn"} = {}
      /\ FlushAndWrite(<<e>>) /\ Advance
      /\ UNCHANGED <<encInput, pending, chunkIdx, encChunkMetas, encState>>
  BY DEF TakeMetadata
<1>2. "op" \in DOMAIN source[encPos] /\ source[encPos].op = "metadata"
  BY <1>1, Reading
<1>3. "op" \in DOMAIN s /\ s.op = "encMetadata"
  BY DEF EncMetadata
<1> HIDE DEF s
<1>4. "op" \in DOMAIN e /\ e.op \notin Ends \cup {"encChunk", "slot", "manifest"}
  BY <1>2, <1>3 DEF Ends
<1> HIDE DEF e, ops
<1>5. QED
  BY <1>1, <1>4, SealKeeps

\* The data of a recording is over when its chunks are.
LEMMA OverIsAll ==
  ASSUME EncBase, DataOver(Past)
  PROVE  /\ Taken = Rec
         /\ encPos <= Len(source) => source[encPos].op # "chunk"
<1> DEFINE m == encPos - 1
           past == SubSeq(source, 1, m)
<1>1. /\ IsSeq(source) /\ DOMAIN source = 1..Len(source) /\ Len(source) \in Nat
      /\ \A i, j \in DOMAIN source :
           source[i].op = "chunk" /\ source[j].op = "dataEnd" => i < j
  BY InputIs
<1>2. m \in 0..Len(source) /\ encPos \in Nat /\ m < encPos /\ encPos >= 1
  BY <1>1 DEF EncBase
<1>3. PICK j \in DOMAIN past : past[j].op = "dataEnd"
  BY DEF DataOver, Past
<1>4. j \in 1..m /\ j \in DOMAIN source /\ source[j].op = "dataEnd"
  <2>1. DOMAIN past = 1..m /\ \A i \in 1..m : past[i] = source[i] /\ i \in DOMAIN source
    BY <1>1, <1>2, FrontOf
  <2>2. QED
    BY <1>3, <2>1
<1> HIDE DEF m
<1>5. \A i \in DOMAIN source : source[i].op = "chunk" => i <= m
  <2> SUFFICES ASSUME NEW i \in DOMAIN source, source[i].op = "chunk" PROVE i <= m
    OBVIOUS
  <2>1. i < j
    BY <1>1, <1>4
  <2>2. i \in Nat /\ j \in Nat /\ m \in Nat /\ j <= m
    BY <1>1, <1>2, <1>4
  <2>3. QED
    BY <2>1, <2>2
<1>6. Recorded(past) = Recorded(source)
  BY <1>1, <1>2, <1>5, RecordedAll
<1>7. encPos <= Len(source) => source[encPos].op # "chunk"
  <2> SUFFICES ASSUME encPos <= Len(source), source[encPos].op = "chunk" PROVE FALSE
    OBVIOUS
  <2>1. encPos \in DOMAIN source
    BY <1>1, <1>2
  <2>2. encPos <= m
    BY <1>5, <2>1
  <2>3. QED
    BY <1>2, <2>2
<1>8. QED
  BY <1>6, <1>7 DEF Taken, Rec, Past, m

\* and a chunk, which is the next one of the recording.
LEMMA ChunkKeeps ==
  ASSUME EncBase, EncPart, TakeChunk PROVE EncBase' /\ EncPart'
<1> DEFINE m == encPos - 1
           new == SubSeq(source, 1, m + 1)
           ops == {"chunk"}
           e == EncChunk(source[encPos].body, SymKey, chunkIdx)
           x == Len(FlushedOut) + 1
           t == <<e>>
<1>1. /\ At(ops) /\ Advance /\ encState = "reading"
      /\ out' = FlushedOut \o t /\ manifestAt' = FlushedAt /\ flushed' = (flushed \/ mode = "file")
      /\ chunkIdx' = chunkIdx + 1 /\ encChunkMetas' = Append(encChunkMetas, x)
      /\ source' = source /\ mode' = mode /\ recipients' = recipients /\ encPos' = encPos + 1
      /\ pending' = pending /\ encState' = encState
  BY DEF TakeChunk, At, FlushAndWrite, encInput, Advance
<1>2. /\ IsSeq(source) /\ m \in 0..Len(source) /\ m < Len(source) /\ m + 1 = encPos
      /\ encPos + 1 \in 1..(Len(source) + 1) /\ (encPos + 1) - 1 = m + 1
      /\ Past = SubSeq(source, 1, m)
      /\ source[m + 1] = source[encPos] /\ source[encPos].op = "chunk"
      /\ encPos <= Len(source)
  BY <1>1, Reading DEF At
<1>3. /\ Covers(FlushedOut, Past, To) /\ Unclosed(FlushedOut, Past) /\ IsSeq(FlushedOut)
      /\ mode = "file" => ManifestIn(FlushedOut, FlushedAt)
  BY <1>1, Flushing
<1>4. ~ DataOver(Past)
  BY <1>2, OverIsAll
<1>5. chunkIdx = Len(Recorded(Past))
  BY DEF EncPart, Taken
<1>6. Past' = new /\ To' = To /\ Rec' = Rec
  BY <1>1, <1>2 DEF Past, To, Rec
<1> DEFINE f == FlushedOut
           to == To
<1> HIDE DEF f, to
<1>7. Covers(f \o t, new, to) /\ Unclosed(f \o t, new)
  <2> DEFINE c == EncChunk(source[m + 1].body, SymKey, Len(Recorded(SubSeq(source, 1, m))))
  <2>1. c = e
    BY <1>2, <1>5
  <2>2. Covers(f, SubSeq(source, 1, m), to) /\ Unclosed(f, SubSeq(source, 1, m))
    BY <1>2, <1>3 DEF f, to
  <2>3. source[m + 1].op = "chunk" /\ ~ DataOver(SubSeq(source, 1, m))
    BY <1>2, <1>4
  <2> HIDE DEF m
  <2>4. Covers(f \o <<c>>, new, to) /\ Unclosed(f \o <<c>>, new)
    BY <1>2, <2>2, <2>3, CoverChunk
  <2> HIDE DEF c, e, new
  <2>5. QED
    BY <2>1, <2>4
<1>8. Covers(out, Past, To)' /\ Unclosed(out, Past)'
  BY <1>1, <1>6, <1>7 DEF f, to
<1>9. (chunkIdx = Len(Taken))'
  <2>1. Taken' = Recorded(new)
    BY <1>6 DEF Taken
  <2>2. Len(Recorded(new)) = Len(Recorded(SubSeq(source, 1, m))) + 1
    <3>1. source[m + 1].op = "chunk"
      BY <1>2
    <3> HIDE DEF m
    <3>2. QED
      BY <1>2, <3>1, RecordedAt
  <2>3. QED
    BY <1>1, <1>2, <1>5, <2>1, <2>2
<1>10. EncBase'
  BY <1>1, <1>2 DEF EncBase
<1>11. IsSeq(encChunkMetas)'
  <2>1. IsSeq(encChunkMetas)
    BY DEF EncPart
  <2> HIDE DEF x
  <2>2. Append(encChunkMetas, x) = encChunkMetas \o <<x>> /\ IsSeq(encChunkMetas \o <<x>>)
    BY <2>1, AppendOne, OneMore
  <2>3. QED
    BY <1>1, <2>2
<1>12. IsSeq(t)
  BY Single
<1>13. mode = "file" => ManifestIn(out', manifestAt')
  <2> HIDE DEF t
  <2>1. QED
    BY <1>1, <1>3, <1>12, ManifestStays
<1>14. mode = "stream" => flushed'
  <2>1. "header" \notin ops /\ "torn" \notin ops
    OBVIOUS
  <2> HIDE DEF ops
  <2>2. QED
    BY <1>1, <2>1, Started
<1> HIDE DEF x, new, m, t, e
<1>15. IsSeq(pending)'
  BY <1>1 DEF EncPart
<1>16. EncPart'
  BY <1>1, <1>8, <1>9, <1>11, <1>13, <1>14, <1>15 DEF EncPart
<1>17. QED
  BY <1>10, <1>16

\* An attachment in the name of the format.
LEMMA FrameworkKeeps ==
  ASSUME EncBase, EncPart, TakeFrameworkAttachment PROVE EncBase' /\ EncPart'
<1> DEFINE ops == {"slot", "manifest"}
<1>1. /\ At(ops) /\ encState = "reading"
      /\ UNCHANGED <<encInput, pending, encMarks, chunkIdx, encChunkMetas, out>>
      /\ \/ Fail /\ UNCHANGED encPos
         \/ Advance /\ UNCHANGED encState
  BY DEF TakeFrameworkAttachment, At
<1>2. "chunk" \notin ops /\ "header" \notin ops /\ "torn" \notin ops
  OBVIOUS
<1> HIDE DEF ops
<1>3. CASE Fail /\ UNCHANGED encPos
  BY <1>1, <1>3, StopKeeps
<1>4. CASE Advance /\ UNCHANGED encState
  <2>1. /\ out' = out /\ flushed' = flushed /\ manifestAt' = manifestAt
        /\ UNCHANGED <<encInput, pending, chunkIdx, encChunkMetas, encState>>
    BY <1>1, <1>4 DEF encMarks
  <2>2. Covers(out', Past, To) /\ Unclosed(out', Past)
    BY <1>1, <2>1 DEF EncPart
  <2>3. mode = "file" /\ flushed' => ManifestIn(out', manifestAt')
    BY <2>1 DEF EncPart
  <2>4. mode = "stream" => flushed'
    BY <1>1, <1>2, <2>1, Started
  <2>5. QED
    BY <1>1, <1>2, <1>4, <2>1, <2>2, <2>3, <2>4, PassOver
<1>5. QED
  BY <1>1, <1>3, <1>4

\* The end of the data section: the manifest counts the chunks that were written.
LEMMA DataEndKeeps ==
  ASSUME EncBase, EncPart, TakeDataEnd PROVE EncBase' /\ EncPart'
<1> DEFINE ops == {"dataEnd"}
           n == Len(Recorded(Past))
           e == Manifest(SymKey, n)
           d == DataEnd
<1>1. /\ At(ops) /\ encState = "reading" /\ Advance
      /\ UNCHANGED <<encInput, pending, chunkIdx, encChunkMetas, encState>>
  BY DEF TakeDataEnd, At
<1>2. "chunk" \notin ops /\ "header" \notin ops /\ "torn" \notin ops
  OBVIOUS
<1>3. source[encPos].op = "dataEnd"
  BY <1>1 DEF At
<1>4. chunkIdx = n
  BY DEF EncPart, Taken
<1>5. Covers(out, Past, To) /\ IsSeq(out)
  BY DEF EncPart, Covers, Part
<1>6. Quiet(<<d>>) /\ IsSeq(<<d>>)
  BY FrameIsQuiet, QuietIs
<1>7. /\ Chunkless(<<d>>) /\ Vouches(<<d>>, n) /\ \A rec : Part(<<d>>, rec, To)
  BY <1>6, QuietIs
<1>8. mode \in {"file", "stream"}
  BY ModesAssumption DEF EncBase
<1> HIDE DEF ops
<1>9. CASE mode = "file"
  <2> DEFINE f == FlushedOut
             p == FlushedAt
             g == [f EXCEPT ![p] = e]
  <2>1. /\ out' = Append(g, d) /\ manifestAt' = p
    BY <1>4, <1>9 DEF TakeDataEnd
  <2>2. Covers(f, Past, To) /\ ManifestIn(f, p)
    BY <1>1, <1>9, Flushing
  <2> HIDE DEF f, p
  <2>3. Covers(g, Past, To)
    BY <2>2, CoverPatch DEF ManifestIn
  <2>4. IsSeq(g) /\ ManifestIn(g, p)
    <3>1. e.op = "manifest"
      BY DEF Manifest
    <3> HIDE DEF e
    <3>2. QED
      BY <2>2, <2>3, <3>1 DEF ManifestIn, Covers, Part
  <2> HIDE DEF e, g, n, d
  <2>5. Append(g, d) = g \o <<d>>
    BY <2>4, AppendOne
  <2> DEFINE t == <<d>>
  <2> HIDE DEF t
  <2>6. Covers(g \o t, Past, To)
    BY <1>6, <1>7, <2>3, CoverClose DEF n, t
  <2>7. ManifestIn(g \o t, p)
    BY <1>6, <2>4, ManifestStays DEF t
  <2>8. Covers(out', Past, To) /\ ManifestIn(out', manifestAt')
    BY <2>1, <2>5, <2>6, <2>7 DEF t
  <2>9. QED
    BY <1>1, <1>2, <1>3, <1>9, <2>8, PassOver
<1>10. CASE mode = "stream"
  <2>1. out' = out \o <<d, e>> /\ flushed' = flushed
    BY <1>4, <1>10 DEF TakeDataEnd, encMarks
  <2> DEFINE t == <<e>>
             b == <<d>>
  <2>2. /\ IsSeq(t) /\ Chunkless(t) /\ Vouches(t, n) /\ \A rec : Part(t, rec, To)
    BY ManifestAlone
  <2>3. <<d, e>> = b \o t
    BY PairIsConcat
  <2> DEFINE u == b \o t
  <2> HIDE DEF t, d, e, n, b
  <2>4. /\ IsSeq(u) /\ Chunkless(u) /\ Vouches(u, n) /\ \A rec : Part(u, rec, To)
    <3>1. IsSeq(u) /\ Chunkless(u) /\ Vouches(u, n)
      BY <1>6, <1>7, <2>2, Joining DEF b
    <3>2. \A rec : Part(u, rec, To)
      BY <1>6, <1>7, <2>2, Joining DEF b
    <3>3. QED
      BY <3>1, <3>2
  <2> HIDE DEF u
  <2>5. Covers(out \o u, Past, To)
    BY <1>5, <2>4, CoverClose DEF n
  <2>6. Covers(out', Past, To)
    BY <2>1, <2>3, <2>5 DEF u
  <2>7. mode = "stream" => flushed'
    BY <1>1, <1>2, <2>1, Started
  <2>8. QED
    BY <1>1, <1>2, <1>3, <1>10, <2>6, <2>7, PassOver
<1>11. QED
  BY <1>8, <1>9, <1>10

\* Nothing but the end of the file is written, and the chunks are all read.
LEMMA EndKeeps ==
  ASSUME EncBase, EncPart, encState = "reading", NEW t, Quiet(t), out' = out \o t,
         encState' = "done",
         UNCHANGED <<encInput, encPos, pending, encMarks, chunkIdx, encChunkMetas>>,
         encPos <= Len(source) => source[encPos].op = "footer"
  PROVE  EncBase' /\ EncPart'
<1>1. /\ source' = source /\ mode' = mode /\ recipients' = recipients /\ encPos' = encPos
      /\ flushed' = flushed /\ manifestAt' = manifestAt /\ pending' = pending
      /\ chunkIdx' = chunkIdx /\ encChunkMetas' = encChunkMetas
  BY DEF encInput, encMarks
<1>2. Past' = Past /\ To' = To /\ Rec' = Rec /\ Taken' = Taken
  BY <1>1 DEF Past, To, Rec, Taken
<1>3. EncBase'
  BY <1>1 DEF EncBase
<1>4. Covers(out, Past, To) /\ IsSeq(out)
  BY DEF EncPart, Covers, Part
<1>5. /\ IsSeq(t) /\ Chunkless(t) /\ (\A n : Vouches(t, n)) /\ \A rec : Part(t, rec, To)
  BY QuietIs
<1>6. Covers(out, Past, To)'
  BY <1>2, <1>4, <1>5, CoverClose
<1>7. mode = "file" /\ flushed => ManifestIn(out', manifestAt)
  BY <1>4, <1>5, ManifestStays DEF EncPart
<1>8. Taken = Rec
  <2> DEFINE m == encPos - 1
  <2>1. /\ IsSeq(source) /\ DOMAIN source = 1..Len(source) /\ Len(source) \in Nat
        /\ \A i, j \in DOMAIN source :
             source[i].op = "chunk" /\ source[j].op = "footer" => i < j
    BY InputIs
  <2>2. encPos \in 1..(Len(source) + 1)
    BY DEF EncBase
  <2>3. m \in 0..Len(source)
    BY <2>1, <2>2
  <2>4. ASSUME NEW i \in DOMAIN source, source[i].op = "chunk" PROVE i <= m
    <3>1. i \in 1..Len(source)
      BY <2>1
    <3>2. CASE encPos <= Len(source)
      <4>1. encPos \in DOMAIN source
        BY <2>1, <2>2, <3>2
      <4>2. i < encPos
        BY <2>1, <2>4, <3>2, <4>1
      <4>3. QED
        BY <2>1, <2>2, <3>1, <4>2
    <3>3. CASE ~ (encPos <= Len(source))
      BY <2>1, <2>2, <3>1, <3>3
    <3>4. QED
      BY <3>2, <3>3
  <2> HIDE DEF m
  <2>5. Recorded(SubSeq(source, 1, m)) = Recorded(source)
    BY <2>1, <2>3, <2>4, RecordedAll
  <2>6. QED
    BY <2>5 DEF Taken, Rec, Past, m
<1>9. EncPart'
  BY <1>1, <1>2, <1>6, <1>7, <1>8 DEF EncPart
<1>10. QED
  BY <1>3, <1>9

\* The footer: all of the recording has been taken.
LEMMA FooterKeeps ==
  ASSUME EncBase, EncPart, TakeFooter \/ EndOfInput PROVE EncBase' /\ EncPart'
<1>1. IsSeq(pending) /\ IsSeq(encChunkMetas) /\ IsSeq(out)
  BY DEF EncPart, Covers, Part
<1>2. CASE TakeFooter
  <2> DEFINE a == Summary(pending, encChunkMetas)
             b == <<Footer, Magic>>
  <2>1. Quiet(a) /\ Quiet(b)
    BY <1>1, SummaryIsQuiet, EndingIsQuiet
  <2>2. /\ out' = out \o a \o b /\ encState = "reading" /\ encState' = "done"
        /\ UNCHANGED <<encInput, encPos, pending, encMarks, chunkIdx, encChunkMetas>>
        /\ source[encPos].op = "footer"
    BY <1>2 DEF TakeFooter, At
  <2> HIDE DEF a, b
  <2>3. IsSeq(a) /\ IsSeq(b)
    BY <2>1, QuietIs
  <2>4. Quiet(a \o b)
    BY <2>1, <2>3, Joining
  <2>5. out' = out \o (a \o b)
    BY <1>1, <2>2, <2>3, Grouped
  <2>6. QED
    BY <2>2, <2>4, <2>5, EndKeeps
<1>3. CASE EndOfInput
  <2> DEFINE g == Magic
             b == <<g>>
  <2>1. Quiet(b)
    BY FrameIsQuiet
  <2>2. /\ out' = Append(out, g) /\ encState = "reading" /\ encState' = "done"
        /\ UNCHANGED <<encInput, encPos, pending, encMarks, chunkIdx, encChunkMetas>>
        /\ encPos > Len(source)
    BY <1>3 DEF EndOfInput
  <2>3. ~ (encPos <= Len(source))
    BY <2>2, InputIs DEF EncBase
  <2> HIDE DEF g
  <2>4. out' = out \o b
    BY <1>1, <2>2, AppendOne
  <2> HIDE DEF b
  <2>5. QED
    BY <2>1, <2>2, <2>3, <2>4, EndKeeps
<1>4. QED
  BY <1>2, <1>3

\* Every step of an encryption.
LEMMA EncryptionKeeps ==
  ASSUME EncBase, EncPart, EncNext PROVE EncBase' /\ EncPart'
<1>1. CASE Check
  <2>1. /\ UNCHANGED <<encInput, encPos, encMarks, chunkIdx, encChunkMetas, out>>
        /\ pending' = pending /\ encState = "start"
        /\ Fail \/ encState' = "checked"
    BY <1>1 DEF Check
  <2>2. QED
    BY <2>1, StopKeeps
<1>2. CASE Collect
  <2>1. /\ UNCHANGED <<encInput, encPos, encMarks, chunkIdx, encChunkMetas, out>>
        /\ pending' = Definitions(source) /\ encState = "checked" /\ encState' = "collected"
    BY <1>2 DEF Collect
  <2>2. QED
    BY <2>1, StopKeeps
<1>3. CASE TakeUnusable
  <2>1. /\ UNCHANGED <<encInput, encPos, encMarks, chunkIdx, encChunkMetas, out>>
        /\ pending' = pending /\ encState = "reading" /\ Fail
    BY <1>3 DEF TakeUnusable, At
  <2>2. QED
    BY <2>1, StopKeeps
<1>4. QED
  BY <1>1, <1>2, <1>3, OpenPass2Keeps, TakeHeaderKeeps, SkipKeeps, AttachmentKeeps,
     FrameworkKeeps, MetadataKeeps, ChunkKeeps, DataEndKeeps, FooterKeeps DEF EncNext

\* The same records are past if the input is replaced before pass 2 or has
\* only grown.
LEMMA InputChangesKeeps ==
  ASSUME EncBase, EncPart, InputChanges PROVE EncBase' /\ EncPart'
<1> DEFINE m == encPos - 1
<1>1. /\ source' \in Sources
      /\ \/ encState \in {"checked", "collected"}
         \/ encState = "reading" /\ S!IsPrefix(source, source')
  BY DEF InputChanges
<1>2. /\ mode' = mode /\ recipients' = recipients /\ encPos' = encPos /\ pending' = pending
      /\ flushed' = flushed /\ manifestAt' = manifestAt /\ chunkIdx' = chunkIdx
      /\ encChunkMetas' = encChunkMetas /\ out' = out /\ encState' = encState
  BY DEF InputChanges, encMarks
<1>3. IsSeq(source) /\ IsSeq(source') /\ Len(source) \in Nat /\ Len(source') \in Nat
      /\ DOMAIN source = 1..Len(source) /\ DOMAIN source' = 1..Len(source')
  BY <1>1, SourcesAssumption, AsFunction DEF EncBase, IsSeq
<1>4. encPos \in 1..(Len(source) + 1) /\ m \in 0..Len(source)
  BY <1>3 DEF EncBase
<1>5. m \in 0..Len(source') /\ SubSeq(source', 1, m) = SubSeq(source, 1, m)
  <2>1. CASE encState \in {"checked", "collected"}
    <3>1. m = 0
      BY <2>1 DEF EncPart
    <3> HIDE DEF m
    <3>2. DOMAIN SubSeq(source', 1, m) = {} /\ DOMAIN SubSeq(source, 1, m) = {}
      BY <1>3, <3>1, FrontOf
    <3>3. QED
      BY <1>3, <3>1, <3>2, FrontOf, SameSeq
  <2>2. CASE encState = "reading" /\ S!IsPrefix(source, source')
    <3>1. Len(source) <= Len(source')
          /\ SubSeq(source, 1, Len(source)) = SubSeq(source', 1, Len(source))
      BY <2>2 DEF S!IsPrefix
    <3> HIDE DEF m
    <3>2. m \in 0..Len(source') /\ Len(source) \in 0..Len(source)
          /\ Len(source) \in 0..Len(source')
      BY <1>3, <1>4, <3>1
    <3>3. \A i \in 1..m : source[i] = source'[i]
      <4>1. \A i \in 1..Len(source) : SubSeq(source, 1, Len(source))[i] = source[i]
        BY <1>3, <3>2, FrontOf
      <4>2. \A i \in 1..Len(source) : SubSeq(source', 1, Len(source))[i] = source'[i]
        BY <1>3, <3>2, FrontOf
      <4>3. 1..m \subseteq 1..Len(source)
        BY <1>3, <1>4
      <4>4. QED
        BY <3>1, <4>1, <4>2, <4>3
    <3>4. QED
      <4>1. /\ IsSeq(SubSeq(source, 1, m)) /\ DOMAIN SubSeq(source, 1, m) = 1..m
            /\ \A i \in 1..m : SubSeq(source, 1, m)[i] = source[i]
        BY <1>3, <1>4, FrontOf
      <4>2. /\ IsSeq(SubSeq(source', 1, m)) /\ DOMAIN SubSeq(source', 1, m) = 1..m
            /\ \A i \in 1..m : SubSeq(source', 1, m)[i] = source'[i]
        BY <1>3, <3>2, FrontOf
      <4>3. QED
        BY <3>2, <3>3, <4>1, <4>2, SameSeq
  <2>3. QED
    BY <1>1, <2>1, <2>2
<1>6. Past' = Past /\ To' = To
  BY <1>2, <1>5 DEF Past, To
<1>7. Taken' = Taken
  BY <1>6 DEF Taken
<1>8. EncBase'
  <2>1. encPos' \in 1..(Len(source') + 1)
    BY <1>2, <1>3, <1>4, <1>5
  <2>2. QED
    BY <1>1, <1>2, <2>1 DEF EncBase
<1>9. encState # "done"
  BY <1>1
<1>10. EncPart'
  BY <1>2, <1>6, <1>7, <1>9 DEF EncPart, Covers, Unclosed, ManifestIn
<1>11. QED
  BY <1>8, <1>10

\* Nothing has been read and nothing written.
LEMMA EncStarts ==
  ASSUME EncInit PROVE EncBase /\ EncPart
<1>1. source \in Sources /\ mode \in Modes /\ recipients \in RecipientLists /\ encPos = 1
  BY DEF EncInit
<1>2. IsSeq(source) /\ Len(source) \in Nat
  BY <1>1, SourcesAssumption, AsFunction DEF IsSeq
<1>3. EncBase
  <2>1. encPos \in 1..(Len(source) + 1)
    BY <1>1, <1>2
  <2>2. QED
    BY <1>1, <2>1 DEF EncBase
<1>4. Past = SubSeq(source, 1, 0)
  BY <1>1 DEF Past
<1>5. Covers(<<>>, Past, To) /\ Unclosed(<<>>, Past) /\ Taken = <<>>
  BY <1>2, <1>4, CoverStart DEF Taken
<1>6. IsSeq(<<>>) /\ Len(<<>>) = 0
  BY DEF IsSeq, Elements
<1>7. /\ pending = <<>> /\ encChunkMetas = <<>> /\ out = <<>> /\ ~ flushed
      /\ chunkIdx = 0 /\ encState = "start"
  BY DEF EncInit
<1>8. EncPart
  BY <1>1, <1>5, <1>6, <1>7 DEF EncPart
<1>9. QED
  BY <1>3, <1>8

-----------------------------------------------------------------------------
(* The invariant: the stored file.                                         *)

\* The chunks are all there, in front of the end of the data.
Whole(s, n) == Ahead(s) /\ Tally(s) = n

StoredPart ==
  /\ Part(stored, Rec, Given(readers))
  /\ vouched => Vouches(stored, Len(Rec))
  /\ faults = 0 => Whole(stored, Len(Rec))

\* What is stored of an encryption that came to its end.
LEMMA StoreKeeps ==
  ASSUME EncBase, EncPart, Store PROVE StoredPart'
<1>1. /\ stored' = out /\ Given(readers') = To /\ source' = source /\ encState = "done"
  BY DEF Store, To, encVars
<1>2. Taken = Rec /\ Rec' = Rec /\ Covers(out, Past, To)
  BY <1>1 DEF EncPart, Rec
<1>3. Part(out, Rec, To) /\ Vouches(out, Len(Rec)) /\ Whole(out, Len(Rec))
  BY <1>2 DEF Covers, Taken, Whole
<1>4. QED
  BY <1>1, <1>2, <1>3 DEF StoredPart

\* What is stored of one that was interrupted.
LEMMA InterruptKeeps ==
  ASSUME EncBase, EncPart, faults \in Nat, Interrupt PROVE StoredPart'
<1>1. /\ stored' = out /\ Given(readers') = To /\ source' = source /\ encState # "done"
      /\ faults' = faults + 1
  BY DEF Interrupt, To, encVars
<1>2. Rec' = Rec /\ Covers(out, Past, To) /\ Unclosed(out, Past)
  BY <1>1 DEF EncPart, Rec
<1>3. /\ Len(Taken) \in Nat /\ Len(Rec) \in Nat /\ Len(Taken) <= Len(Rec)
      /\ \A i \in 1..Len(Taken) : Taken[i] = Rec[i]
  <2> DEFINE m == encPos - 1
  <2>1. IsSeq(source) /\ m \in 0..Len(source)
    BY InputIs DEF EncBase
  <2>2. Past = SubSeq(source, 1, m)
    BY DEF Past
  <2> HIDE DEF m
  <2>3. QED
    BY <2>1, <2>2, RecordedFront DEF Taken, Rec
<1>4. Part(out, Rec, To)
  <2>1. Part(out, Taken, To)
    BY <1>2 DEF Covers, Taken
  <2>2. SUFFICES ASSUME NEW i \in DOMAIN out PROVE Genuine(out[i], Rec, To)
    BY <2>1 DEF Part
  <2>3. Genuine(out[i], Taken, To)
    BY <2>1 DEF Part
  <2>4. ASSUME out[i].op = "encChunk"
        PROVE  out[i].idx \in Nat /\ out[i].idx < Len(Rec) /\ out[i].body = Rec[out[i].idx + 1]
    <3> DEFINE k == out[i].idx
    <3>1. k \in Nat /\ k < Len(Taken) /\ out[i].body = Taken[k + 1]
      BY <2>3, <2>4 DEF Genuine
    <3> HIDE DEF k
    <3>2. k + 1 \in 1..Len(Taken)
      BY <1>3, <3>1
    <3>3. k < Len(Rec) /\ out[i].body = Rec[k + 1]
      BY <1>3, <3>1, <3>2
    <3>4. QED
      BY <3>1, <3>3 DEF k
  <2>5. QED
    BY <2>3, <2>4 DEF Genuine
<1>5. Vouches(out, Len(Rec))
  <2>1. Vouches(out, Len(Taken))
    BY <1>2 DEF Covers, Taken
  <2>2. CASE DataOver(Past)
    BY <2>1, <2>2, OverIsAll
  <2>3. CASE ~ DataOver(Past)
    BY <1>2, <2>1, <2>3 DEF Unclosed, Vouches
  <2>4. QED
    BY <2>2, <2>3
<1>6. faults' # 0
  BY <1>1
<1>7. QED
  BY <1>1, <1>2, <1>4, <1>5, <1>6 DEF StoredPart

\* A damaged file.
LEMMA DamageStored ==
  ASSUME StoredPart, faults \in Nat, Damage PROVE StoredPart'
<1>1. PICK i \in 2..Len(stored) : stored' \in Damaged(i)
  BY DEF Damage
<1>2. /\ source' = source /\ readers' = readers /\ vouched' = vouched /\ faults' = faults + 1
  BY DEF Damage, encVars
<1>3. IsSeq(stored) /\ \A j \in DOMAIN stored : HasShape(stored[j])
  BY DEF StoredPart, Part, Genuine
<1>4. /\ \A rec, to : Spreads(to) /\ Part(stored, rec, to) => Part(stored', rec, to)
      /\ \A n : Vouches(stored, n) => Vouches(stored', n)
  BY <1>1, <1>3, DamageKeeps
<1>5. Rec' = Rec /\ faults' # 0
  BY <1>2 DEF Rec
<1>6. Part(stored', Rec, Given(readers)) /\ (vouched => Vouches(stored', Len(Rec)))
  <2>1. Spreads(Given(readers))
    BY DEF Spreads, Given, Keys
  <2>2. QED
    BY <1>4, <2>1 DEF StoredPart
<1>7. QED
  BY <1>2, <1>5, <1>6 DEF StoredPart

-----------------------------------------------------------------------------
(* The other packages' encryptors.                                         *)

\* Sorted positions are a sequence.
LEMMA SortedIsSeq ==
  ASSUME NEW n \in Nat, NEW at \in SUBSET (1..n)
  PROVE  /\ IsSeq(Sorted(at)) /\ DOMAIN Sorted(at) = 1..Cardinality(at)
         /\ Cardinality(at) \in Nat /\ Len(Sorted(at)) = Cardinality(at)
         /\ Elements(Sorted(at)) = at
<1>1. Cardinality(at) \in Nat /\ Enumerates(Sorted(at), Cardinality(at), at)
  BY SortedLists
<1> DEFINE q == Sorted(at)
           c == Cardinality(at)
<1> HIDE DEF q, c
<1>2. c \in Nat /\ q \in [1..c -> at] /\ \A i \in at : \E k \in 1..c : q[k] = i
  BY <1>1 DEF Enumerates, q, c
<1>3. Elements(q) = at
  BY <1>2 DEF Elements
<1>4. q \in [1..c -> Elements(q)]
  BY <1>2, <1>3
<1>5. IsSeq(q)
  BY <1>2, <1>4, OfFunction
<1>6. Len(q) = c
  BY <1>2, <1>5, AsFunction
<1>7. QED
  BY <1>2, <1>3, <1>5, <1>6 DEF q, c

\* Where the records of a part are in the whole file.
Places(at, d) == Records(Sorted(at), LAMBDA i : d + i)

\* The places of the chunks among the records that are written.
LEMMA PlacesAreSeq ==
  ASSUME NEW n \in Nat, NEW at \in SUBSET (1..n), NEW d
  PROVE  IsSeq(Places(at, d))
<1> DEFINE q == Sorted(at)
           f == [j \in DOMAIN q |-> d + q[j]]
<1>1. IsSeq(q)
  BY SortedIsSeq
<1> HIDE DEF q
<1>2. DOMAIN f = DOMAIN q /\ f = [j \in DOMAIN q |-> f[j]]
  OBVIOUS
<1> HIDE DEF f
<1>3. IsSeq(f)
  BY <1>1, <1>2, OfPositions
<1>4. QED
  BY <1>3 DEF Places, Records, f, q

\* The chunks ahead of a record of a plain file are the recording so far.
LEMMA ChunksBeforeIs ==
  ASSUME NEW b, IsSeq(b), NEW m \in 0..Len(b)
  PROVE  CountBefore(b, m + 1, "chunk") = Len(Recorded(SubSeq(b, 1, m)))
<1> DEFINE s == SubSeq(b, 1, m)
<1>1. (m + 1) - 1 = m
  BY AsFunction
<1>2. IsSeq(s)
  BY FrontOf
<1>3. CountBefore(b, m + 1, "chunk") = Len(OfKind(s, {"chunk"}))
  BY <1>1 DEF CountBefore
<1> HIDE DEF s
<1>4. Len(Recorded(s)) = Len(OfKind(s, {"chunk"}))
  BY <1>2, BodiesForm DEF Recorded
<1>5. QED
  BY <1>3, <1>4 DEF s

\* What becomes of one record of the data.
Data == {"chunk", "attachment", "metadata"}

\* The record written for one of the input is bound to its place in the recording.
LEMMA SealedIs ==
  ASSUME NEW b, IsSeq(b), \A i \in DOMAIN b : b[i].op # "encChunk" /\ "op" \in DOMAIN b[i],
         NEW i \in DOMAIN b, b[i].op \in Data, NEW k, NEW mm
  PROVE  LET e == Sealed(b, i, k, mm)
         IN /\ Genuine(e, Recorded(b), {})
            /\ e.op \notin Ends \cup {"slot", "manifest"}
            /\ e.op = "encChunk" <=> b[i].op = "chunk"
<1> DEFINE e == Sealed(b, i, k, mm)
<1>1. Len(b) \in Nat /\ DOMAIN b = 1..Len(b) /\ i \in 1..Len(b)
  BY AsFunction
<1>2. CASE b[i].op = "chunk"
  <2> DEFINE m == i - 1
             n == Len(Recorded(SubSeq(b, 1, m)))
  <2>1. m \in 0..Len(b) /\ m < Len(b) /\ m + 1 = i
    BY <1>1
  <2>2. e = EncChunk(b[i].body, k, CountBefore(b, i, "chunk"))
    BY <1>2 DEF Sealed
  <2>3. CountBefore(b, i, "chunk") = n
    BY <2>1, ChunksBeforeIs
  <2>4. n \in Nat /\ n < Len(Recorded(b)) /\ Recorded(b)[n + 1] = b[i].body
    <3> HIDE DEF m, n
    <3>1. b[m + 1].op = "chunk" /\ b[m + 1].body = b[i].body
      BY <1>2, <2>1
    <3>2. QED
      BY <2>1, <3>1, RecordedAt DEF n
  <2> HIDE DEF e, n, m
  <2>5. e = EncChunk(b[i].body, k, n)
    BY <2>2, <2>3
  <2>6. /\ e.op = "encChunk" /\ e.idx = n /\ e.body = b[i].body
        /\ DOMAIN e = {"op", "body", "key", "idx"}
    BY <2>5 DEF EncChunk
  <2>7. Genuine(e, Recorded(b), {})
    BY <2>4, <2>6 DEF Genuine, HasShape
  <2>8. QED
    BY <1>2, <2>6, <2>7 DEF Ends, e
<1>3. CASE b[i].op = "attachment"
  <2>1. e = EncAttachment(b[i].body, k)
    BY <1>3 DEF Sealed
  <2>2. e.op = "encAttachment" /\ "op" \in DOMAIN e
    BY <2>1 DEF EncAttachment
  <2> HIDE DEF e
  <2>3. Genuine(e, Recorded(b), {})
    BY <2>2 DEF Genuine, HasShape
  <2>4. QED
    BY <1>3, <2>2, <2>3 DEF Ends, e
<1>4. CASE b[i].op = "metadata"
  <2>1. e = EncMetadata(b[i].body, k) \/ e = b[i]
    BY <1>4 DEF Sealed
  <2>2. e.op \in {"encMetadata", "metadata"} /\ "op" \in DOMAIN e
    BY <1>4, <2>1 DEF EncMetadata
  <2> HIDE DEF e
  <2>3. Genuine(e, Recorded(b), {})
    BY <2>2 DEF Genuine, HasShape
  <2>4. QED
    BY <1>4, <2>2, <2>3 DEF Ends, e
<1>5. QED
  BY <1>2, <1>3, <1>4 DEF Data

\* The data of a file, record by record: genuine, and all of the recording.
SealedData(b, k, mm) == Records(Sorted(KindAt(b, Data)), LAMBDA i : Sealed(b, i, k, mm))

\* The data section that is written has all chunks of the recording.
LEMMA SealedDataIs ==
  ASSUME NEW b, IsSeq(b), \A i \in DOMAIN b : b[i].op # "encChunk" /\ "op" \in DOMAIN b[i],
         NEW k, NEW mm
  PROVE  LET s == SealedData(b, k, mm)
         IN /\ IsSeq(s) /\ Kept(s) /\ Part(s, Recorded(b), {})
            /\ Tally(s) = Len(Recorded(b))
<1> DEFINE at == KindAt(b, Data)
           q == Sorted(at)
           c == Cardinality(at)
           s == SealedData(b, k, mm)
<1>1. Len(b) \in Nat /\ DOMAIN b = 1..Len(b)
  BY AsFunction
<1>2. at \in SUBSET (1..Len(b))
  BY <1>1 DEF KindAt
<1> HIDE DEF at
<1>3. /\ IsSeq(q) /\ DOMAIN q = 1..c /\ c \in Nat /\ Len(q) = c /\ Elements(q) = at
      /\ \A j \in 1..c : q[j] \in at
  BY <1>1, <1>2, SortedIsSeq, AsFunction
<1>4. /\ DOMAIN s = 1..c
      /\ \A j \in 1..c : s[j] = Sealed(b, q[j], k, mm)
      /\ s = [j \in DOMAIN q |-> s[j]]
  BY <1>3 DEF SealedData, Records, at
<1> HIDE DEF q, s
<1>5. IsSeq(s) /\ Len(s) = c
  BY <1>3, <1>4, OfPositions
<1>6. \A j \in 1..c : q[j] \in DOMAIN b /\ b[q[j]].op \in Data
  BY <1>3 DEF at, KindAt
<1>7. \A j \in 1..c : /\ Genuine(s[j], Recorded(b), {})
                      /\ s[j].op \notin Ends \cup {"slot", "manifest"}
                      /\ s[j].op = "encChunk" <=> b[q[j]].op = "chunk"
  BY <1>4, <1>6, SealedIs
<1>8. Kept(s) /\ Part(s, Recorded(b), {})
  BY <1>4, <1>5, <1>7 DEF Kept, Part
<1>9. Tally(s) = Len(Recorded(b))
  <2> DEFINE bt == KindAt(s, {"encChunk"})
             ct == KindAt(b, {"chunk"})
  <2>1. bt \in SUBSET (1..c)
    BY <1>4 DEF KindAt
  <2>2. Through(at, bt) = ct
    <3>1. ASSUME NEW j \in bt PROVE q[j] \in ct
      BY <1>4, <1>6, <1>7, <3>1 DEF KindAt
    <3>2. ASSUME NEW i \in ct PROVE \E j \in bt : q[j] = i
      <4>1. i \in at
        BY DEF at, KindAt, Data
      <4>2. PICK j \in 1..c : q[j] = i
        BY <1>3, <4>1 DEF Elements
      <4>3. s[j].op = "encChunk"
        BY <1>7, <4>2 DEF KindAt
      <4>4. j \in bt
        BY <1>4, <4>3 DEF KindAt
      <4>5. QED
        BY <4>2, <4>4
    <3>3. \A i : i \in Through(at, bt) <=> \E j \in bt : q[j] = i
      BY DEF Through, q
    <3>4. QED
      BY <3>1, <3>2, <3>3
  <2> HIDE DEF bt, ct
  <2>3. Cardinality(ct) = Cardinality(bt) /\ Cardinality(bt) \in Nat
    <3>1. /\ Through(at, bt) \in SUBSET at /\ Cardinality(bt) \in Nat
          /\ Enumerates(Listed(at, bt), Cardinality(bt), Through(at, bt))
      BY <1>1, <1>2, <2>1, SortedTwice DEF c
    <3>2. Through(at, bt) \in SUBSET (1..Len(b))
      BY <1>2, <3>1
    <3>3. QED
      BY <1>1, <2>2, <3>1, <3>2, SortedIsUnique
  <2>4. Tally(s) = Cardinality(bt)
    <3>1. OfKind(s, {"encChunk"}) = Selected(s, bt) /\ bt \in SUBSET DOMAIN s
      BY OfKindForm DEF bt
    <3>2. QED
      BY <1>5, <3>1, SelectedIsSeq DEF Tally
  <2>5. Len(Recorded(b)) = Cardinality(ct)
    <3>1. OfKind(b, {"chunk"}) = Selected(b, ct) /\ ct \in SUBSET DOMAIN b
      BY OfKindForm DEF ct
    <3>2. Len(Recorded(b)) = Len(OfKind(b, {"chunk"}))
      BY BodiesForm DEF Recorded
    <3>3. QED
      BY <3>1, <3>2, SelectedIsSeq
  <2>6. QED
    BY <2>3, <2>4, <2>5
<1>10. QED
  BY <1>5, <1>8, <1>9 DEF s

\* A beginning of the input that holds its data, as one to encrypt.
LEMMA BodyIs ==
  ASSUME EncBase, NEW ops, ops \subseteq Ends, NEW b, b = UpTo(source, ops),
         \A i \in DOMAIN b : b[i].op \notin Encrypted
  PROVE  /\ IsSeq(b) /\ Recorded(b) = Rec
         /\ \A i \in DOMAIN b : b[i].op # "encChunk" /\ "op" \in DOMAIN b[i]
                                /\ b[i].op \notin ops
         /\ \A i, j \in DOMAIN b : b[i].op = "chunk" /\ b[j].op = "dataEnd" => i < j
<1>1. /\ IsSeq(source) /\ \A i \in DOMAIN source : "op" \in DOMAIN source[i]
      /\ \A i, j \in DOMAIN source :
              /\ source[i].op \in {"chunk", "attachment", "metadata"}
              /\ source[j].op \in {"dataEnd", "footer", "torn", "magic"}
              => i < j
      /\ DOMAIN source = 1..Len(source) /\ Len(source) \in Nat
  BY InputIs
<1>2. PICK m \in 0..Len(source) :
        /\ UpTo(source, ops) = SubSeq(source, 1, m)
        /\ \A i \in 1..m : source[i].op \notin ops
        /\ m < Len(source) => source[m + 1].op \in ops
  BY <1>1, UpToIsFront
<1>3. /\ IsSeq(b) /\ DOMAIN b = 1..m
      /\ \A i \in 1..m : b[i] = source[i] /\ i \in DOMAIN source
  BY <1>1, <1>2, FrontOf
<1>4. \A i \in DOMAIN source : source[i].op = "chunk" => i <= m
  <2>1. CASE m < Len(source)
    <3>1. m + 1 \in DOMAIN source /\ source[m + 1].op \in {"dataEnd", "footer", "torn", "magic"}
      <4>1. source[m + 1].op \in ops
        BY <1>2, <2>1
      <4>2. source[m + 1].op \in {"dataEnd", "footer", "torn", "magic"}
        BY <4>1 DEF Ends
      <4>3. QED
        BY <1>1, <2>1, <4>2
    <3>2. ASSUME NEW i \in DOMAIN source, source[i].op = "chunk" PROVE i < m + 1
      <4>1. source[i].op \in {"chunk", "attachment", "metadata"}
        BY <3>2
      <4>2. QED
        BY <1>1, <3>1, <4>1
    <3>3. QED
      BY <1>1, <3>2
  <2>2. CASE ~ (m < Len(source))
    BY <1>1, <2>2
  <2>3. QED
    BY <2>1, <2>2
<1>5. Recorded(b) = Rec
  BY <1>1, <1>2, <1>4, RecordedAll DEF Rec
<1>6. \A i \in DOMAIN b : b[i].op # "encChunk" /\ "op" \in DOMAIN b[i] /\ b[i].op \notin ops
  BY <1>1, <1>2, <1>3 DEF Encrypted
<1>7. \A i, j \in DOMAIN b : b[i].op = "chunk" /\ b[j].op = "dataEnd" => i < j
  BY <1>1, <1>3
<1>8. QED
  BY <1>3, <1>5, <1>6, <1>7

\* The layout of Python is the common one.
LEMMA PyFileIsLaid ==
  ASSUME NEW head, NEW ds, NEW list, NEW k, NEW data
  PROVE  PyFile(head, ds, list, k, data)
           = Laid(head, list, k, Tally(data), data, ds,
                  Places(KindAt(data, {"encChunk"}), Len(Lead(head, list, k, Tally(data)))))
BY DEF PyFile, Laid, Lead, MadeSlots, KindAt, Places, Tally

\* What the Python package encrypts is laid out like what it rotates.
LEMMA PyEncryptedForm ==
  ASSUME EncBase, PyEncrypts(source, recipients)
  PROVE  LET b == UpTo(source, PyEnds)
             known == PyDefinitions(source)
             head == <<Header>> \o Records(known, Def)
             data == SealedData(b, SymKey, metadataMode)
         IN /\ IsSeq(b) /\ Recorded(b) = Rec
            /\ \A i \in DOMAIN b : b[i].op # "encChunk" /\ "op" \in DOMAIN b[i]
            /\ IsSeq(known)
            /\ \E ps : /\ IsSeq(ps)
                       /\ PyEncrypted(source, recipients, SymKey, metadataMode)
                            = Laid(head, recipients, SymKey, Tally(data), data, known, ps)
<1> DEFINE b == UpTo(source, PyEnds)
           known == PyDefinitions(source)
           hd == <<Header>>
           ds == Records(known, Def)
           head == hd \o ds
           data == SealedData(b, SymKey, metadataMode)
           n == Tally(data)
           at == KindAt(data, {"encChunk"})
           d == Len(Lead(head, recipients, SymKey, n))
           ps == Places(at, d)
           s == Laid(head, recipients, SymKey, n, data, known, ps)
<1>1. IsSeq(source) /\ IsSeq(recipients) /\ DOMAIN source = 1..Len(source) /\ Len(source) \in Nat
  BY InputIs
<1>2. \A i \in DOMAIN b : b[i].op \notin Encrypted
  <2>1. PICK m \in 0..Len(source) :
          /\ UpTo(source, PyEnds) = SubSeq(source, 1, m)
          /\ \A i \in 1..m : source[i].op \notin PyEnds
          /\ m < Len(source) => source[m + 1].op \in PyEnds
    BY <1>1, UpToIsFront
  <2>2. PICK l \in 0..Len(source) :
          /\ UpTo(source, {"torn"}) = SubSeq(source, 1, l)
          /\ \A i \in 1..l : source[i].op \notin {"torn"}
          /\ l < Len(source) => source[l + 1].op \in {"torn"}
    BY <1>1, UpToIsFront
  <2>3. m <= l
    <3>1. SUFFICES ASSUME l < m PROVE FALSE
      BY <1>1
    <3>2. l < Len(source) /\ l + 1 \in 1..m
      BY <1>1, <3>1
    <3>3. QED
      BY <2>1, <2>2, <3>2 DEF PyEnds
  <2>4. OfKind(SubSeq(source, 1, l), Encrypted) = <<>>
    BY <2>2 DEF PyEncrypts
  <2>5. /\ IsSeq(SubSeq(source, 1, l)) /\ DOMAIN SubSeq(source, 1, l) = 1..l
        /\ \A i \in 1..l : SubSeq(source, 1, l)[i] = source[i]
    BY <1>1, FrontOf
  <2>6. \A i \in 1..l : source[i].op \notin Encrypted
    BY <2>4, <2>5, OfKindEmpty
  <2>7. DOMAIN b = 1..m /\ \A i \in 1..m : b[i] = source[i]
    BY <1>1, <2>1, FrontOf
  <2>8. 1..m \subseteq 1..l
    BY <1>1, <2>3
  <2>9. QED
    BY <2>6, <2>7, <2>8
<1>3. PyEnds \subseteq Ends
  BY DEF PyEnds, Ends
<1>4. IsSeq(b) /\ Recorded(b) = Rec
      /\ \A i \in DOMAIN b : b[i].op # "encChunk" /\ "op" \in DOMAIN b[i]
  BY <1>2, <1>3, BodyIs
<1>5. IsSeq(known)
  <2> DEFINE f == OfKind(b, {"def"})
  <2>1. IsSeq(f) /\ \A i \in DOMAIN f : f[i].op = "def"
    <3>1. IsSeq(f) /\ Elements(f) = {r \in Elements(b) : r.op \in {"def"}}
      BY <1>4, OfKindIsSeq
    <3>2. QED
      BY <3>1 DEF Elements
  <2>2. \A i \in DOMAIN f : IsSeq(DefsIn(f[i]))
    <3>1. SUFFICES ASSUME NEW i \in DOMAIN f PROVE IsSeq(DefsIn(f[i]))
      OBVIOUS
    <3>2. DefsIn(f[i]) = <<f[i].id>>
      BY <2>1 DEF DefsIn
    <3>3. QED
      BY <3>2, Single
  <2>3. IsSeq(Definitions(f))
    BY <2>1, <2>2, DefinitionsAreSeq
  <2>4. QED
    BY <2>3 DEF PyDefinitions
<1>6. IsSeq(data)
  BY <1>4, SealedDataIs
<1>7. IsSeq(ps)
  <2>1. Len(data) \in Nat /\ at \in SUBSET (1..Len(data))
    BY <1>6, AsFunction DEF KindAt
  <2> HIDE DEF at, d
  <2>2. QED
    BY <2>1, PlacesAreSeq
<1>8. PyEncrypted(source, recipients, SymKey, metadataMode) = s
  <2>1. PyData(source, SymKey, metadataMode) = data
    <3> HIDE DEF ps, n
    <3>1. QED
      BY DEF PyData, SealedData, KindAt, Data
  <2>2. PyEncrypted(source, recipients, SymKey, metadataMode)
          = PyFile(head, known, recipients, SymKey, data)
    BY <2>1 DEF PyEncrypted
  <2> HIDE DEF head, data, known, b
  <2>3. PyFile(head, known, recipients, SymKey, data) = s
    BY PyFileIsLaid
  <2>4. QED
    BY <2>2, <2>3
<1> HIDE DEF ps, known, n, data, head, b
<1>10. QED
  BY <1>4, <1>5, <1>7, <1>8 DEF known, n, data, head, b

\* It has all chunks of the recording, and they are counted.
LEMMA PyEncryptedIs ==
  ASSUME EncBase, PyEncrypts(source, recipients)
  PROVE  LET s == PyEncrypted(source, recipients, SymKey, metadataMode)
         IN Part(s, Rec, To) /\ Vouches(s, Len(Rec)) /\ Whole(s, Len(Rec))
<1> DEFINE b == UpTo(source, PyEnds)
           known == PyDefinitions(source)
           hd == <<Header>>
           ds == Records(known, Def)
           head == hd \o ds
           data == SealedData(b, SymKey, metadataMode)
           n == Tally(data)
<1>1. IsSeq(recipients)
  BY InputIs
<1>2. /\ IsSeq(b) /\ Recorded(b) = Rec
      /\ \A i \in DOMAIN b : b[i].op # "encChunk" /\ "op" \in DOMAIN b[i]
      /\ IsSeq(known)
  BY PyEncryptedForm
<1>3. PICK ps : /\ IsSeq(ps)
                /\ PyEncrypted(source, recipients, SymKey, metadataMode)
                     = Laid(head, recipients, SymKey, n, data, known, ps)
  BY PyEncryptedForm
<1> DEFINE s == Laid(head, recipients, SymKey, n, data, known, ps)
<1>4. Quiet(hd) /\ Unended(hd) /\ Kept(hd)
  <2>1. Quiet(hd)
    BY FrameIsQuiet
  <2>2. DOMAIN hd = {1} /\ hd[1] = Header
    BY Single
  <2>3. hd[1].op = "header"
    BY <2>2 DEF Header
  <2>4. QED
    BY <2>1, <2>2, <2>3 DEF Unended, Kept, Ends
<1> HIDE DEF hd
<1>5. Quiet(ds) /\ Kept(ds)
  <2>1. Quiet(ds) /\ Unended(ds)
    BY <1>2, DefsAreQuiet
  <2>2. QED
    BY <2>1 DEF Quiet, Unended, Kept
<1> HIDE DEF ds
<1>6. IsSeq(head) /\ Kept(head) /\ Chunkless(head) /\ Part(head, Rec, {})
  <2>1. IsSeq(hd) /\ IsSeq(ds)
    BY <1>4, <1>5, QuietIs
  <2>2. Quiet(hd \o ds) /\ Kept(hd \o ds)
    BY <1>4, <1>5, <2>1, Joining, KeptConcat
  <2>3. QED
    BY <2>2, QuietIs
<1> HIDE DEF head
<1>7. IsSeq(data) /\ Kept(data) /\ Part(data, Rec, {}) /\ Tally(data) = Len(Rec)
  BY <1>2, SealedDataIs
<1> HIDE DEF data, known, n
<1>8. /\ \A rec : Part(head, rec, {}) /\ Part(data, rec, {}) => Part(s, rec, To)
       /\ Vouches(s, n) /\ Ahead(s) /\ Tally(s) = Tally(data)
  <2>1. \A h \in Elements(recipients) : <<h, SymKey>> \in To
    BY DEF To, Given, Keys
  <2>2. QED
    BY <1>1, <1>2, <1>3, <1>6, <1>7, <2>1, LaidOut
<1> HIDE DEF s
<1>9. Part(s, Rec, To) /\ Vouches(s, Len(Rec)) /\ Whole(s, Len(Rec))
  BY <1>6, <1>7, <1>8 DEF Whole, n
<1>10. QED
  BY <1>3, <1>9 DEF s

\* Three records in a row.
LEMMA TripleIsQuiet == Quiet(<<DataEnd, Footer, Magic>>)
<1> DEFINE d == DataEnd
           e == Footer
           f == Magic
           s == <<d, e, f>>
<1>1. /\ "op" \in DOMAIN d /\ d.op \notin {"encChunk", "slot", "manifest"}
      /\ "op" \in DOMAIN e /\ e.op \notin {"encChunk", "slot", "manifest"}
      /\ "op" \in DOMAIN f /\ f.op \notin {"encChunk", "slot", "manifest"}
  BY DEF Magic, Footer, DataEnd
<1> HIDE DEF d, e, f
<1>2. DOMAIN s = 1..3 /\ s[1] = d /\ s[2] = e /\ s[3] = f
  OBVIOUS
<1>3. Elements(s) = {d, e, f}
  BY <1>2 DEF Elements
<1>4. s \in Seq({d, e, f})
  OBVIOUS
<1>5. IsSeq(s)
  BY <1>3, <1>4 DEF IsSeq
<1>6. Quiet(s)
  BY <1>1, <1>2, <1>5 DEF Quiet
<1>7. QED
  BY <1>6 DEF d, e, f

\* The slots of an earlier release.
LegacySlots == Records(recipients, LAMBDA r : [Slot(r, SymKey) EXCEPT !.version = LegacyVersion])

\* Slots of the legacy version are for the same recipients.
LEMMA LegacySlotsArePart ==
  ASSUME IsSeq(recipients)
  PROVE  /\ IsSeq(LegacySlots) /\ Chunkless(LegacySlots) /\ Unended(LegacySlots)
         /\ \A rec : Part(LegacySlots, rec, To)
<1> DEFINE s == LegacySlots
           e(r) == [Slot(r, SymKey) EXCEPT !.version = LegacyVersion]
<1>1. s = [i \in DOMAIN recipients |-> e(recipients[i])]
  BY DEF LegacySlots, Records
<1>2. \A r : e(r).op = "slot" /\ e(r).to = r /\ e(r).key = SymKey /\ DOMAIN e(r) = {"op", "to", "key", "version"}
  BY DEF Slot
<1> HIDE DEF s, e
<1>3. IsSeq(s)
  BY <1>1, OfPositions
<1>4. \A i \in DOMAIN s : /\ s[i].op = "slot" /\ <<s[i].to, s[i].key>> \in To
                          /\ DOMAIN s[i] = {"op", "to", "key", "version"}
  BY <1>1, <1>2 DEF To, Given, Keys, Elements
<1>5. Chunkless(s) /\ Unended(s)
  BY <1>4 DEF Chunkless, Unended, Ends
<1>6. \A rec : Part(s, rec, To)
  BY <1>3, <1>4 DEF Part, Genuine, HasShape
<1>7. QED
  BY <1>3, <1>5, <1>6 DEF s

\* Positions that are all selected are sorted as they are.
LEMMA SortedAll ==
  ASSUME NEW n \in Nat
  PROVE  Sorted(1..n) = [i \in 1..n |-> i]
<1> DEFINE q == [i \in 1..n |-> i]
<1>1. Enumerates(q, n, 1..n)
  BY DEF Enumerates
<1>2. 1..n \in SUBSET (1..n)
  OBVIOUS
<1>3. QED
  BY <1>1, <1>2, SortedIsUnique

\* What an earlier release seals: the chunks, attachments and metadata ahead of
\* DataEnd.
LegacyBody == OfKind(UpTo(source, {"dataEnd"}), Data)

\* The layout of what an earlier release made of a recording.
LEMMA LegacyForm ==
  ASSUME EncBase, LegacyEncrypts
  PROVE  LET known == Definitions(source)
             data == SealedData(LegacyBody, SymKey, metadataMode)
         IN /\ IsSeq(known) /\ IsSeq(recipients)
            /\ IsSeq(LegacyBody) /\ Recorded(LegacyBody) = Rec
            /\ \A i \in DOMAIN LegacyBody :
                 /\ LegacyBody[i].op # "encChunk" /\ "op" \in DOMAIN LegacyBody[i]
                 /\ LegacyBody[i].op \in Data
            /\ LegacyEncrypted = <<Magic, Header>> \o Records(known, Def) \o LegacySlots
                                   \o data \o <<DataEnd, Footer, Magic>>
<1> DEFINE known == Definitions(source)
           b == UpTo(source, {"dataEnd"})
           body == OfKind(b, Data)
           a == <<Magic, Header>>
           ds == Records(known, Def)
           sl == LegacySlots
           data == SealedData(body, SymKey, metadataMode)
           z == <<DataEnd, Footer, Magic>>
           c == a \o ds
           d == c \o sl
           e == d \o data
<1>1. IsSeq(source) /\ IsSeq(recipients)
  BY InputIs
<1>2. IsSeq(known)
  BY CollectedIs
<1>3. \A i \in DOMAIN source : source[i].op \notin Encrypted
  BY <1>1, OfKindEmpty DEF LegacyEncrypts
<1>4. \A i \in DOMAIN b : b[i].op \notin Encrypted
  <2>1. PICK m \in 0..Len(source) : UpTo(source, {"dataEnd"}) = SubSeq(source, 1, m)
    BY <1>1, UpToIsFront
  <2>2. DOMAIN b = 1..m /\ \A i \in 1..m : b[i] = source[i] /\ i \in DOMAIN source
    BY <1>1, <2>1, FrontOf
  <2>3. QED
    BY <1>3, <2>2
<1>5. /\ IsSeq(b) /\ Recorded(b) = Rec
      /\ \A i \in DOMAIN b : b[i].op # "encChunk" /\ "op" \in DOMAIN b[i]
  BY <1>4, BodyIs DEF Ends
<1> HIDE DEF b
<1>6. /\ IsSeq(body) /\ Recorded(body) = Rec
      /\ \A i \in DOMAIN body : /\ body[i].op # "encChunk" /\ "op" \in DOMAIN body[i]
                                /\ body[i].op \in Data
  <2>1. IsSeq(body) /\ Elements(body) = {r \in Elements(b) : r.op \in Data}
    BY <1>5, OfKindIsSeq
  <2>2. \A r \in Elements(b) : r.op # "encChunk" /\ "op" \in DOMAIN r
    BY <1>5 DEF Elements
  <2>3. \A i \in DOMAIN body : body[i] \in Elements(body)
    BY DEF Elements
  <2>4. OfKind(body, {"chunk"}) = OfKind(b, Data \cap {"chunk"})
    BY <1>5, OfKindTwice
  <2>5. Data \cap {"chunk"} = {"chunk"}
    BY DEF Data
  <2>6. Recorded(body) = Recorded(b)
    <3> HIDE DEF body
    <3>1. OfKind(body, {"chunk"}) = OfKind(b, {"chunk"})
      BY <2>4, <2>5
    <3>2. QED
      BY <3>1 DEF Recorded, Bodies
  <2>7. QED
    BY <1>5, <2>1, <2>2, <2>3, <2>6
<1> HIDE DEF body
<1>7. LegacyEncrypted = e \o z
  <2>1. KindAt(body, Data) = 1..Len(body) /\ Len(body) \in Nat /\ DOMAIN body = 1..Len(body)
    BY <1>6, AsFunction DEF KindAt
  <2>2. Sorted(KindAt(body, Data)) = [i \in 1..Len(body) |-> i]
    BY <2>1, SortedAll
  <2>3. data = [i \in DOMAIN body |-> Sealed(body, i, SymKey, metadataMode)]
    BY <2>1, <2>2 DEF SealedData, Records
  <2> HIDE DEF data
  <2>4. QED
    BY <2>3 DEF LegacyEncrypted, LegacySlots, b, body, Data
<1>8. body = LegacyBody
  BY DEF LegacyBody, body, b
<1>9. QED
  BY <1>1, <1>2, <1>6, <1>7, <1>8

\* What an earlier release made of a recording.
LEMMA LegacyEncryptedIs ==
  ASSUME EncBase, LegacyEncrypts
  PROVE  Part(LegacyEncrypted, Rec, To) /\ Whole(LegacyEncrypted, Len(Rec))
<1> DEFINE known == Definitions(source)
           body == LegacyBody
           a == <<Magic, Header>>
           ds == Records(known, Def)
           sl == LegacySlots
           data == SealedData(body, SymKey, metadataMode)
           z == <<DataEnd, Footer, Magic>>
           c == a \o ds
           d == c \o sl
           e == d \o data
<1>1. IsSeq(recipients)
  BY LegacyForm
<1>2. IsSeq(known)
  BY LegacyForm
<1>3. /\ IsSeq(body) /\ Recorded(body) = Rec
      /\ \A i \in DOMAIN body : body[i].op # "encChunk" /\ "op" \in DOMAIN body[i]
  BY LegacyForm
<1>4. LegacyEncrypted = e \o z
  BY LegacyForm
<1> HIDE DEF body
<1>5. IsSeq(data) /\ Kept(data) /\ Part(data, Rec, {}) /\ Tally(data) = Len(Rec)
  BY <1>3, SealedDataIs
<1> HIDE DEF data
<1>9. IsSeq(data) /\ Unended(data) /\ Part(data, Rec, To)
  BY <1>5, KeptIs
<1>10. IsSeq(a) /\ Chunkless(a) /\ Tally(a) = 0 /\ Part(a, Rec, To) /\ Open(a)
  <2> DEFINE f == Magic
             g == Header
  <2>1. /\ "op" \in DOMAIN f /\ f.op = "magic"
        /\ "op" \in DOMAIN g /\ g.op = "header"
    BY DEF Magic, Header
  <2> HIDE DEF f, g
  <2>2. IsSeq(<<f, g>>) /\ DOMAIN <<f, g>> = {1, 2} /\ <<f, g>>[1] = f /\ <<f, g>>[2] = g
    BY Pair
  <2>3. Quiet(<<f, g>>)
    BY <2>1, <2>2 DEF Quiet
  <2>4. Open(<<f, g>>)
    BY <2>1, <2>2 DEF Open, Ends
  <2>5. Quiet(a) /\ Open(a)
    BY <2>3, <2>4 DEF f, g
  <2> HIDE DEF a
  <2>6. QED
    BY <2>5, QuietIs
<1>11. IsSeq(ds) /\ Unended(ds) /\ Part(ds, Rec, To) /\ Tally(ds) = 0
  <2>1. Quiet(ds) /\ Unended(ds)
    BY <1>2, DefsAreQuiet
  <2> HIDE DEF ds
  <2>2. QED
    BY <2>1, QuietIs
<1>12. IsSeq(sl) /\ Unended(sl) /\ Part(sl, Rec, To) /\ Tally(sl) = 0
  <2>1. IsSeq(sl) /\ Unended(sl) /\ Part(sl, Rec, To) /\ Chunkless(sl)
    BY <1>1, LegacySlotsArePart
  <2> HIDE DEF sl
  <2>2. QED
    BY <2>1, TallyNone
<1>13. IsSeq(z) /\ Chunkless(z) /\ Part(z, Rec, To) /\ Tally(z) = 0
  <2>1. Quiet(z)
    BY TripleIsQuiet
  <2> HIDE DEF z
  <2>2. QED
    BY <2>1, QuietIs
<1> HIDE DEF a, ds, sl, z
<1>14. IsSeq(c) /\ Part(c, Rec, To) /\ Open(c) /\ Tally(c) = 0
  BY <1>10, <1>11, Joining
<1> HIDE DEF c
<1>15. IsSeq(d) /\ Part(d, Rec, To) /\ Open(d) /\ Tally(d) = 0
  BY <1>12, <1>14, Joining
<1> HIDE DEF d
<1>16. /\ IsSeq(e) /\ Part(e, Rec, To) /\ Open(e) /\ Tally(e) = Tally(d) + Tally(data)
       /\ Tally(data) \in Nat
  BY <1>9, <1>15, Joining
<1>17. Tally(e) = Len(Rec) /\ Tally(e) \in Nat
  BY <1>5, <1>15, <1>16
<1> HIDE DEF e
<1>18. Ahead(e)
  BY <1>16, OpenIsAhead
<1>19. Part(e \o z, Rec, To) /\ Ahead(e \o z) /\ Tally(e \o z) = Tally(e) + Tally(z)
  BY <1>13, <1>16, <1>18, Joining
<1>20. Tally(e \o z) = Len(Rec)
  BY <1>13, <1>17, <1>19
<1> DEFINE y == e \o z
<1> HIDE DEF y
<1>21. QED
  BY <1>4, <1>19, <1>20 DEF Whole, y

-----------------------------------------------------------------------------
(* The TypeScript package's encryptor.                                     *)

\* What its loop writes at record i of the body b.
TsWrites(b, opening, k, mm, i) ==
  (IF i = Len(UpTo(b, TsFlushes)) + 1 THEN opening ELSE <<>>) \o TsPiece(b, i, k, mm)

\* So is nothing at all.
LEMMA SilentNothing ==
  ASSUME NEW to
  PROVE  Silent(<<>>, to)
<1>1. IsSeq(<<>>) /\ DOMAIN <<>> = {}
  BY DEF IsSeq, Elements
<1>2. QED
  BY <1>1 DEF Silent, Chunkless, Unended, Part, Vouches

\* One record of its loop.
LEMMA TsOneMore ==
  ASSUME NEW b, IsSeq(b),
         \A i \in DOMAIN b : b[i].op # "encChunk" /\ "op" \in DOMAIN b[i],
         \A i, j \in DOMAIN b : b[i].op = "chunk" /\ b[j].op = "dataEnd" => i < j,
         NEW n \in 0..Len(b), n < Len(b),
         NEW k, NEW mm, NEW to, NEW opening, Silent(opening, to),
         NEW s, Covers(s, SubSeq(b, 1, n), to), Unclosed(s, SubSeq(b, 1, n))
  PROVE  /\ IsSeq(TsWrites(b, opening, k, mm, n + 1))
         /\ Covers(s \o TsWrites(b, opening, k, mm, n + 1), SubSeq(b, 1, n + 1), to)
         /\ Unclosed(s \o TsWrites(b, opening, k, mm, n + 1), SubSeq(b, 1, n + 1))
<1> DEFINE past == SubSeq(b, 1, n)
           next == SubSeq(b, 1, n + 1)
           flush == IF n + 1 = Len(UpTo(b, TsFlushes)) + 1 THEN opening ELSE <<>>
           p == TsPiece(b, n + 1, k, mm)
           r == b[n + 1]
           c == Len(Recorded(past))
           u == s \o flush
<1>1. /\ n + 1 \in DOMAIN b /\ Len(b) \in Nat /\ DOMAIN b = 1..Len(b)
      /\ "op" \in DOMAIN r /\ r.op # "encChunk"
  BY AsFunction
<1>2. Silent(flush, to)
  BY SilentNothing
<1>3. TsWrites(b, opening, k, mm, n + 1) = flush \o p
  BY DEF TsWrites
<1> HIDE DEF flush
<1>4. Covers(u, past, to) /\ Unclosed(u, past) /\ IsSeq(u) /\ IsSeq(flush) /\ IsSeq(s)
  <2>1. Covers(u, past, to) /\ Unclosed(u, past)
    BY <1>2, CoverSilent
  <2>2. QED
    BY <1>2, <2>1 DEF Silent, Covers, Part
<1> HIDE DEF u
<1>5. CountBefore(b, n + 1, "chunk") = c
  BY ChunksBeforeIs
<1>6. ASSUME Silent(p, to), r.op # "chunk"
      PROVE  Covers(u \o p, next, to) /\ Unclosed(u \o p, next) /\ IsSeq(p)
  <2> HIDE DEF p, past
  <2>1. Covers(u \o p, past, to) /\ Unclosed(u \o p, past)
    BY <1>4, <1>6, CoverSilent
  <2>2. QED
    BY <1>6, <2>1, CoverPass DEF past, Silent
<1>7. Covers(u \o p, next, to) /\ Unclosed(u \o p, next) /\ IsSeq(p)
  <2>1. CASE r.op = "chunk"
    <3> DEFINE e == EncChunk(r.body, k, c)
    <3>1. p = <<e>>
      BY <1>5, <2>1 DEF TsPiece, Sealed
    <3>2. ~ DataOver(past)
      <4>1. DOMAIN past = 1..n /\ \A i \in 1..n : past[i] = b[i]
        BY FrontOf
      <4>2. SUFFICES ASSUME NEW j \in DOMAIN past, past[j].op = "dataEnd" PROVE FALSE
        BY DEF DataOver
      <4>3. j \in 1..n /\ j \in DOMAIN b /\ b[j].op = "dataEnd"
        BY <1>1, <4>1, <4>2
      <4>4. n + 1 < j
        BY <1>1, <2>1, <4>3
      <4>5. QED
        BY <1>1, <4>3, <4>4
    <3> HIDE DEF p
    <3>3. Covers(u \o <<e>>, next, to) /\ Unclosed(u \o <<e>>, next)
      <4> HIDE DEF u
      <4>1. QED
        BY <1>4, <2>1, <3>2, CoverChunk
    <3> HIDE DEF e
    <3>4. IsSeq(<<e>>)
      BY Single
    <3>5. QED
      BY <3>1, <3>3, <3>4
  <2>2. CASE r.op = "header"
    <3>1. p = <<r>>
      BY <2>2 DEF TsPiece, Sealed
    <3>2. Silent(<<r>>, to)
      <4> HIDE DEF r
      <4>1. QED
        BY <1>1, <2>2, SilentOne DEF Ends
    <3>3. QED
      BY <1>6, <2>2, <3>1, <3>2
  <2>3. CASE r.op \in {"attachment", "metadata"}
    <3> DEFINE e == Sealed(b, n + 1, k, mm)
    <3>1. p = <<e>>
      BY <2>3 DEF TsPiece
    <3>2. /\ "op" \in DOMAIN e /\ e.op \notin Ends \cup {"slot", "manifest"}
          /\ e.op # "encChunk"
      <4>1. e \in {EncAttachment(r.body, k), EncMetadata(r.body, k), r}
        BY <2>3 DEF Sealed
      <4> HIDE DEF e
      <4>2. QED
        BY <1>1, <2>3, <4>1 DEF EncAttachment, EncMetadata, Ends
    <3> HIDE DEF e
    <3>3. Silent(<<e>>, to)
      BY <3>2, SilentOne
    <3>4. QED
      BY <1>6, <2>3, <3>1, <3>3
  <2>4. CASE r.op = "dataEnd"
    <3> DEFINE m == <<Manifest(k, c)>>
               d == <<DataEnd>>
    <3>1. p = <<Manifest(k, c), DataEnd>>
      BY <1>5, <2>4 DEF TsPiece
    <3>2. p = m \o d
      BY <3>1, PairIsConcat
    <3>3. /\ IsSeq(m) /\ Chunkless(m) /\ Vouches(m, c) /\ \A rec : Part(m, rec, to)
      BY ManifestAlone
    <3>4. /\ IsSeq(d) /\ Chunkless(d) /\ Vouches(d, c) /\ \A rec : Part(d, rec, to)
      <4>1. Quiet(d)
        BY FrameIsQuiet
      <4> HIDE DEF d
      <4>2. QED
        BY <4>1, QuietIs
    <3> DEFINE x == m \o d
    <3> HIDE DEF m, d, p
    <3>5. IsSeq(x) /\ Chunkless(x) /\ Vouches(x, c)
      BY <3>3, <3>4, Joining
    <3>6. \A rec : Part(x, rec, to)
      BY <3>3, <3>4, Joining
    <3> HIDE DEF x, past
    <3>7. Covers(u \o x, past, to)
      BY <1>4, <3>5, <3>6, CoverClose
    <3>8. Covers(u \o x, next, to)
      BY <2>4, <3>7, CoverPass DEF past
    <3>9. DataOver(next)
      BY <2>4, OverGrows
    <3>10. Unclosed(u \o x, next)
      BY <3>9 DEF Unclosed
    <3>11. QED
      BY <3>2, <3>5, <3>8, <3>10 DEF x
  <2>5. CASE r.op \notin {"chunk", "header", "attachment", "metadata", "dataEnd"}
    <3>1. p = <<>>
      BY <2>5 DEF TsPiece
    <3>2. QED
      BY <1>6, <2>5, <3>1, SilentNothing
  <2>6. QED
    BY <2>1, <2>2, <2>3, <2>4, <2>5
<1> HIDE DEF p
<1>8. u \o p = s \o (flush \o p)
  <2>1. IsSeq(p)
    BY <1>7
  <2>2. (s \o flush) \o p = s \o (flush \o p)
    BY <1>4, <2>1, Grouped
  <2>3. QED
    BY <2>2 DEF u
<1>9. IsSeq(flush \o p)
  BY <1>4, <1>7, Concat
<1> HIDE DEF next
<1>10. QED
  BY <1>3, <1>7, <1>8, <1>9 DEF next

\* What the loop makes of the records of b up to each of them.
TsLoop(b, opening, k, mm, f) ==
  [i \in 0..Len(b) |-> IF i = 0 THEN <<Magic>>
                       ELSE f[i - 1] \o TsWrites(b, opening, k, mm, i)]

\* A piece is a sequence.
LEMMA TsWritesIsSeq ==
  ASSUME NEW b, NEW opening, IsSeq(opening), NEW k, NEW mm, NEW i
  PROVE  IsSeq(TsWrites(b, opening, k, mm, i))
<1> DEFINE flush == IF i = Len(UpTo(b, TsFlushes)) + 1 THEN opening ELSE <<>>
           p == TsPiece(b, i, k, mm)
<1>1. IsSeq(<<>>)
  BY DEF IsSeq, Elements
<1>2. IsSeq(flush)
  BY <1>1
<1>3. IsSeq(p)
  <2>1. CASE b[i].op \in {"header", "chunk", "attachment", "metadata"}
    <3> DEFINE e == Sealed(b, i, k, mm)
    <3>1. p = <<e>>
      BY <2>1 DEF TsPiece
    <3> HIDE DEF e
    <3>2. QED
      BY <3>1, Single
  <2>2. CASE b[i].op = "dataEnd"
    <3> DEFINE m == Manifest(k, CountBefore(b, i, "chunk"))
               d == DataEnd
    <3>1. p = <<m, d>>
      BY <2>2 DEF TsPiece
    <3> HIDE DEF m, d, p
    <3>2. QED
      BY <3>1, Pair
  <2>3. CASE b[i].op \notin {"header", "chunk", "attachment", "metadata", "dataEnd"}
    BY <1>1, <2>3 DEF TsPiece
  <2>4. QED
    BY <2>1, <2>2, <2>3
<1> HIDE DEF flush, p
<1>4. IsSeq(flush \o p)
  BY <1>2, <1>3, Concat
<1>5. QED
  BY <1>4 DEF TsWrites, flush, p

\* Whatever the loop has read, it has written.
LEMMA TsLoopCovers ==
  ASSUME NEW b, IsSeq(b),
         \A i \in DOMAIN b : b[i].op # "encChunk" /\ "op" \in DOMAIN b[i],
         \A i, j \in DOMAIN b : b[i].op = "chunk" /\ b[j].op = "dataEnd" => i < j,
         NEW k, NEW mm, NEW to, NEW opening, Silent(opening, to),
         NEW f, f = TsLoop(b, opening, k, mm, f)
  PROVE  Covers(f[Len(b)], SubSeq(b, 1, Len(b)), to)
<1> DEFINE N == Len(b)
           G == {n \in 0..N : /\ Covers(f[n], SubSeq(b, 1, n), to)
                              /\ Unclosed(f[n], SubSeq(b, 1, n))}
<1>1. N \in Nat
  BY AsFunction
<1>2. f = [i \in 0..N |-> IF i = 0 THEN <<Magic>>
                          ELSE f[i - 1] \o TsWrites(b, opening, k, mm, i)]
  BY DEF TsLoop
<1>3. f[0] = <<Magic>>
  BY <1>1, <1>2
<1>4. 0 \in G
  BY <1>1, <1>3, CoverStart
<1>5. ASSUME NEW n \in 0..(N - 1), n \in G PROVE n + 1 \in G
  <2>1. n + 1 \in 0..N /\ n + 1 # 0 /\ (n + 1) - 1 = n /\ n \in 0..N /\ n < N
    BY <1>1
  <2>2. f[n + 1] = f[n] \o TsWrites(b, opening, k, mm, n + 1)
    BY <1>2, <2>1
  <2>3. Covers(f[n], SubSeq(b, 1, n), to) /\ Unclosed(f[n], SubSeq(b, 1, n))
    BY <1>5
  <2>4. /\ Covers(f[n] \o TsWrites(b, opening, k, mm, n + 1), SubSeq(b, 1, n + 1), to)
        /\ Unclosed(f[n] \o TsWrites(b, opening, k, mm, n + 1), SubSeq(b, 1, n + 1))
    BY <2>1, <2>3, TsOneMore
  <2>5. QED
    BY <2>1, <2>2, <2>4
<1> HIDE DEF G
<1>6. \A n \in 0..N : n \in G
  BY <1>1, <1>4, <1>5, Induction
<1>7. N \in G
  BY <1>1, <1>6
<1>8. QED
  BY <1>7 DEF G

\* The records of the source that it reads, what it writes at the first one it
\* encrypts, and what it writes at the end.
TsBody == UpTo(source, {"footer"})
TsOpening == Records(TsDefinitions(TsBody), Def) \o MadeSlots(recipients, SymKey)
TsTail == (IF Len(TsBody) < Len(source) THEN <<Footer>> ELSE <<>>) \o <<Magic>>

\* What the TypeScript package encrypts is what its loop makes of these.
LEMMA TsEncryptedForm ==
  ASSUME EncBase, TsEncrypts(source, recipients)
  PROVE  /\ IsSeq(TsBody) /\ Recorded(TsBody) = Rec /\ IsSeq(recipients)
         /\ \A i \in DOMAIN TsBody : /\ TsBody[i].op \notin Encrypted \cup {"message"}
                                     /\ "op" \in DOMAIN TsBody[i]
         /\ \A i, j \in DOMAIN TsBody :
              TsBody[i].op = "chunk" /\ TsBody[j].op = "dataEnd" => i < j
         /\ IsSeq(TsDefinitions(TsBody)) /\ IsSeq(TsOpening)
         /\ \E w : /\ w = TsLoop(TsBody, TsOpening, SymKey, metadataMode, w)
                   /\ TsEncrypted(source, recipients, SymKey, metadataMode)
                        = w[Len(TsBody)] \o TsTail
<1> DEFINE b == TsBody
           N == Len(b)
           ds == Records(TsDefinitions(b), Def)
           sl == MadeSlots(recipients, SymKey)
           opening == TsOpening
           w == CHOOSE f : f = TsLoop(b, opening, SymKey, metadataMode, f)
<1>1. IsSeq(source) /\ IsSeq(recipients)
  BY InputIs
<1>2. \A i \in DOMAIN b : b[i].op \notin Encrypted \cup {"message"}
  <2>1. IsSeq(b)
    <3>1. PICK m \in 0..Len(source) : b = SubSeq(source, 1, m)
      BY <1>1, UpToIsFront DEF TsBody
    <3>2. QED
      BY <1>1, <3>1, FrontOf
  <2>2. OfKind(b, Encrypted \cup {"message"}) = <<>>
    BY DEF TsEncrypts, TsBody
  <2> HIDE DEF b
  <2>3. QED
    BY <2>1, <2>2, OfKindEmpty
<1>3. /\ IsSeq(b) /\ Recorded(b) = Rec
      /\ \A i \in DOMAIN b : "op" \in DOMAIN b[i]
      /\ \A i, j \in DOMAIN b : b[i].op = "chunk" /\ b[j].op = "dataEnd" => i < j
  BY <1>2, BodyIs DEF Ends, TsBody
<1>4. TsEncrypted(source, recipients, SymKey, metadataMode) = w[N] \o TsTail
  BY DEF TsEncrypted, TsLoop, TsWrites, MadeSlots, TsBody, TsOpening, TsTail
<1> HIDE DEF b
<1>5. N \in Nat
  BY <1>3, AsFunction
<1>6. IsSeq(TsDefinitions(b))
  <2>1. PICK m \in 0..Len(b) : UpTo(b, TsFlushes) = SubSeq(b, 1, m)
    BY <1>3, UpToIsFront
  <2>2. IsSeq(UpTo(b, TsFlushes))
    BY <1>3, <2>1, FrontOf
  <2>3. QED
    BY <2>2, DefIdsAreSeq DEF TsDefinitions
<1>7. IsSeq(opening)
  <2>1. IsSeq(ds)
    <3> DEFINE known == TsDefinitions(b)
    <3>1. IsSeq(known)
      BY <1>6
    <3> HIDE DEF known
    <3>2. Quiet(Records(known, Def))
      BY <3>1, DefsAreQuiet
    <3>3. QED
      BY <3>2, QuietIs DEF known
  <2>2. IsSeq(sl)
    <3>1. \A h \in Elements(recipients) : <<h, SymKey>> \in To
      BY DEF To, Given, Keys
    <3>2. QED
      BY <1>1, <3>1, SlotsArePart
  <2> HIDE DEF ds, sl
  <2>3. IsSeq(ds \o sl)
    BY <2>1, <2>2, Concat
  <2>4. QED
    BY <2>3 DEF ds, sl, TsOpening, b
<1> HIDE DEF opening
<1>8. w = TsLoop(b, opening, SymKey, metadataMode, w)
  <2> DEFINE piece == [i \in 1..N |-> TsWrites(b, opening, SymKey, metadataMode, i)]
             a == <<Magic>>
  <2>1. \A i \in 1..N : IsSeq(piece[i])
    BY <1>7, TsWritesIsSeq
  <2>2. IsSeq(a)
    BY Single
  <2>3. \A i \in 1..N : piece[i] = TsWrites(b, opening, SymKey, metadataMode, i)
    OBVIOUS
  <2> HIDE DEF piece, N
  <2>4. PICK g : Built(g, N, a, piece)
    BY <1>5, <2>1, <2>2, Building
  <2>5. g = [i \in 0..N |-> IF i = 0 THEN a ELSE g[i - 1] \o piece[i]]
    BY <2>4 DEF Built
  <2>6. \A i \in 0..N : i # 0 => piece[i] = TsWrites(b, opening, SymKey, metadataMode, i)
    BY <1>5, <2>3
  <2>7. g = [i \in 0..N |-> IF i = 0 THEN a
                            ELSE g[i - 1] \o TsWrites(b, opening, SymKey, metadataMode, i)]
    BY <2>5, <2>6
  <2>8. g = TsLoop(b, opening, SymKey, metadataMode, g)
    BY <2>7 DEF TsLoop, N
  <2>9. QED
    BY <2>8, Zenon
<1> HIDE DEF w
<1>9. QED
  BY <1>1, <1>2, <1>3, <1>4, <1>6, <1>7, <1>8 DEF b, opening

\* It has all chunks of the recording, and they are counted.
LEMMA TsEncryptedIs ==
  ASSUME EncBase, TsEncrypts(source, recipients)
  PROVE  LET s == TsEncrypted(source, recipients, SymKey, metadataMode)
         IN Part(s, Rec, To) /\ Vouches(s, Len(Rec)) /\ Whole(s, Len(Rec))
<1> DEFINE b == TsBody
           N == Len(b)
           known == TsDefinitions(b)
           ds == Records(known, Def)
           sl == MadeSlots(recipients, SymKey)
           opening == TsOpening
           foot == IF N < Len(source) THEN <<Footer>> ELSE <<>>
           tail == TsTail
<1>1. /\ IsSeq(b) /\ Recorded(b) = Rec /\ IsSeq(known) /\ IsSeq(recipients)
      /\ \A i \in DOMAIN b : b[i].op # "encChunk" /\ "op" \in DOMAIN b[i]
      /\ \A i, j \in DOMAIN b : b[i].op = "chunk" /\ b[j].op = "dataEnd" => i < j
  BY TsEncryptedForm DEF Encrypted
<1>2. PICK w : /\ w = TsLoop(b, opening, SymKey, metadataMode, w)
               /\ TsEncrypted(source, recipients, SymKey, metadataMode) = w[N] \o tail
  BY TsEncryptedForm
<1>3. N \in Nat
  BY <1>1, AsFunction
<1>4. Silent(opening, To)
  <2>1. Silent(ds, To)
    <3> HIDE DEF known
    <3>1. QED
      BY <1>1, SilentDefs
  <2>2. Silent(sl, To)
    <3>1. \A h \in Elements(recipients) : <<h, SymKey>> \in To
      BY DEF To, Given, Keys
    <3>2. QED
      BY <1>1, <3>1, SilentSlots
  <2> HIDE DEF ds, sl
  <2>3. Silent(ds \o sl, To)
    BY <2>1, <2>2, SilentConcat
  <2>4. QED
    BY <2>3 DEF ds, sl, TsOpening
<1>5. /\ IsSeq(tail) /\ Chunkless(tail) /\ Vouches(tail, Len(Rec))
       /\ \A rec : Part(tail, rec, To)
  <2> DEFINE m == <<Magic>>
  <2>1. Quiet(foot)
    <3>1. Quiet(<<Footer>>)
      BY FrameIsQuiet
    <3>2. Quiet(<<>>)
      BY DEF Quiet, IsSeq, Elements
    <3>3. QED
      BY <3>1, <3>2
  <2>2. Quiet(m)
    BY FrameIsQuiet
  <2>3. tail = foot \o m
    BY DEF TsTail
  <2> HIDE DEF foot, m, tail
  <2>4. Quiet(tail)
    BY <2>1, <2>2, <2>3, QuietIs, Joining
  <2>5. QED
    BY <2>4, QuietIs
<1> HIDE DEF b, opening, tail
<1>6. Covers(w[N], SubSeq(b, 1, N), To)
  BY <1>1, <1>2, <1>4, TsLoopCovers
<1>7. Recorded(SubSeq(b, 1, N)) = Rec
  <2>1. N \in 0..Len(b) /\ \A i \in DOMAIN b : b[i].op = "chunk" => i <= N
    BY <1>1, <1>3, AsFunction
  <2>2. QED
    BY <1>1, <2>1, RecordedAll
<1> DEFINE s == w[N]
           past == SubSeq(b, 1, N)
<1> HIDE DEF N, past
<1>8. Covers(s \o tail, past, To)
  BY <1>5, <1>6, <1>7, CoverClose DEF past
<1> DEFINE t == s \o tail
<1> HIDE DEF t
<1>9. Part(t, Rec, To) /\ Vouches(t, Len(Rec)) /\ Whole(t, Len(Rec))
  BY <1>7, <1>8 DEF Covers, Whole, past, t
<1>10. QED
  BY <1>2, <1>9 DEF t

-----------------------------------------------------------------------------
\* A file that another program encrypted.
LEMMA ElsewhereStores ==
  ASSUME EncBase, faults = 0, NEW tool \in Tools, EncryptElsewhere(tool)
  PROVE  StoredPart'
<1>1. /\ EncryptsElsewhere(tool) /\ stored' = EncryptedElsewhere(tool) /\ Given(readers') = To
      /\ source' = source
  BY DEF EncryptElsewhere, To, encVars
<1>2. vouched' => tool # "legacy"
  BY DEF EncryptElsewhere
<1>3. Rec' = Rec
  BY <1>1 DEF Rec
<1>4. tool \in {"python", "typescript", "legacy"}
  BY ToolsAssumption
<1>5. /\ Part(EncryptedElsewhere(tool), Rec, To) /\ Whole(EncryptedElsewhere(tool), Len(Rec))
      /\ tool # "legacy" => Vouches(EncryptedElsewhere(tool), Len(Rec))
  <2>1. CASE tool = "python"
    BY <1>1, <2>1, PyEncryptedIs DEF EncryptsElsewhere, EncryptedElsewhere
  <2>2. CASE tool = "typescript"
    BY <1>1, <2>2, TsEncryptedIs DEF EncryptsElsewhere, EncryptedElsewhere
  <2>3. CASE tool = "legacy"
    BY <1>1, <2>3, LegacyEncryptedIs DEF EncryptsElsewhere, EncryptedElsewhere
  <2>4. QED
    BY <1>4, <2>1, <2>2, <2>3
<1>6. QED
  BY <1>1, <1>2, <1>3, <1>5 DEF StoredPart

-----------------------------------------------------------------------------
(* The invariant: rotation.                                                *)

\* ms says where the chunks of the records d are.
PointsInto(ms, d) ==
  /\ IsSeq(ms) /\ Len(ms) = Tally(d)
  /\ \A i \in DOMAIN ms : ms[i] \in DOMAIN d /\ d[ms[i]].op = "encChunk"
  /\ \A i, j \in DOMAIN ms : i < j => ms[i] < ms[j]

\* The buffers of a rotation hold what it has scanned.
Buffered ==
  /\ Part(headerBuf, Rec, {}) /\ Kept(headerBuf) /\ Chunkless(headerBuf)
  /\ Part(dataBuf, Rec, {}) /\ Kept(dataBuf)
  /\ IsSeq(rotDefs) /\ PointsInto(chunkMetas, dataBuf)

\* A rotated file: whose recipients and chunks it has, and where they are.
Laying ==
  /\ Part(rotated, Rec, Given(Elements(newRecipients)))
  /\ Vouches(rotated, Len(chunkMetas)) /\ Whole(rotated, Len(chunkMetas))
  /\ Len(Prefix) \in Nat /\ \A i \in DOMAIN dataBuf : rotated[Len(Prefix) + i] = dataBuf[i]

Rotating ==
  /\ rotFile = stored
  /\ newRecipients \in NewLists
  /\ rotKey \in Keys \cup {NoKey}
  /\ Buffered
  /\ rotState = "idle" => chunkMetas = <<>>
  /\ rotState = "scanning" =>
       /\ rotPos \in 2..(Len(rotFile) + 1) /\ rotFile[1].op = "magic"
       /\ Len(chunkMetas) = Tally(SubSeq(rotFile, 1, rotPos - 1))
  /\ rotState \in {"scanned", "done"} /\ faults = 0 => Len(chunkMetas) = Len(Rec)
  /\ rotState = "done" => Laying

\* One more chunk.
LEMMA PointsMore ==
  ASSUME NEW ms, NEW d, IsSeq(d), PointsInto(ms, d), NEW e
  PROVE  /\ e.op # "encChunk" => PointsInto(ms, d \o <<e>>)
         /\ e.op = "encChunk" => PointsInto(ms \o <<Len(d) + 1>>, d \o <<e>>)
<1> DEFINE g == d \o <<e>>
           p == Len(d) + 1
           ns == ms \o <<p>>
<1>1. /\ IsSeq(g) /\ Len(d) \in Nat /\ DOMAIN d = 1..Len(d) /\ DOMAIN g = 1..p
      /\ \A i \in 1..Len(d) : g[i] = d[i]
      /\ g[p] = e
  BY OneMore
<1>2. Tally(g) = Tally(d) + Tally(<<e>>) /\ Tally(d) \in Nat
  BY Single, Joining
<1>3. Tally(<<e>>) = IF e.op = "encChunk" THEN 1 ELSE 0
  BY TallySingle
<1>4. /\ IsSeq(ms) /\ Len(ms) = Tally(d) /\ DOMAIN ms = 1..Len(ms) /\ Len(ms) \in Nat
      /\ \A i \in DOMAIN ms : ms[i] \in DOMAIN d /\ d[ms[i]].op = "encChunk"
      /\ \A i, j \in DOMAIN ms : i < j => ms[i] < ms[j]
  BY AsFunction DEF PointsInto
<1> HIDE DEF g
<1>5. \A i \in DOMAIN ms : ms[i] \in DOMAIN g /\ g[ms[i]].op = "encChunk" /\ ms[i] < p
                           /\ ms[i] \in Nat
  BY <1>1, <1>4
<1>6. ASSUME e.op # "encChunk" PROVE PointsInto(ms, g)
  BY <1>2, <1>3, <1>4, <1>5, <1>6 DEF PointsInto
<1>7. ASSUME e.op = "encChunk" PROVE PointsInto(ns, g)
  <2>1. /\ IsSeq(ns) /\ Len(ns) = Len(ms) + 1 /\ DOMAIN ns = 1..(Len(ms) + 1)
        /\ \A i \in 1..Len(ms) : ns[i] = ms[i]
        /\ ns[Len(ms) + 1] = p
    <3>1. IsSeq(ms)
      BY <1>4
    <3> HIDE DEF p
    <3>2. QED
      BY <3>1, OneMore
  <2> HIDE DEF ns
  <2>2. Len(ns) = Tally(g)
    BY <1>2, <1>3, <1>4, <1>7, <2>1
  <2>3. ASSUME NEW i \in DOMAIN ns PROVE ns[i] \in DOMAIN g /\ g[ns[i]].op = "encChunk"
    <3>1. CASE i = Len(ms) + 1
      BY <1>1, <1>7, <2>1, <3>1
    <3>2. CASE i \in 1..Len(ms)
      BY <1>4, <1>5, <2>1, <3>2
    <3>3. QED
      BY <1>4, <2>1, <2>3, <3>1, <3>2
  <2>4. ASSUME NEW i \in DOMAIN ns, NEW j \in DOMAIN ns, i < j PROVE ns[i] < ns[j]
    <3>1. i \in 1..Len(ms)
      BY <1>4, <2>1, <2>4
    <3>2. CASE j = Len(ms) + 1
      BY <1>4, <1>5, <2>1, <3>1, <3>2
    <3>3. CASE j \in 1..Len(ms)
      <4>1. ms[i] < ms[j]
        BY <1>4, <2>4, <3>1, <3>3
      <4>2. QED
        BY <2>1, <3>1, <3>3, <4>1
    <3>4. QED
      BY <1>4, <2>1, <3>2, <3>3
  <2>5. QED
    BY <2>1, <2>2, <2>3, <2>4 DEF PointsInto
<1>8. QED
  BY <1>6, <1>7 DEF g

\* One more record that is kept.
LEMMA KeptMore ==
  ASSUME NEW s, NEW rec, NEW to, Part(s, rec, {}), Kept(s), NEW e, Genuine(e, rec, to),
         e.op \notin Ends \cup {"slot", "manifest"}
  PROVE  /\ Part(s \o <<e>>, rec, {}) /\ Kept(s \o <<e>>)
         /\ Chunkless(s) /\ e.op # "encChunk" => Chunkless(s \o <<e>>)
<1>1. IsSeq(s) /\ IsSeq(<<e>>) /\ DOMAIN <<e>> = {1} /\ <<e>>[1] = e
  BY Single DEF Part
<1> DEFINE t == <<e>>
<1>2. Part(t, rec, {}) /\ Kept(t) /\ (e.op # "encChunk" => Chunkless(t))
  BY <1>1 DEF Part, Kept, Chunkless, Genuine
<1> HIDE DEF t
<1>3. IsSeq(t)
  BY <1>1 DEF t
<1>4. Part(s \o t, rec, {}) /\ (Chunkless(s) /\ Chunkless(t) => Chunkless(s \o t))
  BY <1>1, <1>2, <1>3, Joining
<1>5. Kept(s \o t)
  BY <1>1, <1>2, <1>3, KeptConcat
<1>6. QED
  BY <1>2, <1>4, <1>5 DEF t

\* What a rotation reads is the stored file, and stays so.
RotUnmoved ==
  UNCHANGED <<source, stored, readers, faults, rotFile, newRecipients>>

\* The scan moves behind a record, which goes to one of the buffers or to
\* neither.
LEMMA ScanMoves ==
  ASSUME StoredPart, Rotating, RotUnmoved, Move, UNCHANGED rotated,
         NEW ops, Scans(ops), ops \cap Ends = {}, IsSeq(rotDefs'),
         rotKey' = rotKey \/ (Scanned.op = "slot" /\ rotKey' = Scanned.key),
         \/ /\ Scanned.op \notin {"encChunk", "slot", "manifest"}
            /\ \/ headerBuf' = Append(headerBuf, Scanned) /\ dataBuf' = dataBuf
               \/ headerBuf' = headerBuf /\ dataBuf' = Append(dataBuf, Scanned)
            /\ chunkMetas' = chunkMetas
         \/ /\ Scanned.op = "encChunk"
            /\ headerBuf' = headerBuf /\ dataBuf' = Append(dataBuf, Scanned)
            /\ chunkMetas' = Append(chunkMetas, Len(dataBuf) + 1)
         \/ /\ Scanned.op \in {"slot", "manifest"}
            /\ headerBuf' = headerBuf /\ dataBuf' = dataBuf /\ chunkMetas' = chunkMetas
  PROVE  Rotating'
<1> DEFINE m == rotPos - 1
           e == Scanned
           h == headerBuf
           d == dataBuf
           p == Len(dataBuf) + 1
<1>1. /\ rotFile = stored /\ rotState = "scanning" /\ rotPos <= Len(rotFile)
      /\ rotPos \in 2..(Len(rotFile) + 1) /\ rotFile[1].op = "magic"
      /\ Len(chunkMetas) = Tally(SubSeq(rotFile, 1, m))
      /\ newRecipients \in NewLists /\ rotKey \in Keys \cup {NoKey} /\ Buffered
  BY DEF Rotating, Scans
<1>2. IsSeq(rotFile) /\ Part(rotFile, Rec, Given(readers))
  BY <1>1 DEF StoredPart, Part
<1>3. /\ Len(rotFile) \in Nat /\ DOMAIN rotFile = 1..Len(rotFile)
      /\ m \in 0..Len(rotFile) /\ m < Len(rotFile) /\ m + 1 = rotPos
      /\ rotPos \in DOMAIN rotFile /\ (rotPos + 1) - 1 = rotPos
      /\ rotPos + 1 \in 2..(Len(rotFile) + 1)
  <2>1. Len(rotFile) \in Nat /\ DOMAIN rotFile = 1..Len(rotFile)
    BY <1>2, AsFunction
  <2> DEFINE l == Len(rotFile)
  <2>2. l \in Nat /\ rotPos \in 2..(l + 1) /\ rotPos <= l
    BY <1>1, <2>1
  <2> HIDE DEF l
  <2>3. /\ m \in 0..l /\ m < l /\ m + 1 = rotPos /\ rotPos \in 1..l
        /\ (rotPos + 1) - 1 = rotPos /\ rotPos + 1 \in 2..(l + 1)
    BY <2>2
  <2>4. QED
    BY <2>1, <2>3 DEF l
<1>4. Genuine(e, Rec, Given(readers)) /\ e = rotFile[m + 1] /\ e.op \notin Ends
  BY <1>2, <1>3 DEF Part, Scanned, Scans
<1>5. /\ rotPos' = rotPos + 1 /\ rotState' = "scanning" /\ rotFile' = rotFile
      /\ stored' = stored /\ source' = source /\ newRecipients' = newRecipients
  BY <1>1 DEF Move, RotUnmoved
<1>6. Rec' = Rec
  BY <1>5 DEF Rec
<1>7. /\ IsSeq(h) /\ IsSeq(d) /\ IsSeq(chunkMetas)
      /\ Part(h, Rec, {}) /\ Kept(h) /\ Chunkless(h) /\ Part(d, Rec, {}) /\ Kept(d)
      /\ PointsInto(chunkMetas, d)
  BY <1>1 DEF Buffered, Part, PointsInto
<1>8. /\ Append(h, e) = h \o <<e>> /\ Append(d, e) = d \o <<e>>
      /\ Append(chunkMetas, p) = chunkMetas \o <<p>>
      /\ IsSeq(<<e>>) /\ IsSeq(<<p>>)
  <2> HIDE DEF p, e
  <2>1. QED
    BY <1>7, AppendOne, Single
<1>9. /\ SubSeq(rotFile, 1, m + 1) = SubSeq(rotFile, 1, m) \o <<e>>
      /\ IsSeq(SubSeq(rotFile, 1, m))
  BY <1>2, <1>3, <1>4, FrontGrows, FrontOf
<1>10. Tally(SubSeq(rotFile, 1, m + 1))
         = Tally(SubSeq(rotFile, 1, m)) + (IF e.op = "encChunk" THEN 1 ELSE 0)
  <2> DEFINE s == SubSeq(rotFile, 1, m)
             t == <<e>>
  <2>1. IsSeq(s) /\ IsSeq(t) /\ Tally(t) = IF e.op = "encChunk" THEN 1 ELSE 0
    BY <1>8, <1>9, TallySingle
  <2> HIDE DEF s, t
  <2>2. Tally(s \o t) = Tally(s) + Tally(t)
    BY <2>1, Joining
  <2>3. QED
    BY <1>9, <2>1, <2>2 DEF s, t
<1>11. Buffered' /\ Len(chunkMetas') = Tally(SubSeq(rotFile, 1, m + 1))
  <2>1. CASE /\ e.op \notin {"encChunk", "slot", "manifest"}
             /\ headerBuf' = Append(headerBuf, e) /\ dataBuf' = dataBuf
             /\ chunkMetas' = chunkMetas
    <3>1. e.op \notin Ends \cup {"slot", "manifest"} /\ e.op # "encChunk"
      BY <1>4, <2>1
    <3> HIDE DEF e
    <3>2. Part(h \o <<e>>, Rec, {}) /\ Kept(h \o <<e>>) /\ Chunkless(h \o <<e>>)
      BY <1>4, <1>7, <3>1, KeptMore
    <3>3. headerBuf' = h \o <<e>> /\ dataBuf' = d
      BY <1>8, <2>1
    <3>4. Buffered'
      BY <1>6, <1>7, <2>1, <3>2, <3>3 DEF Buffered
    <3>5. Tally(SubSeq(rotFile, 1, m)) \in Nat
      BY <1>9, TallyNone
    <3>6. QED
      BY <1>1, <1>10, <2>1, <3>1, <3>4, <3>5
  <2>2. CASE /\ e.op \notin {"encChunk", "slot", "manifest"}
             /\ headerBuf' = headerBuf /\ dataBuf' = Append(dataBuf, e)
             /\ chunkMetas' = chunkMetas
    <3>1. e.op \notin Ends \cup {"slot", "manifest"} /\ e.op # "encChunk"
      BY <1>4, <2>2
    <3> HIDE DEF e
    <3>2. Part(d \o <<e>>, Rec, {}) /\ Kept(d \o <<e>>)
      BY <1>4, <1>7, <3>1, KeptMore
    <3>3. PointsInto(chunkMetas, d \o <<e>>)
      BY <1>7, <3>1, PointsMore
    <3>4. dataBuf' = d \o <<e>> /\ headerBuf' = h
      BY <1>8, <2>2
    <3>5. Buffered'
      BY <1>6, <1>7, <2>2, <3>2, <3>3, <3>4 DEF Buffered
    <3>6. Tally(SubSeq(rotFile, 1, m)) \in Nat
      BY <1>9, TallyNone
    <3>7. QED
      BY <1>1, <1>10, <2>2, <3>1, <3>5, <3>6
  <2>3. CASE /\ e.op = "encChunk"
             /\ headerBuf' = headerBuf /\ dataBuf' = Append(dataBuf, e)
             /\ chunkMetas' = Append(chunkMetas, p)
    <3>1. e.op \notin Ends \cup {"slot", "manifest"}
      BY <1>4, <2>3
    <3> HIDE DEF e
    <3>2. Part(d \o <<e>>, Rec, {}) /\ Kept(d \o <<e>>)
      BY <1>4, <1>7, <3>1, KeptMore
    <3>3. PointsInto(chunkMetas \o <<p>>, d \o <<e>>)
      BY <1>7, <2>3, PointsMore
    <3>4. dataBuf' = d \o <<e>> /\ headerBuf' = h /\ chunkMetas' = chunkMetas \o <<p>>
      BY <1>8, <2>3
    <3>5. Buffered'
      BY <1>6, <1>7, <3>2, <3>3, <3>4 DEF Buffered
    <3>6. Len(chunkMetas \o <<p>>) = Len(chunkMetas) + 1
      <4> HIDE DEF p
      <4>1. QED
        BY <1>7, OneMore
    <3>7. QED
      BY <1>1, <1>10, <2>3, <3>4, <3>5, <3>6
  <2>4. CASE /\ e.op \in {"slot", "manifest"}
             /\ headerBuf' = headerBuf /\ dataBuf' = dataBuf /\ chunkMetas' = chunkMetas
    <3>1. Buffered'
      BY <1>1, <1>6, <2>4 DEF Buffered
    <3>2. Tally(SubSeq(rotFile, 1, m)) \in Nat /\ e.op # "encChunk"
      BY <1>9, <2>4, TallyNone
    <3>3. QED
      BY <1>1, <1>10, <2>4, <3>1, <3>2
  <2>5. QED
    BY <2>1, <2>2, <2>3, <2>4
<1>12. Len(chunkMetas') = Tally(SubSeq(rotFile', 1, rotPos' - 1))
  BY <1>3, <1>5, <1>11
<1>13. QED
  <2>1. rotFile' = stored' /\ newRecipients' \in NewLists /\ rotKey' \in Keys \cup {NoKey}
    <3>1. e.op = "slot" => e.key \in Keys
      BY <1>4 DEF Genuine, Given
    <3>2. QED
      BY <1>1, <1>5, <3>1
  <2>2. rotPos' \in 2..(Len(rotFile') + 1) /\ rotFile'[1].op = "magic"
    BY <1>1, <1>3, <1>5
  <2>3. QED
    BY <1>5, <1>11, <1>12, <2>1, <2>2 DEF Rotating

\* The scan of a rotation.
LEMMA RotStartKeeps ==
  ASSUME StoredPart, Rotating, RotUnmoved, RotStart PROVE Rotating'
<1>1. /\ rotState = "idle" /\ headerBuf' = headerBuf /\ dataBuf' = dataBuf
      /\ rotDefs' = rotDefs /\ chunkMetas' = chunkMetas /\ rotated' = rotated
      /\ rotFile' = rotFile /\ newRecipients' = newRecipients /\ source' = source
      /\ stored' = stored /\ faults' = faults /\ rotKey' = rotKey
  BY DEF RotStart, RotUnmoved, rotMarks
<1>2. \/ /\ Len(rotFile) > 0 /\ rotFile[1].op = "magic"
         /\ rotState' = "scanning" /\ rotPos' = 2
      \/ rotState' = "failed"
  BY DEF RotStart
<1>3. /\ rotFile = stored /\ newRecipients \in NewLists /\ Buffered /\ chunkMetas = <<>>
      /\ IsSeq(rotFile) /\ rotKey \in Keys \cup {NoKey}
  BY <1>1 DEF Rotating, StoredPart, Part
<1>4. Buffered' /\ rotFile' = stored' /\ newRecipients' \in NewLists
      /\ rotKey' \in Keys \cup {NoKey}
  BY <1>1, <1>3 DEF Buffered, Rec
<1>5. CASE rotState' = "failed"
  BY <1>4, <1>5 DEF Rotating
<1>6. CASE /\ Len(rotFile) > 0 /\ rotFile[1].op = "magic"
           /\ rotState' = "scanning" /\ rotPos' = 2
  <2>1. Len(rotFile) \in Nat /\ 1 \in 0..Len(rotFile) /\ 2 \in 2..(Len(rotFile) + 1)
        /\ DOMAIN rotFile = 1..Len(rotFile)
    BY <1>3, <1>6, AsFunction
  <2> DEFINE s == SubSeq(rotFile, 1, 1)
  <2>2. IsSeq(s) /\ DOMAIN s = 1..1 /\ \A i \in 1..1 : s[i] = rotFile[i]
    BY <1>3, <2>1, FrontOf
  <2> HIDE DEF s
  <2>3. IsSeq(s) /\ Chunkless(s)
    <3>1. \A i \in DOMAIN s : i = 1 /\ s[i] = rotFile[1]
      BY <2>2
    <3>2. QED
      BY <1>6, <2>2, <3>1 DEF Chunkless
  <2>4. Tally(s) = 0
    BY <2>3, TallyNone
  <2>5. Len(chunkMetas') = Tally(SubSeq(rotFile', 1, rotPos' - 1))
    BY <1>1, <1>3, <1>6, <2>4 DEF s
  <2>6. QED
    BY <1>1, <1>4, <1>6, <2>1, <2>5 DEF Rotating
<1>7. QED
  BY <1>2, <1>5, <1>6

\* A scan that fails leaves the buffers as they are.
LEMMA RotStops ==
  ASSUME StoredPart, Rotating, RotUnmoved, ScanFails PROVE Rotating'
<1>1. /\ rotState' = "failed" /\ headerBuf' = headerBuf /\ dataBuf' = dataBuf
      /\ rotDefs' = rotDefs /\ chunkMetas' = chunkMetas
      /\ rotFile' = rotFile /\ newRecipients' = newRecipients /\ source' = source
      /\ stored' = stored /\ rotKey' = rotKey
  BY DEF ScanFails, RotUnmoved, rotMarks
<1>2. Buffered' /\ rotFile' = stored' /\ newRecipients' \in NewLists
      /\ rotKey' \in Keys \cup {NoKey}
  BY <1>1 DEF Rotating, Buffered, Rec
<1>3. QED
  BY <1>1, <1>2 DEF Rotating

\* What the scan counts, up to where the data ends, are all chunks.
LEMMA RotScanned ==
  ASSUME StoredPart, Rotating, RotUnmoved, ScanEnds PROVE Rotating'
<1> DEFINE m == rotPos - 1
<1>1. /\ rotState = "scanning" /\ rotState' = "scanned"
      /\ headerBuf' = headerBuf /\ dataBuf' = dataBuf
      /\ rotDefs' = rotDefs /\ chunkMetas' = chunkMetas
      /\ rotFile' = rotFile /\ newRecipients' = newRecipients /\ source' = source
      /\ stored' = stored /\ faults' = faults /\ rotKey' = rotKey
      /\ rotPos <= Len(rotFile) => Scanned.op \in {"dataEnd", "footer"}
  BY DEF ScanEnds, RotUnmoved, rotMarks
<1>2. Buffered' /\ rotFile' = stored' /\ newRecipients' \in NewLists
      /\ rotKey' \in Keys \cup {NoKey}
  BY <1>1 DEF Rotating, Buffered, Rec
<1>3. ASSUME faults = 0 PROVE Len(chunkMetas) = Len(Rec)
  <2>1. Whole(stored, Len(Rec)) /\ IsSeq(stored)
    BY <1>3 DEF StoredPart, Part
  <2>2. /\ rotPos \in 2..(Len(stored) + 1)
        /\ Len(chunkMetas) = Tally(SubSeq(stored, 1, m))
    BY <1>1 DEF Rotating
  <2>3. Len(stored) \in Nat /\ DOMAIN stored = 1..Len(stored) /\ m \in 0..Len(stored)
    <3>1. Len(stored) \in Nat /\ DOMAIN stored = 1..Len(stored)
      BY <2>1, AsFunction
    <3>2. QED
      BY <2>2, <3>1
  <2>4. ASSUME NEW i \in DOMAIN stored, i > m PROVE stored[i].op # "encChunk"
    <3>1. rotPos \in DOMAIN stored /\ i >= rotPos /\ rotPos > 1
      BY <2>2, <2>3, <2>4
    <3>2. stored[rotPos].op \in Ends
      <4>1. rotPos <= Len(rotFile) /\ Scanned = stored[rotPos]
        BY <2>3, <3>1 DEF Rotating, Scanned
      <4>2. QED
        BY <1>1, <4>1 DEF Ends
    <3>3. stored[i].op = "encChunk" => i < rotPos
      BY <2>1, <3>1, <3>2 DEF Whole, Ahead
    <3>4. QED
      BY <2>2, <2>3, <2>4, <3>1, <3>3
  <2>5. Tally(SubSeq(stored, 1, m)) = Tally(stored)
    BY <2>1, <2>3, <2>4, TallyFront
  <2>6. QED
    BY <2>1, <2>2, <2>5 DEF Whole
<1>4. Rec' = Rec
  BY <1>1 DEF Rec
<1>5. QED
  BY <1>1, <1>2, <1>3, <1>4 DEF Rotating

\* The file that is written.
LEMMA RotWritten ==
  ASSUME StoredPart, Rotating, RotUnmoved, RotWrite PROVE Rotating'
<1> DEFINE n == Len(chunkMetas)
           slots == MadeSlots(newRecipients, rotKey)
           s == Laid(headerBuf, newRecipients, rotKey, n, dataBuf, rotDefs, Positions)
           f == <<DataEnd>>
           g == Summary(rotDefs, Positions)
           h == <<Footer, Magic>>
<1>1. /\ rotState = "scanned" /\ headerBuf' = headerBuf /\ dataBuf' = dataBuf
      /\ rotDefs' = rotDefs /\ chunkMetas' = chunkMetas /\ rotKey' = rotKey
      /\ rotFile' = rotFile /\ newRecipients' = newRecipients /\ source' = source
      /\ stored' = stored /\ faults' = faults
  BY DEF RotWrite, RotUnmoved, rotMarks
<1>2. \/ rotState' = "failed"
      \/ rotState' = "done" /\ rotated' = s /\ rotKey # NoKey
  BY DEF RotWrite, Laid, Lead, Prefix, MadeSlots
<1>3. Buffered' /\ rotFile' = stored' /\ newRecipients' \in NewLists /\ Rec' = Rec
      /\ rotKey' \in Keys \cup {NoKey}
  BY <1>1 DEF Rotating, Buffered, Rec
<1>4. CASE rotState' = "failed"
  BY <1>3, <1>4 DEF Rotating
<1>5. CASE rotState' = "done" /\ rotated' = s /\ rotKey # NoKey
  <2>1. /\ IsSeq(headerBuf) /\ Part(headerBuf, Rec, {}) /\ Kept(headerBuf) /\ Chunkless(headerBuf)
        /\ IsSeq(dataBuf) /\ Part(dataBuf, Rec, {}) /\ Kept(dataBuf)
        /\ IsSeq(rotDefs) /\ IsSeq(chunkMetas) /\ n = Tally(dataBuf)
    BY DEF Rotating, Buffered, Part, PointsInto
  <2>2. IsSeq(newRecipients)
    BY NewListsAssumption DEF Rotating, IsSeq
  <2>3. IsSeq(Positions)
    <3>1. DOMAIN Positions = DOMAIN chunkMetas
          /\ Positions = [i \in DOMAIN chunkMetas |-> Positions[i]]
      BY DEF Positions
    <3>2. QED
      BY <2>1, <3>1, OfPositions
  <2>4. Prefix = Lead(headerBuf, newRecipients, rotKey, n)
    BY DEF Prefix, Lead, MadeSlots
  <2>5. s = Prefix \o dataBuf \o f \o g \o h
    BY <2>4 DEF Laid
  <2>6. IsSeq(Prefix)
    <3> DEFINE a == <<Magic>>
               b == a \o headerBuf
               c == b \o slots
               e == <<Manifest(rotKey, n)>>
    <3>1. IsSeq(a) /\ IsSeq(e) /\ IsSeq(slots)
      <4> DEFINE u == Magic
                 v == Manifest(rotKey, n)
      <4>1. IsSeq(slots)
        <5> DEFINE to == {<<r, rotKey>> : r \in Elements(newRecipients)}
        <5>1. \A r \in Elements(newRecipients) : <<r, rotKey>> \in to
          OBVIOUS
        <5> HIDE DEF to
        <5>2. QED
          BY <2>2, <5>1, SlotsArePart
      <4> HIDE DEF u, v
      <4>2. IsSeq(<<u>>) /\ IsSeq(<<v>>)
        BY Single
      <4>3. QED
        BY <4>1, <4>2 DEF u, v
    <3> HIDE DEF a, e, slots
    <3>2. IsSeq(b)
      BY <2>1, <3>1, Concat
    <3> HIDE DEF b
    <3>3. IsSeq(c)
      BY <3>1, <3>2, Concat
    <3> HIDE DEF c
    <3>4. IsSeq(c \o e)
      BY <3>1, <3>3, Concat
    <3>5. QED
      BY <3>4 DEF Prefix, MadeSlots, a, b, c, e, slots
  <2>7. Laying'
    <3> DEFINE p == Prefix
    <3>1. /\ Part(s, Rec, Given(Elements(newRecipients)))
          /\ Vouches(s, n) /\ Ahead(s) /\ Tally(s) = Tally(dataBuf)
      <4>1. /\ \A rec : Part(headerBuf, rec, {}) /\ Part(dataBuf, rec, {})
                 => Part(s, rec, Given(Elements(newRecipients)))
            /\ Vouches(s, n) /\ Ahead(s) /\ Tally(s) = Tally(dataBuf)
        <5> DEFINE to == Given(Elements(newRecipients))
        <5>1. \A r \in Elements(newRecipients) : <<r, rotKey>> \in to
          BY <1>5 DEF Rotating, Given
        <5> HIDE DEF to
        <5>2. QED
          BY <2>1, <2>2, <2>3, <5>1, LaidOut DEF to
      <4> HIDE DEF s
      <4>2. QED
        BY <2>1, <4>1
    <3>2. Len(p) \in Nat /\ \A i \in DOMAIN dataBuf : s[Len(p) + i] = dataBuf[i]
      <4> HIDE DEF p, s
      <4>1. IsSeq(p)
        BY <2>6 DEF p
      <4> DEFINE q == p \o dataBuf
                 r == q \o f
                 t == r \o g
      <4>2. /\ IsSeq(q) /\ Len(p) \in Nat /\ DOMAIN dataBuf = 1..Len(dataBuf)
            /\ Len(dataBuf) \in Nat
            /\ DOMAIN q = 1..(Len(p) + Len(dataBuf))
            /\ \A i \in 1..Len(dataBuf) : q[Len(p) + i] = dataBuf[i]
        BY <2>1, <4>1, Concat
      <4>3. IsSeq(f) /\ IsSeq(g) /\ IsSeq(h)
        <5>1. Quiet(f) /\ Quiet(g) /\ Quiet(h)
          BY <2>1, <2>3, FrameIsQuiet, SummaryIsQuiet, EndingIsQuiet
        <5> HIDE DEF f, g, h
        <5>2. QED
          BY <5>1, QuietIs
      <4>4. s = t \o h
        BY <2>5 DEF p
      <4> HIDE DEF f, g, h, q
      <4>5. IsSeq(r) /\ \A i \in DOMAIN q : i \in DOMAIN r /\ r[i] = q[i]
        <5>1. /\ IsSeq(r) /\ DOMAIN q = 1..Len(q) /\ Len(q) \in Nat /\ Len(f) \in Nat
              /\ DOMAIN r = 1..(Len(q) + Len(f))
              /\ \A i \in 1..Len(q) : r[i] = q[i]
          BY <4>2, <4>3, Concat
        <5> HIDE DEF r
        <5>2. QED
          BY <5>1
      <4> HIDE DEF r
      <4>6. IsSeq(t) /\ \A i \in DOMAIN r : i \in DOMAIN t /\ t[i] = r[i]
        <5>1. /\ IsSeq(t) /\ DOMAIN r = 1..Len(r) /\ Len(r) \in Nat /\ Len(g) \in Nat
              /\ DOMAIN t = 1..(Len(r) + Len(g))
              /\ \A i \in 1..Len(r) : t[i] = r[i]
          BY <4>3, <4>5, Concat
        <5> HIDE DEF t
        <5>2. QED
          BY <5>1
      <4> HIDE DEF t
      <4>7. \A i \in DOMAIN t : s[i] = t[i]
        <5>1. DOMAIN t = 1..Len(t) /\ \A i \in 1..Len(t) : (t \o h)[i] = t[i]
          BY <4>3, <4>6, Concat
        <5>2. QED
          BY <4>4, <5>1
      <4>8. ASSUME NEW i \in DOMAIN dataBuf PROVE s[Len(p) + i] = dataBuf[i]
        <5>1. Len(p) + i \in DOMAIN q /\ q[Len(p) + i] = dataBuf[i]
          BY <4>2, <4>8
        <5> DEFINE j == Len(p) + i
        <5> HIDE DEF j
        <5>2. s[j] = q[j]
          BY <4>5, <4>6, <4>7, <5>1 DEF j
        <5>3. QED
          BY <5>1, <5>2 DEF j
      <4>9. QED
        BY <4>2, <4>8
    <3>3. p' = p /\ n' = n
      BY <1>1 DEF Prefix, Records, Slot, Manifest
    <3> HIDE DEF s, p, n
    <3>4. Whole(s, n)
      BY <2>1, <3>1 DEF Whole
    <3>5. QED
      BY <1>1, <1>3, <1>5, <3>1, <3>2, <3>3, <3>4 DEF Laying, p, n
  <2>8. faults' = 0 => Len(chunkMetas') = Len(Rec')
    BY <1>1, <1>3 DEF Rotating
  <2>9. QED
    BY <1>3, <1>5, <2>7, <2>8 DEF Rotating
<1>6. QED
  BY <1>2, <1>4, <1>5

\* No rotation is under way, or one is.
RotPart ==
  /\ stage # "rotate" => RotInit
  /\ stage = "rotate" => Rotating

\* Whatever a rotation does next.
LEMMA RotationKeeps ==
  ASSUME StoredPart, Rotating, RotNext, RotUnmoved PROVE Rotating'
<1> DEFINE sorts == {"slot", "manifest", "encChunk"}
<1>1. CASE KeepHeader
  <2> DEFINE ops == {"header", "def"}
  <2>1. /\ Scans(ops) /\ Move /\ UNCHANGED rotated /\ rotKey' = rotKey
        /\ headerBuf' = Append(headerBuf, Scanned) /\ dataBuf' = dataBuf
        /\ chunkMetas' = chunkMetas
        /\ rotDefs' = rotDefs \/ rotDefs' = Append(rotDefs, Scanned.id)
    BY <1>1 DEF KeepHeader
  <2>2. IsSeq(rotDefs')
    <3>1. IsSeq(rotDefs)
      BY DEF Rotating, Buffered
    <3> DEFINE d == Scanned.id
    <3>2. rotDefs' = rotDefs \/ rotDefs' = Append(rotDefs, d)
      BY <2>1
    <3> HIDE DEF d
    <3>3. IsSeq(rotDefs \o <<d>>)
      BY <3>1, OneMore
    <3>4. QED
      BY <3>1, <3>2, <3>3, AppendOne
  <2>3. Scanned.op \notin sorts /\ ops \cap Ends = {}
    BY <2>1 DEF Scans, Ends
  <2> HIDE DEF ops
  <2>4. QED
    BY <2>1, <2>2, <2>3, ScanMoves
<1>2. CASE KeepData
  <2> DEFINE ops == {"metadata", "attachment"}
  <2>1. /\ Scans(ops) /\ Move /\ UNCHANGED rotated /\ rotKey' = rotKey
        /\ headerBuf' = headerBuf /\ dataBuf' = Append(dataBuf, Scanned)
        /\ chunkMetas' = chunkMetas /\ rotDefs' = rotDefs
    BY <1>2 DEF KeepData, rotMarks
  <2>2. Scanned.op \notin sorts /\ ops \cap Ends = {}
    BY <2>1 DEF Scans, Ends
  <2>3. IsSeq(rotDefs')
    BY <2>1 DEF Rotating, Buffered
  <2> HIDE DEF ops
  <2>4. QED
    BY <2>1, <2>2, <2>3, ScanMoves
<1>3. CASE DropSlot \/ DropManifest
  <2> DEFINE ops == {"slot", "manifest"}
  <2>1. /\ Scans(ops) /\ Move /\ UNCHANGED rotated
        /\ headerBuf' = headerBuf /\ dataBuf' = dataBuf
        /\ chunkMetas' = chunkMetas /\ rotDefs' = rotDefs
        /\ rotKey' = rotKey \/ (Scanned.op = "slot" /\ rotKey' = Scanned.key)
    BY <1>3 DEF DropSlot, DropManifest, rotMarks, Scans
  <2>2. Scanned.op \in {"slot", "manifest"} /\ ops \cap Ends = {}
    BY <2>1 DEF Scans, Ends
  <2>3. IsSeq(rotDefs')
    BY <2>1 DEF Rotating, Buffered
  <2> HIDE DEF ops
  <2>4. QED
    BY <2>1, <2>2, <2>3, ScanMoves
<1>4. CASE KeepChunk
  <2> DEFINE ops == {"encChunk"}
  <2>1. /\ Scans(ops) /\ Move /\ UNCHANGED rotated /\ rotKey' = rotKey
        /\ headerBuf' = headerBuf /\ dataBuf' = Append(dataBuf, Scanned)
        /\ chunkMetas' = Append(chunkMetas, Len(dataBuf) + 1) /\ rotDefs' = rotDefs
    BY <1>4 DEF KeepChunk
  <2>2. Scanned.op = "encChunk" /\ ops \cap Ends = {}
    BY <2>1 DEF Scans, Ends
  <2>3. IsSeq(rotDefs')
    BY <2>1 DEF Rotating, Buffered
  <2> HIDE DEF ops
  <2>4. QED
    BY <2>1, <2>2, <2>3, ScanMoves
<1>5. CASE KeepEncAttachment
  <2> DEFINE ops == {"encAttachment"}
  <2>1. /\ Scans(ops) /\ Move /\ UNCHANGED rotated /\ rotKey' = rotKey
        /\ headerBuf' = headerBuf /\ dataBuf' = Append(dataBuf, Scanned)
        /\ chunkMetas' = chunkMetas /\ rotDefs' = rotDefs
    BY <1>5 DEF KeepEncAttachment
  <2>2. Scanned.op \notin sorts /\ ops \cap Ends = {}
    BY <2>1 DEF Scans, Ends
  <2>3. IsSeq(rotDefs')
    BY <2>1 DEF Rotating, Buffered
  <2> HIDE DEF ops
  <2>4. QED
    BY <2>1, <2>2, <2>3, ScanMoves
<1>6. CASE KeepUnknown
  <2> DEFINE ops == {"encMetadata", "chunk", "message"} \cup Indexes
  <2>1. /\ Scans(ops) /\ Move /\ UNCHANGED rotated /\ rotKey' = rotKey
        /\ \/ headerBuf' = Append(headerBuf, Scanned) /\ dataBuf' = dataBuf
           \/ headerBuf' = headerBuf /\ dataBuf' = Append(dataBuf, Scanned)
        /\ chunkMetas' = chunkMetas /\ rotDefs' = rotDefs
    BY <1>6 DEF KeepUnknown, rotMarks
  <2>2. Scanned.op \notin sorts /\ ops \cap Ends = {}
    BY <2>1 DEF Scans, Ends, Indexes
  <2>3. IsSeq(rotDefs')
    BY <2>1 DEF Rotating, Buffered
  <2> HIDE DEF ops
  <2>4. QED
    BY <2>1, <2>2, <2>3, ScanMoves
<1>7. QED
  BY <1>1, <1>2, <1>3, <1>4, <1>5, <1>6, RotStartKeeps, RotStops, RotScanned, RotWritten
     DEF RotNext

\* A rotation begins with empty buffers.
LEMMA RotBegins ==
  ASSUME stage # "rotate", RotPart, NEW h \in Holders, NEW new \in NewLists, BeginRotate(h, new)
  PROVE  Rotating'
<1>1. /\ headerBuf = <<>> /\ dataBuf = <<>> /\ rotDefs = <<>> /\ chunkMetas = <<>>
      /\ rotState = "idle" /\ rotKey = NoKey
  BY DEF RotPart, RotInit
<1>2. /\ rotKey' = rotKey /\ headerBuf' = headerBuf /\ dataBuf' = dataBuf /\ rotDefs' = rotDefs
      /\ chunkMetas' = chunkMetas /\ rotState' = rotState
      /\ rotFile' = stored /\ stored' = stored /\ newRecipients' = new
  BY DEF BeginRotate, rotMarks
<1>3. IsSeq(<<>>) /\ DOMAIN <<>> = {}
  BY DEF IsSeq, Elements
<1>4. Chunkless(<<>>) /\ Kept(<<>>) /\ \A rec : Part(<<>>, rec, {})
  BY <1>3 DEF Chunkless, Kept, Part
<1>5. PointsInto(<<>>, <<>>)
  <2>1. Tally(<<>>) = 0
    BY <1>3, <1>4, TallyNone
  <2>2. QED
    BY <1>3, <2>1 DEF PointsInto
<1>6. Buffered'
  BY <1>1, <1>2, <1>3, <1>4, <1>5 DEF Buffered
<1>7. QED
  BY <1>1, <1>2, <1>6 DEF Rotating

\* The rotated file takes the place of the old one, which is still there after
\* a failure.
LEMMA RotEnds ==
  ASSUME StoredPart, Rotating, EndRotate PROVE StoredPart' /\ RotInit'
<1>1. source' = source /\ faults' = faults /\ RotInit'
  BY DEF EndRotate, encVars, RotInit
<1>2. Rec' = Rec
  BY <1>1 DEF Rec
<1>3. CASE rotState = "done"
  <2>1. stored' = rotated /\ readers' = Elements(newRecipients) /\ (vouched' => faults = 0)
    BY <1>3 DEF EndRotate
  <2>2. /\ Part(rotated, Rec, Given(Elements(newRecipients)))
        /\ faults = 0 => Vouches(rotated, Len(Rec)) /\ Whole(rotated, Len(Rec))
    BY <1>3 DEF Rotating, Laying
  <2>3. QED
    BY <1>1, <1>2, <2>1, <2>2 DEF StoredPart
<1>4. CASE rotState # "done"
  <2>1. stored' = stored /\ readers' = readers /\ vouched' = vouched
    BY <1>4 DEF EndRotate
  <2>2. QED
    BY <1>1, <1>2, <2>1 DEF StoredPart
<1>5. QED
  BY <1>3, <1>4

-----------------------------------------------------------------------------
(* The other packages' rotations.                                          *)

\* What a rotation reads of the stored file: its records up to the end of
\* the data, all chunks among them.
LEMMA SectionIs ==
  ASSUME StoredPart, Len(stored) > 0, stored[1].op = "magic",
         NEW ops, ops \subseteq Ends
  PROVE  LET s == UpTo(SubSeq(stored, 2, Len(stored)), ops)
         IN /\ IsSeq(s) /\ Part(s, Rec, Given(readers))
            /\ \A i \in DOMAIN s : s[i].op \notin ops
            /\ faults = 0 => Tally(s) = Len(Rec)
<1> DEFINE f == SubSeq(stored, 1, 1)
           back == SubSeq(stored, 2, Len(stored))
<1>1. /\ IsSeq(stored) /\ Part(stored, Rec, Given(readers))
      /\ Len(stored) \in Nat /\ DOMAIN stored = 1..Len(stored) /\ 1 \in 0..Len(stored)
  <2>1. IsSeq(stored) /\ Part(stored, Rec, Given(readers))
    BY DEF StoredPart, Part
  <2>2. Len(stored) \in Nat /\ DOMAIN stored = 1..Len(stored)
    BY <2>1, AsFunction
  <2>3. QED
    BY <2>1, <2>2
<1>2. /\ IsSeq(back) /\ Len(back) = Len(stored) - 1 /\ DOMAIN back = 1..(Len(stored) - 1)
      /\ \A i \in 1..(Len(stored) - 1) : back[i] = stored[1 + i] /\ 1 + i \in DOMAIN stored
  <2>1. 1 + 1 = 2
    OBVIOUS
  <2>2. back = SubSeq(stored, 1 + 1, Len(stored))
    BY <2>1
  <2> HIDE DEF back
  <2>3. QED
    BY <1>1, <2>2, BackOf
<1>3. IsSeq(f) /\ DOMAIN f = 1..1 /\ \A i \in 1..1 : f[i] = stored[i]
  BY <1>1, FrontOf
<1>4. stored = f \o back
  <2>1. 1 + 1 = 2
    OBVIOUS
  <2>2. QED
    BY <1>1, <2>1, FrontAndBack
<1> HIDE DEF f, back
<1>5. PICK m \in 0..Len(back) :
        /\ UpTo(back, ops) = SubSeq(back, 1, m)
        /\ \A i \in 1..m : back[i].op \notin ops
        /\ m < Len(back) => back[m + 1].op \in ops
  BY <1>2, UpToIsFront
<1> DEFINE s == SubSeq(back, 1, m)
<1>6. /\ IsSeq(s) /\ DOMAIN s = 1..m
      /\ \A i \in 1..m : s[i] = back[i] /\ i \in DOMAIN back
  <2>1. /\ IsSeq(s) /\ DOMAIN s = 1..m
        /\ \A i \in 1..m : s[i] = back[i] /\ i \in DOMAIN back
    BY <1>2, <1>5, FrontOf
  <2>2. QED
    BY <2>1
<1> HIDE DEF s
<1>7. Part(s, Rec, Given(readers))
  <2>1. \A i \in DOMAIN s : Genuine(s[i], Rec, Given(readers))
    BY <1>1, <1>2, <1>6 DEF Part
  <2>2. QED
    BY <1>6, <2>1 DEF Part
<1>8. \A i \in DOMAIN s : s[i].op \notin ops
  BY <1>5, <1>6
<1>9. ASSUME faults = 0 PROVE Tally(s) = Len(Rec)
  <2>1. Ahead(stored) /\ Tally(stored) = Len(Rec)
    BY <1>9 DEF StoredPart, Whole
  <2>2. Tally(stored) = Tally(f) + Tally(back) /\ Tally(back) \in Nat
    BY <1>2, <1>3, <1>4, Joining
  <2>3. Tally(f) = 0
    <3>1. Chunkless(f)
      BY <1>3 DEF Chunkless
    <3>2. QED
      BY <1>3, <3>1, TallyNone
  <2>4. ASSUME NEW i \in DOMAIN back, i > m PROVE back[i].op # "encChunk"
    <3>1. m < Len(back) /\ m \in Nat /\ i \in Nat
      BY <1>1, <1>2, <2>4
    <3> DEFINE j == 1 + (m + 1)
               l == 1 + i
    <3>2. j \in DOMAIN stored /\ stored[j].op \in ops /\ j > 1
      BY <1>1, <1>2, <1>5, <3>1
    <3>3. l \in DOMAIN stored /\ stored[l] = back[i]
      BY <1>2, <2>4
    <3>4. ~ (l < j)
      BY <2>4, <3>1
    <3> HIDE DEF j, l
    <3>5. stored[j].op \in Ends
      BY <3>2
    <3>6. stored[l].op = "encChunk" => l < j
      BY <2>1, <3>2, <3>3, <3>5 DEF Ahead
    <3>7. QED
      BY <3>3, <3>4, <3>6
  <2>5. Tally(s) = Tally(back)
    BY <1>2, <1>5, <2>4, TallyFront DEF s
  <2>6. QED
    BY <2>1, <2>2, <2>3, <2>5
<1>10. UpTo(SubSeq(stored, 2, Len(stored)), ops) = s
  BY <1>5 DEF back, s
<1>11. QED
  BY <1>6, <1>7, <1>8, <1>9, <1>10

\* A selection that leaves no record of a kind out has all of that kind.
LEMMA KindSelected ==
  ASSUME NEW s, IsSeq(s), NEW at \in SUBSET DOMAIN s, NEW K, KindAt(s, K) \subseteq at
  PROVE  OfKind(Selected(s, at), K) = OfKind(s, K)
<1> DEFINE t == Selected(s, at)
           q == Sorted(at)
           c == Cardinality(at)
           bt == KindAt(t, K)
<1>1. /\ c \in Nat /\ Enumerates(q, c, at)
      /\ t = [k \in 1..c |-> s[q[k]]]
  BY SelectedBy
<1>2. \A i \in at : \E k \in 1..c : q[k] = i
  BY <1>1 DEF Enumerates
<1> HIDE DEF t, q, c
<1>3. DOMAIN t = 1..c /\ \A k \in 1..c : t[k] = s[q[k]]
  BY <1>1
<1>4. \A k \in 1..c : q[k] \in at
  BY <1>1 DEF Enumerates
<1>5. OfKind(t, K) = Selected(t, bt) /\ bt \in SUBSET DOMAIN t
  BY OfKindForm
<1>6. Selected(t, bt) = Selected(s, Through(at, bt))
  BY <1>5, SelectedTwice DEF t
<1>7. Through(at, bt) = KindAt(s, K)
  <2>1. \A i : i \in Through(at, bt) <=> \E k \in bt : q[k] = i
    BY DEF Through, q
  <2>2. ASSUME NEW k \in bt PROVE q[k] \in KindAt(s, K)
    BY <1>3, <1>4 DEF KindAt
  <2>3. ASSUME NEW i \in KindAt(s, K) PROVE \E k \in bt : q[k] = i
    <3>1. i \in at
      OBVIOUS
    <3>2. PICK k \in 1..c : q[k] = i
      BY <1>2, <3>1
    <3>3. k \in bt
      BY <1>3, <3>2 DEF KindAt
    <3>4. QED
      BY <3>2, <3>3
  <2>4. QED
    BY <2>1, <2>2, <2>3
<1>8. OfKind(s, K) = Selected(s, KindAt(s, K))
  BY OfKindForm
<1>9. QED
  BY <1>5, <1>6, <1>7, <1>8 DEF t

\* A selection of the section that was read, as a buffer of the new file.
LEMMA SelectionIsKept ==
  ASSUME NEW s, NEW rec, NEW to, Part(s, rec, to), NEW at \in SUBSET DOMAIN s,
         \A i \in at : s[i].op \notin Ends \cup {"slot", "manifest"}
  PROVE  LET t == Selected(s, at)
         IN /\ IsSeq(t) /\ Kept(t) /\ Part(t, rec, {})
            /\ (\A i \in at : s[i].op # "encChunk") => Chunkless(t)
<1> DEFINE t == Selected(s, at)
<1>1. IsSeq(s)
  BY DEF Part
<1>2. IsSeq(t) /\ Elements(t) = {s[i] : i \in at}
  BY <1>1, SelectedIsSeq
<1> HIDE DEF t
<1>3. \A k \in DOMAIN t : \E i \in at : t[k] = s[i]
  BY <1>2 DEF Elements
<1>4. Kept(t) /\ ((\A i \in at : s[i].op # "encChunk") => Chunkless(t))
  BY <1>3 DEF Kept, Chunkless
<1>5. Part(t, rec, to)
  BY <1>2, <1>3 DEF Part
<1>6. Part(t, rec, {})
  BY <1>4, <1>5, KeptIs
<1>7. QED
  BY <1>2, <1>4, <1>6 DEF t

\* A rotated file is as good as the one that was read.
LEMMA RelaidIs ==
  ASSUME StoredPart, NEW head, NEW data, IsSeq(head), IsSeq(data), Kept(head), Kept(data),
         Chunkless(head), Part(head, Rec, {}), Part(data, Rec, {}),
         NEW new, IsSeq(new), NEW k \in Keys, NEW ds, IsSeq(ds), NEW ps, IsSeq(ps),
         faults = 0 => Tally(data) = Len(Rec)
  PROVE  LET s == Laid(head, new, k, Tally(data), data, ds, ps)
         IN /\ Part(s, Rec, Given(Elements(new)))
            /\ faults = 0 => Vouches(s, Len(Rec)) /\ Whole(s, Len(Rec))
<1> DEFINE n == Tally(data)
           s == Laid(head, new, k, n, data, ds, ps)
<1>1. /\ \A rec : Part(head, rec, {}) /\ Part(data, rec, {}) => Part(s, rec, Given(Elements(new)))
      /\ Vouches(s, n) /\ Ahead(s) /\ Tally(s) = Tally(data)
  <2> DEFINE to == Given(Elements(new))
  <2>1. \A h \in Elements(new) : <<h, k>> \in to
    BY DEF Given
  <2> HIDE DEF n, to
  <2>2. IsSeq(head) /\ IsSeq(data) /\ Kept(head) /\ Kept(data) /\ Chunkless(head)
    OBVIOUS
  <2>3. /\ \A rec : Part(head, rec, {}) /\ Part(data, rec, {}) => Part(s, rec, to)
        /\ Vouches(s, n) /\ Ahead(s) /\ Tally(s) = Tally(data)
    <3>1. IsSeq(new) /\ IsSeq(ds) /\ IsSeq(ps)
      OBVIOUS
    <3>2. /\ \A rec : Part(head, rec, {}) /\ Part(data, rec, {})
                => Part(Laid(head, new, k, n, data, ds, ps), rec, to)
          /\ Vouches(Laid(head, new, k, n, data, ds, ps), n)
          /\ Ahead(Laid(head, new, k, n, data, ds, ps))
          /\ Tally(Laid(head, new, k, n, data, ds, ps)) = Tally(data)
      <4> HIDE DEF s
      <4>1. QED
        BY <2>1, <2>2, <3>1, LaidOut, SMTT(60)
    <3>3. QED
      BY <3>2
  <2>4. QED
    BY <2>3 DEF to
<1> HIDE DEF s
<1>2. Part(s, Rec, Given(Elements(new)))
  BY <1>1
<1>3. faults = 0 => Vouches(s, Len(Rec)) /\ Whole(s, Len(Rec))
  BY <1>1 DEF Whole
<1>4. QED
  BY <1>2, <1>3 DEF s

\* A slot gives one of the keys in circulation.
LEMMA KeyForIs ==
  ASSUME NEW s, NEW rec, NEW R, IsSeq(s), Part(s, rec, Given(R)), NEW h
  PROVE  /\ KeyFor(s, h) \in Keys \cup {NoKey}
         /\ KeyFor(s, h) # NoKey => h \in R
<1> DEFINE own == {i \in DOMAIN s : s[i].op = "slot" /\ OpensFor(s[i], h)}
<1>1. CASE own = {}
  BY <1>1 DEF KeyFor
<1>2. CASE own # {}
  <2>1. own \in SUBSET Nat
    BY AsFunction
  <2>2. PICK n \in own : \A m \in own : n <= m
    BY <1>2, <2>1, Least
  <2>3. First(own) \in own
    BY <2>2 DEF First
  <2>4. KeyFor(s, h) = s[First(own)].key
    BY <1>2 DEF KeyFor
  <2> DEFINE i == First(own)
  <2> HIDE DEF i
  <2>5. s[i].op = "slot" /\ OpensFor(s[i], h) /\ Genuine(s[i], rec, Given(R))
    BY <2>3 DEF Part, i
  <2>6. s[i].key \in Keys /\ h \in R
    BY <2>5 DEF Genuine, Given, OpensFor
  <2>7. QED
    BY <2>4, <2>6 DEF i
<1>3. QED
  BY <1>1, <1>2

\* The records behind the magic that a rotation by Python reads, and those it
\* puts behind the slots.
PyRead == PySection(stored, PyRotationEnds)
PyKept == {"metadata", "attachment", "encChunk", "encAttachment"}

\* The layout of a file that Python rotates: what it keeps of the records it
\* reads, and the key it has found among them.
LEMMA PyRotatedForm ==
  ASSUME StoredPart, NEW h, NEW new \in NewLists, PyRotates(stored, h, new)
  PROVE  LET head == OfKind(PyRead, {"header", "def"})
             data == OfKind(PyRead, PyKept)
             k == KeyFor(PyRead, h)
             ds == DefIds(PyRead)
         IN /\ IsSeq(PyRead) /\ Part(PyRead, Rec, Given(readers))
            /\ faults = 0 => Tally(PyRead) = Len(Rec)
            /\ k \in Keys /\ IsSeq(ds) /\ IsSeq(new) /\ IsSeq(head) /\ IsSeq(data)
            /\ \E ps : IsSeq(ps) /\ PyRotated(stored, h, new)
                                      = Laid(head, new, k, Tally(data), data, ds, ps)
<1> DEFINE sec == PyRead
           head == OfKind(sec, {"header", "def"})
           data == OfKind(sec, PyKept)
           k == KeyFor(sec, h)
           ds == DefIds(sec)
           at == KindAt(data, {"encChunk"})
           d == Len(Lead(head, new, k, Tally(data)))
           ps == Places(at, d)
<1>1. Len(stored) > 0 /\ stored[1].op = "magic"
  BY DEF PyRotates
<1>2. PyRotationEnds \subseteq Ends
  BY DEF PyRotationEnds, PyEnds, Ends
<1>3. IsSeq(sec) /\ Part(sec, Rec, Given(readers)) /\ (faults = 0 => Tally(sec) = Len(Rec))
  BY <1>1, <1>2, SectionIs DEF PySection, PyRead
<1>4. PyRotated(stored, h, new) = PyFile(head, ds, new, k, data)
  BY DEF PyRotated, PyRead, PyKept
<1>5. k \in Keys
  <2>1. k # NoKey
    BY DEF PyRotates, PyRead
  <2> HIDE DEF sec
  <2>2. QED
    BY <1>3, <2>1, KeyForIs
<1> HIDE DEF sec, k
<1>6. IsSeq(head) /\ IsSeq(data)
  BY <1>3, OfKindIsSeq
<1>7. IsSeq(ds)
  BY <1>3, DefIdsAreSeq
<1> HIDE DEF head, data, ds
<1>8. PyRotated(stored, h, new) = Laid(head, new, k, Tally(data), data, ds, ps)
  BY <1>4, PyFileIsLaid
<1>9. IsSeq(ps)
  <2>1. Len(data) \in Nat /\ at \in SUBSET (1..Len(data))
    BY <1>6, AsFunction DEF KindAt
  <2> HIDE DEF at, d
  <2>2. QED
    BY <2>1, PlacesAreSeq
<1>10. IsSeq(new)
  BY NewListsAssumption DEF IsSeq
<1> HIDE DEF ps
<1>11. QED
  BY <1>3, <1>5, <1>6, <1>7, <1>8, <1>9, <1>10 DEF sec, head, data, k, ds

\* A file that Python has rotated,
LEMMA PyRotatedIs ==
  ASSUME StoredPart, NEW h, NEW new \in NewLists, PyRotates(stored, h, new)
  PROVE  LET s == PyRotated(stored, h, new)
         IN /\ Part(s, Rec, Given(Elements(new)))
            /\ faults = 0 => Vouches(s, Len(Rec)) /\ Whole(s, Len(Rec))
<1> DEFINE sec == PyRead
           H == {"header", "def"}
           head == OfKind(sec, H)
           data == OfKind(sec, PyKept)
           k == KeyFor(sec, h)
           ds == DefIds(sec)
<1>1. /\ IsSeq(sec) /\ Part(sec, Rec, Given(readers)) /\ (faults = 0 => Tally(sec) = Len(Rec))
      /\ k \in Keys /\ IsSeq(ds) /\ IsSeq(new)
  BY PyRotatedForm
<1>2. PICK ps : IsSeq(ps) /\ PyRotated(stored, h, new)
                              = Laid(head, new, k, Tally(data), data, ds, ps)
  BY PyRotatedForm
<1> HIDE DEF sec, k
<1>3. head = Selected(sec, KindAt(sec, H)) /\ KindAt(sec, H) \in SUBSET DOMAIN sec
      /\ data = Selected(sec, KindAt(sec, PyKept)) /\ KindAt(sec, PyKept) \in SUBSET DOMAIN sec
  BY OfKindForm
<1>4. IsSeq(head) /\ Kept(head) /\ Part(head, Rec, {}) /\ Chunkless(head)
  <2>1. \A i \in KindAt(sec, H) : /\ sec[i].op \notin Ends \cup {"slot", "manifest"}
                                  /\ sec[i].op # "encChunk"
    BY DEF KindAt, Ends
  <2> HIDE DEF head
  <2>2. QED
    BY <1>1, <1>3, <2>1, SelectionIsKept
<1>5. IsSeq(data) /\ Kept(data) /\ Part(data, Rec, {})
  <2>1. \A i \in KindAt(sec, PyKept) : sec[i].op \notin Ends \cup {"slot", "manifest"}
    BY DEF KindAt, Ends, PyKept
  <2> HIDE DEF data
  <2>2. QED
    BY <1>1, <1>3, <2>1, SelectionIsKept
<1>6. Tally(data) = Tally(sec)
  <2>1. OfKind(data, {"encChunk"}) = OfKind(sec, PyKept \cap {"encChunk"})
    BY <1>1, OfKindTwice
  <2>2. PyKept \cap {"encChunk"} = {"encChunk"}
    BY DEF PyKept
  <2> HIDE DEF data
  <2>3. QED
    BY <2>1, <2>2 DEF Tally
<1> HIDE DEF head, data, ds
<1>7. faults = 0 => Tally(data) = Len(Rec)
  BY <1>1, <1>6
<1>8. QED
  BY <1>1, <1>2, <1>4, <1>5, <1>7, RelaidIs

\* The records behind the magic that a rotation by TypeScript reads, those of
\* them it puts ahead of the slots, and those it puts behind them.
TsRead == TsSection(stored, TsRotationEnds)
TsEarly == Len(UpTo(TsRead, Late))
TsAhead(i) ==
  \/ TsRead[i].op \in {"header", "def"}
  \/ i <= TsEarly /\ TsRead[i].op \notin PyKept \cup {"slot", "manifest"}
TsHeadAt == {i \in DOMAIN TsRead : TsAhead(i)}
TsDataAt == {i \in DOMAIN TsRead : ~ TsAhead(i) /\ TsRead[i].op \notin {"slot", "manifest"}}

\* The layout of a file that TypeScript rotates.
LEMMA TsRotatedForm ==
  ASSUME StoredPart, NEW h, NEW new \in NewLists, TsRotates(stored, h, new)
  PROVE  LET head == Selected(TsRead, TsHeadAt)
             data == Selected(TsRead, TsDataAt)
             k == KeyFor(TsRead, h)
             ds == DefIds(TsRead)
         IN /\ IsSeq(TsRead) /\ Part(TsRead, Rec, Given(readers)) /\ Unended(TsRead)
            /\ faults = 0 => Tally(TsRead) = Len(Rec)
            /\ k \in Keys /\ IsSeq(ds) /\ IsSeq(new) /\ IsSeq(head) /\ IsSeq(data)
            /\ \E ps : IsSeq(ps) /\ TsRotated(stored, h, new)
                                      = Laid(head, new, k, Tally(data), data, ds, ps)
<1> DEFINE sec == TsRead
           head == Selected(sec, TsHeadAt)
           data == Selected(sec, TsDataAt)
           k == KeyFor(sec, h)
           ds == DefIds(sec)
           at == KindAt(data, {"encChunk"})
           d == Len(Lead(head, new, k, Tally(data)))
           ps == Places(at, d)
<1>1. Len(stored) > 0 /\ stored[1].op = "magic" /\ OfKind(sec, {"torn", "magic"}) = <<>>
  BY DEF TsRotates, TsRead
<1>2. TsRotationEnds \subseteq Ends
  BY DEF TsRotationEnds, Ends
<1>3. /\ IsSeq(sec) /\ Part(sec, Rec, Given(readers)) /\ (faults = 0 => Tally(sec) = Len(Rec))
      /\ \A i \in DOMAIN sec : sec[i].op \notin TsRotationEnds
  BY <1>1, <1>2, SectionIs DEF TsSection, TsRead
<1>4. Unended(sec)
  <2> HIDE DEF sec
  <2>1. \A i \in DOMAIN sec : sec[i].op \notin {"torn", "magic"}
    BY <1>1, <1>3, OfKindEmpty
  <2>2. QED
    BY <1>3, <2>1 DEF TsRotationEnds, Ends, Unended
<1>5. TsRotated(stored, h, new) = Laid(head, new, k, Tally(data), data, ds, ps)
  BY DEF TsRotated, Laid, Lead, MadeSlots, KindAt, Places, Tally, TsRead, TsEarly, TsAhead,
         TsHeadAt, TsDataAt, PyKept, Late
<1>6. k \in Keys
  <2>1. k # NoKey
    BY DEF TsRotates, TsRead
  <2> HIDE DEF sec
  <2>2. QED
    BY <1>3, <2>1, KeyForIs
<1>7. TsHeadAt \in SUBSET DOMAIN sec /\ TsDataAt \in SUBSET DOMAIN sec
  BY DEF TsHeadAt, TsDataAt
<1> HIDE DEF sec, k
<1>8. IsSeq(head) /\ IsSeq(data)
  BY <1>3, <1>7, SelectedIsSeq
<1>9. IsSeq(ds)
  BY <1>3, DefIdsAreSeq
<1> HIDE DEF head, data, ds
<1>10. IsSeq(ps)
  <2>1. Len(data) \in Nat /\ at \in SUBSET (1..Len(data))
    BY <1>8, AsFunction DEF KindAt
  <2> HIDE DEF at, d
  <2>2. QED
    BY <2>1, PlacesAreSeq
<1>11. IsSeq(new)
  BY NewListsAssumption DEF IsSeq
<1> HIDE DEF ps
<1>12. QED
  BY <1>3, <1>4, <1>5, <1>6, <1>8, <1>9, <1>10, <1>11 DEF sec, head, data, k, ds

\* and one that TypeScript has.
LEMMA TsRotatedIs ==
  ASSUME StoredPart, NEW h, NEW new \in NewLists, TsRotates(stored, h, new)
  PROVE  LET s == TsRotated(stored, h, new)
         IN /\ Part(s, Rec, Given(Elements(new)))
            /\ faults = 0 => Vouches(s, Len(Rec)) /\ Whole(s, Len(Rec))
<1> DEFINE sec == TsRead
           H == TsHeadAt
           D == TsDataAt
           head == Selected(sec, H)
           data == Selected(sec, D)
           k == KeyFor(sec, h)
           ds == DefIds(sec)
<1>1. /\ IsSeq(sec) /\ Part(sec, Rec, Given(readers)) /\ (faults = 0 => Tally(sec) = Len(Rec))
      /\ k \in Keys /\ IsSeq(ds) /\ IsSeq(new) /\ Unended(sec)
  BY TsRotatedForm
<1>2. PICK ps : IsSeq(ps) /\ TsRotated(stored, h, new)
                              = Laid(head, new, k, Tally(data), data, ds, ps)
  BY TsRotatedForm
<1>3. \A i \in DOMAIN sec : sec[i].op \notin Ends
  BY <1>1 DEF Unended
<1>4. H \in SUBSET DOMAIN sec /\ D \in SUBSET DOMAIN sec
  BY DEF TsHeadAt, TsDataAt
<1>5. \A i \in H : sec[i].op \notin Ends \cup {"slot", "manifest"} /\ sec[i].op # "encChunk"
  BY <1>3 DEF TsHeadAt, TsAhead, PyKept
<1>6. \A i \in D : sec[i].op \notin Ends \cup {"slot", "manifest"}
  BY <1>3 DEF TsDataAt
<1>7. KindAt(sec, {"encChunk"}) \subseteq D
  BY DEF KindAt, TsDataAt, TsAhead, PyKept
<1> HIDE DEF sec, k, H, D
<1>8. IsSeq(head) /\ Kept(head) /\ Part(head, Rec, {}) /\ Chunkless(head)
  BY <1>1, <1>4, <1>5, SelectionIsKept
<1>9. IsSeq(data) /\ Kept(data) /\ Part(data, Rec, {})
  BY <1>1, <1>4, <1>6, SelectionIsKept
<1>10. Tally(data) = Tally(sec)
  <2>1. OfKind(data, {"encChunk"}) = OfKind(sec, {"encChunk"})
    BY <1>1, <1>4, <1>7, KindSelected
  <2>2. QED
    BY <2>1 DEF Tally
<1> HIDE DEF head, data, ds
<1>11. faults = 0 => Tally(data) = Len(Rec)
  BY <1>1, <1>10
<1>12. QED
  BY <1>1, <1>2, <1>8, <1>9, <1>11, RelaidIs

\* A file that another program rotated.
LEMMA ElsewhereRotates ==
  ASSUME StoredPart, NEW tool \in Tools, NEW h \in Holders, NEW new \in NewLists,
         RotateElsewhere(tool, h, new)
  PROVE  StoredPart'
<1>1. /\ RotatesElsewhere(tool, h, new) /\ stored' = RotatedElsewhere(tool, h, new)
      /\ readers' = Elements(new) /\ (vouched' => faults = 0)
      /\ source' = source /\ faults' = faults
  BY DEF RotateElsewhere, encVars
<1>2. Rec' = Rec
  BY <1>1 DEF Rec
<1>3. /\ Part(RotatedElsewhere(tool, h, new), Rec, Given(Elements(new)))
      /\ faults = 0 => /\ Vouches(RotatedElsewhere(tool, h, new), Len(Rec))
                       /\ Whole(RotatedElsewhere(tool, h, new), Len(Rec))
  <2>1. CASE tool = "python"
    BY <1>1, <2>1, PyRotatedIs DEF RotatesElsewhere, RotatedElsewhere
  <2>2. CASE tool # "python"
    BY <1>1, <2>2, TsRotatedIs DEF RotatesElsewhere, RotatedElsewhere
  <2>3. QED
    BY <2>1, <2>2
<1>4. QED
  BY <1>1, <1>2, <1>3 DEF StoredPart

-----------------------------------------------------------------------------
(* The invariant: decryption.                                              *)

\* What has been written are those of the first n chunks that yield messages.
Played(n) == n \in 0..Len(Rec) /\ delivered = Yielding(SubSeq(Rec, 1, n))

Decrypting ==
  /\ encFile = stored
  /\ decPos \in Nat \ {0}
  /\ symKey \in Keys \cup {NoKey}
  /\ symKey # NoKey => holder \in readers /\ (vouched => manifestRequired)
  /\ manifest # <<>> /\ vouched => manifest[1] = Placeholder \/ manifest[1].count = Len(Rec)
  /\ \E n \in 0..Len(Rec) : Played(n) /\ (decState # "failed" => n = decChunkIdx)
  /\ decState = "done" /\ vouched => decChunkIdx = Len(Rec)

DecPart ==
  /\ stage # "decrypt" => DecInit
  /\ stage = "decrypt" => Decrypting

\* What a decryption reads is the stored file, and stays so.
DecUnmoved ==
  UNCHANGED <<source, stored, readers, vouched, encFile, holder>>

\* The recording is a sequence.
LEMMA RecIs ==
  ASSUME EncBase
  PROVE  IsSeq(Rec) /\ Len(Rec) \in Nat /\ DOMAIN Rec = 1..Len(Rec)
BY InputIs, BodiesForm DEF Rec, Recorded

\* Nothing is written before the first chunk.
LEMMA PlayedNothing ==
  ASSUME EncBase
  PROVE  <<>> = Yielding(SubSeq(Rec, 1, 0)) /\ 0 \in 0..Len(Rec)
<1> DEFINE s == SubSeq(Rec, 1, 0)
<1>1. IsSeq(Rec) /\ Len(Rec) \in Nat /\ 0 \in 0..Len(Rec)
  BY RecIs
<1>2. IsSeq(s) /\ DOMAIN s = 1..0
  BY <1>1, FrontOf
<1> HIDE DEF s
<1>3. {i \in DOMAIN s : Yields(s[i])} = {}
  BY <1>2
<1>4. Yielding(s) = <<>>
  BY <1>2, <1>3, SelectedNone DEF Yielding
<1>5. QED
  BY <1>1, <1>4 DEF s

\* The next chunk.
LEMMA PlayedNext ==
  ASSUME EncBase, NEW n \in 0..Len(Rec), n < Len(Rec)
  PROVE  LET h == Yielding(SubSeq(Rec, 1, n))
             c == Rec[n + 1]
         IN /\ n + 1 \in 0..Len(Rec) /\ IsSeq(h)
            /\ Yielding(SubSeq(Rec, 1, n + 1))
                 = IF Yields(c) THEN Append(h, c) ELSE h
<1> DEFINE s == SubSeq(Rec, 1, n)
           h == Yielding(s)
           c == Rec[n + 1]
           t == <<c>>
<1>1. IsSeq(Rec) /\ Len(Rec) \in Nat /\ n + 1 \in 0..Len(Rec)
  BY RecIs
<1>2. SubSeq(Rec, 1, n + 1) = s \o t
  BY <1>1, FrontGrows
<1>3. IsSeq(s)
  BY <1>1, FrontOf
<1>4. Yielding(t) = IF Yields(c) THEN t ELSE <<>>
  BY MessagesSingle
<1> HIDE DEF s, c
<1>5. IsSeq(t)
  BY Single
<1> HIDE DEF t
<1>6. Yielding(s \o t) = h \o Yielding(t) /\ IsSeq(h)
  BY <1>3, <1>5, MessagesConcat
<1> HIDE DEF h
<1>7. Append(h, c) = h \o t /\ h \o <<>> = h
  <2>1. IsSeq(<<>>)
    BY DEF IsSeq, Elements
  <2>2. QED
    BY <1>6, <2>1, AppendOne, ConcatLen DEF t
<1>8. QED
  BY <1>1, <1>2, <1>4, <1>6, <1>7 DEF h, s, c

\* A step that writes nothing.
LEMMA DecMoves ==
  ASSUME Decrypting, DecUnmoved, decPos' = decPos \/ decPos' = decPos + 1,
         UNCHANGED decKeys,
         \/ manifest' = manifest
         \/ vouched /\ manifest'[1] = Placeholder
         \/ vouched /\ manifest'[1].count = Len(Rec)
         \/ ~ vouched,
         UNCHANGED <<decChunkIdx, delivered>>, decState # "failed",
         decState' = "done" /\ vouched => decChunkIdx = Len(Rec)
  PROVE  Decrypting'
<1>1. /\ encFile' = encFile /\ stored' = stored /\ holder' = holder /\ readers' = readers
      /\ source' = source /\ symKey' = symKey /\ manifestRequired' = manifestRequired
      /\ decChunkIdx' = decChunkIdx /\ delivered' = delivered /\ vouched' = vouched
  BY DEF DecUnmoved, decKeys
<1>2. Rec' = Rec
  BY <1>1 DEF Rec
<1>3. decPos' \in Nat \ {0}
  BY DEF Decrypting
<1>4. manifest' # <<>> /\ vouched => manifest'[1] = Placeholder \/ manifest'[1].count = Len(Rec)
  BY DEF Decrypting
<1>5. PICK n \in 0..Len(Rec) : Played(n) /\ n = decChunkIdx
  BY DEF Decrypting
<1>6. Played(n)' /\ n = decChunkIdx'
  BY <1>1, <1>2, <1>5 DEF Played
<1>7. /\ encFile' = stored'
      /\ symKey' \in Keys \cup {NoKey}
      /\ symKey' # NoKey => holder' \in readers' /\ (vouched' => manifestRequired')
  BY <1>1 DEF Decrypting
<1>8. decState' = "done" /\ vouched' => decChunkIdx' = Len(Rec')
  BY <1>1, <1>2
<1>9. QED
  BY <1>1, <1>2, <1>3, <1>4, <1>6, <1>7, <1>8 DEF Decrypting

\* The record a decryption is at.
LEMMA CurrentIs ==
  ASSUME StoredPart, Decrypting, decPos <= Len(encFile)
  PROVE  /\ decPos \in DOMAIN stored /\ Current = stored[decPos]
         /\ Genuine(Current, Rec, Given(readers))
<1>1. IsSeq(stored) /\ encFile = stored /\ decPos \in Nat \ {0}
  BY DEF StoredPart, Part, Decrypting
<1>2. Len(stored) \in Nat /\ DOMAIN stored = 1..Len(stored)
  BY <1>1, AsFunction
<1>3. decPos \in DOMAIN stored /\ Current = stored[decPos]
  BY <1>1, <1>2 DEF Current
<1>4. QED
  BY <1>3 DEF StoredPart, Part

\* A manifest that is kept vouches for the recording.
LEMMA BufferKeeps ==
  ASSUME StoredPart, Decrypting, DecUnmoved, Buffer PROVE Decrypting'
<1>1. /\ decState = "reading" /\ decPos <= Len(encFile)
      /\ decPos' = decPos + 1 /\ decState' = decState
      /\ manifest' = IF Current.op = "manifest" THEN <<Current>> ELSE manifest
      /\ UNCHANGED decKeys /\ UNCHANGED <<decChunkIdx, delivered>>
  BY DEF Buffer, Reads, Consume, decOutput
<1>2. \/ manifest' = manifest
      \/ vouched /\ manifest'[1] = Placeholder
      \/ vouched /\ manifest'[1].count = Len(Rec)
      \/ ~ vouched
  <2>1. CASE Current.op # "manifest" \/ ~ vouched
    BY <1>1, <2>1
  <2>2. CASE Current.op = "manifest" /\ vouched
    <3>1. decPos \in DOMAIN stored /\ Current = stored[decPos]
      BY <1>1, CurrentIs
    <3>2. Current = Placeholder \/ Current.count = Len(Rec)
      BY <2>2, <3>1 DEF StoredPart, Vouches
    <3>3. manifest'[1] = Current
      BY <1>1, <2>2
    <3>4. QED
      BY <2>2, <3>2, <3>3
  <2>3. QED
    BY <2>1, <2>2
<1>3. QED
  BY <1>1, <1>2, DecMoves DEF decKeys

\* A slot that opens is one of a recipient, and says that a manifest is needed
\* if the manifest vouches for the recording.
LEMMA TrySlotKeeps ==
  ASSUME StoredPart, Decrypting, DecUnmoved, TrySlot PROVE Decrypting'
<1>1. /\ decState = "reading" /\ decPos <= Len(encFile) /\ Current.op = "slot"
      /\ decPos' = decPos + 1 /\ decState' = decState
      /\ manifest' = manifest /\ decChunkIdx' = decChunkIdx /\ delivered' = delivered
      /\ encFile' = encFile /\ stored' = stored /\ holder' = holder /\ readers' = readers
      /\ source' = source /\ vouched' = vouched
  BY DEF TrySlot, Reads, Consume, decOutput, decBuffers, DecUnmoved
<1>2. Rec' = Rec
  BY <1>1 DEF Rec
<1>3. /\ decPos \in DOMAIN stored /\ Current = stored[decPos]
      /\ Genuine(Current, Rec, Given(readers))
  BY <1>1, CurrentIs
<1>4. ASSUME OpensFor(Current, holder)
      PROVE  holder \in readers /\ (vouched => RequiresManifest(Current))
  <2>1. holder \in readers
    BY <1>1, <1>3, <1>4 DEF Genuine, OpensFor, Given
  <2>2. ASSUME vouched PROVE RequiresManifest(Current)
    <3>1. Current.version # LegacyVersion
      BY <1>1, <1>3, <2>2 DEF StoredPart, Vouches
    <3>2. QED
      BY <1>4, <3>1 DEF OpensFor, Decodes, RequiresManifest, WrappedKeyVersion, LegacyVersion
  <2>3. QED
    BY <2>1, <2>2
<1>5. manifestRequired \/ RequiresManifest(Current) => manifestRequired'
  BY DEF TrySlot
<1>6. symKey' = symKey \/ (OpensFor(Current, holder) /\ symKey' = Current.key)
  BY DEF TrySlot
<1>7. symKey' # NoKey => holder' \in readers' /\ (vouched' => manifestRequired')
  BY <1>1, <1>4, <1>5, <1>6 DEF Decrypting
<1>8. PICK n \in 0..Len(Rec) : Played(n) /\ n = decChunkIdx
  BY <1>1 DEF Decrypting
<1>9. Played(n)' /\ n = decChunkIdx'
  BY <1>1, <1>2, <1>8 DEF Played
<1>10. decPos' \in Nat \ {0} /\ symKey' \in Keys \cup {NoKey}
  <2>1. Current.key \in Keys
    BY <1>1, <1>3 DEF Genuine, Given
  <2>2. QED
    BY <1>1, <1>6, <2>1 DEF Decrypting
<1>11. /\ encFile' = stored'
       /\ manifest' # <<>> /\ vouched' => manifest'[1] = Placeholder \/ manifest'[1].count = Len(Rec')
       /\ decState' # "done"
  BY <1>1, <1>2 DEF Decrypting
<1>12. QED
  BY <1>1, <1>2, <1>7, <1>9, <1>10, <1>11 DEF Decrypting

\* A chunk that opens is the next one of the recording.
LEMMA OpenedIsNext ==
  ASSUME EncBase, StoredPart, Decrypting, OpenEncChunk, Opens(Current, symKey, decChunkIdx)
  PROVE  /\ decChunkIdx \in 0..Len(Rec) /\ decChunkIdx < Len(Rec)
         /\ Played(decChunkIdx) /\ Current.body = Rec[decChunkIdx + 1]
<1>1. decState = "reading" /\ decPos <= Len(encFile) /\ Current.op = "encChunk"
  BY DEF OpenEncChunk, Reads
<1>2. Genuine(Current, Rec, Given(readers))
  BY <1>1, CurrentIs
<1>3. PICK n \in 0..Len(Rec) : Played(n) /\ n = decChunkIdx
  BY <1>1 DEF Decrypting
<1>4. Current.idx = decChunkIdx
  BY DEF Opens
<1>5. QED
  BY <1>1, <1>2, <1>3, <1>4 DEF Genuine

\* What a chunk that was opened does to the output.
LEMMA ChunkPlayed ==
  ASSUME EncBase, NEW n \in 0..Len(Rec), Played(n), n < Len(Rec),
         OpenChunkOk(Rec[n + 1]), source' = source
  PROVE  /\ \/ delivered' = delivered /\ decState' = "failed" /\ decPos' = decPos
            \/ /\ decState' = decState /\ decPos' = decPos + 1
               /\ delivered' = Yielding(SubSeq(Rec, 1, n + 1))
         /\ \/ delivered' = delivered
            \/ Yields(Rec[n + 1]) /\ delivered' = Append(delivered, Rec[n + 1])
         /\ decChunkIdx' = decChunkIdx + 1 /\ n + 1 \in 0..Len(Rec)
<1> DEFINE h == Yielding(SubSeq(Rec, 1, n))
           c == Rec[n + 1]
<1>1. delivered = h
  BY DEF Played
<1>2. /\ n + 1 \in 0..Len(Rec)
      /\ Yielding(SubSeq(Rec, 1, n + 1)) = IF Yields(c) THEN Append(h, c) ELSE h
  BY PlayedNext
<1>3. \/ /\ delivered' = IF Yields(c) THEN Append(delivered, c) ELSE delivered
         /\ decState' = decState /\ decPos' = decPos + 1
      \/ decState' = "failed" /\ delivered' = delivered /\ decPos' = decPos
  BY DEF OpenChunkOk, Reject, Consume, Yields
<1>4. decChunkIdx' = decChunkIdx + 1
  BY DEF OpenChunkOk
<1> HIDE DEF h, c
<1>5. Yields(c) \in BOOLEAN
  BY DEF Yields
<1>6. CASE Yields(c)
  BY <1>1, <1>2, <1>3, <1>4, <1>6 DEF c
<1>7. CASE ~ Yields(c)
  BY <1>1, <1>2, <1>3, <1>4, <1>7 DEF c
<1>8. QED
  BY <1>5, <1>6, <1>7

\* A step that opens a chunk writes it if it is the next one.
LEMMA OpenEncChunkKeeps ==
  ASSUME EncBase, StoredPart, Decrypting, DecUnmoved, OpenEncChunk
  PROVE  /\ Decrypting'
         /\ \/ delivered' = delivered /\ decState' \in {decState, "failed"}
            \/ \E n \in 0..Len(Rec) :
                 /\ Played(n) /\ n < Len(Rec) /\ Yields(Rec[n + 1])
                 /\ delivered' = Append(delivered, Rec[n + 1])
                 /\ decState' = decState
<1>1. /\ decState = "reading"
      /\ manifest' = manifest /\ symKey' = symKey /\ manifestRequired' = manifestRequired
      /\ encFile' = encFile /\ stored' = stored /\ holder' = holder /\ readers' = readers
      /\ source' = source /\ vouched' = vouched
  BY DEF OpenEncChunk, Reads, DecUnmoved, decBuffers, decKeys
<1>2. Rec' = Rec
  BY <1>1 DEF Rec
<1>3. PICK n \in 0..Len(Rec) : Played(n) /\ n = decChunkIdx
  BY <1>1 DEF Decrypting
<1>4. CASE decState' = "failed" /\ decPos' = decPos /\ delivered' = delivered
  <2>1. Played(n)'
    BY <1>2, <1>4, <1>3 DEF Played
  <2>2. QED
    BY <1>1, <1>2, <1>3, <1>4, <2>1 DEF Decrypting
<1>5. CASE ~ (decState' = "failed" /\ decPos' = decPos /\ delivered' = delivered)
  <2>1. Opens(Current, symKey, decChunkIdx) /\ OpenChunkOk(Current.body)
    BY <1>1, <1>5 DEF OpenEncChunk, Reject, decOutput
  <2>2. n < Len(Rec) /\ Current.body = Rec[n + 1]
    BY <1>3, <2>1, OpenedIsNext
  <2>3. /\ \/ delivered' = delivered /\ decState' = "failed" /\ decPos' = decPos
           \/ /\ decState' = decState /\ decPos' = decPos + 1
              /\ delivered' = Yielding(SubSeq(Rec, 1, n + 1))
        /\ \/ delivered' = delivered
           \/ Yields(Rec[n + 1]) /\ delivered' = Append(delivered, Rec[n + 1])
        /\ decChunkIdx' = decChunkIdx + 1 /\ n + 1 \in 0..Len(Rec)
    BY <1>1, <1>3, <2>1, <2>2, ChunkPlayed
  <2>4. n + 1 \in 0..Len(Rec') /\ decChunkIdx' = n + 1
    BY <1>2, <1>3, <2>3
  <2>5. PICK k \in 0..Len(Rec') : k = n + 1
    BY <2>4
  <2>6. Played(k)'
    BY <1>2, <1>5, <2>3, <2>5 DEF Played
  <2>7. decPos' \in Nat \ {0}
    BY <1>5, <2>3 DEF Decrypting
  <2>8. decState' = decState
    BY <1>5, <2>3
  <2>9. Decrypting'
    BY <1>1, <1>2, <2>4, <2>5, <2>6, <2>7, <2>8 DEF Decrypting
  <2>10. QED
    BY <1>3, <2>2, <2>3, <2>8, <2>9
<1>6. QED
  BY <1>4, <1>5

\* If decryption succeeds and the manifest vouches for the recording, then all of
\* it has been opened.
LEMMA VerifyKeeps ==
  ASSUME Decrypting, DecUnmoved, Verify PROVE Decrypting'
<1>1. /\ decState = "checking" /\ UNCHANGED decKeys /\ manifest' = manifest /\ decPos' = decPos
      /\ UNCHANGED <<decChunkIdx, delivered>>
      /\ decState' = "done" => symKey # NoKey /\ ManifestHolds
  BY DEF Verify, decBuffers
<1>2. ASSUME decState' = "done", vouched PROVE decChunkIdx = Len(Rec)
  <2>1. symKey # NoKey /\ manifestRequired
    BY <1>1, <1>2 DEF Decrypting
  <2>2. manifest # <<>> /\ manifest[1].key = symKey /\ manifest[1].count = decChunkIdx
    BY <1>1, <1>2, <2>1 DEF ManifestHolds
  <2>3. manifest[1] # Placeholder
    BY <2>1, <2>2 DEF Placeholder, Manifest
  <2>4. QED
    BY <1>2, <2>2, <2>3 DEF Decrypting
<1>3. QED
  BY <1>1, <1>2, DecMoves

\* The steps that write nothing.
LEMMA OtherDecryptionKeeps ==
  ASSUME Decrypting, DecUnmoved, OpenAttachment \/ StepOver \/ CutShort \/ EndScan
  PROVE  Decrypting' /\ delivered' = delivered /\ decState' # "done"
<1>1. /\ decState = "reading" /\ decState' # "done"
      /\ decPos' = decPos \/ decPos' = decPos + 1
      /\ UNCHANGED decKeys /\ manifest' = manifest /\ UNCHANGED <<decChunkIdx, delivered>>
  BY DEF OpenAttachment, StepOver, CutShort, EndScan, Reads, Consume, Reject, decBuffers, decOutput
<1>2. QED
  BY <1>1, DecMoves

\* The first step reads the magic.
LEMMA LeadingMagicKeeps ==
  ASSUME Decrypting, DecUnmoved, LeadingMagic
  PROVE  Decrypting' /\ delivered' = delivered /\ decState' # "done"
<1>1. /\ decState = "idle" /\ decState' # "done"
      /\ decPos' = decPos \/ decPos' = 2
      /\ manifest' = manifest /\ symKey' = symKey /\ manifestRequired' = manifestRequired
      /\ encFile' = encFile /\ stored' = stored /\ holder' = holder /\ readers' = readers
      /\ source' = source /\ vouched' = vouched
      /\ decChunkIdx' = decChunkIdx /\ delivered' = delivered
  BY DEF LeadingMagic, DecUnmoved, decBuffers, decKeys, decOutput
<1>2. Rec' = Rec
  BY <1>1 DEF Rec
<1>3. PICK n \in 0..Len(Rec) : Played(n) /\ n = decChunkIdx
  BY <1>1 DEF Decrypting
<1>4. Played(n)'
  BY <1>1, <1>2, <1>3 DEF Played
<1>5. QED
  BY <1>1, <1>2, <1>3, <1>4 DEF Decrypting

\* Every step of a decryption keeps the invariant.
LEMMA DecryptionKeeps ==
  ASSUME EncBase, StoredPart, Decrypting, DecUnmoved, DecNext
  PROVE  Decrypting'
BY LeadingMagicKeeps, BufferKeeps, TrySlotKeeps, OtherDecryptionKeeps, OpenEncChunkKeeps,
   VerifyKeeps DEF DecNext

-----------------------------------------------------------------------------
(* The invariant of the pipeline.                                          *)

\* The recording and the part of it that is encrypted, the file that is kept,
\* the rotation and the decryption of it, each while it takes place.
PipeInv ==
  /\ EncBase /\ EncPart
  /\ faults \in Nat
  /\ stage \in {"encrypt", "stored", "rotate", "decrypt"}
  /\ stage = "encrypt" => faults = 0 /\ vouched
  /\ stage # "encrypt" => StoredPart
  /\ RotPart
  /\ DecPart

\* A rotation that is not begun stays so.
LEMMA RotRests ==
  ASSUME RotPart, stage # "rotate", UNCHANGED rotVars, stage' # "rotate" PROVE RotPart'
BY DEF RotPart, RotInit, rotVars

\* Neither does a decryption.
LEMMA DecRests ==
  ASSUME DecPart, stage # "decrypt", UNCHANGED decVars, stage' # "decrypt" PROVE DecPart'
BY DEF DecPart, DecInit, decVars

\* What is stored depends on the file and the recording, who may read it and
\* whether it is whole and vouched for.
LEMMA StoredRests ==
  ASSUME StoredPart, source' = source, UNCHANGED <<stored, readers, vouched, faults>>
  PROVE  StoredPart'
<1>1. Rec' = Rec
  BY DEF Rec
<1>2. QED
  BY <1>1 DEF StoredPart

\* The encryption is over.
LEMMA EncRests ==
  ASSUME EncBase, EncPart, UNCHANGED encVars PROVE EncBase' /\ EncPart'
<1>1. /\ source' = source /\ mode' = mode /\ recipients' = recipients /\ encPos' = encPos
      /\ pending' = pending /\ flushed' = flushed /\ manifestAt' = manifestAt
      /\ chunkIdx' = chunkIdx /\ encChunkMetas' = encChunkMetas /\ out' = out
      /\ encState' = encState
  BY DEF encVars
<1>2. Rec' = Rec /\ Past' = Past /\ Taken' = Taken /\ To' = To
  BY <1>1 DEF Rec, Past, Taken, To
<1>3. EncBase'
  BY <1>1 DEF EncBase
<1>4. EncPart'
  BY <1>1, <1>2 DEF EncPart
<1>5. QED
  BY <1>3, <1>4

\* A file that is stored and neither rotated nor decrypted.
LEMMA StoredKeeps ==
  ASSUME PipeInv, stage # "rotate", stage # "decrypt", stage' = "stored", StoredPart',
         UNCHANGED <<encVars, rotVars, decVars>>, faults' \in Nat
  PROVE  PipeInv'
<1>1. RotPart' /\ DecPart' /\ EncBase' /\ EncPart'
  BY RotRests, DecRests, EncRests DEF PipeInv
<1>2. QED
  BY <1>1 DEF PipeInv

\* The invariant holds in the beginning.
LEMMA PipeStarts ==
  ASSUME Init PROVE PipeInv
<1>1. EncBase /\ EncPart
  BY EncStarts DEF Init
<1>2. QED
  BY <1>1 DEF Init, PipeInv, RotPart, DecPart

\* A decryption begins with nothing written.
LEMMA DecBegins ==
  ASSUME EncBase, DecInit, stage' = "decrypt", source' = source, stored' = stored,
         encFile' = stored, UNCHANGED <<decPos, decKeys, decBuffers, decOutput, decState>>
  PROVE  DecPart'
<1>1. /\ decPos' = 1 /\ symKey' = NoKey /\ manifest' = <<>> /\ decChunkIdx' = 0
      /\ delivered' = <<>> /\ decState' = "idle" /\ encFile' = stored'
  BY DEF DecInit, decKeys, decBuffers, decOutput
<1>2. Rec' = Rec
  BY DEF Rec
<1>3. delivered' = Yielding(SubSeq(Rec', 1, 0)) /\ 0 \in 0..Len(Rec')
  BY <1>1, <1>2, PlayedNothing
<1>4. PICK n \in 0..Len(Rec') : n = 0
  BY <1>3
<1>5. Played(n)' /\ n = decChunkIdx'
  BY <1>1, <1>3, <1>4 DEF Played
<1>6. Decrypting'
  BY <1>1, <1>4, <1>5 DEF Decrypting
<1>7. QED
  BY <1>6 DEF DecPart

\* Nor does a rotation change by itself.
LEMMA RotWaits ==
  ASSUME Rotating, UNCHANGED rotVars, source' = source, stored' = stored, faults' = faults
  PROVE  Rotating'
<1>1. /\ rotFile' = rotFile /\ newRecipients' = newRecipients /\ rotPos' = rotPos
      /\ rotKey' = rotKey /\ headerBuf' = headerBuf /\ dataBuf' = dataBuf
      /\ rotDefs' = rotDefs /\ chunkMetas' = chunkMetas /\ rotated' = rotated
      /\ rotState' = rotState
  BY DEF rotVars
<1>2. Rec' = Rec /\ Prefix' = Prefix
  BY <1>1 DEF Rec, Prefix, Records, Slot, Manifest
<1>3. Buffered'
  BY <1>1, <1>2 DEF Rotating, Buffered
<1>4. rotState = "done" => Laying'
  BY <1>1, <1>2 DEF Rotating, Laying
<1>5. QED
  BY <1>1, <1>2, <1>3, <1>4 DEF Rotating

\* Every step keeps the invariant.
LEMMA PipeKeeps ==
  ASSUME PipeInv, [Next]_vars PROVE PipeInv'
<1>1. CASE Encrypt
  <2>1. /\ stage = "encrypt" /\ stage' = "encrypt" /\ EncNext
        /\ UNCHANGED rotVars /\ UNCHANGED decVars /\ faults' = faults /\ vouched' = vouched
    BY <1>1 DEF Encrypt, fileVars
  <2>2. EncBase' /\ EncPart'
    BY <2>1, EncryptionKeeps DEF PipeInv
  <2>3. RotPart' /\ DecPart'
    BY <2>1, RotRests, DecRests DEF PipeInv
  <2>4. QED
    BY <2>1, <2>2, <2>3 DEF PipeInv
<1>2. CASE InputChanges
  <2>1. /\ stage = "encrypt" /\ stage' = "encrypt"
        /\ UNCHANGED rotVars /\ UNCHANGED decVars /\ faults' = faults /\ vouched' = vouched
    BY <1>2 DEF InputChanges
  <2>2. EncBase' /\ EncPart'
    BY <1>2, InputChangesKeeps DEF PipeInv
  <2>3. RotPart' /\ DecPart'
    BY <2>1, RotRests, DecRests DEF PipeInv
  <2>4. QED
    BY <2>1, <2>2, <2>3 DEF PipeInv
<1>3. CASE Store
  <2>1. /\ stage = "encrypt" /\ stage' = "stored" /\ faults' = faults
        /\ UNCHANGED <<encVars, rotVars, decVars>>
    BY <1>3 DEF Store
  <2>2. StoredPart'
    BY <1>3, StoreKeeps DEF PipeInv
  <2>3. QED
    BY <2>1, <2>2, StoredKeeps DEF PipeInv
<1>4. CASE Interrupt
  <2>1. /\ stage = "encrypt" /\ stage' = "stored" /\ faults' = faults + 1
        /\ UNCHANGED <<encVars, rotVars, decVars>>
    BY <1>4 DEF Interrupt
  <2>2. StoredPart'
    BY <1>4, InterruptKeeps DEF PipeInv
  <2>3. QED
    BY <2>1, <2>2, StoredKeeps DEF PipeInv
<1>5. CASE Damage
  <2>1. /\ stage = "stored" /\ stage' = "stored" /\ faults' = faults + 1
        /\ UNCHANGED <<encVars, rotVars, decVars>>
    BY <1>5 DEF Damage
  <2>2. StoredPart'
    BY <1>5, <2>1, DamageStored DEF PipeInv
  <2>3. QED
    BY <2>1, <2>2, StoredKeeps DEF PipeInv
<1>6. ASSUME NEW h \in Holders, NEW new \in NewLists, BeginRotate(h, new) PROVE PipeInv'
  <2>1. /\ stage = "stored" /\ stage' = "rotate"
        /\ UNCHANGED encVars /\ UNCHANGED decVars
        /\ source' = source /\ UNCHANGED <<stored, readers, vouched, faults>>
    BY <1>6 DEF BeginRotate, encVars
  <2>2. Rotating'
    BY <1>6, <2>1, RotBegins DEF PipeInv
  <2>3. RotPart'
    BY <2>1, <2>2 DEF RotPart
  <2>4. DecPart' /\ EncBase' /\ EncPart' /\ StoredPart'
    BY <2>1, DecRests, EncRests, StoredRests DEF PipeInv
  <2>5. QED
    BY <2>1, <2>3, <2>4 DEF PipeInv
<1>7. CASE Rotate
  <2>1. /\ stage = "rotate" /\ stage' = "rotate" /\ RotNext
        /\ UNCHANGED encVars /\ UNCHANGED decVars
        /\ source' = source /\ UNCHANGED <<stored, readers, vouched, faults>>
    BY <1>7 DEF Rotate, encVars, fileVars
  <2>2. rotFile' = rotFile /\ newRecipients' = newRecipients
    BY <2>1 DEF RotNext, RotStart, KeepHeader, KeepData, DropSlot, DropManifest, KeepChunk,
       KeepEncAttachment, KeepUnknown, ScanFails, ScanEnds, RotWrite, rotInput
  <2>3. Rotating'
    BY <2>1, <2>2, RotationKeeps DEF PipeInv, RotPart, RotUnmoved
  <2>4. RotPart'
    BY <2>1, <2>3 DEF RotPart
  <2>5. DecPart' /\ EncBase' /\ EncPart' /\ StoredPart'
    BY <2>1, DecRests, EncRests, StoredRests DEF PipeInv
  <2>6. QED
    BY <2>1, <2>4, <2>5 DEF PipeInv
<1>8. CASE EndRotate
  <2>1. /\ stage = "rotate" /\ stage' = "stored" /\ faults' = faults
        /\ UNCHANGED encVars /\ UNCHANGED decVars
    BY <1>8 DEF EndRotate
  <2>2. StoredPart' /\ RotInit'
    BY <1>8, <2>1, RotEnds DEF PipeInv, RotPart
  <2>3. RotPart'
    BY <2>1, <2>2 DEF RotPart
  <2>4. DecPart' /\ EncBase' /\ EncPart'
    BY <2>1, DecRests, EncRests DEF PipeInv
  <2>5. QED
    BY <2>1, <2>2, <2>3, <2>4 DEF PipeInv
<1>9. ASSUME NEW tool \in Tools, EncryptElsewhere(tool) PROVE PipeInv'
  <2>1. /\ stage = "encrypt" /\ stage' = "stored" /\ faults' = faults
        /\ UNCHANGED <<encVars, rotVars, decVars>>
    BY <1>9 DEF EncryptElsewhere
  <2>2. StoredPart'
    BY <1>9, <2>1, ElsewhereStores DEF PipeInv
  <2>3. QED
    BY <2>1, <2>2, StoredKeeps DEF PipeInv
<1>10. ASSUME NEW tool \in Tools, NEW h \in Holders, NEW new \in NewLists,
              RotateElsewhere(tool, h, new)
       PROVE  PipeInv'
  <2>1. /\ stage = "stored" /\ stage' = "stored" /\ faults' = faults
        /\ UNCHANGED <<encVars, rotVars, decVars>>
    BY <1>10 DEF RotateElsewhere
  <2>2. StoredPart'
    BY <1>10, <2>1, ElsewhereRotates DEF PipeInv
  <2>3. QED
    BY <2>1, <2>2, StoredKeeps DEF PipeInv
<1>11. ASSUME NEW h \in Holders, BeginDecrypt(h) PROVE PipeInv'
  <2>1. /\ stage = "stored" /\ stage' = "decrypt" /\ encFile' = stored
        /\ UNCHANGED encVars /\ UNCHANGED rotVars
        /\ UNCHANGED <<decPos, decKeys, decBuffers, decOutput, decState>>
        /\ source' = source /\ stored' = stored
        /\ UNCHANGED <<stored, readers, vouched, faults>>
    BY <1>11 DEF BeginDecrypt, encVars, fileVars
  <2>2. DecInit /\ EncBase
    BY <2>1 DEF PipeInv, DecPart
  <2>3. DecPart'
    BY <2>1, <2>2, DecBegins
  <2>4. RotPart' /\ EncBase' /\ EncPart' /\ StoredPart'
    BY <2>1, RotRests, EncRests, StoredRests DEF PipeInv
  <2>5. QED
    BY <2>1, <2>3, <2>4 DEF PipeInv
<1>12. CASE Decrypt
  <2>1. /\ stage = "decrypt" /\ stage' = "decrypt" /\ DecNext
        /\ UNCHANGED encVars /\ UNCHANGED rotVars
        /\ source' = source /\ UNCHANGED <<stored, readers, vouched, faults>>
    BY <1>12 DEF Decrypt, encVars, fileVars
  <2>2. encFile' = encFile /\ holder' = holder
    BY <2>1 DEF DecNext, LeadingMagic, Buffer, TrySlot, OpenAttachment, OpenEncChunk, StepOver,
       CutShort, EndScan, Verify
  <2>3. Decrypting'
    BY <2>1, <2>2, DecryptionKeeps DEF PipeInv, DecPart, DecUnmoved
  <2>4. DecPart'
    BY <2>1, <2>3 DEF DecPart
  <2>5. RotPart' /\ EncBase' /\ EncPart' /\ StoredPart'
    BY <2>1, RotRests, EncRests, StoredRests DEF PipeInv
  <2>6. QED
    BY <2>1, <2>4, <2>5 DEF PipeInv
<1>13. CASE UNCHANGED vars
  <2>1. UNCHANGED encVars /\ UNCHANGED rotVars /\ UNCHANGED decVars /\ stage' = stage
        /\ source' = source /\ UNCHANGED <<stored, readers, vouched, faults>>
    BY <1>13 DEF vars, encVars, fileVars
  <2>2. EncBase' /\ EncPart' /\ (StoredPart => StoredPart') /\ Rec' = Rec
    BY <2>1, EncRests, StoredRests DEF PipeInv, Rec
  <2>3. RotPart'
    <3>1. (RotInit => RotInit') /\ (Rotating => Rotating')
      BY <2>1, RotWaits DEF rotVars, RotInit
    <3>2. QED
      BY <2>1, <3>1 DEF PipeInv, RotPart
  <2>4. DecPart'
    BY <2>1, <2>2 DEF PipeInv, DecPart, DecInit, Decrypting, Played, decVars
  <2>5. QED
    BY <2>1, <2>2, <2>3, <2>4 DEF PipeInv
<1>14. QED
  BY <1>1, <1>2, <1>3, <1>4, <1>5, <1>6, <1>7, <1>8, <1>9, <1>10, <1>11, <1>12, <1>13 DEF Next

\* PipeInv is an invariant of the pipeline.
THEOREM PipelineInvariant == Spec => []PipeInv
<1>1. Init => PipeInv
  BY PipeStarts
<1>2. PipeInv /\ [Next]_vars => PipeInv'
  BY PipeKeeps
<1>3. QED
  BY <1>1, <1>2, PTL DEF Spec

-----------------------------------------------------------------------------
(* What it means for the one who decrypts.                                 *)

\* The chunks that yield messages, of the source and of all that is recorded of it.
LEMMA OriginalIs ==
  ASSUME EncBase PROVE Original = Yielding(Rec) /\ IsSeq(Original)
<1>1. IsSeq(source) /\ IsSeq(Rec)
  BY InputIs, RecIs
<1>2. Original = Yielding(Rec)
  BY <1>1, MessagesOfFile DEF Original, Records, PlayedAt, Rec
<1>3. IsSeq(<<>>)
  BY DEF IsSeq, Elements
<1>4. QED
  BY <1>1, <1>2, <1>3, MessagesConcat

\* The first n chunks and the others make up the recording.
LEMMA PlayedAndRest ==
  ASSUME EncBase, NEW n \in 0..Len(Rec)
  PROVE  /\ IsSeq(Yielding(SubSeq(Rec, 1, n)))
         /\ IsSeq(Yielding(SubSeq(Rec, n + 1, Len(Rec))))
         /\ Original = Yielding(SubSeq(Rec, 1, n)) \o Yielding(SubSeq(Rec, n + 1, Len(Rec)))
         /\ n = Len(Rec) => Yielding(SubSeq(Rec, 1, n)) = Original
<1> DEFINE s == SubSeq(Rec, 1, n)
           t == SubSeq(Rec, n + 1, Len(Rec))
<1>1. IsSeq(Rec) /\ Len(Rec) \in Nat
  BY RecIs
<1>2. IsSeq(s) /\ IsSeq(t) /\ Rec = s \o t
  BY <1>1, FrontOf, BackOf, FrontAndBack
<1>3. ASSUME n = Len(Rec) PROVE s = Rec
  <2>1. /\ DOMAIN s = 1..n /\ DOMAIN Rec = 1..n
        /\ \A i \in 1..n : s[i] = Rec[i]
    BY <1>1, <1>3, RecIs, FrontOf
  <2> HIDE DEF s
  <2>2. QED
    BY <1>1, <1>2, <2>1, SameSeq
<1> HIDE DEF s, t
<1>4. /\ Yielding(s \o t) = Yielding(s) \o Yielding(t)
      /\ IsSeq(Yielding(s)) /\ IsSeq(Yielding(t))
  BY <1>2, MessagesConcat
<1>5. QED
  BY <1>2, <1>3, <1>4, OriginalIs DEF s, t

\* What has been written is a beginning of the recording.
LEMMA WrittenIsPrefix ==
  ASSUME PipeInv PROVE DeliveredIsPrefix
<1>1. PICK n \in 0..Len(Rec) : delivered = Yielding(SubSeq(Rec, 1, n))
  <2>1. CASE stage = "decrypt"
    BY <2>1 DEF PipeInv, DecPart, Decrypting, Played
  <2>2. CASE stage # "decrypt"
    <3>1. delivered = <<>> /\ EncBase
      BY <2>2 DEF PipeInv, DecPart, DecInit
    <3>2. QED
      BY <3>1, PlayedNothing
  <2>3. QED
    BY <2>1, <2>2
<1> DEFINE t == Yielding(SubSeq(Rec, n + 1, Len(Rec)))
           k == Len(delivered)
<1>2. IsSeq(delivered) /\ IsSeq(t) /\ Original = delivered \o t
  BY <1>1, PlayedAndRest DEF PipeInv
<1> HIDE DEF t
<1>3. /\ IsSeq(Original) /\ k \in Nat /\ Len(t) \in Nat /\ DOMAIN delivered = 1..k
      /\ DOMAIN Original = 1..(k + Len(t))
      /\ \A i \in 1..k : Original[i] = delivered[i]
  BY <1>2, Concat
<1>4. Len(Original) = k + Len(t)
  BY <1>2, <1>3, ConcatLen
<1>5. k \in 0..Len(Original)
  BY <1>3, <1>4
<1>6. /\ IsSeq(SubSeq(Original, 1, k)) /\ DOMAIN SubSeq(Original, 1, k) = 1..k
      /\ \A i \in 1..k : SubSeq(Original, 1, k)[i] = Original[i]
  BY <1>3, <1>5, FrontOf
<1>7. /\ IsSeq(SubSeq(delivered, 1, k)) /\ DOMAIN SubSeq(delivered, 1, k) = 1..k
      /\ \A i \in 1..k : SubSeq(delivered, 1, k)[i] = delivered[i]
  <2>1. k \in 0..Len(delivered)
    BY <1>3
  <2>2. QED
    BY <1>2, <2>1, FrontOf
<1>8. SubSeq(delivered, 1, k) = SubSeq(Original, 1, k)
  BY <1>3, <1>6, <1>7, SameSeq
<1>9. k <= Len(Original)
  BY <1>5, <1>3, <1>4
<1>10. QED
  BY <1>8, <1>9 DEF DeliveredIsPrefix, S!IsPrefix

\* What a decryption has written is a beginning of the recording, whatever
\* befell its file (FORMAT.md:255-258): chunks are bound to their place.
THEOREM WrittenInOrder == Spec => []DeliveredIsPrefix
<1>1. PipeInv => DeliveredIsPrefix
  BY WrittenIsPrefix
<1>2. QED
  BY <1>1, PipelineInvariant, PTL

\* Only a recipient of the file that is decrypted has its key.
THEOREM OthersReadNothing == Spec => []OnlyRecipientsRead
<1>1. PipeInv => OnlyRecipientsRead
  BY DEF PipeInv, DecPart, DecInit, Decrypting, OnlyRecipientsRead
<1>2. QED
  BY <1>1, PipelineInvariant, PTL

\* The chunk indexes of a rotated file point to its chunks.
THEOREM IndexesPointToChunks == Spec => []RotatedIndexPoints
<1>1. ASSUME PipeInv PROVE RotatedIndexPoints
  <2> DEFINE n == Len(chunkMetas)
             k == Len(Prefix)
  <2> SUFFICES ASSUME rotState = "done"
               PROVE  /\ n = Len(OfKind(rotated, {"encChunk"}))
                      /\ \A i \in 1..n : rotated[Positions[i]].op = "encChunk"
                      /\ \A i, j \in 1..n : i < j => Positions[i] < Positions[j]
    BY DEF RotatedIndexPoints
  <2>1. Rotating
    BY <1>1 DEF PipeInv, RotPart, RotInit
  <2>2. /\ n = Tally(rotated) /\ k \in Nat
        /\ \A i \in DOMAIN dataBuf : rotated[k + i] = dataBuf[i]
    BY <2>1 DEF Rotating, Laying, Whole
  <2>3. /\ IsSeq(chunkMetas) /\ IsSeq(dataBuf)
        /\ \A i \in DOMAIN chunkMetas :
             chunkMetas[i] \in DOMAIN dataBuf /\ dataBuf[chunkMetas[i]].op = "encChunk"
        /\ \A i, j \in DOMAIN chunkMetas : i < j => chunkMetas[i] < chunkMetas[j]
    BY <2>1 DEF Rotating, Buffered, PointsInto, Part
  <2>4. DOMAIN chunkMetas = 1..n /\ DOMAIN dataBuf = 1..Len(dataBuf) /\ Len(dataBuf) \in Nat
    BY <2>3, AsFunction
  <2>5. \A i \in 1..n : Positions[i] = k + chunkMetas[i] /\ chunkMetas[i] \in Nat
    BY <2>3, <2>4 DEF Positions
  <2> HIDE DEF n, k
  <2>6. \A i \in 1..n : rotated[Positions[i]].op = "encChunk"
    <3>1. TAKE i \in 1..n
    <3>2. i \in DOMAIN chunkMetas /\ Positions[i] = k + chunkMetas[i]
      BY <2>4, <2>5
    <3>3. chunkMetas[i] \in DOMAIN dataBuf /\ dataBuf[chunkMetas[i]].op = "encChunk"
      BY <2>3, <3>2
    <3>4. rotated[k + chunkMetas[i]] = dataBuf[chunkMetas[i]]
      BY <2>2, <3>3
    <3>5. QED
      BY <3>2, <3>3, <3>4
  <2>7. \A i, j \in 1..n : i < j => Positions[i] < Positions[j]
    <3>1. TAKE i, j \in 1..n
    <3>2. /\ Positions[i] = k + chunkMetas[i] /\ chunkMetas[i] \in Nat
          /\ Positions[j] = k + chunkMetas[j] /\ chunkMetas[j] \in Nat
      BY <2>5
    <3>3. i < j => chunkMetas[i] < chunkMetas[j]
      BY <2>3, <2>4
    <3>4. QED
      BY <2>2, <3>2, <3>3
  <2>8. QED
    BY <2>2, <2>6, <2>7 DEF Tally
<1>2. QED
  BY <1>1, PipelineInvariant, PTL

-----------------------------------------------------------------------------
(* The refinement of Recording.                                            *)

\* What comes out next is the next of what has not come out.
LEMMA NextOfOriginal ==
  ASSUME EncBase, NEW n \in 0..Len(Rec), n < Len(Rec), Yields(Rec[n + 1]),
         delivered = Yielding(SubSeq(Rec, 1, n))
  PROVE  Len(delivered) < Len(Original) /\ Original[Len(delivered) + 1] = Rec[n + 1]
<1> DEFINE c == Rec[n + 1]
           h == Append(delivered, c)
           t == Yielding(SubSeq(Rec, n + 2, Len(Rec)))
           k == Len(delivered)
<1>1. /\ n + 1 \in 0..Len(Rec) /\ IsSeq(delivered)
      /\ Yielding(SubSeq(Rec, 1, n + 1)) = h
  BY PlayedNext
<1>2. IsSeq(h) /\ IsSeq(t) /\ Original = h \o t
  <2>1. PICK m \in 0..Len(Rec) : m = n + 1
    BY <1>1
  <2>2. m + 1 = n + 2
    BY <2>1
  <2>3. QED
    BY <1>1, <2>1, <2>2, PlayedAndRest
<1>3. h = delivered \o <<c>>
  BY <1>1, AppendOne
<1> HIDE DEF c, h, t
<1>4. /\ k \in Nat /\ Len(h) = k + 1 /\ h[k + 1] = c
  BY <1>1, <1>3, OneMore
<1> HIDE DEF k
<1>5. /\ Len(t) \in Nat /\ \A i \in 1..Len(h) : Original[i] = h[i]
      /\ Len(Original) = Len(h) + Len(t)
  BY <1>2, Concat, ConcatLen
<1>6. k + 1 \in 1..Len(h)
  BY <1>4
<1>7. QED
  BY <1>4, <1>5, <1>6 DEF c, k

\* A recording is a sequence of chunks.
LEMMA OriginalIsSeq ==
  ASSUME EncBase PROVE Original \in Seq(DOMAIN Uses)
<1>1. IsSeq(Original)
  BY OriginalIs
<1>2. /\ \A i \in DOMAIN source : source[i].op = "chunk" => source[i].body \in DOMAIN Uses
      /\ IsSeq(source)
  BY InputIs
<1> DEFINE at == PlayedAt(source)
           q == Sorted(at)
<1>3. Original = [k \in DOMAIN q |-> source[q[k]].body]
  BY DEF Original, Records, PlayedAt
<1>4. at \in SUBSET DOMAIN source
  BY DEF PlayedAt
<1>5. IsSeq(source)
  BY <1>2
<1> HIDE DEF at
<1>6. q \in [1..Cardinality(at) -> at]
  BY <1>4, <1>5, SelectedBy DEF Enumerates
<1> HIDE DEF q
<1>7. \A k \in DOMAIN q : q[k] \in DOMAIN source /\ source[q[k]].op = "chunk"
  BY <1>4, <1>6 DEF at, PlayedAt
<1>8. Elements(Original) \subseteq DOMAIN Uses
  BY <1>2, <1>3, <1>7 DEF Elements
<1>9. Original \in [1..Len(Original) -> DOMAIN Uses] /\ Len(Original) \in Nat
  BY <1>1, <1>8, AsFunction
<1>10. QED
  BY <1>9, SeqDef

\* Outside of a decryption nothing has come out, and the verdict is open.
LEMMA OpenVerdict ==
  ASSUME PipeInv, stage # "decrypt"
  PROVE  Verdict = "open" /\ delivered = <<>> /\ decState = "idle"
BY DEF PipeInv, DecPart, DecInit, Verdict

\* A step that neither changes the recording nor decrypts is none of the
\* recipient's business.
LEMMA Unnoticed ==
  ASSUME PipeInv, stage # "decrypt", source' = source, UNCHANGED <<delivered, decState>>
  PROVE  UNCHANGED Promise!recording
<1>1. Verdict = "open" /\ decState = "idle"
  BY OpenVerdict
<1>2. Verdict' = "open"
  BY <1>1 DEF Verdict
<1>3. Original' = Original
  BY DEF Original, Records
<1>4. QED
  BY <1>1, <1>2, <1>3 DEF Promise!recording

\* A step of a decryption plays a chunk, ends it or is not noticed.
LEMMA DecryptionPromises ==
  ASSUME PipeInv, stage = "decrypt", DecUnmoved, DecNext
  PROVE  [Promise!Next]_(Promise!recording)
<1>1. EncBase /\ StoredPart /\ Decrypting
  BY DEF PipeInv, DecPart
<1>2. Original' = Original /\ vouched' = vouched
  BY DEF Original, Records, DecUnmoved
<1>3. Decrypting'
  BY <1>1, DecryptionKeeps
<1>4. ASSUME delivered' = delivered, decState' = "failed", decState \notin {"done", "failed"}
      PROVE  Promise!GiveUp
  <2>1. Verdict = "open" /\ Verdict' = "failed"
    BY <1>4 DEF Verdict
  <2>2. QED
    BY <1>2, <1>4, <2>1 DEF Promise!GiveUp
<1>5. ASSUME delivered' = delivered, decState' \notin {"done", "failed"},
             decState \notin {"done", "failed"}
      PROVE  UNCHANGED Promise!recording
  <2>1. Verdict = "open" /\ Verdict' = "open"
    BY <1>5 DEF Verdict
  <2>2. QED
    BY <1>2, <1>5, <2>1 DEF Promise!recording
<1>6. CASE OpenEncChunk
  <2>1. decState = "reading"
    BY <1>6 DEF OpenEncChunk, Reads
  <2>2. CASE delivered' = delivered /\ decState' \in {decState, "failed"}
    BY <1>4, <1>5, <2>1, <2>2 DEF Promise!Next
  <2>3. ASSUME NEW n \in 0..Len(Rec), Played(n), n < Len(Rec), Yields(Rec[n + 1]),
               delivered' = Append(delivered, Rec[n + 1]), decState' = decState
        PROVE  Promise!Play
    <3>1. delivered = Yielding(SubSeq(Rec, 1, n))
      BY <2>3 DEF Played
    <3>2. Len(delivered) < Len(Original) /\ Original[Len(delivered) + 1] = Rec[n + 1]
      BY <1>1, <2>3, <3>1, NextOfOriginal
    <3>3. Verdict = "open" /\ Verdict' = "open"
      BY <2>1, <2>3 DEF Verdict
    <3>4. QED
      BY <1>2, <2>3, <3>2, <3>3 DEF Promise!Play
  <2>4. \/ delivered' = delivered /\ decState' \in {decState, "failed"}
        \/ \E n \in 0..Len(Rec) :
             /\ Played(n) /\ n < Len(Rec) /\ Yields(Rec[n + 1])
             /\ delivered' = Append(delivered, Rec[n + 1])
             /\ decState' = decState
    BY <1>1, <1>6, OpenEncChunkKeeps
  <2>5. QED
    BY <2>2, <2>3, <2>4 DEF Promise!Next
<1>7. CASE Verify
  <2>1. decState = "checking" /\ delivered' = delivered /\ decState' \in {"done", "failed"}
    BY <1>7 DEF Verify
  <2>2. CASE decState' = "done" /\ vouched
    <3>1. PICK n \in 0..Len(Rec) : Played(n) /\ n = decChunkIdx
      BY <1>1, <2>1 DEF Decrypting
    <3>2. decChunkIdx' = Len(Rec') /\ Rec' = Rec /\ decChunkIdx' = decChunkIdx
      BY <1>2, <1>3, <1>7, <2>2 DEF Decrypting, Verify, DecUnmoved, Rec
    <3>3. delivered = Original
      BY <1>1, <3>1, <3>2, PlayedAndRest DEF Played
    <3>4. Verdict = "open" /\ Verdict' = "complete"
      BY <1>2, <2>1, <2>2 DEF Verdict
    <3>5. Promise!Complete
      BY <1>2, <2>1, <3>3, <3>4 DEF Promise!Complete
    <3>6. QED
      BY <3>5 DEF Promise!Next
  <2>3. CASE decState' = "failed" \/ ~ vouched
    <3>1. Verdict = "open" /\ Verdict' = "failed"
      BY <1>2, <2>1, <2>3 DEF Verdict
    <3>2. Promise!GiveUp
      BY <1>2, <2>1, <3>1 DEF Promise!GiveUp
    <3>3. QED
      BY <3>2 DEF Promise!Next
  <2>4. QED
    BY <2>1, <2>2, <2>3
<1>8. CASE LeadingMagic
  <2>1. decState = "idle" /\ delivered' = delivered /\ decState' \in {"reading", "failed"}
    BY <1>8 DEF LeadingMagic, decOutput
  <2>2. QED
    BY <1>4, <1>5, <2>1 DEF Promise!Next
<1>9. CASE Buffer \/ TrySlot \/ OpenAttachment \/ StepOver \/ CutShort \/ EndScan
  <2>1. /\ decState = "reading" /\ delivered' = delivered
        /\ decState' \in {"reading", "checking", "failed"}
    BY <1>9 DEF Buffer, TrySlot, OpenAttachment, StepOver, CutShort, EndScan, Reads, Consume,
       Reject, decOutput
  <2>2. QED
    BY <1>4, <1>5, <2>1 DEF Promise!Next
<1>10. QED
  BY <1>6, <1>7, <1>8, <1>9 DEF DecNext

\* Every step of the pipeline is one of the promise, or is not noticed.
LEMMA StepPromises ==
  ASSUME PipeInv, [Next]_vars, (Original \in Seq(DOMAIN Uses))'
  PROVE  [Promise!Next]_(Promise!recording)
<1>1. CASE Decrypt
  <2>1. /\ stage = "decrypt" /\ DecNext
        /\ UNCHANGED encVars /\ UNCHANGED fileVars
    BY <1>1 DEF Decrypt
  <2>2. encFile' = encFile /\ holder' = holder
    BY <2>1 DEF DecNext, LeadingMagic, Buffer, TrySlot, OpenAttachment, OpenEncChunk, StepOver,
       CutShort, EndScan, Verify
  <2>3. DecUnmoved
    BY <2>1, <2>2 DEF DecUnmoved, encVars, fileVars
  <2>4. QED
    BY <2>1, <2>3, DecryptionPromises
<1>2. CASE InputChanges
  <2>1. stage = "encrypt" /\ delivered' = delivered /\ decState' = decState
    BY <1>2 DEF InputChanges, decVars
  <2>2. Verdict = "open" /\ delivered = <<>> /\ decState = "idle"
    BY <2>1, OpenVerdict
  <2>3. Verdict' = "open"
    BY <2>1, <2>2 DEF Verdict
  <2>4. Promise!Record
    BY <2>1, <2>2, <2>3 DEF Promise!Record
  <2>5. QED
    BY <2>4 DEF Promise!Next
<1>3. CASE Encrypt
  <2>1. stage # "decrypt" /\ UNCHANGED decVars /\ source' = source
    BY <1>3 DEF Encrypt, EncNext, Check, Collect, OpenPass2, TakeHeader, Skip, TakeAttachment,
       TakeFrameworkAttachment, TakeMetadata, TakeChunk, TakeUnusable, TakeDataEnd, TakeFooter,
       EndOfInput, encInput
  <2>2. QED
    BY <2>1, Unnoticed DEF decVars
<1>4. CASE Store \/ Interrupt \/ Damage \/ Rotate \/ EndRotate
  <2>1. stage # "decrypt" /\ UNCHANGED decVars /\ source' = source
    BY <1>4 DEF Store, Interrupt, Damage, Rotate, EndRotate, encVars
  <2>2. QED
    BY <2>1, Unnoticed DEF decVars
<1>5. ASSUME NEW tool \in Tools, EncryptElsewhere(tool) PROVE UNCHANGED Promise!recording
  <2>1. stage # "decrypt" /\ UNCHANGED decVars /\ source' = source
    BY <1>5 DEF EncryptElsewhere, encVars
  <2>2. QED
    BY <2>1, Unnoticed DEF decVars
<1>6. ASSUME NEW tool \in Tools, NEW h \in Holders, NEW new \in NewLists,
             RotateElsewhere(tool, h, new)
      PROVE  UNCHANGED Promise!recording
  <2>1. stage # "decrypt" /\ UNCHANGED decVars /\ source' = source
    BY <1>6 DEF RotateElsewhere, encVars
  <2>2. QED
    BY <2>1, Unnoticed DEF decVars
<1>7. ASSUME NEW h \in Holders, NEW new \in NewLists, BeginRotate(h, new)
      PROVE  UNCHANGED Promise!recording
  <2>1. stage # "decrypt" /\ UNCHANGED decVars /\ source' = source
    BY <1>7 DEF BeginRotate, encVars
  <2>2. QED
    BY <2>1, Unnoticed DEF decVars
<1>8. ASSUME NEW h \in Holders, BeginDecrypt(h) PROVE UNCHANGED Promise!recording
  <2>1. stage # "decrypt" /\ source' = source /\ UNCHANGED <<delivered, decState>>
    BY <1>8 DEF BeginDecrypt, encVars, decOutput
  <2>2. QED
    BY <2>1, Unnoticed
<1>9. CASE UNCHANGED vars
  <2>1. source' = source /\ delivered' = delivered /\ decState' = decState /\ vouched' = vouched
    BY <1>9 DEF vars, encVars, decVars, fileVars
  <2>2. Original' = Original /\ Verdict' = Verdict
    BY <2>1 DEF Original, Records, Verdict
  <2>3. QED
    BY <2>1, <2>2 DEF Promise!recording
<1>10. QED
  BY <1>1, <1>2, <1>3, <1>4, <1>5, <1>6, <1>7, <1>8, <1>9 DEF Next

\* The three programs, the files they hand to each other and all that befalls
\* these files keep the promise of Recording: chunks come out one by one in
\* their order, and success is reported, where the manifest vouches for the
\* chunks, only when all of them have.
THEOREM PipelineKeepsPromise == Spec => KeepsPromise
<1>1. Init => Promise!Init
  <2> SUFFICES ASSUME Init PROVE Promise!Init
    OBVIOUS
  <2>1. PipeInv /\ stage # "decrypt"
    BY PipeStarts DEF Init
  <2>2. Verdict = "open" /\ delivered = <<>>
    BY <2>1, OpenVerdict
  <2>3. Original \in Seq(DOMAIN Uses)
    BY <2>1, OriginalIsSeq DEF PipeInv
  <2>4. QED
    BY <2>2, <2>3 DEF Promise!Init
<1>2. PipeInv => Original \in Seq(DOMAIN Uses)
  BY OriginalIsSeq DEF PipeInv
<1>3. PipeInv /\ [Next]_vars /\ (Original \in Seq(DOMAIN Uses))'
        => [Promise!Next]_(Promise!recording)
  BY StepPromises
<1>4. QED
  BY <1>1, <1>2, <1>3, PipelineInvariant, PTL DEF Spec, KeepsPromise, Promise!Spec

-----------------------------------------------------------------------------
(* The state is well formed.                                               *)

\* The positions an encryption has noted lie inside of what it has written.
Inside(s, ms, at) ==
  /\ at \in 0..Len(s)
  /\ \A i \in DOMAIN ms : ms[i] \in 1..Len(s)

EncForm ==
  /\ flushed \in BOOLEAN
  /\ Inside(out, encChunkMetas, manifestAt)
  /\ chunkIdx \in 0..(encPos - 1)
  /\ Len(encChunkMetas) = chunkIdx

\* The scan of a rotation stays in its file, and its marks in its buffer.
RotForm ==
  /\ stage # "rotate" => rotFile = <<>>
  /\ rotPos \in 1..(Len(rotFile) + 1)
  /\ Len(chunkMetas) <= Len(dataBuf)
  /\ rotState \in {"idle", "scanning", "scanned", "done", "failed"}

\* No more chunks are opened than records are read behind the magic.
DecForm ==
  /\ stage # "decrypt" => encFile = <<>>
  /\ decPos \in 1..(Len(encFile) + 1)
  /\ decChunkIdx \in 0..(decPos - 1)
  /\ decState = "idle" => decChunkIdx = 0
  /\ decState = "reading" => decChunkIdx + 1 <= decPos - 1
  /\ Len(writer) \in {0, 1}
  /\ decState \in {"idle", "reading", "checking", "done", "failed"}

Form == EncForm /\ RotForm /\ DecForm /\ readers \subseteq Holders

\* What is written behind them leaves the positions alone.
LEMMA InsideStays ==
  ASSUME NEW s, NEW t, IsSeq(s), IsSeq(t), NEW ms, NEW at, Inside(s, ms, at)
  PROVE  Inside(s \o t, ms, at) /\ Len(s) \in Nat /\ Len(s) <= Len(s \o t)
<1>1. /\ IsSeq(s \o t) /\ DOMAIN (s \o t) = 1..(Len(s) + Len(t))
      /\ Len(s) \in Nat /\ Len(t) \in Nat
  BY Concat
<1>2. DOMAIN (s \o t) = 1..Len(s \o t) /\ Len(s \o t) \in Nat
  BY <1>1, AsFunction
<1>3. Len(s \o t) = Len(s) + Len(t)
  BY <1>1, ConcatLen
<1>4. Len(s) <= Len(s \o t)
  BY <1>1, <1>3
<1> DEFINE m == Len(s)
           n == Len(s \o t)
<1>5. m \in Nat /\ n \in Nat /\ m <= n
  BY <1>1, <1>2, <1>4
<1>6. at \in 0..m /\ \A i \in DOMAIN ms : ms[i] \in 1..m
  BY DEF Inside
<1> HIDE DEF m, n
<1>7. at \in 0..n /\ \A i \in DOMAIN ms : ms[i] \in 1..n
  BY <1>5, <1>6
<1>8. QED
  BY <1>1, <1>4, <1>7 DEF Inside, n

\* Neither does flushPending disturb them.
LEMMA FlushForm ==
  ASSUME EncBase, EncPart, EncForm, encState = "reading"
  PROVE  /\ IsSeq(FlushedOut) /\ Len(FlushedOut) \in Nat
         /\ Inside(FlushedOut, encChunkMetas, FlushedAt)
<1>1. IsSeq(FlushedOut) /\ (mode = "file" => ManifestIn(FlushedOut, FlushedAt))
  BY Flushing
<1>2. DOMAIN FlushedOut = 1..Len(FlushedOut) /\ Len(FlushedOut) \in Nat
  BY <1>1, AsFunction
<1>3. CASE MustFlush
  <2>1. FlushedOut = out \o Preamble /\ mode = "file"
    BY <1>3 DEF FlushedOut, MustFlush
  <2>2. IsSeq(out) /\ IsSeq(Preamble)
    BY InputIs, SilentOpening DEF EncPart, Covers, Part, Silent
  <2>3. Inside(FlushedOut, encChunkMetas, manifestAt)
    BY <2>1, <2>2, InsideStays DEF EncForm
  <2> DEFINE n == Len(FlushedOut)
  <2>4. FlushedAt \in 1..n /\ n \in Nat
    BY <1>1, <1>2, <2>1 DEF ManifestIn
  <2> HIDE DEF n
  <2>5. FlushedAt \in 0..n
    BY <2>4
  <2>6. QED
    BY <1>1, <1>2, <2>3, <2>5 DEF Inside, n
<1>4. CASE ~ MustFlush
  BY <1>1, <1>2, <1>4 DEF FlushedOut, FlushedAt, EncForm
<1>5. QED
  BY <1>3, <1>4

\* A flush and one record behind it, which may be a chunk that is noted.
LEMMA WriteForm ==
  ASSUME EncBase, EncPart, EncForm, encState = "reading", NEW e, FlushAndWrite(<<e>>), Advance,
         \/ chunkIdx' = chunkIdx /\ encChunkMetas' = encChunkMetas
         \/ /\ chunkIdx' = chunkIdx + 1
            /\ encChunkMetas' = Append(encChunkMetas, Len(FlushedOut) + 1)
  PROVE  EncForm'
<1> DEFINE f == FlushedOut
           at == FlushedAt
           g == f \o <<e>>
           ms == encChunkMetas
           n == Len(f) + 1
<1>1. IsSeq(f) /\ Len(f) \in Nat /\ Inside(f, ms, at) /\ IsSeq(ms) /\ Len(ms) = chunkIdx
  BY FlushForm DEF EncForm, EncPart
<1>2. out' = g /\ manifestAt' = at /\ flushed' \in BOOLEAN /\ encPos' = encPos + 1
  BY DEF FlushAndWrite, Advance, EncForm
<1>3. encPos \in Nat /\ chunkIdx \in 0..(encPos - 1)
  BY InputIs DEF EncBase, EncForm
<1> HIDE DEF f, at
<1>4. IsSeq(<<e>>) /\ Len(g) = n
  BY <1>1, Single, OneMore
<1> HIDE DEF g
<1>5. Inside(g, ms, at)
  BY <1>1, <1>4, InsideStays DEF g
<1>6. CASE chunkIdx' = chunkIdx /\ encChunkMetas' = encChunkMetas
  BY <1>1, <1>2, <1>3, <1>5, <1>6 DEF EncForm
<1>7. CASE chunkIdx' = chunkIdx + 1 /\ encChunkMetas' = Append(ms, n)
  <2>1. /\ encChunkMetas' = ms \o <<n>>
        /\ Len(encChunkMetas') = Len(ms) + 1
        /\ DOMAIN ms = 1..Len(ms) /\ DOMAIN encChunkMetas' = 1..(Len(ms) + 1)
        /\ \A i \in 1..Len(ms) : encChunkMetas'[i] = ms[i]
        /\ encChunkMetas'[Len(ms) + 1] = n
    <3> HIDE DEF n
    <3>1. encChunkMetas' = ms \o <<n>>
      BY <1>1, <1>7, AppendOne
    <3>2. IsSeq(ms)
      BY <1>1
    <3> HIDE DEF ms
    <3>3. QED
      BY <3>1, <3>2, OneMore
  <2>2. Len(ms) \in Nat /\ n \in 1..Len(g)
    BY <1>1, <1>4, AsFunction
  <2>3. \A i \in DOMAIN ms : ms[i] \in 1..Len(g)
    BY <1>5 DEF Inside
  <2>4. \A i \in DOMAIN encChunkMetas' : encChunkMetas'[i] \in 1..Len(g)
    <3>1. ASSUME NEW i \in 1..(Len(ms) + 1) PROVE encChunkMetas'[i] \in 1..Len(g)
      <4>1. i \in 1..Len(ms) \/ i = Len(ms) + 1
        BY <2>2
      <4>2. QED
        BY <2>1, <2>2, <2>3, <4>1
    <3>2. QED
      BY <2>1, <3>1
  <2>5. Inside(g, encChunkMetas', at)
    BY <1>5, <2>4 DEF Inside
  <2>6. chunkIdx' \in 0..(encPos' - 1) /\ Len(encChunkMetas') = chunkIdx'
    BY <1>1, <1>2, <1>3, <1>7, <2>1
  <2>7. QED
    BY <1>2, <2>5, <2>6 DEF EncForm
<1>8. QED
  BY <1>6, <1>7 DEF f

\* A step that only writes more.
LEMMA MoreForm ==
  ASSUME EncPart, EncForm, NEW t, IsSeq(t), out' = out \o t, UNCHANGED <<manifestAt, chunkIdx, encChunkMetas>>,
         flushed' \in BOOLEAN, encPos \in Nat, encPos' = encPos \/ encPos' = encPos + 1
  PROVE  EncForm'
<1>1. IsSeq(out)
  BY DEF EncPart, Covers, Part
<1>2. Inside(out', encChunkMetas', manifestAt')
  BY <1>1, InsideStays DEF EncForm
<1>3. chunkIdx' \in 0..(encPos' - 1)
  BY DEF EncForm
<1>4. QED
  BY <1>2, <1>3 DEF EncForm

\* Every step of an encryption.
LEMMA EncFormKeeps ==
  ASSUME EncBase, EncPart, EncForm, EncNext PROVE EncForm'
<1>1. encPos \in Nat /\ flushed \in BOOLEAN
  BY InputIs DEF EncBase, EncForm
<1>2. IsSeq(out) /\ IsSeq(pending) /\ IsSeq(recipients) /\ IsSeq(encChunkMetas)
  BY InputIs DEF EncPart, Covers, Part
<1>3. CASE Check \/ Collect \/ Skip \/ TakeFrameworkAttachment \/ TakeUnusable
  <2>1. /\ flushed' = flushed /\ manifestAt' = manifestAt /\ out' = out
        /\ UNCHANGED <<chunkIdx, encChunkMetas>>
        /\ encPos' = encPos \/ encPos' = encPos + 1
    BY <1>3 DEF Check, Collect, Skip, TakeFrameworkAttachment, TakeUnusable, encMarks, Advance
  <2>2. chunkIdx' \in 0..(encPos' - 1)
    BY <1>1, <2>1 DEF EncForm
  <2>3. QED
    BY <2>1, <2>2 DEF EncForm
<1>4. CASE OpenPass2
  <2>1. /\ encState = "collected" /\ UNCHANGED encMarks /\ UNCHANGED <<encPos, chunkIdx, encChunkMetas>>
        /\ out' = <<Magic>> \/ out' = <<>>
    BY <1>4 DEF OpenPass2
  <2>2. out = <<>>
    BY <2>1 DEF EncPart
  <2>3. IsSeq(out')
    <3>1. IsSeq(<<>>)
      BY DEF IsSeq, Elements
    <3>2. IsSeq(<<Magic>>)
      BY Single
    <3>3. QED
      BY <2>1, <3>1, <3>2
  <2>4. out' = out \o out'
    BY <2>2, <2>3, ConcatLen
  <2>5. QED
    BY <1>1, <2>1, <2>3, <2>4, MoreForm DEF encMarks
<1>5. CASE TakeHeader
  <2>1. /\ encPos' = encPos + 1 /\ UNCHANGED <<manifestAt, chunkIdx, encChunkMetas>>
        /\ flushed' \in BOOLEAN
    BY <1>1, <1>5 DEF TakeHeader, Advance
  <2> DEFINE a == <<Magic, Header>>
             o == Opening
             h == Header
  <2>2. IsSeq(o)
    BY <1>2, SilentOpening DEF Silent
  <2>3. IsSeq(a)
    BY Pair
  <2>4. out' = out \/ out' = Append(out, h) \/ out' = out \o a \o o
    BY <1>5 DEF TakeHeader
  <2> HIDE DEF a, o, h
  <2>5. IsSeq(<<>>) /\ out \o <<>> = out
    BY <1>2, ConcatLen DEF IsSeq, Elements
  <2>6. Append(out, h) = out \o <<h>> /\ IsSeq(<<h>>)
    BY <1>2, AppendOne, Single
  <2>7. (out \o a) \o o = out \o (a \o o) /\ IsSeq(a \o o)
    <3>1. IsSeq(out)
      BY <1>2
    <3>2. (out \o a) \o o = out \o (a \o o)
      BY ONLY <2>2, <2>3, <3>1, Grouped
    <3>3. QED
      BY <2>2, <2>3, <3>2, Concat
  <2>8. PICK t : IsSeq(t) /\ out' = out \o t
    BY <2>4, <2>5, <2>6, <2>7
  <2>9. QED
    BY <1>1, <2>1, <2>8, MoreForm
<1>6. CASE TakeAttachment
  <2> DEFINE e == EncAttachment(source[encPos].body, SymKey)
  <2>1. /\ encState = "reading" /\ FlushAndWrite(<<e>>) /\ Advance
        /\ chunkIdx' = chunkIdx /\ encChunkMetas' = encChunkMetas
    BY <1>6 DEF TakeAttachment, At
  <2> HIDE DEF e
  <2>2. QED
    BY <2>1, WriteForm
<1>7. CASE TakeMetadata
  <2> DEFINE e == IF metadataMode = "plaintext" THEN source[encPos]
                  ELSE EncMetadata(source[encPos].body, SymKey)
  <2>1. /\ encState = "reading" /\ FlushAndWrite(<<e>>) /\ Advance
        /\ chunkIdx' = chunkIdx /\ encChunkMetas' = encChunkMetas
    BY <1>7 DEF TakeMetadata, At
  <2> HIDE DEF e
  <2>2. QED
    BY <2>1, WriteForm
<1>8. CASE TakeChunk
  <2> DEFINE e == EncChunk(source[encPos].body, SymKey, chunkIdx)
  <2>1. /\ encState = "reading" /\ FlushAndWrite(<<e>>) /\ Advance
        /\ chunkIdx' = chunkIdx + 1
        /\ encChunkMetas' = Append(encChunkMetas, Len(FlushedOut) + 1)
    BY <1>8 DEF TakeChunk, At
  <2> HIDE DEF e
  <2>2. QED
    BY <2>1, WriteForm
<1>9. CASE TakeDataEnd
  <2>1. /\ encState = "reading" /\ encPos' = encPos + 1
        /\ UNCHANGED <<chunkIdx, encChunkMetas>>
    BY <1>9 DEF TakeDataEnd, At, Advance
  <2>2. CASE mode = "file"
    <3> DEFINE f == FlushedOut
               at == FlushedAt
               e == Manifest(SymKey, chunkIdx)
               g == [f EXCEPT ![at] = e]
               z == DataEnd
    <3>1. out' = Append(g, z) /\ flushed' = TRUE /\ manifestAt' = at
      BY <1>9, <2>2 DEF TakeDataEnd
    <3>2. IsSeq(f) /\ Len(f) \in Nat /\ Inside(f, encChunkMetas, at)
      BY <2>1, FlushForm
    <3>3. at \in DOMAIN f /\ f[at].op = "manifest"
      BY <2>1, <2>2, Flushing DEF ManifestIn
    <3>4. e.op = "manifest"
      BY DEF Manifest
    <3> HIDE DEF f, at, e, z
    <3>5. DOMAIN g = DOMAIN f
      OBVIOUS
    <3>6. DOMAIN f = 1..Len(f)
      BY <3>2, AsFunction
    <3>7. g \in [1..Len(f) -> Elements(g)]
      BY <3>5, <3>6 DEF Elements
    <3> HIDE DEF g
    <3>8. IsSeq(g)
      BY <3>2, <3>7, OfFunction
    <3>9. Inside(g, encChunkMetas, at)
      <4>1. Len(g) = Len(f)
        BY <3>2, <3>5, <3>6, <3>8, AsFunction
      <4>2. QED
        BY <3>2, <4>1 DEF Inside
    <3>10. out' = g \o <<z>> /\ IsSeq(<<z>>)
      BY <3>1, <3>8, AppendOne, Single
    <3>11. Inside(out', encChunkMetas, at)
      BY <3>8, <3>9, <3>10, InsideStays
    <3>12. chunkIdx' \in 0..(encPos' - 1)
      BY <1>1, <2>1 DEF EncForm
    <3>13. QED
      BY <2>1, <3>1, <3>11, <3>12 DEF EncForm
  <2>3. CASE mode # "file"
    <3> DEFINE t == <<DataEnd, Manifest(SymKey, chunkIdx)>>
    <3>1. out' = out \o t /\ flushed' = flushed /\ manifestAt' = manifestAt
      BY <1>9, <2>3 DEF TakeDataEnd, encMarks
    <3>2. IsSeq(t)
      BY Pair
    <3> HIDE DEF t
    <3>3. QED
      BY <1>1, <2>1, <3>1, <3>2, MoreForm
  <2>4. QED
    BY <2>2, <2>3
<1>10. CASE TakeFooter
  <2> DEFINE a == Summary(pending, encChunkMetas)
             b == <<Footer, Magic>>
  <2>1. IsSeq(a) /\ IsSeq(b)
    BY <1>2, SummaryIsQuiet, EndingIsQuiet, QuietIs
  <2>2. out' = out \o a \o b /\ UNCHANGED <<encPos, chunkIdx, encChunkMetas>> /\ UNCHANGED encMarks
    BY <1>10 DEF TakeFooter
  <2> HIDE DEF a, b
  <2>3. IsSeq(out) /\ out' = (out \o a) \o b
    BY <1>2, <2>2
  <2>4. (out \o a) \o b = out \o (a \o b)
    BY <2>1, <2>3, Grouped
  <2>5. IsSeq(a \o b)
    BY <2>1, Concat
  <2>6. QED
    BY <1>1, <2>2, <2>3, <2>4, <2>5, MoreForm DEF encMarks
<1>11. CASE EndOfInput
  <2> DEFINE g == Magic
  <2>1. out' = Append(out, g) /\ UNCHANGED <<encPos, chunkIdx, encChunkMetas>> /\ UNCHANGED encMarks
    BY <1>11 DEF EndOfInput
  <2> HIDE DEF g
  <2>2. out' = out \o <<g>> /\ IsSeq(<<g>>)
    BY <1>2, <2>1, AppendOne, Single
  <2>3. QED
    BY <1>1, <2>1, <2>2, MoreForm DEF encMarks
<1>12. QED
  BY <1>3, <1>4, <1>5, <1>6, <1>7, <1>8, <1>9, <1>10, <1>11 DEF EncNext

\* Every step of a rotation.
LEMMA RotFormKeeps ==
  ASSUME IsSeq(rotFile), Buffered, RotForm, RotNext, rotFile' = rotFile, stage' = stage
  PROVE  RotForm'
<1>1. Len(rotFile) \in Nat /\ rotPos \in 1..(Len(rotFile) + 1)
  BY AsFunction DEF RotForm
<1>2. IsSeq(dataBuf) /\ IsSeq(chunkMetas)
  BY DEF Buffered, Part, PointsInto
<1> DEFINE states == {"idle", "scanning", "scanned", "done", "failed"}
<1>3. rotState' \in states
  BY DEF RotNext, RotForm, RotStart, KeepHeader, KeepData, DropSlot, DropManifest, KeepChunk,
     KeepEncAttachment, KeepUnknown, ScanFails, ScanEnds, RotWrite, Move
<1>4. rotPos' = rotPos \/ (rotPos <= Len(rotFile) /\ rotPos' = rotPos + 1) \/ (Len(rotFile) > 0 /\ rotPos' = 2)
  BY DEF RotNext, RotStart, KeepHeader, KeepData, DropSlot, DropManifest, KeepChunk, Scans,
     KeepEncAttachment, KeepUnknown, ScanFails, ScanEnds, RotWrite, Move
<1>5. rotPos' \in 1..(Len(rotFile) + 1)
  BY <1>1, <1>4
<1> DEFINE e == Scanned
           p == Len(dataBuf) + 1
<1>6. \/ dataBuf' = dataBuf /\ chunkMetas' = chunkMetas
      \/ dataBuf' = Append(dataBuf, e) /\ chunkMetas' = chunkMetas
      \/ dataBuf' = Append(dataBuf, e) /\ chunkMetas' = Append(chunkMetas, p)
  BY DEF RotNext, RotStart, KeepHeader, KeepData, DropSlot, DropManifest, KeepChunk, rotMarks,
     KeepEncAttachment, KeepUnknown, ScanFails, ScanEnds, RotWrite
<1>7. Len(chunkMetas) <= Len(dataBuf)
  BY DEF RotForm
<1> HIDE DEF e, p
<1>8. /\ Append(dataBuf, e) = dataBuf \o <<e>> /\ Append(chunkMetas, p) = chunkMetas \o <<p>>
      /\ Len(dataBuf) \in Nat /\ Len(chunkMetas) \in Nat
      /\ Len(dataBuf \o <<e>>) = Len(dataBuf) + 1
      /\ Len(chunkMetas \o <<p>>) = Len(chunkMetas) + 1
  BY <1>2, AppendOne, OneMore
<1>9. Len(chunkMetas') <= Len(dataBuf')
  BY <1>6, <1>7, <1>8
<1>10. QED
  BY <1>3, <1>5, <1>9 DEF RotForm

\* Every step of a decryption.
LEMMA DecFormKeeps ==
  ASSUME IsSeq(encFile), DecForm, DecNext, encFile' = encFile, stage' = stage
  PROVE  DecForm'
<1>1. Len(encFile) \in Nat /\ decPos \in 1..(Len(encFile) + 1) /\ decChunkIdx \in 0..(decPos - 1)
  BY AsFunction DEF DecForm
<1>2. decState' \in {"idle", "reading", "checking", "done", "failed"}
  BY DEF DecForm, DecNext, LeadingMagic, Buffer, TrySlot, OpenAttachment, OpenEncChunk, OpenChunkOk,
     StepOver, CutShort, EndScan, Verify, Consume, Reject
<1> DEFINE w == Elements(defs)
<1>3. writer' = writer \/ writer' = <<w>>
  BY DEF DecNext, LeadingMagic, Buffer, TrySlot, OpenAttachment, OpenEncChunk, OpenChunkOk,
     StepOver, CutShort, EndScan, Verify, EnsuredWriter, decOutput
<1> HIDE DEF w
<1>4. Len(writer') \in {0, 1}
  BY <1>3, Single DEF DecForm
<1>5. CASE LeadingMagic
  <2>1. /\ decChunkIdx' = decChunkIdx /\ decState' \in {"reading", "failed"} /\ decState = "idle"
        /\ \/ Len(encFile) > 0 /\ decPos' = 2
           \/ decPos' = decPos /\ decState' = "failed"
    BY <1>5 DEF LeadingMagic, decOutput
  <2>2. decChunkIdx = 0 /\ decPos' \in 1..(Len(encFile) + 1) /\ decChunkIdx' \in 0..(decPos' - 1)
    BY <1>1, <2>1 DEF DecForm
  <2>3. decState' = "reading" => decChunkIdx' + 1 <= decPos' - 1
    BY <2>1, <2>2
  <2>4. QED
    BY <1>2, <1>4, <2>1, <2>2, <2>3 DEF DecForm
<1>6. CASE Verify \/ EndScan
  <2>1. decPos' = decPos /\ decChunkIdx' = decChunkIdx /\ decState' \notin {"idle", "reading"}
    BY <1>6 DEF Verify, EndScan, decOutput
  <2>2. QED
    BY <1>1, <1>2, <1>4, <2>1 DEF DecForm
<1>7. CASE Buffer \/ TrySlot \/ OpenAttachment \/ OpenEncChunk \/ StepOver \/ CutShort
  <2>1. /\ decState = "reading" /\ decPos <= Len(encFile)
        /\ \/ decPos' = decPos + 1 /\ decState' = decState
           \/ decPos' = decPos /\ decState' = "failed"
    BY <1>7 DEF Buffer, TrySlot, OpenAttachment, OpenEncChunk, OpenChunkOk, StepOver, CutShort, Reads,
       Consume, Reject
  <2>2. decChunkIdx' = decChunkIdx \/ decChunkIdx' = decChunkIdx + 1
    BY <1>7 DEF Buffer, TrySlot, OpenAttachment, OpenEncChunk, OpenChunkOk, StepOver, CutShort,
       decOutput
  <2>3. decChunkIdx + 1 <= decPos - 1
    BY <2>1 DEF DecForm
  <2>4. QED
    BY <1>1, <1>2, <1>4, <2>1, <2>2, <2>3 DEF DecForm
<1>8. QED
  BY <1>5, <1>6, <1>7 DEF DecNext

\* Every step keeps the state well formed.
LEMMA FormKeeps ==
  ASSUME PipeInv, Form, [Next]_vars PROVE Form'
<1>1. EncForm'
  <2>1. CASE Encrypt
    BY <2>1, EncFormKeeps DEF Encrypt, PipeInv, Form
  <2>2. ASSUME UNCHANGED <<encPos, flushed, manifestAt, chunkIdx, encChunkMetas, out>> PROVE EncForm'
    BY <2>2 DEF Form, EncForm, Inside
  <2>3. CASE InputChanges
    BY <2>2, <2>3 DEF InputChanges, encMarks
  <2>4. ASSUME UNCHANGED encVars PROVE EncForm'
    BY <2>2, <2>4 DEF encVars
  <2>5. QED
    BY <2>1, <2>3, <2>4 DEF Next, vars, Store, Interrupt, Damage, BeginRotate, Rotate, EndRotate,
       EncryptElsewhere, RotateElsewhere, BeginDecrypt, Decrypt
<1>2. stage = "encrypt" \/ (StoredPart /\ IsSeq(stored))
  BY DEF PipeInv, StoredPart, Part
<1>3. RotForm'
  <2>1. CASE Rotate
    <3>1. stage = "rotate" /\ stage' = stage /\ RotNext /\ Rotating /\ IsSeq(rotFile)
      BY <1>2, <2>1 DEF Rotate, PipeInv, RotPart, Rotating
    <3>2. rotFile' = rotFile
      BY <3>1 DEF RotNext, RotStart, KeepHeader, KeepData, DropSlot, DropManifest, KeepChunk,
         KeepEncAttachment, KeepUnknown, ScanFails, ScanEnds, RotWrite, rotInput
    <3>3. QED
      BY <3>1, <3>2, RotFormKeeps DEF Rotating, Form
  <2>2. CASE EndRotate
    <3>1. /\ rotFile' = <<>> /\ rotPos' = 1 /\ chunkMetas' = <<>> /\ dataBuf' = <<>>
          /\ rotState' = "idle"
      BY <2>2 DEF EndRotate
    <3>2. Len(<<>>) = 0
      OBVIOUS
    <3>3. QED
      BY <3>1, <3>2 DEF RotForm
  <2>3. ASSUME NEW h \in Holders, NEW new \in NewLists, BeginRotate(h, new) PROVE RotForm'
    <3>1. /\ rotFile' = stored /\ stage' = "rotate" /\ stage = "stored" /\ rotPos' = rotPos
          /\ chunkMetas' = chunkMetas /\ dataBuf' = dataBuf /\ rotState' = rotState
      BY <2>3 DEF BeginRotate, rotMarks
    <3>2. rotPos = 1
      BY <3>1 DEF PipeInv, RotPart, RotInit
    <3>3. Len(stored) \in Nat
      BY <1>2, <3>1, AsFunction
    <3>4. rotPos' \in 1..(Len(rotFile') + 1)
      BY <3>1, <3>2, <3>3
    <3>5. QED
      BY <3>1, <3>4 DEF Form, RotForm
  <2>4. ASSUME UNCHANGED rotVars, stage' # "rotate" => stage # "rotate" PROVE RotForm'
    BY <2>4 DEF Form, RotForm, rotVars
  <2>5. CASE UNCHANGED vars
    BY <2>4, <2>5 DEF vars
  <2>6. QED
    BY <2>1, <2>2, <2>3, <2>4, <2>5 DEF Next, Encrypt, InputChanges, Store, Interrupt, Damage,
       EncryptElsewhere, RotateElsewhere, BeginDecrypt, Decrypt, fileVars
<1>4. DecForm'
  <2>1. CASE Decrypt
    <3>1. stage = "decrypt" /\ stage' = stage /\ DecNext /\ IsSeq(encFile)
      BY <1>2, <2>1 DEF Decrypt, PipeInv, DecPart, Decrypting
    <3>2. encFile' = encFile
      BY <3>1 DEF DecNext, LeadingMagic, Buffer, TrySlot, OpenAttachment, OpenEncChunk, StepOver,
         CutShort, EndScan, Verify
    <3>3. QED
      BY <3>1, <3>2, DecFormKeeps DEF Form
  <2>2. ASSUME NEW h \in Holders, BeginDecrypt(h) PROVE DecForm'
    <3>1. /\ encFile' = stored /\ stage' = "decrypt" /\ stage = "stored" /\ decPos' = decPos
          /\ decChunkIdx' = decChunkIdx /\ writer' = writer /\ decState' = decState
      BY <2>2 DEF BeginDecrypt, decOutput
    <3>2. decPos = 1 /\ decChunkIdx = 0 /\ decState = "idle"
      BY <3>1 DEF PipeInv, DecPart, DecInit
    <3>3. Len(stored) \in Nat
      BY <1>2, <3>1, AsFunction
    <3>4. decPos' \in 1..(Len(encFile') + 1)
      BY <3>1, <3>2, <3>3
    <3>5. QED
      BY <3>1, <3>2, <3>4 DEF Form, DecForm
  <2>3. ASSUME UNCHANGED decVars, stage' # "decrypt" => stage # "decrypt" PROVE DecForm'
    BY <2>3 DEF Form, DecForm, decVars
  <2>4. CASE UNCHANGED vars
    BY <2>3, <2>4 DEF vars
  <2>5. QED
    BY <2>1, <2>2, <2>3, <2>4 DEF Next, Encrypt, InputChanges, Store, Interrupt, Damage,
       EncryptElsewhere, RotateElsewhere, BeginRotate, Rotate, EndRotate, fileVars
<1>5. readers' \subseteq Holders
  <2>1. ASSUME readers' = readers PROVE readers' \subseteq Holders
    BY <2>1 DEF Form
  <2>2. Elements(recipients) \subseteq Holders
    BY HoldersAssumption DEF PipeInv, EncBase
  <2>3. \A new \in NewLists : Elements(new) \subseteq Holders
    BY HoldersAssumption
  <2>4. CASE EndRotate
    BY <2>1, <2>3, <2>4 DEF EndRotate, PipeInv, RotPart, Rotating
  <2>5. ASSUME NEW tool \in Tools, NEW h \in Holders, NEW new \in NewLists,
               RotateElsewhere(tool, h, new)
        PROVE  readers' \subseteq Holders
    BY <2>3, <2>5 DEF RotateElsewhere
  <2>6. QED
    BY <2>1, <2>2, <2>4, <2>5 DEF Next, vars, fileVars, Encrypt, InputChanges, Store, Interrupt,
       Damage, BeginRotate, Rotate, EncryptElsewhere, BeginDecrypt, Decrypt
<1>6. QED
  BY <1>1, <1>3, <1>4, <1>5 DEF Form

\* The state of the three programs and of the file between them is always well
\* formed: both scans stay inside of the file they read, no index or offset
\* points outside of what has been written, and the writer is made at most
\* once (decrypt.go:228-259).
THEOREM PipelineTypeCorrect == Spec => []PipelineTypeOK
<1>1. Init => PipeInv /\ Form
  <2>1. SUFFICES ASSUME Init PROVE PipeInv /\ Form
    OBVIOUS
  <2>2. PipeInv
    BY <2>1, PipeStarts
  <2>3. Len(<<>>) = 0 /\ DOMAIN <<>> = {}
    OBVIOUS
  <2>4. EncForm
    <3>1. flushed \in BOOLEAN
      BY <2>1, Zenon DEF Init, EncInit
    <3>2. /\ manifestAt = 0 /\ chunkIdx = 0 /\ encPos = 1
          /\ encChunkMetas = <<>> /\ out = <<>>
      BY <2>1 DEF Init, EncInit
    <3>3. Inside(<<>>, <<>>, 0)
      BY <2>3 DEF Inside
    <3>4. QED
      BY <2>3, <3>1, <3>2, <3>3 DEF EncForm
  <2>5. RotForm
    <3>1. /\ rotFile = <<>> /\ chunkMetas = <<>> /\ dataBuf = <<>> /\ rotPos = 1
          /\ rotState = "idle"
      BY <2>1 DEF Init, RotInit
    <3>2. QED
      BY <2>3, <3>1 DEF RotForm
  <2>6. DecForm
    <3>1. /\ encFile = <<>> /\ writer = <<>> /\ decPos = 1 /\ decChunkIdx = 0
          /\ decState = "idle"
      BY <2>1 DEF Init, DecInit
    <3>2. QED
      BY <2>3, <3>1 DEF DecForm
  <2>7. readers \subseteq Holders
    BY <2>1 DEF Init
  <2>8. QED
    BY <2>2, <2>4, <2>5, <2>6, <2>7 DEF Form
<1>2. PipeInv /\ Form /\ [Next]_vars => (PipeInv /\ Form)'
  BY PipeKeeps, FormKeeps
<1>3. PipeInv /\ Form => PipelineTypeOK
  <2>1. SUFFICES ASSUME PipeInv, Form PROVE PipelineTypeOK
    OBVIOUS
  <2>2. DOMAIN encChunkMetas = 1..chunkIdx
    BY <2>1, AsFunction DEF PipeInv, EncPart, Form, EncForm
  <2>3. EncTypeOK
    BY <2>1, <2>2 DEF PipeInv, EncBase, EncPart, Form, EncForm, Inside, EncTypeOK
  <2>4. rotKey \in {NoKey, SymKey, OtherKey} /\ symKey \in {NoKey, SymKey, OtherKey}
    BY <2>1 DEF PipeInv, RotPart, RotInit, Rotating, DecPart, DecInit, Decrypting, Keys
  <2>5. Len(writer) <= 1
    <3>1. Len(writer) = 0 \/ Len(writer) = 1
      BY <2>1 DEF Form, DecForm
    <3> DEFINE n == Len(writer)
    <3>2. n = 0 \/ n = 1
      BY <3>1
    <3> HIDE DEF n
    <3>3. n <= 1
      BY <3>2
    <3>4. QED
      BY <3>3 DEF n
  <2>6. QED
    BY <2>1, <2>3, <2>4, <2>5 DEF PipeInv, Form, RotForm, DecForm, PipelineTypeOK
<1>4. QED
  BY <1>1, <1>2, <1>3, PTL DEF Spec

=============================================================================
