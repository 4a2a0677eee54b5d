---------------------------- MODULE AnyDeckProofs ----------------------------
(***************************************************************************)
(* The sender facing any program that answers in frames, for every value   *)
(* of the constants.                                                       *)
(*                                                                         *)
(* What the sender has written is counted as it is written: the bytes of a *)
(* file in a stream are a finite set, to which a chunk adds as many as it  *)
(* holds.  While the connection is whole, that count and the offset the    *)
(* Deck has asked for give the sender's position in the file.              *)
(***************************************************************************)
EXTENDS AnyDeck, EngineProofs, FiniteSetTheorems

-----------------------------------------------------------------------------
(* Streams and their bytes. *)

\* A frame that is written takes its place, and moves no other.
LEMMA PlacesAppend ==
    ASSUME NEW s \in Seq(Frame), NEW m, NEW kind, NEW i
    PROVE  /\ Len(s) \in Nat
           /\ Len(Append(s, m)) = Len(s) + 1
           /\ DOMAIN Append(s, m) = DOMAIN s \cup {Len(s) + 1}
           /\ \A k \in DOMAIN s : k \in 1 .. Len(s) /\ Append(s, m)[k] = s[k]
           /\ Append(s, m)[Len(s) + 1] = m
           /\ Places(Append(s, m), kind, i) =
                 Places(s, kind, i) \cup
                    (IF m.kind = kind /\ m.index = i THEN {Len(s) + 1} ELSE {})
<1>1. /\ Len(s) \in Nat /\ DOMAIN s = 1 .. Len(s)
      /\ Len(Append(s, m)) = Len(s) + 1
      /\ DOMAIN Append(s, m) = 1 .. Len(s) + 1
      /\ \A k \in 1 .. Len(s) : Append(s, m)[k] = s[k]
      /\ Append(s, m)[Len(s) + 1] = m
  BY LenProperties
<1> DEFINE t == Append(s, m)
<1>2. DOMAIN t = DOMAIN s \cup {Len(s) + 1}
  BY <1>1
<1> HIDE DEF t
<1>3. Places(t, kind, i) =
         Places(s, kind, i) \cup
            (IF m.kind = kind /\ m.index = i THEN {Len(s) + 1} ELSE {})
  <2>1. Places(t, kind, i) =
           {k \in DOMAIN s : t[k].kind = kind /\ t[k].index = i} \cup
           {k \in {Len(s) + 1} : t[k].kind = kind /\ t[k].index = i}
    BY <1>2 DEF Places
  <2>2. \A k \in DOMAIN s : t[k] = s[k]
    BY <1>1 DEF t
  <2>3. t[Len(s) + 1] = m
    BY <1>1 DEF t
  <2> QED BY <2>1, <2>2, <2>3 DEF Places
<1> QED BY <1>1, <1>2, <1>3 DEF t

\* It takes it among the frames of its kind about its file, and among no others.
LEMMA PlaceTaken ==
    ASSUME NEW s \in Seq(Frame), NEW m, NEW kind, NEW i
    PROVE  /\ m.kind = kind /\ m.index = i =>
                 Places(Append(s, m), kind, i) = Places(s, kind, i) \cup {Len(s) + 1}
           /\ ~(m.kind = kind /\ m.index = i) =>
                 Places(Append(s, m), kind, i) = Places(s, kind, i)
<1> DEFINE t == Append(s, m)
           here == m.kind = kind /\ m.index = i
           old == Places(s, kind, i)
           last == {Len(s) + 1}
<1>1. Places(t, kind, i) = old \cup (IF here THEN last ELSE {})
  BY PlacesAppend
<1> HIDE DEF t, here, old, last
<1>2. /\ here => Places(t, kind, i) = old \cup last
      /\ ~here => Places(t, kind, i) = old
  BY <1>1
<1> QED BY <1>2 DEF t, here, old, last

\* As many pairs as there are bytes, all with the same first part.
LEMMA PairsOf ==
    ASSUME NEW k, NEW bytes \in Content
    PROVE  /\ Len(bytes) \in Nat
           /\ IsFiniteSet({k} \X DOMAIN bytes)
           /\ Cardinality({k} \X DOMAIN bytes) = Len(bytes)
<1>1. DOMAIN bytes = 1 .. Len(bytes) /\ Len(bytes) \in Nat
  BY LenProperties DEF Content
<1>2. 1 \in Int /\ Len(bytes) \in Int
  BY <1>1
<1>3. IsFiniteSet(1 .. Len(bytes))
      /\ Cardinality(1 .. Len(bytes)) = IF 1 > Len(bytes) THEN 0 ELSE Len(bytes) - 1 + 1
  BY <1>2, FS_Interval
<1>4. IsFiniteSet(DOMAIN bytes) /\ Cardinality(DOMAIN bytes) = Len(bytes)
  BY <1>1, <1>3
<1>5. IsFiniteSet({k}) /\ Cardinality({k}) = 1
  BY FS_Singleton
<1>6. IsFiniteSet({k} \X DOMAIN bytes)
      /\ Cardinality({k} \X DOMAIN bytes) = Cardinality({k}) * Cardinality(DOMAIN bytes)
  <2> DEFINE S == {k}
             T == DOMAIN bytes
  <2>1. IsFiniteSet(S) /\ IsFiniteSet(T)
    BY <1>4, <1>5
  <2> HIDE DEF S, T
  <2>2. IsFiniteSet(S \X T) /\ Cardinality(S \X T) = Cardinality(S) * Cardinality(T)
    BY <2>1, FS_Product
  <2> QED BY <2>2 DEF S, T
<1> QED BY <1>1, <1>4, <1>5, <1>6

\* The chunks of a file hold bytes.
LEMMA ChunkBytes ==
    ASSUME NEW s \in Seq(Frame), NEW i, NEW k \in Places(s, "FileChunk", i)
    PROVE  s[k].bytes \in Content
<1>1. s[k] \in Frame /\ s[k].kind = "FileChunk"
  BY ElementOfSeq, LenProperties DEF Places
<1> QED BY <1>1, FrameFields

\* They are finitely many.
LEMMA BytesFinite ==
    ASSUME NEW s \in Seq(Frame), NEW i, NEW n
    PROVE  IsFiniteSet(Bytes(s, i, n)) /\ Carried(s, i, n) \in Nat
<1> DEFINE P == Places(s, "FileChunk", i) \cap 1 .. n
           f == [k \in P |-> {k} \X DOMAIN s[k].bytes]
           S == {f[k] : k \in P}
<1>1. IsFiniteSet(P)
  <2>1. DOMAIN s = 1 .. Len(s) /\ Len(s) \in Nat
    BY LenProperties
  <2>2. 1 \in Int /\ Len(s) \in Int
    BY <2>1
  <2>3. IsFiniteSet(1 .. Len(s))
    BY <2>2, FS_Interval
  <2>4. P \in SUBSET (1 .. Len(s))
    BY <2>1 DEF Places
  <2> QED BY <2>3, <2>4, FS_Subset
<1>2. f \in Surjection(P, S)
  BY DEF Surjection
<1>3. IsFiniteSet(S)
  BY <1>1, <1>2, FS_Surjection
<1>4. \A T \in S : IsFiniteSet(T)
  <2>1. \A k \in P : IsFiniteSet(f[k])
    BY ChunkBytes, PairsOf
  <2> QED BY <2>1
<1>5. IsFiniteSet(UNION S)
  BY <1>3, <1>4, FS_UNION
<1>6. Bytes(s, i, n) = UNION S
  BY DEF Bytes
<1> QED BY <1>5, <1>6, FS_CardinalityType DEF Carried

\* Nothing that is written later counts.
LEMMA CarriedBefore ==
    ASSUME NEW s \in Seq(Frame), NEW m, NEW i, NEW n \in 0 .. Len(s)
    PROVE  Carried(Append(s, m), i, n) = Carried(s, i, n)
<1> DEFINE t == Append(s, m)
<1>1. Places(t, "FileChunk", i) \cap 1 .. n = Places(s, "FileChunk", i) \cap 1 .. n
  BY PlacesAppend
<1>2. \A k \in Places(s, "FileChunk", i) : t[k] = s[k]
  BY PlacesAppend DEF Places
<1> HIDE DEF t
<1>3. Bytes(t, i, n) = Bytes(s, i, n)
  BY <1>1, <1>2 DEF Bytes
<1> QED BY <1>3 DEF Carried, t

\* A chunk adds its bytes.
LEMMA CarriedAppend ==
    ASSUME NEW s \in Seq(Frame), NEW m \in Frame, NEW i
    PROVE  Carried(Append(s, m), i, Len(s) + 1) =
              Carried(s, i, Len(s)) +
                 (IF m.kind = "FileChunk" /\ m.index = i THEN Len(m.bytes) ELSE 0)
<1> DEFINE t == Append(s, m)
           old == Places(s, "FileChunk", i)
           n == Len(s)
<1>1. /\ n \in Nat
      /\ \A k \in old : k \in 1 .. n /\ t[k] = s[k]
      /\ t[n + 1] = m
  BY PlacesAppend DEF Places
<1>2. Bytes(s, i, n) = UNION {{k} \X DOMAIN s[k].bytes : k \in old}
  <2>1. old \cap 1 .. n = old
    BY <1>1
  <2> QED BY <2>1 DEF Bytes
<1>3. CASE ~(m.kind = "FileChunk" /\ m.index = i)
  <2>1. Places(t, "FileChunk", i) = old
    BY <1>3, PlaceTaken
  <2>2. Places(t, "FileChunk", i) \cap 1 .. n + 1 = old
    BY <1>1, <2>1
  <2> HIDE DEF t, old
  <2>3. Bytes(t, i, n + 1) = Bytes(s, i, n)
    BY <1>1, <1>2, <2>2 DEF Bytes
  <2>4. Carried(t, i, n + 1) = Carried(s, i, n) /\ Carried(s, i, n) \in Nat
    BY <2>3, BytesFinite DEF Carried
  <2> QED BY <1>3, <2>4 DEF t
<1>4. CASE m.kind = "FileChunk" /\ m.index = i
  <2> DEFINE new == {n + 1} \X DOMAIN m.bytes
  <2>1. Places(t, "FileChunk", i) = old \cup {n + 1}
    BY <1>4, PlaceTaken
  <2>2. Places(t, "FileChunk", i) \cap 1 .. n + 1 = old \cup {n + 1}
    BY <1>1, <2>1
  <2>3. m.bytes \in Content
    BY <1>4, FrameFields
  <2>4. IsFiniteSet(new) /\ Cardinality(new) = Len(m.bytes) /\ Len(m.bytes) \in Nat
    BY <2>3, PairsOf
  <2> HIDE DEF t, old
  <2>5. Bytes(t, i, n + 1) = Bytes(s, i, n) \cup new
    <3>1. Bytes(t, i, n + 1) =
             UNION {{k} \X DOMAIN t[k].bytes : k \in old \cup {n + 1}}
      BY <2>2 DEF Bytes
    <3>2. UNION {{k} \X DOMAIN t[k].bytes : k \in old \cup {n + 1}} =
             (UNION {{k} \X DOMAIN t[k].bytes : k \in old}) \cup
             ({n + 1} \X DOMAIN t[n + 1].bytes)
      OBVIOUS
    <3>3. UNION {{k} \X DOMAIN t[k].bytes : k \in old} =
             UNION {{k} \X DOMAIN s[k].bytes : k \in old}
      BY <1>1
    <3> QED BY <1>1, <1>2, <3>1, <3>2, <3>3
  <2>6. Bytes(s, i, n) \cap new = {}
    <3>1. \A b \in Bytes(s, i, n) : b[1] \in old
      BY <1>2
    <3>2. \A b \in new : b[1] = n + 1
      OBVIOUS
    <3>3. n + 1 \notin old
      BY <1>1
    <3> QED BY <3>1, <3>2, <3>3
  <2>7. IsFiniteSet(Bytes(s, i, n)) /\ Carried(s, i, n) \in Nat
    BY BytesFinite
  <2>8. Cardinality(Bytes(s, i, n) \cup new) =
           Cardinality(Bytes(s, i, n)) + Cardinality(new)
              - Cardinality(Bytes(s, i, n) \cap new)
    <3> DEFINE B == Bytes(s, i, n)
    <3> HIDE DEF B, new
    <3>1. Cardinality(B \cup new) =
             Cardinality(B) + Cardinality(new) - Cardinality(B \cap new)
      BY <2>4, <2>7, FS_Union DEF B
    <3> QED BY <3>1 DEF B
  <2>9. Cardinality(Bytes(s, i, n) \cap new) = 0
    BY <2>6, FS_EmptySet
  <2>10. Carried(t, i, n + 1) = Carried(s, i, n) + Len(m.bytes)
    <3>1. /\ Carried(t, i, n + 1) = Cardinality(Bytes(s, i, n) \cup new)
          /\ Carried(s, i, n) = Cardinality(Bytes(s, i, n))
      BY <2>5 DEF Carried
    <3>2. Carried(t, i, n + 1) = Carried(s, i, n) + Len(m.bytes) - 0
      BY <2>4, <2>8, <2>9, <3>1
    <3> QED BY <2>4, <2>7, <3>2
  <2> QED BY <1>4, <2>10 DEF t
<1> QED BY <1>3, <1>4

\* No chunks, no bytes.
LEMMA NothingCarried ==
    ASSUME NEW s, NEW i, NEW n, Places(s, "FileChunk", i) = {}
    PROVE  Carried(s, i, n) = 0
<1>1. Bytes(s, i, n) = {}
  BY DEF Bytes
<1> QED BY <1>1, FS_EmptySet DEF Carried

-----------------------------------------------------------------------------
(* One file. *)

FileFrames == {"FileStart", "FileChunk", "FileEnd"}

\* A frame that is not about a file leaves it as it was.
LEMMA Elsewhere ==
    ASSUME NEW s \in Seq(Frame), NEW m \in Frame, NEW i,
           ~(m.kind \in FileFrames /\ m.index = i)
    PROVE  /\ \A kind \in FileFrames : Places(Append(s, m), kind, i) = Places(s, kind, i)
           /\ \A k \in DOMAIN s : Append(s, m)[k] = s[k]
           /\ Carried(Append(s, m), i, Len(Append(s, m))) = Carried(s, i, Len(s))
<1> DEFINE t == Append(s, m)
<1>1. \A kind \in FileFrames : ~(m.kind = kind /\ m.index = i)
  OBVIOUS
<1>2. ASSUME NEW kind \in FileFrames
      PROVE  Places(t, kind, i) = Places(s, kind, i)
  BY <1>1, PlaceTaken
<1>3. Carried(t, i, Len(t)) = Carried(s, i, Len(s))
  <2>1. ~(m.kind = "FileChunk" /\ m.index = i)
    BY <1>1 DEF FileFrames
  <2>2. Len(t) = Len(s) + 1 /\ Carried(s, i, Len(s)) \in Nat
    BY PlacesAppend, BytesFinite
  <2>3. Carried(t, i, Len(s) + 1) = Carried(s, i, Len(s)) + 0
    BY <2>1, CarriedAppend
  <2> HIDE DEF t
  <2> QED BY <2>2, <2>3
<1>4. \A k \in DOMAIN s : t[k] = s[k]
  BY PlacesAppend
<1> QED BY <1>2, <1>3, <1>4

\* Nor does it change how the stream fits the file.
LEMMA ElsewhereFits ==
    ASSUME NEW s \in Seq(Frame), NEW m \in Frame, NEW i, NEW file,
           ~(m.kind \in FileFrames /\ m.index = i),
           m.kind = "Complete" => Places(s, "FileEnd", i) # {},
           FileFits(s, i, file)
    PROVE  FileFits(Append(s, m), i, file)
<1> DEFINE t == Append(s, m)
           starts == Places(s, "FileStart", i)
           chunks == Places(s, "FileChunk", i)
           ends == Places(s, "FileEnd", i)
<1>1. /\ Places(t, "FileStart", i) = starts
      /\ Places(t, "FileChunk", i) = chunks
      /\ Places(t, "FileEnd", i) = ends
      /\ Carried(t, i, Len(t)) = Carried(s, i, Len(s))
  BY Elsewhere DEF FileFrames
<1>2. /\ DOMAIN t = DOMAIN s \cup {Len(s) + 1}
      /\ \A k \in DOMAIN s : t[k] = s[k]
      /\ t[Len(s) + 1] = m
      /\ \A k \in DOMAIN s : k \in 0 .. Len(s)
  BY PlacesAppend
<1>3. \A e \in ends : Carried(t, i, e) = Carried(s, i, e)
  BY <1>2, CarriedBefore DEF Places
<1>4. \A k \in starts \cup ends : t[k] = s[k]
  BY <1>2 DEF Places
<1>5. \A k \in DOMAIN t : t[k].kind = "Complete" => ends # {}
  BY <1>2 DEF FileFits
<1> HIDE DEF t
<1> QED BY <1>1, <1>3, <1>4, <1>5 DEF FileFits, t

\* What stream s holds of file i, after the start at place b, reaches pos.
Reaches(s, i, b, pos) ==
    /\ b \in Places(s, "FileStart", i)
    /\ s[b].offset \in Nat
    /\ s[b].offset + Carried(s, i, Len(s)) = pos

StartOf(m, i, offset) == m = FileStart(i, offset)

\* Its start.
LEMMA StartFits ==
    ASSUME NEW s \in Seq(Frame), NEW i \in Nat, NEW file, NEW o \in Nat,
           o <= file.size,
           Places(s, "FileStart", i) = {},
           Places(s, "FileChunk", i) = {},
           Places(s, "FileEnd", i) = {},
           FileFits(s, i, file), NEW m, StartOf(m, i, o)
    PROVE  /\ FileFits(Append(s, m), i, file)
           /\ Places(Append(s, m), "FileStart", i) = {Len(s) + 1}
           /\ Places(Append(s, m), "FileEnd", i) = {}
           /\ Reaches(Append(s, m), i, Len(s) + 1, o)
<1> DEFINE t == Append(s, m)
<1>1. /\ m.kind = "FileStart" /\ m.index = i /\ m.offset = o
  BY DEF StartOf, FileStart
<1>2. /\ DOMAIN t = DOMAIN s \cup {Len(s) + 1}
      /\ \A k \in DOMAIN s : t[k] = s[k]
      /\ t[Len(s) + 1] = m
  BY PlacesAppend
<1>3. /\ Places(t, "FileStart", i) = {Len(s) + 1}
      /\ Places(t, "FileChunk", i) = {}
      /\ Places(t, "FileEnd", i) = {}
  <2>1. Places(t, "FileStart", i) = Places(s, "FileStart", i) \cup {Len(s) + 1}
    BY <1>1, PlaceTaken
  <2>2. Places(t, "FileChunk", i) = Places(s, "FileChunk", i)
    BY <1>1, PlaceTaken
  <2>3. Places(t, "FileEnd", i) = Places(s, "FileEnd", i)
    BY <1>1, PlaceTaken
  <2> QED BY <2>1, <2>2, <2>3
<1> HIDE DEF t
<1>4. Carried(t, i, Len(t)) = 0
  BY <1>3, NothingCarried
<1>5. \A k \in DOMAIN t : t[k].kind # "Complete"
  BY <1>1, <1>2 DEF FileFits
<1>6. FileFits(t, i, file)
  BY <1>1, <1>2, <1>3, <1>4, <1>5 DEF FileFits
<1>7. Reaches(t, i, Len(s) + 1, o)
  BY <1>1, <1>2, <1>3, <1>4 DEF Reaches
<1> QED BY <1>3, <1>6, <1>7 DEF t

ChunkOf(m, i) == m.kind = "FileChunk" /\ m.index = i

\* A chunk takes its place, and adds its bytes.
LEMMA ChunkAppend ==
    ASSUME NEW s \in Seq(Frame), NEW m \in Frame, NEW i, ChunkOf(m, i)
    PROVE  /\ Places(Append(s, m), "FileStart", i) = Places(s, "FileStart", i)
           /\ Places(Append(s, m), "FileChunk", i) =
                 Places(s, "FileChunk", i) \cup {Len(s) + 1}
           /\ Places(Append(s, m), "FileEnd", i) = Places(s, "FileEnd", i)
           /\ Carried(Append(s, m), i, Len(Append(s, m))) =
                 Carried(s, i, Len(s)) + Len(m.bytes)
           /\ Carried(s, i, Len(s)) \in Nat
           /\ Len(m.bytes) \in Nat
           /\ m.kind # "Complete"
<1>1. m.kind = "FileChunk" /\ m.index = i
  BY DEF ChunkOf
<1>2. Places(Append(s, m), "FileStart", i) = Places(s, "FileStart", i)
  BY <1>1, PlaceTaken
<1>3. Places(Append(s, m), "FileChunk", i) = Places(s, "FileChunk", i) \cup {Len(s) + 1}
  BY <1>1, PlaceTaken
<1>4. Places(Append(s, m), "FileEnd", i) = Places(s, "FileEnd", i)
  BY <1>1, PlaceTaken
<1>5. Len(Append(s, m)) = Len(s) + 1
  BY PlacesAppend
<1>6. Carried(Append(s, m), i, Len(s) + 1) = Carried(s, i, Len(s)) + Len(m.bytes)
  BY <1>1, CarriedAppend
<1>7. Carried(s, i, Len(s)) \in Nat
  BY BytesFinite
<1>8. Len(m.bytes) \in Nat
  BY <1>1, FrameFields, PairsOf
<1> QED BY <1>1, <1>2, <1>3, <1>4, <1>5, <1>6, <1>7, <1>8

\* A chunk that stays within the file.
LEMMA ChunkFits ==
    ASSUME NEW s \in Seq(Frame), NEW m \in Frame, NEW i, NEW file, NEW pos \in Nat,
           NEW b, Reaches(s, i, b, pos),
           ChunkOf(m, i), pos + Len(m.bytes) <= file.size,
           Places(s, "FileEnd", i) = {},
           FileFits(s, i, file)
    PROVE  /\ FileFits(Append(s, m), i, file)
           /\ Places(Append(s, m), "FileEnd", i) = {}
           /\ b \in Places(Append(s, m), "FileStart", i)
           /\ Reaches(Append(s, m), i, b, pos + Len(m.bytes))
<1> DEFINE t == Append(s, m)
           starts == Places(s, "FileStart", i)
<1>0. /\ b \in starts
      /\ s[b].offset \in Nat
      /\ s[b].offset + Carried(s, i, Len(s)) = pos
  BY DEF Reaches
<1>1. /\ Len(s) \in Nat
      /\ DOMAIN t = DOMAIN s \cup {Len(s) + 1}
      /\ \A k \in DOMAIN s : k \in 1 .. Len(s) /\ t[k] = s[k]
      /\ t[Len(s) + 1] = m
  BY PlacesAppend
<1>2. /\ Places(t, "FileStart", i) = starts
      /\ Places(t, "FileChunk", i) = Places(s, "FileChunk", i) \cup {Len(s) + 1}
      /\ Places(t, "FileEnd", i) = {}
      /\ Carried(t, i, Len(t)) = Carried(s, i, Len(s)) + Len(m.bytes)
      /\ Carried(s, i, Len(s)) \in Nat
      /\ Len(m.bytes) \in Nat
      /\ m.kind # "Complete"
  BY ChunkAppend
<1> HIDE DEF t
<1>3. s[b].offset + Carried(t, i, Len(t)) = pos + Len(m.bytes)
  <2> DEFINE offset == s[b].offset
             before == Carried(s, i, Len(s))
             after == Carried(t, i, Len(t))
             length == Len(m.bytes)
  <2>1. /\ offset \in Nat /\ before \in Nat /\ length \in Nat
        /\ offset + before = pos /\ after = before + length
    BY <1>0, <1>2
  <2> HIDE DEF offset, before, after, length
  <2>2. offset + after = pos + length
    BY <2>1
  <2> QED BY <2>2 DEF offset, after, length
<1>4. \A k \in starts : k = b
  BY <1>0 DEF FileFits
<1>5. t[b] = s[b] /\ b < Len(s) + 1
  BY <1>0, <1>1 DEF Places
<1>6. \A k \in DOMAIN t : t[k].kind # "Complete"
  BY <1>1, <1>2 DEF FileFits
<1>7. \A k \in Places(t, "FileChunk", i) : \E j \in starts : j < k
  BY <1>0, <1>2, <1>5 DEF FileFits
<1>8. FileFits(t, i, file)
  BY <1>2, <1>3, <1>4, <1>5, <1>6, <1>7 DEF FileFits
<1>9. Reaches(t, i, b, pos + Len(m.bytes))
  BY <1>0, <1>2, <1>3, <1>5 DEF Reaches
<1> QED BY <1>0, <1>2, <1>8, <1>9 DEF t

\* Its end, when all of it was sent.
LEMMA EndFits ==
    ASSUME NEW s \in Seq(Frame), NEW i \in Nat, NEW file,
           file.hash \in Content,
           Places(s, "FileEnd", i) = {},
           NEW b, Reaches(s, i, b, file.size),
           FileFits(s, i, file)
    PROVE  /\ FileFits(Append(s, FileEnd(i, file.hash)), i, file)
           /\ Places(Append(s, FileEnd(i, file.hash)), "FileEnd", i) # {}
<1> DEFINE m == FileEnd(i, file.hash)
           t == Append(s, m)
           starts == Places(s, "FileStart", i)
<1>1. m \in Frame /\ m.kind = "FileEnd" /\ m.index = i /\ m.hash = file.hash
  BY FrameKinds DEF FileEnd
<1> HIDE DEF m
<1>2. /\ Len(s) \in Nat /\ Len(t) = Len(s) + 1
      /\ DOMAIN t = DOMAIN s \cup {Len(s) + 1}
      /\ \A k \in DOMAIN s : t[k] = s[k]
      /\ t[Len(s) + 1] = m
  BY PlacesAppend
<1>3. /\ Places(t, "FileStart", i) = starts
      /\ Places(t, "FileChunk", i) = Places(s, "FileChunk", i)
      /\ Places(t, "FileEnd", i) = {Len(s) + 1}
  <2>1. Places(t, "FileStart", i) = starts
    BY <1>1, PlaceTaken
  <2>2. Places(t, "FileChunk", i) = Places(s, "FileChunk", i)
    BY <1>1, PlaceTaken
  <2>3. Places(t, "FileEnd", i) = Places(s, "FileEnd", i) \cup {Len(s) + 1}
    BY <1>1, PlaceTaken
  <2> QED BY <2>1, <2>2, <2>3
<1>4. Carried(t, i, Len(s) + 1) = Carried(s, i, Len(s)) + 0
      /\ Carried(s, i, Len(s)) \in Nat
  BY <1>1, CarriedAppend, BytesFinite
<1>5. \A k \in starts : t[k] = s[k]
  BY <1>2 DEF Places
<1> HIDE DEF t
<1>6. b \in starts /\ t[b].offset + Carried(t, i, Len(s) + 1) = file.size
  BY <1>4, <1>5 DEF Reaches
<1>7. \A k \in starts :
         s[k].offset + Carried(t, i, Len(t)) = s[k].offset + Carried(s, i, Len(s))
  BY <1>2, <1>4
<1>8. FileFits(t, i, file)
  BY <1>1, <1>2, <1>3, <1>5, <1>6, <1>7 DEF FileFits
<1> QED BY <1>3, <1>8 DEF t, m

-----------------------------------------------------------------------------
(* A file in the stream of a sender that is at cursor x. *)

Ahead(x, i) ==
    \/ x.pc = "start" /\ x.index <= i
    \/ x.pc = "data" /\ x.index < i

Current(x, i) == x.pc = "data" /\ x.index = i

FileAt(s, i, file, x) ==
    /\ FileFits(s, i, file)
    /\ Ahead(x, i) => \A kind \in FileFrames : Places(s, kind, i) = {}
    /\ Current(x, i) =>
          /\ Places(s, "FileEnd", i) = {}
          /\ \E b \in Places(s, "FileStart", i) : Reaches(s, i, b, x.pos)
    /\ ~Ahead(x, i) /\ ~Current(x, i) => Places(s, "FileEnd", i) # {}

\* The sender writes a frame of another file, or the completion.
LEMMA FileStays ==
    ASSUME NEW s \in Seq(Frame), NEW m \in Frame, NEW i, NEW file, NEW x, NEW y,
           FileAt(s, i, file, x),
           ~(m.kind \in FileFrames /\ m.index = i),
           m.kind = "Complete" => ~Ahead(x, i),
           ~Current(x, i), ~Current(y, i), Ahead(x, i) <=> Ahead(y, i)
    PROVE  FileAt(Append(s, m), i, file, y)
<1> DEFINE t == Append(s, m)
<1>1. \A kind \in FileFrames : Places(t, kind, i) = Places(s, kind, i)
  BY Elsewhere
<1>2. m.kind = "Complete" => Places(s, "FileEnd", i) # {}
  BY DEF FileAt
<1>3. FileFits(t, i, file)
  BY <1>2, ElsewhereFits DEF FileAt
<1>4. "FileEnd" \in FileFrames
  BY DEF FileFrames
<1> HIDE DEF t
<1>5. FileAt(t, i, file, y)
  BY <1>1, <1>3, <1>4 DEF FileAt
<1> QED BY <1>5 DEF t

\* Every frame of the sender keeps every file at its place.
LEMMA FileMoves ==
    ASSUME NEW s \in Seq(Frame), NEW m \in Frame, NEW f \in Seq(FileOffer), NEW o,
           NEW x \in Cursor, NEW y, NEW i \in DOMAIN f,
           Moves(f, o, x, m, y),
           x.pc = "start" => /\ o[x.index] \in Nat
                             /\ o[x.index] <= f[x.index].size,
           FileAt(s, i, f[i], x)
    PROVE  FileAt(Append(s, m), i, f[i], y)
<1> DEFINE t == Append(s, m)
<1>1. /\ DOMAIN f = 1 .. Len(f) /\ Len(f) \in Nat /\ i \in Nat
      /\ f[i].size \in Nat /\ f[i].hash \in Content
      /\ x.index \in Nat /\ x.pos \in Nat
  <2>1. DOMAIN f = 1 .. Len(f) /\ Len(f) \in Nat
    BY LenProperties
  <2>2. f[i] \in FileOffer /\ i \in Nat
    BY <2>1, ElementOfSeq
  <2> QED BY <2>1, <2>2 DEF FileOffer, Cursor
<1>2. CASE /\ x.pc = "start"
           /\ x.index \in DOMAIN f
           /\ m = FileStart(x.index, o[x.index])
           /\ y = At("data", x.index, o[x.index])
  <2>1. /\ y.pc = "data" /\ y.index = x.index /\ y.pos = o[x.index]
        /\ m.kind = "FileStart" /\ m.index = x.index
    BY <1>2 DEF At, FileStart
  <2>2. CASE x.index = i
    <3>1. Ahead(x, i) /\ ~Ahead(y, i) /\ Current(y, i)
      BY <1>1, <1>2, <2>1, <2>2 DEF Ahead, Current
    <3>2. /\ Places(s, "FileStart", i) = {}
          /\ Places(s, "FileChunk", i) = {}
          /\ Places(s, "FileEnd", i) = {}
          /\ FileFits(s, i, f[i])
      BY <3>1 DEF FileAt, FileFrames
    <3>3. o[i] \in Nat /\ o[i] <= f[i].size /\ StartOf(m, i, o[i])
      BY <1>2, <2>2 DEF StartOf
    <3>4. /\ FileFits(t, i, f[i])
          /\ Places(t, "FileStart", i) = {Len(s) + 1}
          /\ Places(t, "FileEnd", i) = {}
          /\ Reaches(t, i, Len(s) + 1, o[i])
      BY <1>1, <3>2, <3>3, StartFits
    <3> HIDE DEF t
    <3>5. Len(s) + 1 \in Places(t, "FileStart", i) /\ y.pos = o[i]
      BY <2>1, <2>2, <3>4
    <3>6. FileAt(t, i, f[i], y)
      BY <3>1, <3>4, <3>5 DEF FileAt
    <3> QED BY <3>6 DEF t
  <2>3. CASE x.index # i
    <3>1. /\ ~Current(x, i) /\ ~Current(y, i)
          /\ Ahead(x, i) <=> Ahead(y, i)
      BY <1>1, <1>2, <2>1, <2>3 DEF Ahead, Current
    <3>2. ~(m.kind \in FileFrames /\ m.index = i) /\ m.kind # "Complete"
      BY <2>1, <2>3
    <3> QED BY <3>1, <3>2, FileStays
  <2> QED BY <2>2, <2>3
<1>3. CASE /\ x.pc = "data"
           /\ x.index \in DOMAIN f
           /\ m.kind = "FileChunk"
           /\ m.index = x.index
           /\ m.bytes # <<>>
           /\ x.pos + Len(m.bytes) <= f[x.index].size
           /\ y = At("data", x.index, x.pos + Len(m.bytes))
  <2>1. y.pc = "data" /\ y.index = x.index /\ y.pos = x.pos + Len(m.bytes)
    BY <1>3 DEF At
  <2>2. CASE x.index = i
    <3>1. Current(x, i) /\ ~Ahead(y, i) /\ Current(y, i)
      BY <1>1, <1>3, <2>1, <2>2 DEF Ahead, Current
    <3>2. PICK b : Reaches(s, i, b, x.pos)
      BY <3>1 DEF FileAt
    <3>3. Places(s, "FileEnd", i) = {} /\ FileFits(s, i, f[i])
      BY <3>1 DEF FileAt
    <3>4. ChunkOf(m, i) /\ x.pos + Len(m.bytes) <= f[i].size
      BY <1>3, <2>2 DEF ChunkOf
    <3>5. /\ FileFits(t, i, f[i])
          /\ Places(t, "FileEnd", i) = {}
          /\ b \in Places(t, "FileStart", i)
          /\ Reaches(t, i, b, x.pos + Len(m.bytes))
      BY <1>1, <3>2, <3>3, <3>4, ChunkFits
    <3> HIDE DEF t
    <3>6. FileAt(t, i, f[i], y)
      BY <2>1, <3>1, <3>5 DEF FileAt
    <3> QED BY <3>6 DEF t
  <2>3. CASE x.index # i
    <3>1. /\ ~Current(x, i) /\ ~Current(y, i)
          /\ Ahead(x, i) <=> Ahead(y, i)
      BY <1>1, <1>3, <2>1, <2>3 DEF Ahead, Current
    <3>2. ~(m.kind \in FileFrames /\ m.index = i) /\ m.kind # "Complete"
      BY <1>3, <2>3
    <3> QED BY <3>1, <3>2, FileStays
  <2> QED BY <2>2, <2>3
<1>4. CASE /\ x.pc = "data"
           /\ x.index \in DOMAIN f
           /\ x.pos = f[x.index].size
           /\ m = FileEnd(x.index, f[x.index].hash)
           /\ y = AfterFile(f, x.index)
  <2>1. /\ IF x.index < Len(f) THEN y.pc = "start" /\ y.index = x.index + 1
                               ELSE y.pc = "complete"
        /\ m.kind = "FileEnd" /\ m.index = x.index
    BY <1>4 DEF AfterFile, At, FileEnd
  <2>2. CASE x.index = i
    <3>1. Current(x, i) /\ ~Ahead(y, i) /\ ~Current(y, i)
      BY <1>1, <1>4, <2>1, <2>2 DEF Ahead, Current
    <3>2. PICK b : Reaches(s, i, b, x.pos)
      BY <3>1 DEF FileAt
    <3>3. Places(s, "FileEnd", i) = {} /\ FileFits(s, i, f[i])
      BY <3>1 DEF FileAt
    <3>4. x.pos = f[i].size /\ m = FileEnd(i, f[i].hash)
      BY <1>4, <2>2
    <3>5. FileFits(t, i, f[i]) /\ Places(t, "FileEnd", i) # {}
      BY <1>1, <3>2, <3>3, <3>4, EndFits
    <3> HIDE DEF t
    <3>6. FileAt(t, i, f[i], y)
      BY <3>1, <3>5 DEF FileAt
    <3> QED BY <3>6 DEF t
  <2>3. CASE x.index # i
    <3>1. /\ ~Current(x, i) /\ ~Current(y, i)
          /\ Ahead(x, i) <=> Ahead(y, i)
      BY <1>1, <1>4, <2>1, <2>3 DEF Ahead, Current
    <3>2. ~(m.kind \in FileFrames /\ m.index = i) /\ m.kind # "Complete"
      BY <2>1, <2>3
    <3> QED BY <3>1, <3>2, FileStays
  <2> QED BY <2>2, <2>3
<1>5. CASE /\ x.pc = "complete"
           /\ m = Complete(Len(f))
           /\ y = At("finished", 0, 0)
  <2>1. y.pc = "finished" /\ m.kind = "Complete"
    BY <1>5 DEF At, Complete
  <2>2. /\ ~Current(x, i) /\ ~Current(y, i)
        /\ ~Ahead(x, i) /\ ~Ahead(y, i)
    BY <1>5, <2>1 DEF Ahead, Current
  <2>3. m.kind \notin FileFrames
    BY <2>1 DEF FileFrames
  <2> QED BY <2>2, <2>3, FileStays
<1> QED BY <1>2, <1>3, <1>4, <1>5 DEF Moves

\* What is sent of a file goes on as the chunks that were sent of it.
LEMMA FileSent ==
    ASSUME NEW s \in Seq(Frame), NEW m \in Frame, NEW f, NEW o, NEW x, NEW y,
           NEW i, NEW hash, Moves(f, o, x, m, y),
           FileAt(s, i, f[i], x), ChunksOf(s, i, hash),
           ChunkOf(m, i) =>
              m.bytes = SubSeq(hash, x.pos + 1, x.pos + Len(m.bytes))
    PROVE  ChunksOf(Append(s, m), i, hash)
<1> DEFINE t == Append(s, m)
           starts == Places(s, "FileStart", i)
           chunks == Places(s, "FileChunk", i)
<1>1. /\ \A k \in DOMAIN s : k \in 1 .. Len(s) /\ t[k] = s[k]
      /\ t[Len(s) + 1] = m
      /\ Len(s) \in Nat
  BY PlacesAppend
<1>2. \A n \in 0 .. Len(s) : Carried(t, i, n) = Carried(s, i, n)
  BY CarriedBefore
<1>3. \A k \in starts \cup chunks : t[k] = s[k]
  BY <1>1 DEF Places
<1>4. \A k \in chunks : Carried(t, i, k - 1) = Carried(s, i, k - 1)
  <2>1. \A k \in chunks : k - 1 \in 0 .. Len(s)
    BY <1>1 DEF Places
  <2> HIDE DEF t, chunks
  <2> QED BY <1>2, <2>1
<1>5. CASE ChunkOf(m, i)
  <2>1. Places(t, "FileStart", i) = starts
        /\ Places(t, "FileChunk", i) = chunks \cup {Len(s) + 1}
    BY <1>5, ChunkAppend
  <2>2. Current(x, i)
    BY <1>5 DEF ChunkOf, Moves, Current, FileStart, FileEnd, Complete
  <2>3. PICK b : Reaches(s, i, b, x.pos)
    BY <2>2 DEF FileAt
  <2>4. b \in starts /\ s[b].offset + Carried(s, i, Len(s)) = x.pos
    BY <2>3 DEF Reaches
  <2>5. \A k \in starts : k = b
    BY <2>4 DEF FileAt, FileFits
  <2> HIDE DEF t
  <2>6. t[b] = s[b] /\ Carried(t, i, Len(s) + 1 - 1) = Carried(s, i, Len(s))
    <3>1. Len(s) + 1 - 1 = Len(s) /\ Len(s) \in 0 .. Len(s)
      BY <1>1
    <3> QED BY <1>2, <1>3, <2>4, <3>1
  <2>7. t[b].offset + Carried(t, i, Len(s) + 1 - 1) = x.pos
    BY <2>4, <2>6
  <2>8. t[Len(s) + 1].bytes = SubSeq(hash, x.pos + 1, x.pos + Len(t[Len(s) + 1].bytes))
    BY <1>1, <1>5
  <2>9. ASSUME NEW k \in chunks \cup {Len(s) + 1}
        PROVE  LET at == t[b].offset + Carried(t, i, k - 1)
               IN  t[k].bytes = SubSeq(hash, at + 1, at + Len(t[k].bytes))
    <3>1. CASE k \in chunks
      <4>1. /\ t[k] = s[k] /\ t[b] = s[b]
            /\ Carried(t, i, k - 1) = Carried(s, i, k - 1)
        BY <1>3, <1>4, <2>4, <3>1
      <4> QED BY <2>4, <3>1, <4>1 DEF ChunksOf
    <3>2. CASE k = Len(s) + 1
      BY <2>7, <2>8, <3>2
    <3> QED BY <3>1, <3>2
  <2>10. ChunksOf(t, i, hash)
    BY <2>1, <2>5, <2>9 DEF ChunksOf
  <2> QED BY <2>10 DEF t
<1>6. CASE ~ChunkOf(m, i)
  <2>1. Places(t, "FileChunk", i) = chunks
    BY <1>6, PlaceTaken DEF ChunkOf
  <2>2. CASE m.kind = "FileStart" /\ m.index = i
    <3>1. Ahead(x, i)
      BY <2>2, LenProperties DEF Moves, Ahead, FileStart, FileEnd, Complete
    <3>2. chunks = {}
      BY <3>1 DEF FileAt, FileFrames
    <3> HIDE DEF t
    <3>3. ChunksOf(t, i, hash)
      BY <2>1, <3>2 DEF ChunksOf
    <3> QED BY <3>3 DEF t
  <2>3. CASE ~(m.kind = "FileStart" /\ m.index = i)
    <3>1. Places(t, "FileStart", i) = starts
      BY <2>3, PlaceTaken
    <3> HIDE DEF t
    <3>2. ChunksOf(t, i, hash)
      BY <1>3, <1>4, <2>1, <3>1 DEF ChunksOf
    <3> QED BY <3>2 DEF t
  <2> QED BY <2>2, <2>3
<1> QED BY <1>5, <1>6

-----------------------------------------------------------------------------
(* The sender. *)

Inv == LinkTypeOK /\ SenderInv

\* What the PC writes on its connection arrives.
Whole == rOpen[sConn] /\ ~broken[sConn]

\* While it does, the stream is where the sender is.
Progress ==
    /\ sPc = "ack" => up[sConn] = <<Hello>>
    /\ sPc = "accept" => up[sConn] = <<Hello, OfferFrame(sConn, sOffer)>>
    /\ sPc \in {"open", "chunks", "complete", "confirm"} =>
          /\ Len(up[sConn]) > 1
          /\ up[sConn][2].files = sOffer
          /\ \A i \in DOMAIN sOffer : FileAt(up[sConn], i, sOffer[i], PcCursor)

Streams ==
    /\ \A c \in Conn : c > sConn => up[c] = <<>>
    /\ SenderConnected /\ Whole => Progress
    /\ StreamFitsOffer

\* What is offered is what the files hold, as far as they have been hashed.
OfferIsSource ==
    /\ sPc = "hash" =>
          /\ sSize = Len(source[Queue[sIndex]])
          /\ \A k \in DOMAIN sHash : /\ k \in DOMAIN source[Queue[sIndex]]
                                     /\ sHash[k] = source[Queue[sIndex]][k]
    /\ \A i \in DOMAIN sOffer :
          /\ sOffer[i].path = Queue[i]
          /\ sOffer[i].size = Len(source[Queue[i]])
          /\ sOffer[i].hash = source[Queue[i]]

Hashed == (faults = 0 => OfferIsSource) /\ SentIsHashed

-----------------------------------------------------------------------------
(* Steps that write nothing. *)

\* A fault counts, and no fault is undone.
LEMMA FaultsGrow ==
    ASSUME Inv
    PROVE  /\ faults \in Nat
           /\ Fault => faults' # 0
           /\ faults' = faults \/ Fault => (faults' = 0 => faults = 0)
  BY LinkAssumption DEF Inv, LinkTypeOK, Fault

\* A stream to which nothing is added stays as it is, while the sender stays
\* where it is or has left its connection.
LEMMA StreamsStay ==
    ASSUME Streams, UNCHANGED <<up, sConn>>,
           SenderConnected' /\ Whole' =>
              /\ SenderConnected /\ Whole
              /\ UNCHANGED <<sPc, sOffer, sIndex, sPos>>
    PROVE  Streams'
<1>1. StreamFitsOffer'
  BY DEF Streams, StreamFitsOffer
<1>2. ASSUME SenderConnected', Whole' PROVE Progress'
  <2>1. /\ Progress
        /\ UNCHANGED <<sPc, sOffer, sIndex, sPos, up, sConn>>
    BY <1>2 DEF Streams
  <2>2. PcCursor' = PcCursor
    BY <2>1 DEF PcCursor
  <2> QED BY <2>1, <2>2 DEF Progress
<1> QED BY <1>1, <1>2 DEF Streams

\* The sender leaves its connection.
LEMMA LeavesStream ==
    ASSUME Streams, UNCHANGED <<up, sConn>>,
           sPc' \in {"idle", "collect", "hash", "connect", "done"}
    PROVE  Streams'
  BY StreamsStay DEF SenderConnected

\* What was hashed stays so while nobody edits it and nothing is hashed.
LEMMA HashedStays ==
    ASSUME Hashed, UNCHANGED <<up, source>>, sPc' # "hash",
           sOffer' = sOffer \/ sOffer' = <<>>,
           faults' = 0 => faults = 0
    PROVE  Hashed'
<1>1. SentIsHashed'
  BY DEF Hashed, SentIsHashed
<1>2. ASSUME faults' = 0 PROVE OfferIsSource'
  BY <1>2 DEF Hashed, OfferIsSource
<1> QED BY <1>1, <1>2 DEF Hashed

\* After a fault nothing is claimed.
LEMMA HashedFaulty ==
    ASSUME faults' # 0
    PROVE  Hashed'
  BY DEF Hashed, SentIsHashed

\* Neither the sender nor its stream changes.
LEMMA NothingIsHashed ==
    ASSUME Hashed, UNCHANGED <<up, senderVars>>, faults' = faults
    PROVE  Hashed'
  BY DEF senderVars, Hashed, OfferIsSource, SentIsHashed

\* HashSource.
LEMMA HashSourceHashed ==
    ASSUME Inv, Hashed, HashSource
    PROVE  Hashed'
<1> DEFINE file == source[Queue[sIndex]]
           read == Len(sHash)
           entry == [path |-> Queue[sIndex], size |-> sSize, hash |-> sHash]
<1>1. SentIsHashed' /\ faults' = faults
  BY DEF HashSource, linkVars, Hashed, SentIsHashed
<1>2. SUFFICES ASSUME faults = 0 PROVE OfferIsSource'
  BY <1>1 DEF Hashed
<1>3. /\ sPc = "hash" /\ OfferIsSource /\ source' = source
      /\ sHash \in Content /\ file \in Content
      /\ sSize = Len(file)
      /\ \A k \in DOMAIN sHash : k \in DOMAIN file /\ sHash[k] = file[k]
  <2>1. sPc = "hash" /\ OfferIsSource /\ source' = source
    BY <1>2 DEF HashSource, Hashed
  <2>2. Queue[sIndex] \in Path
    BY <2>1, SenderAssumption, ElementOfSeq, LenProperties
       DEF Inv, SenderInv, SenderShape
  <2> QED BY <2>1, <2>2 DEF OfferIsSource, Inv, SenderInv, SenderTypeOK
<1>4. /\ read \in Nat /\ DOMAIN sHash = 1 .. read
      /\ Len(file) \in Nat /\ DOMAIN file = 1 .. Len(file)
  BY <1>3, LenProperties DEF Content
<1>5. CASE /\ read < Len(file)
           /\ sHash' = Append(sHash, file[read + 1])
           /\ UNCHANGED <<sPc, sOffer, sSize, sIndex>>
  <2>1. /\ DOMAIN sHash' = 1 .. read + 1
        /\ sHash'[read + 1] = file[read + 1]
        /\ \A k \in 1 .. read : sHash'[k] = sHash[k]
    BY <1>3, <1>5, LenProperties DEF Content
  <2>2. \A k \in DOMAIN sHash' : k \in DOMAIN file /\ sHash'[k] = file[k]
    BY <1>3, <1>4, <1>5, <2>1
  <2> QED BY <1>3, <1>5, <2>2 DEF OfferIsSource
<1>6. CASE /\ read >= Len(file)
           /\ sOffer' = [i \in DOMAIN sOffer \cup {sIndex} |->
                            IF i = sIndex THEN entry ELSE sOffer[i]]
           /\ sPc' = IF DOMAIN sOffer' = DOMAIN Queue THEN "connect"
                                                     ELSE "collect"
  <2>1. read = Len(file)
    <3>1. read >= Len(file)
      BY <1>6
    <3>2. read \in DOMAIN sHash => read \in DOMAIN file
      BY <1>3
    <3>3. read \in 1 .. read => read \in 1 .. Len(file)
      BY <1>4, <3>2
    <3>4. read \in Nat /\ Len(file) \in Nat
      BY <1>4
    <3> DEFINE length == Len(file)
    <3> HIDE DEF read, length
    <3>5. read = length
      BY <3>1, <3>3, <3>4 DEF length
    <3> QED BY <3>5 DEF length
  <2>2. sHash = file
    <3>1. \A k \in 1 .. Len(file) : sHash[k] = file[k]
      BY <1>3, <1>4, <2>1
    <3> QED BY <1>3, <2>1, <3>1, SeqEqual DEF Content
  <2>3. /\ entry.path = Queue[sIndex]
        /\ entry.size = Len(source[Queue[sIndex]])
        /\ entry.hash = source[Queue[sIndex]]
    BY <1>3, <2>2
  <2> HIDE DEF entry, file, read
  <2>4. \A i \in DOMAIN sOffer' :
           /\ sOffer'[i].path = Queue[i]
           /\ sOffer'[i].size = Len(source[Queue[i]])
           /\ sOffer'[i].hash = source[Queue[i]]
    BY <1>3, <1>6, <2>3 DEF OfferIsSource
  <2>5. sPc' # "hash"
    BY <1>6
  <2> QED BY <1>3, <2>4, <2>5 DEF OfferIsSource
<1> QED BY <1>5, <1>6 DEF HashSource

\* StatSource.
LEMMA StatSourceHashed ==
    ASSUME Hashed, NEW i \in DOMAIN Queue, StatSource(i)
    PROVE  Hashed'
<1>1. SentIsHashed' /\ faults' = faults
  BY DEF StatSource, linkVars, Hashed, SentIsHashed
<1>2. sHash' = <<>> /\ DOMAIN sHash' = {}
  BY EmptySeq DEF StatSource
<1>3. faults = 0 => OfferIsSource'
  BY <1>2 DEF StatSource, Hashed, OfferIsSource
<1> QED BY <1>1, <1>3 DEF Hashed

-----------------------------------------------------------------------------
(* Steps that write, and those that follow the handshake. *)

\* Connect.
LEMMA ConnectStreams ==
    ASSUME Inv, Streams, Hashed, Connect
    PROVE  Streams' /\ Hashed'
<1>1. /\ sConn' \in Conn /\ sConn' = sConn + 1 /\ sConn \in Nat
      /\ up' = [up EXCEPT ![sConn'] = <<Hello>>]
      /\ up \in [Conn -> Seq(Frame)]
      /\ sPc' = "ack" /\ faults' = faults
      /\ UNCHANGED <<source, sOffer, sSize, sHash, sIndex>>
  BY LinkAssumption
     DEF Connect, Establish, Conn, NoConn, Inv, LinkTypeOK, SenderInv, SenderTypeOK
<1>2. Len(<<Hello>>) = 1
  OBVIOUS
<1>3. \A c \in Conn : Len(up'[c]) > 1 => up'[c] = up[c]
  BY <1>1, <1>2
<1>4. StreamFitsOffer' /\ (faults = 0 => SentIsHashed')
  BY <1>1, <1>3 DEF Streams, Hashed, StreamFitsOffer, SentIsHashed
<1>5. \A c \in Conn : c > sConn' => up'[c] = <<>>
  BY <1>1 DEF Streams, Conn
<1>6. Progress'
  BY <1>1 DEF Progress
<1>7. faults = 0 => OfferIsSource'
  BY <1>1 DEF Hashed, OfferIsSource
<1>8. SentIsHashed'
  BY <1>1, <1>4 DEF SentIsHashed
<1> QED BY <1>1, <1>4, <1>5, <1>6, <1>7, <1>8 DEF Streams, Hashed

\* A stream of two frames holds nothing of any file.
LEMMA NothingSent ==
    ASSUME NEW f \in Seq(FileOffer), NEW id, NEW i
    PROVE  LET s == <<Hello, OfferFrame(id, f)>>
           IN  /\ \A kind \in FileFrames : Places(s, kind, i) = {}
               /\ \A k \in DOMAIN s : s[k].kind # "Complete"
               /\ Len(s) = 2
               /\ s[2].files = f
<1> DEFINE s == <<Hello, OfferFrame(id, f)>>
<1>1. /\ DOMAIN s = {1, 2} /\ Len(s) = 2
      /\ s[1] = Hello /\ s[2] = OfferFrame(id, f)
  OBVIOUS
<1> HIDE DEF s
<1>2. \A k \in DOMAIN s : s[k].kind \in {"Hello", "Offer"}
  BY <1>1 DEF Hello, OfferFrame
<1>3. \A kind \in FileFrames : Places(s, kind, i) = {}
  BY <1>2 DEF Places, FileFrames
<1>4. s[2].files = f
  BY <1>1 DEF OfferFrame
<1> QED BY <1>1, <1>2, <1>3, <1>4 DEF s

\* Whatever the file, that fits.
LEMMA NothingSentFits ==
    ASSUME NEW f \in Seq(FileOffer), NEW id, NEW i, NEW file
    PROVE  /\ FileFits(<<Hello, OfferFrame(id, f)>>, i, file)
           /\ ChunksOf(<<Hello, OfferFrame(id, f)>>, i, file)
<1> DEFINE s == <<Hello, OfferFrame(id, f)>>
<1>1. /\ Places(s, "FileStart", i) = {}
      /\ Places(s, "FileChunk", i) = {}
      /\ Places(s, "FileEnd", i) = {}
      /\ \A k \in DOMAIN s : s[k].kind # "Complete"
  BY NothingSent DEF FileFrames
<1> HIDE DEF s
<1>2. FileFits(s, i, file) /\ ChunksOf(s, i, file)
  BY <1>1 DEF FileFits, ChunksOf
<1> QED BY <1>2 DEF s

\* Hello, and a frame after it.
LEMMA AppendPair ==
    ASSUME NEW a, NEW b
    PROVE  Append(<<a>>, b) = <<a, b>>
<1> DEFINE S == {a, b}
           s == <<a>>
           t == <<a, b>>
<1>1. s \in Seq(S) /\ Len(s) = 1 /\ s[1] = a
  OBVIOUS
<1>2. t \in Seq(S) /\ Len(t) = 2 /\ t[1] = a /\ t[2] = b
  OBVIOUS
<1>3. b \in S
  OBVIOUS
<1> HIDE DEF S, s, t
<1>4. /\ Append(s, b) \in Seq(S)
      /\ Len(Append(s, b)) = 2
      /\ \A i \in 1 .. 1 : Append(s, b)[i] = s[i]
      /\ Append(s, b)[2] = b
  <2>1. /\ Append(s, b) \in Seq(S)
        /\ Len(Append(s, b)) = Len(s) + 1
        /\ \A i \in 1 .. Len(s) : Append(s, b)[i] = s[i]
        /\ Append(s, b)[Len(s) + 1] = b
    <3>1. s \in Seq(S) /\ b \in S
      BY <1>1, <1>3
    <3> QED BY ONLY <3>1, AppendProperties
  <2> QED BY <1>1, <2>1
<1>5. \A i \in 1 .. 2 : Append(s, b)[i] = t[i]
  <2>1. Append(s, b)[1] = a
    BY <1>1, <1>4
  <2>2. \A i \in 1 .. 2 : i = 1 \/ i = 2
    OBVIOUS
  <2> QED BY <1>2, <1>4, <2>1, <2>2
<1>6. Append(s, b) = t
  BY <1>2, <1>4, <1>5, SeqEqual
<1> QED BY <1>6 DEF s, t

\* The offer.
LEMMA OfferStreams ==
    ASSUME Inv, Streams, Hashed, RecvHelloAck
    PROVE  Streams' /\ Hashed'
<1>1. /\ sConn \in Conn /\ sConn' = sConn /\ sPc = "ack" /\ sPc' = "accept"
      /\ SenderConnected
      /\ up \in [Conn -> Seq(Frame)] /\ broken \in [Conn -> BOOLEAN]
      /\ PcWrites(sConn, OfferFrame(sConn, sOffer))
      /\ UNCHANGED <<rOpen, faults, source, sOffer, sSize, sHash, sIndex, sPos>>
      /\ sOffer \in Seq(FileOffer)
  BY WholeOffer
     DEF RecvHelloAck, SenderConnected, Inv, SenderInv, SenderShape, LinkTypeOK
<1> DEFINE s == <<Hello, OfferFrame(sConn, sOffer)>>
<1>2. ASSUME Whole PROVE up' = [up EXCEPT ![sConn] = s]
  <2>1. up[sConn] = <<Hello>>
    BY <1>1, <1>2 DEF Streams, Progress
  <2>2. up' = [up EXCEPT ![sConn] = Append(up[sConn], OfferFrame(sConn, sOffer))]
    BY <1>1, <1>2 DEF PcWrites, Whole
  <2> QED BY <2>1, <2>2, AppendPair
<1>3. (~Whole => up' = up) /\ (Whole' => Whole)
  BY <1>1 DEF PcWrites, Whole
<1>4. /\ Len(s) = 2 /\ s[2].files = sOffer
      /\ \A i, file : FileFits(s, i, file) /\ ChunksOf(s, i, file)
  BY <1>1, NothingSent, NothingSentFits
<1>5. Whole' /\ SenderConnected' => Progress'
  <2>1. ASSUME Whole' PROVE up'[sConn'] = <<Hello, OfferFrame(sConn', sOffer')>>
    BY <1>1, <1>2, <1>3, <2>1
  <2> QED BY <1>1, <2>1 DEF Progress
<1> HIDE DEF s
<1>6. \A c \in Conn : up'[c] = up[c] \/ (c = sConn /\ up'[c] = s)
  BY <1>1, <1>2, <1>3
<1>7. StreamFitsOffer'
  BY <1>4, <1>6 DEF Streams, StreamFitsOffer
<1>8. SentIsHashed'
  BY <1>1, <1>4, <1>6 DEF Hashed, SentIsHashed
<1>9. \A c \in Conn : c > sConn' => up'[c] = <<>>
  BY <1>1, <1>6 DEF Streams, Conn
<1>10. faults' = 0 => OfferIsSource'
  BY <1>1 DEF Hashed, OfferIsSource
<1> QED BY <1>5, <1>7, <1>8, <1>9, <1>10 DEF Streams, Hashed

\* RecvAccept.
LEMMA AcceptStreams ==
    ASSUME Inv, Streams, Hashed, RecvAccept
    PROVE  Streams' /\ Hashed'
<1>1. /\ sConn' = sConn /\ sPc = "accept" /\ sPc' = "open" /\ sIndex' = 1
      /\ SenderConnected
      /\ UNCHANGED <<up, rOpen, broken, faults, source, sOffer, sSize, sHash>>
      /\ sOffer \in Seq(FileOffer)
  BY WholeOffer DEF RecvAccept, SenderConnected, Inv, SenderInv, SenderShape
<1>2. StreamFitsOffer' /\ \A c \in Conn : c > sConn' => up'[c] = <<>>
  BY <1>1 DEF Streams, StreamFitsOffer
<1>3. ASSUME Whole' PROVE Progress'
  <2> DEFINE s == <<Hello, OfferFrame(sConn, sOffer)>>
  <2>1. up[sConn] = s
    BY <1>1, <1>3 DEF Streams, Progress, Whole
  <2>2. /\ Len(s) = 2 /\ s[2].files = sOffer
        /\ \A i : \A kind \in FileFrames : Places(s, kind, i) = {}
        /\ \A i, file : FileFits(s, i, file)
    BY <1>1, NothingSent, NothingSentFits
  <2> HIDE DEF s
  <2>3. PcCursor' = At("start", 1, 0)
    BY <1>1 DEF PcCursor
  <2>4. ASSUME NEW i \in DOMAIN sOffer
        PROVE  FileAt(s, i, sOffer[i], At("start", 1, 0))
    <3>1. i \in Nat /\ 1 <= i
      BY <1>1, LenProperties
    <3>2. Ahead(At("start", 1, 0), i) /\ ~Current(At("start", 1, 0), i)
      BY <3>1 DEF Ahead, Current, At
    <3> QED BY <2>2, <3>2 DEF FileAt
  <2> QED BY <1>1, <2>1, <2>2, <2>3, <2>4 DEF Progress
<1>4. Hashed'
  BY <1>1, HashedStays
<1> QED BY <1>2, <1>3, <1>4 DEF Streams

\* A frame of a file.
LEMMA WriteStreams ==
    ASSUME Inv, Streams, Hashed, OpenFile \/ SendChunk \/ SendFileEnd \/ SendComplete
    PROVE  Streams' /\ Hashed'
<1>1. /\ sPc \in {"open", "chunks", "complete"}
      /\ sPc' \in {"open", "chunks", "complete", "confirm"}
      /\ PcCursor' \in Cursor
  BY WritesMove DEF Inv
<1>2. PICK m \in Frame :
         /\ SenderWrites(m)
         /\ Moves(sOffer, sOffsets, PcCursor, m, PcCursor')
         /\ m.kind = "FileChunk" =>
               /\ m.index = sIndex /\ PcCursor = At("data", sIndex, sPos)
               /\ m.bytes = SubSeq(CurrentSource, sPos + 1, sPos + Len(m.bytes))
  BY WritesMove DEF Inv
<1>3. /\ sConn \in Conn /\ SenderConnected
      /\ PcWrites(sConn, m)
      /\ UNCHANGED <<rOpen, faults, sConn, source, sOffer, sSize, sHash>>
      /\ up \in [Conn -> Seq(Frame)] /\ broken \in [Conn -> BOOLEAN]
      /\ sOffer \in Seq(FileOffer)
  BY <1>1, <1>2, WholeOffer
     DEF SenderWrites, SenderConnected, Inv, SenderInv, SenderShape, LinkTypeOK
<1>4. PcCursor \in Cursor
  BY <1>1 DEF PcCursor, At, Cursor, Inv, SenderInv, SenderTypeOK
<1>5. PcCursor.pc = "start" =>
         /\ sOffsets[PcCursor.index] \in Nat
         /\ sOffsets[PcCursor.index] <= sOffer[PcCursor.index].size
  <2>1. SUFFICES ASSUME PcCursor.pc = "start" PROVE
           /\ sOffsets[PcCursor.index] \in Nat
           /\ sOffsets[PcCursor.index] <= sOffer[PcCursor.index].size
    OBVIOUS
  <2>2. sPc = "open" /\ PcCursor.index = sIndex
    BY <1>1, <2>1 DEF PcCursor, At
  <2>3. OpenFile
    BY <2>2 DEF SendChunk, SendFileEnd, SendComplete
  <2> QED BY <2>2, <2>3, CurrentEntry DEF OpenFile, Sendable, Inv
<1>6. (~Whole => up' = up) /\ (Whole' => Whole)
  BY <1>3 DEF PcWrites, Whole
<1>7. faults' = 0 => OfferIsSource'
  BY <1>1, <1>3 DEF Hashed, OfferIsSource
<1>8. CASE ~Whole
  <2>1. StreamFitsOffer' /\ SentIsHashed'
    BY <1>3, <1>6, <1>8 DEF Streams, Hashed, StreamFitsOffer, SentIsHashed
  <2> QED BY <1>3, <1>6, <1>7, <1>8, <2>1 DEF Streams, Hashed
<1>9. CASE Whole
  <2> DEFINE s == up[sConn]
             t == Append(s, m)
             x == PcCursor
             y == PcCursor'
  <2>1. up' = [up EXCEPT ![sConn] = t]
    BY <1>3, <1>9 DEF PcWrites, Whole
  <2>2. /\ s \in Seq(Frame) /\ Len(s) > 1 /\ s[2].files = sOffer
        /\ \A i \in DOMAIN sOffer : FileAt(s, i, sOffer[i], x)
    BY <1>1, <1>3, <1>9 DEF Streams, Progress
  <2>3. t[2] = s[2] /\ Len(t) > 1
    <3>1. /\ Len(s) \in Nat /\ Len(t) = Len(s) + 1
          /\ \A k \in 1 .. Len(s) : t[k] = s[k]
      BY <2>2, LenProperties
    <3> HIDE DEF t, s
    <3> QED BY <2>2, <3>1
  <2>4. ASSUME NEW i \in DOMAIN sOffer
        PROVE  FileAt(t, i, sOffer[i], y)
    <3> HIDE DEF s, x, y
    <3>1. FileAt(s, i, sOffer[i], x) /\ s \in Seq(Frame)
      BY <2>2
    <3>2. x \in Cursor /\ Moves(sOffer, sOffsets, x, m, y)
          /\ (x.pc = "start" => /\ sOffsets[x.index] \in Nat
                                /\ sOffsets[x.index] <= sOffer[x.index].size)
      BY <1>2, <1>4, <1>5 DEF x, y
    <3> QED BY <1>3, <3>1, <3>2, FileMoves
  <2>5. ASSUME faults = 0, NEW i \in DOMAIN sOffer
        PROVE  ChunksOf(t, i, sOffer[i].hash)
    <3>1. ChunksOf(s, i, sOffer[i].hash)
      BY <1>3, <2>2, <2>5 DEF Hashed, SentIsHashed
    <3>2. ASSUME ChunkOf(m, i)
          PROVE  m.bytes = SubSeq(sOffer[i].hash, x.pos + 1, x.pos + Len(m.bytes))
      <4>1. i = sIndex /\ x.pos = sPos
            /\ m.bytes = SubSeq(CurrentSource, sPos + 1, sPos + Len(m.bytes))
        BY <1>2, <3>2 DEF ChunkOf, At
      <4>2. sOffer[i].hash = CurrentSource
        BY <2>5, <4>1 DEF CurrentSource, Hashed, OfferIsSource
      <4> QED BY <4>1, <4>2
    <3>3. FileAt(s, i, sOffer[i], x) /\ Moves(sOffer, sOffsets, x, m, y)
      BY <1>2, <2>2
    <3> HIDE DEF x, y, s
    <3> QED BY <2>2, <3>1, <3>2, <3>3, FileSent
  <2> HIDE DEF t
  <2>6. \A c \in Conn : up'[c] = IF c = sConn THEN t ELSE up[c]
    BY <1>3, <2>1
  <2>7. StreamFitsOffer'
    <3>1. \A i \in DOMAIN t[2].files : FileFits(t, i, t[2].files[i])
      BY <2>2, <2>3, <2>4 DEF FileAt
    <3> QED BY <2>6, <3>1 DEF Streams, StreamFitsOffer
  <2>8. SentIsHashed'
    <3>1. faults = 0 =>
             \A i \in DOMAIN t[2].files : ChunksOf(t, i, t[2].files[i].hash)
      BY <2>2, <2>3, <2>5
    <3> QED BY <1>3, <2>6, <3>1 DEF Hashed, SentIsHashed
  <2>9. \A c \in Conn : c > sConn' => up'[c] = <<>>
    BY <1>3, <2>6 DEF Streams, Conn
  <2>10. Progress'
    <3>1. up'[sConn'] = t /\ sOffer' = sOffer
      BY <1>3, <2>6
    <3>2. Len(t) > 1 /\ t[2].files = sOffer
      BY <2>2, <2>3
    <3> QED BY <1>1, <2>4, <3>1, <3>2 DEF Progress
  <2> QED BY <1>7, <2>7, <2>8, <2>9, <2>10 DEF Streams, Hashed
<1> QED BY <1>8, <1>9

-----------------------------------------------------------------------------
(* All steps. *)

\* Leaving a connection, or the whole attempt, with an error.
LEMMA FailsStreams ==
    ASSUME Inv, Streams, Hashed, faults' = faults \/ Fault,
           SenderGivesUp \/ \E unread : SenderFails(unread)
    PROVE  Streams' /\ Hashed'
<1>1. /\ UNCHANGED <<up, sConn, source>>
      /\ sPc' = "idle" /\ sOffer' = <<>>
  BY DEF SenderGivesUp, SenderFails
<1> QED BY <1>1, FaultsGrow, LeavesStream, HashedStays

\* Every step of the sender and of its environment.
LEMMA SenderStreams ==
    ASSUME Inv, Streams, Hashed, SenderNext
    PROVE  Streams' /\ Hashed'
<1>1. CASE Send
  <2>1. /\ UNCHANGED <<up, sConn, source, sOffer, faults>>
        /\ sPc' = "collect"
    BY <1>1 DEF Send, linkVars
  <2> QED BY <2>1, LeavesStream, HashedStays
<1>2. ASSUME NEW i \in DOMAIN Queue, StatSource(i)
      PROVE  Streams' /\ Hashed'
  <2>1. UNCHANGED <<up, sConn>> /\ sPc' = "hash"
    BY <1>2 DEF StatSource, linkVars
  <2> QED BY <1>2, <2>1, LeavesStream, StatSourceHashed
<1>3. CASE HashSource
  <2>1. UNCHANGED <<up, sConn>> /\ sPc' \in {"hash", "connect", "collect"}
    BY <1>3 DEF HashSource, linkVars
  <2> QED BY <1>3, <2>1, LeavesStream, HashSourceHashed
<1>4. CASE Connect
  BY <1>4, ConnectStreams
<1>5. CASE RecvHelloAck
  BY <1>5, OfferStreams
<1>6. CASE RecvAccept
  BY <1>6, AcceptStreams
<1>7. CASE OpenFile \/ SendChunk \/ SendFileEnd \/ SendComplete
  BY <1>7, WriteStreams
<1>8. CASE RecvComplete
  <2>1. /\ UNCHANGED <<up, sConn, source, sOffer, faults>>
        /\ sPc' = "done"
    BY <1>8 DEF RecvComplete
  <2> QED BY <2>1, LeavesStream, HashedStays
<1>9. CASE ConnectRefused \/ SourceChanged \/ SenderReject \/ SenderLinkError
           \/ SenderTimeout \/ SourceUnreadable \/ Quit
  <2>1. /\ faults' = faults \/ Fault
        /\ SenderGivesUp \/ \E unread : SenderFails(unread)
    BY <1>9 DEF ConnectRefused, SourceChanged, SenderReject, SenderLinkError,
                SenderTimeout, SourceUnreadable, Quit
  <2> QED BY <2>1, FailsStreams
<1>10. ASSUME NEW p \in Path, EditSource(p)
       PROVE  Streams' /\ Hashed'
  <2>1. /\ UNCHANGED <<up, sConn, rOpen, broken, sPc, sOffer, sIndex, sPos>>
        /\ Fault
    BY <1>10 DEF EditSource
  <2>2. Streams'
    BY <2>1, StreamsStay DEF SenderConnected, Whole
  <2> QED BY <2>1, <2>2, FaultsGrow, HashedFaulty
<1> QED BY <1>1, <1>2, <1>3, <1>4, <1>5, <1>6, <1>7, <1>8, <1>9, <1>10
        DEF SenderNext, SenderStep

\* Whatever the program at the other end does, the link carries frames.
LEMMA DeckStepInv ==
    ASSUME Inv, (\E c \in Conn : DeckAnswers(c) \/ DeckLeaves(c)) \/ DeckListens
    PROVE  Inv'
<1>1. ASSUME NEW c \in Conn, DeckAnswers(c)
      PROVE  Inv'
  <2>1. PICK m \in DeckFrames(c) : DeckWrites(c, m)
    BY <1>1 DEF DeckAnswers
  <2>2. m \in Frame
    BY DeckAssumption
  <2>3. down' \in [Conn -> Seq(Frame)] /\ broken' \in [Conn -> BOOLEAN]
    <3>1. LinkTypeOK
      BY DEF Inv
    <3>2. Append(down[c], m) \in Seq(Frame)
      BY <2>2, <3>1, AppendProperties DEF LinkTypeOK
    <3> QED BY <2>1, <3>1, <3>2 DEF LinkTypeOK, DeckWrites
  <2>4. LinkTypeOK'
    BY <1>1, <2>3 DEF DeckAnswers, Inv, LinkTypeOK
  <2> QED BY <1>1, <2>4, SenderUnchanged DEF DeckAnswers, Inv
<1>2. ASSUME NEW c \in Conn, DeckLeaves(c)
      PROVE  Inv'
  <2>1. LinkTypeOK'
    BY <1>2 DEF DeckLeaves, Inv, LinkTypeOK
  <2> QED BY <1>2, <2>1, SenderUnchanged DEF DeckLeaves, Inv
<1>3. CASE DeckListens
  <2>1. LinkTypeOK'
    BY <1>3 DEF DeckListens, Inv, LinkTypeOK
  <2> QED BY <1>3, <2>1, SenderUnchanged DEF DeckListens, Inv
<1> QED BY <1>1, <1>2, <1>3

\* It neither writes on the PC's streams nor mends a connection.
LEMMA DeckStepStreams ==
    ASSUME Inv, Streams, Hashed,
           (\E c \in Conn : DeckAnswers(c) \/ DeckLeaves(c)) \/ DeckListens
    PROVE  Streams' /\ Hashed'
<1>1. UNCHANGED <<up, senderVars>> /\ faults' = faults
  BY DEF DeckAnswers, DeckLeaves, DeckListens
<1>2. ASSUME SenderConnected, Whole' PROVE Whole
  <2>1. sConn \in Conn /\ sConn' = sConn
    BY <1>1, <1>2 DEF senderVars, Inv, SenderInv, SenderShape
  <2>2. /\ rOpen \in [Conn -> BOOLEAN]
        /\ broken \in [Conn -> BOOLEAN]
    BY DEF Inv, LinkTypeOK
  <2>3. ASSUME NEW c \in Conn, DeckAnswers(c) PROVE Whole
    <3>1. PICK m : DeckWrites(c, m)
      BY <2>3 DEF DeckAnswers
    <3>2. rOpen' = rOpen /\ broken' = [broken EXCEPT ![c] = @ \/ ~sOpen[c]]
      BY <2>3, <3>1 DEF DeckAnswers, DeckWrites
    <3> QED BY <1>2, <2>1, <2>2, <3>2 DEF Whole
  <2>4. ASSUME NEW c \in Conn, DeckLeaves(c) PROVE Whole
    <3>1. /\ rOpen' = [rOpen EXCEPT ![c] = FALSE]
          /\ broken' = [broken EXCEPT ![c] = TRUE]
      BY <2>4 DEF DeckLeaves
    <3> QED BY <1>2, <2>1, <2>2, <3>1 DEF Whole
  <2>5. CASE DeckListens
    BY <1>2, <2>1, <2>5 DEF DeckListens, Whole
  <2> QED BY <2>3, <2>4, <2>5
<1>3. Streams'
  BY <1>1, <1>2, StreamsStay DEF senderVars, SenderConnected
<1> QED BY <1>1, <1>3, NothingIsHashed

-----------------------------------------------------------------------------
(* The theorems. *)

\* Everything that was used above holds in every reachable state: types, the
\* sender's place in the stream it writes, and what it has hashed.
THEOREM Invariance == Spec => [](Inv /\ Streams /\ Hashed)
<1>1. Init => Inv /\ Streams /\ Hashed
  <2> SUFFICES ASSUME Init PROVE Inv /\ Streams /\ Hashed
    OBVIOUS
  <2>1. LinkTypeOK
    BY LinkAssumption DEF Init, LinkInit, LinkTypeOK
  <2>2. Inv
    BY <2>1, SenderInit_Inv DEF Init, Inv
  <2>3. /\ \A c \in Conn : up[c] = <<>> /\ Len(up[c]) = 0
        /\ ~SenderConnected /\ sPc # "hash" /\ DOMAIN sOffer = {}
    BY EmptySeq DEF Init, LinkInit, SenderInit, SenderConnected
  <2>4. Streams
    BY <2>3 DEF Streams, StreamFitsOffer
  <2>5. Hashed
    BY <2>3 DEF Hashed, OfferIsSource, SentIsHashed
  <2> QED BY <2>2, <2>4, <2>5
<1>2. (Inv /\ Streams /\ Hashed) /\ [Next]_vars => (Inv /\ Streams /\ Hashed)'
  <2> SUFFICES ASSUME Inv, Streams, Hashed, [Next]_vars
               PROVE  Inv' /\ Streams' /\ Hashed'
    OBVIOUS
  <2>1. CASE SenderNext
    BY <2>1, SenderNext_Inv, SenderStreams DEF Inv
  <2>2. CASE (\E c \in Conn : DeckAnswers(c) \/ DeckLeaves(c)) \/ DeckListens
    BY <2>2, DeckStepInv, DeckStepStreams
  <2>3. CASE UNCHANGED vars
    <3>1. UNCHANGED <<linkVars, senderVars>>
      BY <2>3 DEF vars
    <3>2. LinkTypeOK'
      BY <3>1 DEF linkVars, Inv, LinkTypeOK
    <3>3. Inv'
      BY <3>1, <3>2, SenderUnchanged DEF Inv
    <3>4. UNCHANGED <<up, sConn, rOpen, broken, faults>>
      BY <3>1 DEF linkVars, senderVars
    <3>5. Streams'
      BY <3>1, <3>4, StreamsStay DEF senderVars, SenderConnected, Whole
    <3> QED BY <3>1, <3>3, <3>4, <3>5, NothingIsHashed
  <2> QED BY <2>1, <2>2, <2>3 DEF Next
<1> QED BY <1>1, <1>2, PTL DEF Spec

\* Type correctness of the link and the sender: no frame that the other end can
\* answer, with whatever offsets, takes send_paths outside its types, and what
\* it writes are frames.
THEOREM TypeCorrect == Spec => []TypeOK
<1>1. Inv => TypeOK
  BY DEF Inv, TypeOK, SenderInv
<1> QED BY <1>1, Invariance, PTL

\* Whatever offsets the Deck asks for, and whenever a connection breaks, the
\* stream of every connection fits its offer: the chunks of a file follow its
\* start and never go beyond its offered size, its end is sent when they reach
\* that size exactly, and the completion when that is so for every file.
THEOREM StreamFitsOfferTheorem == Spec => []StreamFitsOffer
<1>1. Streams => StreamFitsOffer
  BY DEF Streams
<1> QED BY <1>1, Invariance, PTL

\* As long as nobody edits the files, every chunk on every connection holds
\* exactly what was hashed, from the offset the Deck has asked for on: the
\* third reading of a file agrees with the second.
THEOREM SentIsHashedTheorem == Spec => []SentIsHashed
<1>1. Hashed => SentIsHashed
  BY DEF Hashed
<1> QED BY <1>1, Invariance, PTL
=============================================================================
