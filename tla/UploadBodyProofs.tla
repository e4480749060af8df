--------------------------- MODULE UploadBodyProofs ---------------------------
(***************************************************************************)
(* The size and the content of the temporary file, what is refused and the *)
(* fields that are handed on, for every limit, every length of a body and  *)
(* every way to cut it into chunks.                                        *)
(***************************************************************************)
EXTENDS UploadBody, FiniteSetTheorems, TLAPS

\* What a temporary file is made of here: bytes as they came, and the bytes of
\* a decoded quartet.
Bytes == Alphabet \cup (Seq(Characters) \X (1 .. 3))

TypeInv ==
  /\ limit \in Nat
  /\ archive \in BOOLEAN
  /\ encoding \in {"none", "base64", "plain"}
  /\ pending \in Seq(Characters)
  /\ decoded_size \in Nat
  /\ chunk \in Seq(Bytes)
  /\ output \in Seq(Bytes)

\* The decoder counts a byte when it is decoded and writes it at the end of the
\* chunk: decoded_size is ahead of the file by just what the chunk holds.
SizeInv ==
  /\ Len(output) <= limit
  /\ stage = "file" => encoding # "none"
  /\ encoding = "base64" => decoded_size = Len(output) + Len(chunk) /\ decoded_size <= limit
  /\ stage = "fields" /\ ~archive => output = <<>> /\ chunk = <<>> /\ decoded_size = 0

Inv == TypeInv /\ SizeInv

\* A quartet decodes to at most three bytes.
LEMMA DecodeLength ==
  ASSUME NEW q \in Seq(Characters)
  PROVE  /\ DecodedLen(q) \in 0 .. 3
         /\ Decode(q) \in Seq(Bytes)
         /\ Len(Decode(q)) = DecodedLen(q)
<1>1. DecodedLen(q) \in 0 .. 3
  BY DEF DecodedLen
<1>2. \A i \in 1 .. DecodedLen(q) : <<q, i>> \in Bytes
  BY <1>1 DEF Bytes
<1> QED BY <1>1, <1>2 DEF Decode

\* Every reachable state satisfies Inv.
LEMMA SizesHold == Spec => []Inv
<1>1. Init => Inv
  <2> SUFFICES ASSUME Init PROVE Inv
    OBVIOUS
  <2>1. limit \in Nat /\ Len(<<>>) <= limit
    BY UploadBodyAssumption DEF Init
  <2>2. TypeInv
    <3>1. <<>> \in Seq(Bytes) /\ <<>> \in Seq(Characters)
      OBVIOUS
    <3> QED BY <2>1, <3>1 DEF Init, TypeInv
  <2>3. SizeInv
    BY <2>1 DEF Init, SizeInv
  <2> QED BY <2>2, <2>3 DEF Inv
<1>2. Inv /\ [Next]_vars => Inv'
  <2> SUFFICES ASSUME Inv, [Next]_vars PROVE Inv'
    OBVIOUS
  <2> USE DEF Inv, TypeInv
  <2>1. ASSUME NEW c \in Characters, Base64Character(c) PROVE Inv'
    <3> DEFINE q == Append(pending, c)
    <3>1. q \in Seq(Characters)
      OBVIOUS
    <3>2. CASE c = "space" \/ Refusal(q) # "none"
      BY <2>1, <3>2 DEF Base64Character, Fail, SizeInv, reader, Refusal, Push
    <3>3. CASE c # "space" /\ Refusal(q) = "none"
      <4>1. Push(q) /\ stage = "file" /\ encoding = "base64"
        BY <2>1, <3>3 DEF Base64Character
      <4>2. CASE Len(q) # 4
        BY <4>1, <4>2, <3>1 DEF Push, SizeInv
      <4>3. CASE Len(q) = 4
        <5>0. /\ DecodedLen(q) \in 0 .. 3
              /\ Decode(q) \in Seq(Bytes)
              /\ Len(Decode(q)) = DecodedLen(q)
          BY <3>1, DecodeLength
        <5> HIDE DEF q
        <5>1. decoded_size + DecodedLen(q) <= limit
          <6>1. ~(decoded_size + DecodedLen(q) > limit)
            BY <3>3, <4>3, Zenon DEF Refusal
          <6> QED BY <6>1, <5>0
        <5>2. /\ decoded_size' = decoded_size + DecodedLen(q)
              /\ chunk' = chunk \o Decode(q)
              /\ pending' = <<>>
              /\ UNCHANGED <<limit, stage, archive, encoding, output>>
          BY <4>1, <4>3 DEF Push
        <5>3. /\ DecodedLen(q) \in Nat
              /\ chunk' \in Seq(Bytes)
              /\ Len(chunk') = Len(chunk) + DecodedLen(q)
          BY <5>0, <5>2
        <5> QED BY <4>1, <5>1, <5>2, <5>3 DEF SizeInv
      <4> QED BY <4>2, <4>3
    <3> QED BY <3>2, <3>3
  <2>2. ASSUME NEW c \in Alphabet, PlainByte(c) PROVE Inv'
    <3>1. c \in Bytes
      BY DEF Bytes
    <3>2. Append(chunk, c) \in Seq(Bytes)
      BY <3>1
    <3> QED BY <2>2, <3>2 DEF PlainByte, SizeInv, reader
  <2>3. CASE EndChunk
    <3>1. CASE output' = output
      BY <2>3, <3>1 DEF EndChunk, Fail, SizeInv, reader
    <3>2. CASE output' = output \o chunk /\ chunk' = <<>> /\ UNCHANGED <<limit, stage, archive>>
      <4>1. /\ output' \in Seq(Bytes)
            /\ Len(output') = Len(output) + Len(chunk)
            /\ Len(chunk') = 0 /\ chunk' \in Seq(Bytes)
        BY <3>2
      <4>2. Len(output') <= limit
        BY <2>3, <4>1, <3>2 DEF EndChunk, SizeInv
      <4> QED BY <2>3, <3>2, <4>1, <4>2 DEF EndChunk, SizeInv, reader
    <3> QED BY <2>3, <3>1, <3>2 DEF EndChunk, Fail
  <2>4. CASE ReadFails
    BY <2>4 DEF ReadFails, Fail, SizeInv, reader
  <2>5. CASE EndFile
    BY <2>5 DEF EndFile, SizeInv, reader
  <2>6. ASSUME NEW e \in {"base64", "plain"}, FileField(e) PROVE Inv'
    BY <2>6 DEF FileField, Field, SizeInv
  <2>7. ASSUME NEW value \in Checksums, ChecksumField(value) PROVE Inv'
    BY <2>7 DEF ChecksumField, Field, SizeInv
  <2>8. ASSUME NEW name \in FieldNames, OtherField(name) PROVE Inv'
    BY <2>8 DEF OtherField, Field, SizeInv
  <2>9. CASE EndBody
    BY <2>9 DEF EndBody, SizeInv, reader
  <2>10. CASE UNCHANGED vars
    BY <2>10 DEF vars, SizeInv, reader
  <2> QED BY <2>1, <2>2, <2>3, <2>4, <2>5, <2>6, <2>7, <2>8, <2>9, <2>10 DEF Next
<1> QED BY <1>1, <1>2, PTL DEF Spec

\* Whatever is sent and however it is cut, the temporary file and what waits to
\* be written to it stay within max_upload_bytes.
THEOREM FilesAreBounded == Spec => []FileBounded
<1>1. Inv => FileBounded
  BY DEF Inv, TypeInv, SizeInv, FileBounded
<1> QED BY <1>1, SizesHold, PTL
-----------------------------------------------------------------------------
(* The fields of a body                                                    *)

\* Exactly one field read so far is the file; none is.
OneFile == \E i \in DOMAIN fields : \A j \in DOMAIN fields : fields[j] = "file" <=> i = j
NoFile == \A j \in DOMAIN fields : fields[j] # "file"

\* A second file field ends the reading, so while it goes on there is one file
\* field if a file was begun or read, and none otherwise.
FieldInv ==
  /\ fields \in Seq(FieldNames)
  /\ stage = "file" => ~archive
  /\ stage = "read" => archive /\ checksum = "digest"
  /\ stage \in {"fields", "file", "read"} =>
       IF archive \/ stage = "file" THEN OneFile ELSE NoFile

\* What one more field does to the number of file fields.
LEMMA OneMoreField ==
  ASSUME fields \in Seq(FieldNames), NEW name \in FieldNames, fields' = Append(fields, name)
  PROVE  /\ fields' \in Seq(FieldNames)
         /\ NoFile /\ name = "file" => OneFile'
         /\ NoFile /\ name # "file" => NoFile'
         /\ OneFile /\ name # "file" => OneFile'
<1>1. /\ fields' \in Seq(FieldNames)
      /\ DOMAIN fields' = 1 .. Len(fields) + 1 /\ DOMAIN fields = 1 .. Len(fields)
      /\ Len(fields) \in Nat
      /\ fields'[Len(fields) + 1] = name
      /\ \A j \in 1 .. Len(fields) : fields'[j] = fields[j]
  OBVIOUS
<1>2. ASSUME NoFile, name = "file" PROVE OneFile'
  <2>1. \A j \in DOMAIN fields' : fields'[j] = "file" <=> Len(fields) + 1 = j
    BY <1>1, <1>2 DEF NoFile
  <2> QED BY <2>1, <1>1 DEF OneFile
<1>3. ASSUME OneFile, name # "file" PROVE OneFile'
  <2>1. PICK i \in DOMAIN fields : \A j \in DOMAIN fields : fields[j] = "file" <=> i = j
    BY <1>3 DEF OneFile
  <2>2. \A j \in DOMAIN fields' : fields'[j] = "file" <=> i = j
    BY <1>1, <1>3, <2>1
  <2> QED BY <2>1, <2>2, <1>1 DEF OneFile
<1>4. ASSUME NoFile, name # "file" PROVE NoFile'
  BY <1>1, <1>4 DEF NoFile
<1> QED BY <1>1, <1>2, <1>3, <1>4

\* Every reachable state satisfies FieldInv.
LEMMA FieldsHold == Spec => []FieldInv
<1>1. Init => FieldInv
  <2> SUFFICES ASSUME Init PROVE FieldInv
    OBVIOUS
  <2>1. fields = <<>> /\ stage = "fields" /\ archive = FALSE
    BY DEF Init
  <2> QED BY <2>1 DEF FieldInv, NoFile
<1>2. FieldInv /\ [Next]_vars => FieldInv'
  <2> SUFFICES ASSUME FieldInv, [Next]_vars PROVE FieldInv'
    OBVIOUS
  <2> USE DEF FieldInv
  <2>1. ASSUME NEW c \in Characters, Base64Character(c) PROVE FieldInv'
    <3>1. /\ UNCHANGED <<fields, archive, checksum>>
          /\ stage' \in {stage, "400", "413"}
      BY <2>1 DEF Base64Character, Push, Fail, Refusal
    <3> QED BY <3>1 DEF OneFile, NoFile
  <2>2. ASSUME NEW c \in Alphabet, PlainByte(c) PROVE FieldInv'
    BY <2>2 DEF PlainByte, OneFile, NoFile
  <2>3. CASE EndChunk \/ ReadFails \/ EndFile \/ EndBody
    BY <2>3 DEF EndChunk, ReadFails, EndFile, EndBody, Fail, OneFile, NoFile
  <2>4. ASSUME NEW e \in {"base64", "plain"}, FileField(e) PROVE FieldInv'
    BY <2>4, OneMoreField DEF FileField, Field, FieldNames
  <2>5. ASSUME NEW value \in Checksums, ChecksumField(value) PROVE FieldInv'
    BY <2>5, OneMoreField DEF ChecksumField, Field, FieldNames
  <2>6. ASSUME NEW name \in FieldNames, OtherField(name) PROVE FieldInv'
    BY <2>6, OneMoreField DEF OtherField, Field
  <2>7. CASE UNCHANGED vars
    BY <2>7 DEF vars, OneFile, NoFile
  <2> QED BY <2>1, <2>2, <2>3, <2>4, <2>5, <2>6, <2>7 DEF Next
<1> QED BY <1>1, <1>2, PTL DEF Spec

\* A body that is handed on to the inspection has one file and a well-formed
\* checksum, in whatever order and however often its fields came.
THEOREM BodiesHaveOneFile == Spec => []OneFileOneChecksum
<1>1. FieldInv => OneFileOneChecksum
  BY DEF FieldInv, OneFile, OneFileOneChecksum
<1> QED BY <1>1, FieldsHold, PTL

-----------------------------------------------------------------------------
(* What Dense does, one character at a time.  It is stated of the whole    *)
(* field, so this takes no induction: each character keeps its rank.       *)

Places(s) == {i \in DOMAIN s : s[i] # "space"}
UpTo(s, p) == {i \in Places(s) : i <= p}
Rank(s, p) == Cardinality(UpTo(s, p))
Count(s) == Cardinality(Places(s))

\* Every rank is taken.
WellPlaced(s) == \A k \in 1 .. Count(s) : \E p \in Places(s) : Rank(s, p) = k

\* Sequences that agree everywhere are equal.
LEMMA SameSequence ==
  ASSUME NEW S, NEW a \in Seq(S), NEW b \in Seq(S), Len(a) = Len(b),
         \A i \in 1 .. Len(a) : a[i] = b[i]
  PROVE  a = b
OBVIOUS

\* The places of a text are finite in number, and so are its ranks.
LEMMA PlacesFinite ==
  ASSUME NEW s \in Seq(Characters)
  PROVE  /\ Places(s) \subseteq 1 .. Len(s)
         /\ IsFiniteSet(Places(s)) /\ Count(s) \in Nat
         /\ \A p : IsFiniteSet(UpTo(s, p)) /\ Rank(s, p) \in Nat /\ Rank(s, p) <= Count(s)
<1>1. Places(s) \subseteq 1 .. Len(s) /\ Len(s) \in Nat
  BY DEF Places
<1>2. IsFiniteSet(Places(s))
  <2>1. IsFiniteSet(1 .. Len(s))
    BY <1>1, FS_Interval
  <2> QED BY <1>1, <2>1, FS_Subset
<1>3. Count(s) \in Nat
  BY <1>2, FS_CardinalityType DEF Count
<1>4. ASSUME NEW p
      PROVE  IsFiniteSet(UpTo(s, p)) /\ Rank(s, p) \in Nat /\ Rank(s, p) <= Count(s)
  <2>1. UpTo(s, p) \in SUBSET Places(s)
    BY DEF UpTo
  <2>2. IsFiniteSet(UpTo(s, p)) /\ Rank(s, p) <= Count(s)
    BY <1>2, <2>1, FS_Subset DEF Rank, Count
  <2> QED BY <2>2, FS_CardinalityType DEF Rank
<1> QED BY <1>1, <1>2, <1>3, <1>4

\* A later place has a higher rank, so no two share one.
LEMMA RankGrows ==
  ASSUME NEW s \in Seq(Characters), NEW p \in Places(s), NEW q \in Places(s), p < q
  PROVE  Rank(s, p) < Rank(s, q)
<1>1. p \in 1 .. Len(s) /\ q \in 1 .. Len(s) /\ Places(s) \subseteq 1 .. Len(s) /\ Len(s) \in Nat
  BY PlacesFinite
<1>2. UpTo(s, p) \cup {q} \in SUBSET UpTo(s, q) /\ q \notin UpTo(s, p)
  BY <1>1 DEF UpTo
<1>3. Cardinality(UpTo(s, p) \cup {q}) = Rank(s, p) + 1
  BY <1>2, PlacesFinite, FS_AddElement DEF Rank
<1>4. Cardinality(UpTo(s, p) \cup {q}) <= Rank(s, q)
  BY <1>2, PlacesFinite, FS_Subset DEF Rank
<1> QED BY <1>3, <1>4, PlacesFinite

\* A character stands at its rank.
LEMMA DenseAt ==
  ASSUME NEW s \in Seq(Characters), NEW p \in Places(s)
  PROVE  /\ Rank(s, p) \in 1 .. Count(s)
         /\ Dense(s)[Rank(s, p)] = s[p]
<1> DEFINE k == Rank(s, p)
<1>1. k \in 1 .. Count(s)
  <2>1. p \in UpTo(s, p)
    BY PlacesFinite DEF UpTo
  <2>2. k # 0
    BY <2>1, PlacesFinite, FS_EmptySet DEF Rank
  <2> QED BY <2>2, PlacesFinite
<1>2. \A q \in Places(s) : Rank(s, q) = k => q = p
  <2>1. SUFFICES ASSUME NEW q \in Places(s), Rank(s, q) = k, q # p PROVE FALSE
    OBVIOUS
  <2>2. p < q \/ q < p
    BY <2>1, PlacesFinite
  <2> QED BY <2>1, <2>2, RankGrows, PlacesFinite
<1>3. (CHOOSE q \in Places(s) : Rank(s, q) = k) = p
  BY <1>2
<1>4. Dense(s) = [j \in 1 .. Count(s) |-> s[CHOOSE q \in Places(s) : Rank(s, q) = j]]
  BY DEF Dense, Places, Rank, UpTo, Count
<1> QED BY <1>1, <1>3, <1>4

\* A well-placed text is a sequence of as many characters as it has places.
LEMMA DenseDomain ==
  ASSUME NEW s \in Seq(Characters), WellPlaced(s)
  PROVE  Dense(s) \in Seq(Characters) /\ Len(Dense(s)) = Count(s)
<1>1. Dense(s) = [j \in 1 .. Count(s) |-> s[CHOOSE q \in Places(s) : Rank(s, q) = j]]
  BY DEF Dense, Places, Rank, UpTo, Count
<1>2. Count(s) \in Nat
  BY PlacesFinite
<1>3. ASSUME NEW j \in 1 .. Count(s) PROVE Dense(s)[j] \in Characters
  <2>1. PICK p \in Places(s) : Rank(s, p) = j
    BY DEF WellPlaced
  <2>2. s[p] \in Characters
    BY DEF Places
  <2> QED BY <2>1, <2>2, DenseAt
<1> HIDE DEF Dense
<1>4. Dense(s) \in [1 .. Count(s) -> Characters]
  BY <1>1, <1>3
<1> QED BY <1>2, <1>4

\* White space adds nothing.
LEMMA DenseSpace ==
  ASSUME NEW s \in Seq(Characters), WellPlaced(s)
  PROVE  /\ Append(s, "space") \in Seq(Characters)
         /\ WellPlaced(Append(s, "space")) /\ Dense(Append(s, "space")) = Dense(s)
<1> DEFINE t == Append(s, "space")
<1>1. /\ t \in Seq(Characters) /\ Len(s) \in Nat
      /\ \A i \in 1 .. Len(s) : t[i] = s[i]
  BY DEF Characters
<1>2. Places(t) = Places(s)
  BY DEF Places
<1> HIDE DEF t
<1>3. Count(t) = Count(s) /\ \A p : Rank(t, p) = Rank(s, p)
  BY <1>2 DEF Count, Rank, UpTo
<1>4. WellPlaced(t)
  BY <1>2, <1>3 DEF WellPlaced
<1>5. ASSUME NEW k \in 1 .. Count(s) PROVE Dense(t)[k] = Dense(s)[k]
  <2>1. PICK p \in Places(s) : Rank(s, p) = k
    BY DEF WellPlaced
  <2>2. t[p] = s[p]
    BY <1>1, PlacesFinite
  <2> QED BY <1>1, <1>2, <1>3, <2>1, <2>2, DenseAt
<1>6. Dense(t) = Dense(s)
  <2>1. /\ Dense(t) \in Seq(Characters) /\ Dense(s) \in Seq(Characters)
        /\ Len(Dense(t)) = Len(Dense(s)) /\ Len(Dense(s)) = Count(s)
    BY <1>1, <1>3, <1>4, DenseDomain
  <2> QED BY <1>5, <2>1
<1> QED BY <1>1, <1>4, <1>6 DEF t

\* Any other character comes last.
LEMMA DenseCharacter ==
  ASSUME NEW s \in Seq(Characters), WellPlaced(s), NEW c \in Characters, c # "space"
  PROVE  /\ Append(s, c) \in Seq(Characters)
         /\ WellPlaced(Append(s, c)) /\ Dense(Append(s, c)) = Append(Dense(s), c)
<1> DEFINE t == Append(s, c)
           n == Len(s) + 1
<1>1. /\ t \in Seq(Characters) /\ Len(s) \in Nat
      /\ n \in Nat /\ n > Len(s) /\ t[n] = c
      /\ \A i \in 1 .. Len(s) : t[i] = s[i]
  OBVIOUS
<1>2. Places(t) = Places(s) \cup {n}
  BY DEF Places
<1> HIDE DEF t, n
<1>3. n \notin Places(s) /\ \A p \in Places(s) : p \in Nat /\ p < n
  <2>1. \A p \in Places(s) : p \in 1 .. Len(s)
    BY PlacesFinite
  <2> QED BY <1>1, <2>1
<1>4. Count(t) = Count(s) + 1
  BY <1>2, <1>3, PlacesFinite, FS_AddElement DEF Count
<1>5. ASSUME NEW p \in Places(s) PROVE Rank(t, p) = Rank(s, p)
  <2>1. UpTo(t, p) = UpTo(s, p)
    BY <1>1, <1>2, <1>3 DEF UpTo
  <2> QED BY <2>1 DEF Rank
<1>6. Rank(t, n) = Count(s) + 1
  <2>1. UpTo(t, n) = Places(t)
    BY <1>1, <1>2, <1>3 DEF UpTo
  <2> QED BY <2>1, <1>4 DEF Rank, Count
<1>7. WellPlaced(t)
  <2> SUFFICES ASSUME NEW k \in 1 .. Count(t) PROVE \E p \in Places(t) : Rank(t, p) = k
    BY DEF WellPlaced
  <2>1. CASE k \in 1 .. Count(s)
    BY <2>1, <1>2, <1>5 DEF WellPlaced
  <2>2. CASE k = Count(s) + 1
    BY <2>2, <1>2, <1>6
  <2>3. Count(s) \in Nat
    BY PlacesFinite
  <2> QED BY <1>4, <2>1, <2>2, <2>3
<1>8. ASSUME NEW k \in 1 .. Count(s) PROVE Dense(t)[k] = Dense(s)[k]
  <2>1. PICK p \in Places(s) : Rank(s, p) = k
    BY DEF WellPlaced
  <2>2. t[p] = s[p]
    BY <1>1, PlacesFinite
  <2> QED BY <1>1, <1>2, <1>5, <2>1, <2>2, DenseAt
<1>9. Dense(t)[Count(s) + 1] = c
  BY <1>1, <1>2, <1>6, DenseAt
<1>10. Dense(t) = Append(Dense(s), c)
  <2>1. /\ Dense(t) \in Seq(Characters) /\ Dense(s) \in Seq(Characters)
        /\ Len(Dense(t)) = Count(s) + 1 /\ Len(Dense(s)) = Count(s)
        /\ Count(s) \in Nat
    BY <1>1, <1>4, <1>7, DenseDomain, PlacesFinite
  <2> DEFINE d == Dense(s)
             e == Dense(t)
  <2>2. /\ Append(d, c) \in Seq(Characters)
        /\ Len(Append(d, c)) = Count(s) + 1
        /\ \A k \in 1 .. Count(s) : Append(d, c)[k] = d[k]
        /\ Append(d, c)[Count(s) + 1] = c
    <3> HIDE DEF d
    <3> QED BY <2>1 DEF d
  <2>3. \A k \in 1 .. Count(s) + 1 : e[k] = Append(d, c)[k]
    <3>1. ASSUME NEW k \in 1 .. Count(s) + 1 PROVE e[k] = Append(d, c)[k]
      <4>1. k \in 1 .. Count(s) \/ k = Count(s) + 1
        BY <2>1
      <4> QED BY <1>8, <1>9, <2>2, <4>1
    <3> QED BY <3>1
  <2> HIDE DEF d, e
  <2>4. e \in Seq(Characters) /\ Len(e) = Count(s) + 1
    BY <2>1 DEF e
  <2>5. e = Append(d, c)
    BY <2>2, <2>3, <2>4, SameSequence
  <2> QED BY <2>5 DEF d, e
<1> QED BY <1>1, <1>7, <1>10 DEF t

\* Where it begins.
LEMMA DenseEmpty == <<>> \in Seq(Characters) /\ WellPlaced(<<>>) /\ Dense(<<>>) = <<>>
<1>1. <<>> \in Seq(Characters) /\ Places(<<>>) = {}
  BY DEF Places
<1>2. Count(<<>>) = 0
  BY <1>1, FS_EmptySet DEF Count
<1>3. WellPlaced(<<>>)
  BY <1>2 DEF WellPlaced
<1>4. Dense(<<>>) \in Seq(Characters) /\ Len(Dense(<<>>)) = 0
  BY <1>1, <1>2, <1>3, DenseDomain
<1> QED BY <1>1, <1>3, <1>4

-----------------------------------------------------------------------------
(* The decoder                                                             *)

\* The decoder goes through the text quartet by quartet: k of them are decoded,
\* all but the last to three bytes, and the rest waits.
Quartets(d, k, rest) ==
  /\ Len(d) = 4 * k + Len(rest)
  /\ \A i \in 1 .. Len(rest) : rest[i] = d[4 * k + i]

Decoded(d, k, padded) ==
  \A j \in 1 .. k :
    DecodedLen(QuartetOf(d, j)) \in IF padded /\ j = k THEN 1 .. 2 ELSE {3}

\* The number of bytes of k quartets.
Total(d, k) == IF k = 0 THEN 0 ELSE 3 * (k - 1) + DecodedLen(QuartetOf(d, k))

\* The p-th byte of a text.
ByteOf(d, p) == <<QuartetOf(d, (p - 1) \div 3 + 1), 1 + ((p - 1) % 3)>>

Reading == stage = "file" \/ archive

\* Between two chunks or within one, what was written and what waits to be
\* written are the bytes of the quartets so far.
DecodeInv ==
  Reading /\ encoding = "base64" =>
    /\ encoded_size = Len(Dense(input))
    /\ Len(pending) < 4
    /\ saw_padding => pending = <<>>
    /\ \E k \in Nat :
         /\ Quartets(Dense(input), k, pending)
         /\ Decoded(Dense(input), k, saw_padding)
         /\ saw_padding => k > 0
         /\ decoded_size = Total(Dense(input), k)
    /\ \A p \in 1 .. decoded_size : (output \o chunk)[p] = ByteOf(Dense(input), p)

TextInv ==
  /\ input \in Seq(Characters)
  /\ WellPlaced(input)
  /\ saw_padding \in BOOLEAN
  /\ Reading /\ encoding = "plain" => input = output \o chunk /\ pending = <<>>
  /\ archive => stage # "file" /\ chunk = <<>> /\ encoding # "none" /\ pending = <<>>
  /\ stage = "fields" /\ ~archive =>
       input = <<>> /\ pending = <<>> /\ encoded_size = 0 /\ ~saw_padding

\* What Append does, for the provers.
LEMMA Appended ==
  ASSUME NEW S, NEW s \in Seq(S), NEW c \in S
  PROVE  /\ Append(s, c) \in Seq(S) /\ Len(Append(s, c)) = Len(s) + 1
         /\ \A i \in 1 .. Len(s) : Append(s, c)[i] = s[i]
         /\ Append(s, c)[Len(s) + 1] = c
OBVIOUS

\* The same of concatenation.
LEMMA Concatenated ==
  ASSUME NEW S, NEW a \in Seq(S), NEW b \in Seq(S)
  PROVE  /\ a \o b \in Seq(S) /\ Len(a \o b) = Len(a) + Len(b)
         /\ \A i \in 1 .. Len(a) : (a \o b)[i] = a[i]
         /\ \A i \in 1 .. Len(b) : (a \o b)[Len(a) + i] = b[i]
         /\ a \o <<>> = a
         /\ \A c \in S : a \o Append(b, c) = Append(a \o b, c)
<1>1. /\ a \o b \in Seq(S) /\ Len(a \o b) = Len(a) + Len(b)
      /\ \A i \in 1 .. Len(a) : (a \o b)[i] = a[i]
      /\ \A i \in 1 .. Len(b) : (a \o b)[Len(a) + i] = b[i]
  OBVIOUS
<1>2. a \o <<>> = a
  OBVIOUS
<1>3. \A c \in S : a \o Append(b, c) = Append(a \o b, c)
  OBVIOUS
<1> QED BY <1>1, <1>2, <1>3

\* Concatenation is associative.
LEMMA Regrouped ==
  ASSUME NEW S, NEW a \in Seq(S), NEW b \in Seq(S), NEW c \in Seq(S)
  PROVE  a \o (b \o c) = (a \o b) \o c
OBVIOUS

\* The same of bytes.
LEMMA RegroupedBytes ==
  \A a, b, c \in Seq(Bytes) : a \o (b \o c) = (a \o b) \o c
BY Regrouped

\* Three characters wait for the fourth.
LEMMA FourMinusOne == \A n \in Nat : n + 1 = 4 => n = 3
OBVIOUS

\* The fourth of them.
LEMMA LastAppended ==
  ASSUME NEW rest \in Seq(Characters), Len(rest) = 3, NEW c \in Characters
  PROVE  /\ Append(rest, c) \in Seq(Characters) /\ Len(Append(rest, c)) = 4
         /\ Append(rest, c)[1] = rest[1] /\ Append(rest, c)[2] = rest[2]
         /\ Append(rest, c)[3] = rest[3] /\ Append(rest, c)[4] = c
<1>1. /\ Append(rest, c) \in Seq(Characters) /\ Len(Append(rest, c)) = Len(rest) + 1
      /\ \A i \in 1 .. Len(rest) : Append(rest, c)[i] = rest[i]
      /\ Append(rest, c)[Len(rest) + 1] = c
  BY Appended
<1>2. Len(rest) + 1 = 4 /\ 1 \in 1 .. Len(rest) /\ 2 \in 1 .. Len(rest) /\ 3 \in 1 .. Len(rest)
  OBVIOUS
<1> QED BY <1>1, <1>2

\* A complete quartet is four characters of the text.
LEMMA QuartetType ==
  ASSUME NEW d \in Seq(Characters), NEW j \in Nat \ {0}, 4 * j <= Len(d)
  PROVE  /\ QuartetOf(d, j) \in Seq(Characters)
         /\ Len(QuartetOf(d, j)) = 4
         /\ \A i \in 1 .. 4 : QuartetOf(d, j)[i] = d[4 * j - 4 + i]
<1> DEFINE m == 4 * j - 3
           n == 4 * j
<1>1. m \in 1 .. Len(d) /\ n \in 1 .. Len(d) /\ m <= n /\ n - m + 1 = 4
  OBVIOUS
<1>2. QuartetOf(d, j) = SubSeq(d, m, n)
  BY DEF QuartetOf
<1>3. /\ SubSeq(d, m, n) \in Seq(Characters)
      /\ Len(SubSeq(d, m, n)) = n - m + 1
      /\ \A i \in 1 .. n - m + 1 : SubSeq(d, m, n)[i] = d[m + i - 1]
  <2> HIDE DEF m, n
  <2> QED BY <1>1
<1>4. \A i \in 1 .. 4 : m + i - 1 = 4 * j - 4 + i
  OBVIOUS
<1> QED BY <1>1, <1>2, <1>3, <1>4

\* What follows leaves the complete quartets alone.
LEMMA QuartetPrefix ==
  ASSUME NEW d \in Seq(Characters), NEW w \in Seq(Characters), Len(d) <= Len(w),
         \A i \in 1 .. Len(d) : w[i] = d[i],
         NEW j \in Nat \ {0}, 4 * j <= Len(d)
  PROVE  QuartetOf(w, j) = QuartetOf(d, j)
<1>1. Len(w) \in Nat /\ Len(d) \in Nat
  OBVIOUS
<1>2. 4 * j <= Len(w)
  BY <1>1
<1>3. \A i \in 1 .. 4 : 4 * j - 4 + i \in 1 .. Len(d)
  BY <1>1
<1>4. /\ QuartetOf(d, j) \in Seq(Characters) /\ Len(QuartetOf(d, j)) = 4
      /\ \A i \in 1 .. 4 : QuartetOf(d, j)[i] = d[4 * j - 4 + i]
  BY QuartetType
<1>5. /\ QuartetOf(w, j) \in Seq(Characters) /\ Len(QuartetOf(w, j)) = 4
      /\ \A i \in 1 .. 4 : QuartetOf(w, j)[i] = w[4 * j - 4 + i]
  BY <1>2, QuartetType
<1>6. \A i \in 1 .. 4 : QuartetOf(w, j)[i] = QuartetOf(d, j)[i]
  BY <1>3, <1>4, <1>5
<1> QED BY <1>4, <1>5, <1>6, SameSequence

\* In particular one more character does.
LEMMA QuartetKept ==
  ASSUME NEW d \in Seq(Characters), NEW c \in Characters,
         NEW j \in Nat \ {0}, 4 * j <= Len(d)
  PROVE  QuartetOf(Append(d, c), j) = QuartetOf(d, j)
<1> DEFINE e == Append(d, c)
<1>1. /\ e \in Seq(Characters) /\ Len(d) <= Len(e)
      /\ \A i \in 1 .. Len(d) : e[i] = d[i]
  OBVIOUS
<1> HIDE DEF e
<1>2. QuartetOf(e, j) = QuartetOf(d, j)
  BY <1>1, QuartetPrefix
<1> QED BY <1>2 DEF e

\* The waiting characters and the next make the next quartet.
LEMMA QuartetDone ==
  ASSUME NEW d \in Seq(Characters), NEW rest \in Seq(Characters), NEW k \in Nat,
         Quartets(d, k, rest), Len(rest) = 3, NEW c \in Characters
  PROVE  QuartetOf(Append(d, c), k + 1) = Append(rest, c)
<1> DEFINE e == Append(d, c)
           q == Append(rest, c)
<1>1. /\ e \in Seq(Characters) /\ Len(e) = 4 * (k + 1)
      /\ \A i \in 1 .. Len(d) : e[i] = d[i]
      /\ e[4 * k + 4] = c
  BY DEF Quartets
<1>2. /\ q \in Seq(Characters) /\ Len(q) = 4
      /\ q[1] = rest[1] /\ q[2] = rest[2] /\ q[3] = rest[3] /\ q[4] = c
  BY LastAppended
<1>3. /\ rest[1] = d[4 * k + 1] /\ rest[2] = d[4 * k + 2] /\ rest[3] = d[4 * k + 3]
      /\ Len(d) = 4 * k + 3
  BY DEF Quartets
<1> HIDE DEF e, q
<1>4. /\ QuartetOf(e, k + 1) \in Seq(Characters)
      /\ Len(QuartetOf(e, k + 1)) = 4
      /\ \A i \in 1 .. 4 : QuartetOf(e, k + 1)[i] = e[4 * k + i]
  <2>1. k + 1 \in Nat \ {0} /\ \A i \in 1 .. 4 : 4 * (k + 1) - 4 + i = 4 * k + i
    OBVIOUS
  <2>2. 4 * (k + 1) <= Len(e)
    BY <1>1
  <2> QED BY <1>1, <2>1, <2>2, QuartetType
<1>5. \A i \in 1 .. 4 : e[4 * k + i] = q[i]
  <2>1. e[4 * k + 1] = q[1] /\ e[4 * k + 2] = q[2] /\ e[4 * k + 3] = q[3] /\ e[4 * k + 4] = q[4]
    BY <1>1, <1>2, <1>3
  <2> QED BY <2>1
<1>6. QuartetOf(e, k + 1) = q
  BY <1>2, <1>4, <1>5, SameSequence
<1> QED BY <1>6 DEF e, q

\* A character that completes no quartet.
LEMMA RestGrows ==
  ASSUME NEW d \in Seq(Characters), NEW rest \in Seq(Characters), NEW k \in Nat,
         Quartets(d, k, rest), Decoded(d, k, FALSE), NEW c \in Characters
  PROVE  /\ Quartets(Append(d, c), k, Append(rest, c))
         /\ Decoded(Append(d, c), k, FALSE)
         /\ Total(Append(d, c), k) = Total(d, k)
<1>1. 4 * k <= Len(d) /\ Len(d) \in Nat /\ Len(rest) \in Nat /\ Len(d) = 4 * k + Len(rest)
  BY DEF Quartets
<1>2. \A j \in 1 .. k : QuartetOf(Append(d, c), j) = QuartetOf(d, j)
  <2>1. \A j \in 1 .. k : j \in Nat \ {0} /\ 4 * j <= Len(d)
    BY <1>1
  <2> QED BY <2>1, QuartetKept
<1>3. Quartets(Append(d, c), k, Append(rest, c))
  <2>1. ASSUME NEW i \in 1 .. Len(rest) + 1
        PROVE  Append(rest, c)[i] = Append(d, c)[4 * k + i]
    <3>1. CASE i = Len(rest) + 1
      BY <1>1, <3>1
    <3>2. CASE i \in 1 .. Len(rest)
      <4>1. rest[i] = d[4 * k + i] /\ 4 * k + i \in 1 .. Len(d)
        BY <1>1, <3>2 DEF Quartets
      <4> QED BY <3>2, <4>1
    <3> QED BY <1>1, <3>1, <3>2
  <2>2. Len(Append(rest, c)) = Len(rest) + 1 /\ Len(Append(d, c)) = Len(d) + 1
    OBVIOUS
  <2> QED BY <1>1, <2>1, <2>2 DEF Quartets
<1>4. Decoded(Append(d, c), k, FALSE)
  BY <1>2 DEF Decoded
<1>5. Total(Append(d, c), k) = Total(d, k)
  BY <1>2 DEF Total
<1> QED BY <1>3, <1>4, <1>5

\* A quartet that can be decoded is short just when it is padded.
LEMMA DecodedLenPadding ==
  ASSUME NEW q \in Seq(Characters), Len(q) = 4, DecodedLen(q) # 0
  PROVE  DecodedLen(q) \in IF \E i \in 1 .. 4 : q[i] = "=" THEN 1 .. 2 ELSE {3}
<1>1. "=" \notin Alphabet
  BY DEF Alphabet
<1>2. 1 \in 1 .. 4 /\ 2 \in 1 .. 4 /\ 3 \in 1 .. 4 /\ 4 \in 1 .. 4
  OBVIOUS
<1>3. CASE \A i \in 1 .. 4 : q[i] \in Alphabet
  BY <1>1, <1>3 DEF DecodedLen
<1>4. CASE ~\A i \in 1 .. 4 : q[i] \in Alphabet
  <2>1. q[4] = "=" /\ DecodedLen(q) \in {1, 2}
    BY <1>4 DEF DecodedLen
  <2> QED BY <2>1
<1> QED BY <1>3, <1>4

\* A character that completes a quartet, which can be decoded.
LEMMA QuartetGrows ==
  ASSUME NEW d \in Seq(Characters), NEW rest \in Seq(Characters), NEW k \in Nat,
         Quartets(d, k, rest), Decoded(d, k, FALSE), NEW c \in Characters,
         Len(rest) = 3, DecodedLen(Append(rest, c)) # 0
  PROVE  /\ Quartets(Append(d, c), k + 1, <<>>)
         /\ Decoded(Append(d, c), k + 1, \E i \in 1 .. 4 : Append(rest, c)[i] = "=")
         /\ Total(d, k) = 3 * k
         /\ Total(Append(d, c), k + 1) = 3 * k + DecodedLen(Append(rest, c))
<1> DEFINE q == Append(rest, c)
           e == Append(d, c)
           padded == \E i \in 1 .. 4 : q[i] = "="
<1>1. 4 * k <= Len(d) /\ Len(d) \in Nat /\ Len(d) = 4 * k + 3
  BY DEF Quartets
<1>2. \A j \in 1 .. k : QuartetOf(e, j) = QuartetOf(d, j)
  <2>1. \A j \in 1 .. k : j \in Nat \ {0} /\ 4 * j <= Len(d)
    BY <1>1
  <2> QED BY <2>1, QuartetKept
<1>3. QuartetOf(e, k + 1) = q
  BY QuartetDone
<1>4. q \in Seq(Characters) /\ Len(q) = 4 /\ Len(e) = 4 * (k + 1)
  <2>1. Len(e) = Len(d) + 1
    OBVIOUS
  <2> QED BY <1>1, <2>1, LastAppended
<1> HIDE DEF q, e
<1>5. DecodedLen(q) \in IF padded THEN 1 .. 2 ELSE {3}
  BY <1>4, DecodedLenPadding DEF q
<1>6. Decoded(e, k + 1, padded)
  <2> SUFFICES ASSUME NEW j \in 1 .. k + 1
               PROVE  DecodedLen(QuartetOf(e, j)) \in IF padded /\ j = k + 1 THEN 1 .. 2 ELSE {3}
    BY DEF Decoded
  <2>1. CASE j = k + 1
    BY <1>3, <1>5, <2>1
  <2>2. CASE j \in 1 .. k
    <3>1. DecodedLen(QuartetOf(d, j)) \in {3} /\ j # k + 1
      BY <2>2 DEF Decoded
    <3> QED BY <3>1, <2>2, <1>2
  <2> QED BY <2>1, <2>2
<1>7. Total(d, k) = 3 * k
  <2>1. CASE k = 0
    BY <2>1 DEF Total
  <2>2. CASE k # 0
    <3>1. DecodedLen(QuartetOf(d, k)) = 3
      BY <2>2 DEF Decoded
    <3> QED BY <2>2, <3>1 DEF Total
  <2> QED BY <2>1, <2>2
<1>8. Total(e, k + 1) = 3 * k + DecodedLen(q)
  <2>1. k + 1 # 0 /\ (k + 1) - 1 = k
    OBVIOUS
  <2> QED BY <1>3, <2>1 DEF Total
<1>9. Quartets(e, k + 1, <<>>)
  BY <1>4 DEF Quartets
<1> QED BY <1>6, <1>7, <1>8, <1>9 DEF q, e

\* One more character leaves the bytes of complete quartets alone.
LEMMA ByteKept ==
  ASSUME NEW d \in Seq(Characters), NEW c \in Characters, NEW k \in Nat, 4 * k <= Len(d),
         NEW p \in 1 .. 3 * k
  PROVE  ByteOf(Append(d, c), p) = ByteOf(d, p)
<1> DEFINE j == (p - 1) \div 3 + 1
<1>1. j \in Nat \ {0} /\ 4 * j <= Len(d)
  OBVIOUS
<1> HIDE DEF j
<1>2. QuartetOf(Append(d, c), j) = QuartetOf(d, j)
  BY <1>1, QuartetKept
<1> QED BY <1>2 DEF ByteOf, j

\* The bytes of the next quartet follow those of the first k.
LEMMA ByteNew ==
  ASSUME NEW e, NEW k \in Nat, NEW i \in 1 .. 3
  PROVE  ByteOf(e, 3 * k + i) = <<QuartetOf(e, k + 1), i>>
<1>1. (3 * k + i - 1) \div 3 = k /\ (3 * k + i - 1) % 3 = i - 1
  OBVIOUS
<1>2. 1 + (i - 1) = i
  OBVIOUS
<1> QED BY <1>1, <1>2 DEF ByteOf

\* An accepted character keeps the decoder in step with the text.
LEMMA PushDecodes ==
  ASSUME Inv, Inv', TextInv, DecodeInv, NEW c \in Characters, c # "space",
         Refusal(Append(pending, c)) = "none", Push(Append(pending, c)),
         stage = "file", encoding = "base64", input' = Append(input, c)
  PROVE  DecodeInv'
<1> DEFINE d == Dense(input)
           q == Append(pending, c)
<1>1. /\ input' \in Seq(Characters) /\ Dense(input') = Append(d, c)
      /\ d \in Seq(Characters)
  BY DenseCharacter, DenseDomain DEF TextInv
<1>2. /\ pending \in Seq(Characters) /\ output \in Seq(Bytes) /\ chunk \in Seq(Bytes)
      /\ decoded_size \in Nat /\ decoded_size = Len(output) + Len(chunk)
  BY DEF Inv, TypeInv, SizeInv
<1>3. /\ encoded_size = Len(d) /\ Len(pending) < 4 /\ ~saw_padding
      /\ \A p \in 1 .. decoded_size : (output \o chunk)[p] = ByteOf(d, p)
  <2>1. ~saw_padding
    BY DEF Refusal
  <2> QED BY <2>1 DEF DecodeInv, Reading
<1>4. PICK k \in Nat : /\ Quartets(d, k, pending)
                       /\ Decoded(d, k, saw_padding)
                       /\ decoded_size = Total(d, k)
  BY DEF DecodeInv, Reading
<1>5. Decoded(d, k, FALSE)
  BY <1>3, <1>4 DEF Decoded
<1>6. encoded_size' = Len(Append(d, c)) /\ encoding' = "base64" /\ output' = output
  BY <1>1, <1>3, Appended DEF Push
<1>7. Len(q) = Len(pending) + 1 /\ q \in Seq(Characters)
  BY <1>2, Appended
<1> HIDE DEF d, q
<1>8. CASE Len(q) # 4
  <2>1. /\ pending' = q /\ saw_padding' = saw_padding /\ decoded_size' = decoded_size
        /\ chunk' = chunk
    BY <1>8 DEF Push, q
  <2>2. /\ Quartets(Append(d, c), k, q) /\ Decoded(Append(d, c), k, FALSE)
        /\ Total(Append(d, c), k) = Total(d, k)
    BY <1>1, <1>2, <1>4, <1>5, RestGrows DEF q
  <2>3. Len(q) < 4
    BY <1>2, <1>3, <1>7, <1>8
  <2>4. 4 * k <= Len(d) /\ decoded_size <= 3 * k
    <3>1. 4 * k <= Len(d)
      BY <1>2, <1>4 DEF Quartets
    <3>2. Total(d, k) <= 3 * k
      <4>1. CASE k = 0
        BY <4>1 DEF Total
      <4>2. CASE k # 0
        <5>1. DecodedLen(QuartetOf(d, k)) = 3
          BY <1>5, <4>2 DEF Decoded
        <5> QED BY <4>2, <5>1 DEF Total
      <4> QED BY <4>1, <4>2
    <3> QED BY <1>4, <3>1, <3>2
  <2>5. ASSUME NEW p \in 1 .. decoded_size
        PROVE  (output \o chunk)[p] = ByteOf(Append(d, c), p)
    <3>1. p \in 1 .. 3 * k
      BY <1>2, <2>4
    <3>2. ByteOf(Append(d, c), p) = ByteOf(d, p)
      BY <1>1, <2>4, <3>1, ByteKept
    <3> QED BY <1>3, <3>2
  <2>6. /\ Quartets(Append(d, c), k, pending') /\ Decoded(Append(d, c), k, saw_padding')
        /\ decoded_size' = Total(Append(d, c), k)
    BY <1>3, <1>4, <2>1, <2>2 DEF Decoded
  <2> QED BY <1>1, <1>3, <1>6, <2>1, <2>3, <2>5, <2>6 DEF DecodeInv
<1>9. CASE Len(q) = 4
  <2>1. /\ pending' = <<>> /\ decoded_size' = decoded_size + DecodedLen(q)
        /\ chunk' = chunk \o Decode(q)
        /\ saw_padding' = \E i \in 1 .. 4 : q[i] = "="
    BY <1>9 DEF Push, q
  <2>2. DecodedLen(q) # 0
    BY <1>9 DEF Refusal, q
  <2>3. Len(pending) = 3
    <3>1. Len(pending) \in Nat
      BY <1>2
    <3>2. Len(pending) + 1 = 4
      BY <1>7, <1>9
    <3> QED BY <3>1, <3>2, FourMinusOne, Zenon
  <2>4. /\ Quartets(Append(d, c), k + 1, <<>>)
        /\ Decoded(Append(d, c), k + 1, \E i \in 1 .. 4 : q[i] = "=")
        /\ Total(d, k) = 3 * k
        /\ Total(Append(d, c), k + 1) = 3 * k + DecodedLen(q)
    BY <1>1, <1>2, <1>4, <1>5, <2>2, <2>3, QuartetGrows DEF q
  <2>5. /\ DecodedLen(q) \in 1 .. 3 /\ Decode(q) \in Seq(Bytes)
        /\ Len(Decode(q)) = DecodedLen(q)
        /\ \A i \in 1 .. DecodedLen(q) : Decode(q)[i] = <<q, i>>
    <3>1. DecodedLen(q) \in 0 .. 3 /\ Decode(q) \in Seq(Bytes) /\ Len(Decode(q)) = DecodedLen(q)
      BY <1>7, DecodeLength
    <3>2. \A i \in 1 .. DecodedLen(q) : Decode(q)[i] = <<q, i>>
      BY DEF Decode
    <3> QED BY <2>2, <3>1, <3>2
  <2>6. decoded_size = 3 * k /\ 4 * k <= Len(d)
    <3>1. decoded_size = 3 * k
      BY <1>4, <2>4
    <3>2. Len(d) = 4 * k + 3
      BY <1>4, <2>3 DEF Quartets
    <3> QED BY <3>1, <3>2
  <2>7. QuartetOf(Append(d, c), k + 1) = q
    BY <1>1, <1>2, <1>4, <2>3, QuartetDone DEF q
  <2>8. output \o (chunk \o Decode(q)) = (output \o chunk) \o Decode(q)
    <3>1. output \in Seq(Bytes) /\ chunk \in Seq(Bytes) /\ Decode(q) \in Seq(Bytes)
      BY <1>2, <2>5
    <3> DEFINE r == Decode(q)
    <3> HIDE DEF r
    <3>2. output \o (chunk \o r) = (output \o chunk) \o r
      BY <3>1, RegroupedBytes, Zenon DEF r
    <3> QED BY <3>2 DEF r
  <2>9. ASSUME NEW p \in 1 .. decoded_size'
        PROVE  (output \o chunk')[p] = ByteOf(Append(d, c), p)
    <3> DEFINE all == output \o chunk
    <3>1. all \in Seq(Bytes) /\ Len(all) = 3 * k
      BY <1>2, <2>6, Concatenated
    <3>2. \A p1 \in 1 .. 3 * k : all[p1] = ByteOf(d, p1)
      BY <1>3, <2>6
    <3> HIDE DEF all
    <3>3. output \o chunk' = all \o Decode(q)
      BY <2>1, <2>8 DEF all
    <3>4. CASE p \in 1 .. 3 * k
      <4>1. (all \o Decode(q))[p] = all[p]
        BY <3>1, <3>4, <2>5, Concatenated
      <4>2. ByteOf(Append(d, c), p) = ByteOf(d, p)
        BY <1>1, <2>6, <3>4, ByteKept
      <4> QED BY <3>2, <3>3, <3>4, <4>1, <4>2
    <3>5. CASE p \notin 1 .. 3 * k
      <4>1. PICK i \in 1 .. DecodedLen(q) : p = 3 * k + i
        <5>1. p \in 1 .. 3 * k + DecodedLen(q)
          BY <2>1, <2>6
        <5>2. p - 3 * k \in 1 .. DecodedLen(q) /\ p = 3 * k + (p - 3 * k)
          BY <5>1, <3>5, <2>5
        <5> QED BY <5>2
      <4>2. (all \o Decode(q))[p] = Decode(q)[i]
        BY <3>1, <4>1, <2>5, Concatenated
      <4>3. ByteOf(Append(d, c), p) = <<q, i>>
        <5>1. i \in 1 .. 3
          BY <4>1, <2>5
        <5> QED BY <4>1, <5>1, <2>7, ByteNew
      <4> QED BY <3>3, <4>1, <4>2, <4>3, <2>5
    <3> QED BY <3>4, <3>5
  <2>10. k + 1 \in Nat /\ k + 1 > 0 /\ decoded_size' = Total(Append(d, c), k + 1)
    BY <2>1, <2>4, <2>6
  <2>11. \E k1 \in Nat : /\ Quartets(Append(d, c), k1, pending')
                         /\ Decoded(Append(d, c), k1, saw_padding')
                         /\ saw_padding' => k1 > 0
                         /\ decoded_size' = Total(Append(d, c), k1)
    BY <2>1, <2>4, <2>10
  <2>12. Len(pending') < 4 /\ pending' = <<>>
    BY <2>1
  <2> QED BY <1>1, <1>6, <2>9, <2>11, <2>12 DEF DecodeInv
<1> QED BY <1>8, <1>9

\* Every step keeps TextInv.
LEMMA TextStep ==
  ASSUME Inv, Inv', FieldInv, TextInv, [Next]_vars
  PROVE  TextInv'
<1> USE DEF Inv, TypeInv, SizeInv
<1>1. ASSUME NEW c \in Characters, Base64Character(c) PROVE TextInv'
  <2>1. input' = Append(input, c) /\ stage = "file" /\ encoding = "base64" /\ ~archive
    BY <1>1 DEF Base64Character, FieldInv
  <2>2. input' \in Seq(Characters) /\ WellPlaced(input')
    BY <2>1, DenseSpace, DenseCharacter DEF TextInv
  <2>3. /\ archive' = archive /\ encoding' = encoding /\ stage' \in {stage, "400", "413"}
        /\ saw_padding' \in BOOLEAN
    <3>1. CASE c = "space" \/ Refusal(Append(pending, c)) # "none"
      BY <1>1, <3>1 DEF Base64Character, Fail, Refusal, reader, TextInv, Push
    <3>2. CASE c # "space" /\ Refusal(Append(pending, c)) = "none"
      BY <1>1, <3>2 DEF Base64Character, Push, TextInv
    <3> QED BY <3>1, <3>2
  <2> QED BY <2>1, <2>2, <2>3 DEF TextInv
<1>2. ASSUME NEW c \in Alphabet, PlainByte(c) PROVE TextInv'
  <2>1. /\ input' = Append(input, c) /\ chunk' = Append(chunk, c) /\ stage = "file"
        /\ encoding = "plain" /\ ~archive
        /\ UNCHANGED <<stage, encoding, archive, pending, encoded_size, saw_padding, output>>
    BY <1>2 DEF PlainByte, FieldInv, reader
  <2>2. c \in Characters /\ c # "space" /\ c \in Bytes
    BY DEF Characters, Alphabet, Bytes
  <2>3. input' \in Seq(Characters) /\ WellPlaced(input')
    BY <2>1, <2>2, DenseCharacter DEF TextInv
  <2>4. output \o Append(chunk, c) = Append(output \o chunk, c)
    BY <2>2, Concatenated
  <2>5. input = output \o chunk /\ pending = <<>>
    BY <2>1 DEF TextInv, Reading
  <2> QED BY <2>1, <2>3, <2>4, <2>5 DEF TextInv
<1>3. CASE EndChunk
  <2>1. CASE output' = output
    BY <1>3, <2>1 DEF EndChunk, Fail, TextInv, reader, Reading, FieldInv
  <2>2. CASE output' = output \o chunk /\ chunk' = <<>> /\ UNCHANGED <<stage, archive>>
    <3>1. output' \o <<>> = output'
      BY Concatenated
    <3> QED BY <1>3, <2>2, <3>1 DEF EndChunk, TextInv, reader, Reading, FieldInv
  <2> QED BY <1>3, <2>1, <2>2 DEF EndChunk, Fail
<1>4. CASE ReadFails \/ EndFile \/ EndBody
  BY <1>4 DEF ReadFails, EndFile, EndBody, Fail, TextInv, reader, Reading, FieldInv
<1>5. ASSUME NEW e \in {"base64", "plain"}, FileField(e) PROVE TextInv'
  <2>1. <<>> \o <<>> = <<>>
    OBVIOUS
  <2> QED BY <1>5, <2>1 DEF FileField, Field, TextInv, Reading
<1>6. ASSUME NEW value \in Checksums, ChecksumField(value) PROVE TextInv'
  BY <1>6 DEF ChecksumField, Field, TextInv, Reading
<1>7. ASSUME NEW name \in FieldNames, OtherField(name) PROVE TextInv'
  BY <1>7 DEF OtherField, Field, TextInv, Reading
<1>8. CASE UNCHANGED vars
  BY <1>8 DEF vars, reader, TextInv, Reading
<1> QED BY <1>1, <1>2, <1>3, <1>4, <1>5, <1>6, <1>7, <1>8 DEF Next

\* Every step keeps DecodeInv.
LEMMA DecodeStep ==
  ASSUME Inv, Inv', FieldInv, TextInv, DecodeInv, [Next]_vars
  PROVE  DecodeInv'
<1> USE DEF Inv, TypeInv, SizeInv
<1>1. ASSUME NEW c \in Characters, Base64Character(c) PROVE DecodeInv'
  <2>1. input' = Append(input, c) /\ stage = "file" /\ encoding = "base64" /\ ~archive
    BY <1>1 DEF Base64Character, FieldInv
  <2>2. CASE c = "space"
    <3>1. Dense(input') = Dense(input)
      BY <2>1, <2>2, DenseSpace DEF TextInv
    <3> QED BY <1>1, <2>1, <2>2, <3>1 DEF Base64Character, DecodeInv, Reading, reader
  <2>3. CASE c # "space" /\ Refusal(Append(pending, c)) # "none"
    BY <1>1, <2>1, <2>3 DEF Base64Character, Fail, Refusal, DecodeInv, Reading
  <2>4. CASE c # "space" /\ Refusal(Append(pending, c)) = "none"
    <3>1. Push(Append(pending, c))
      BY <1>1, <2>4 DEF Base64Character
    <3> QED BY <2>1, <2>4, <3>1, PushDecodes
  <2> QED BY <2>2, <2>3, <2>4
<1>2. ASSUME NEW c \in Alphabet, PlainByte(c) PROVE DecodeInv'
  BY <1>2 DEF PlainByte, reader, DecodeInv
<1>3. CASE EndChunk
  <2>1. CASE output' = output
    BY <1>3, <2>1 DEF EndChunk, Fail, DecodeInv, reader, Reading, FieldInv
  <2>2. CASE output' = output \o chunk /\ chunk' = <<>> /\ UNCHANGED <<stage, archive>>
    <3>1. output' \o chunk' = output \o chunk
      <4>1. output' \in Seq(Bytes)
        OBVIOUS
      <4> QED BY <2>2, <4>1, Concatenated
    <3> QED BY <1>3, <2>2, <3>1 DEF EndChunk, DecodeInv, reader, Reading
  <2> QED BY <1>3, <2>1, <2>2 DEF EndChunk, Fail
<1>4. CASE ReadFails \/ EndFile \/ EndBody
  BY <1>4 DEF ReadFails, EndFile, EndBody, Fail, DecodeInv, reader, Reading, FieldInv
<1>5. ASSUME NEW e \in {"base64", "plain"}, FileField(e) PROVE DecodeInv'
  <2>1. /\ input' = <<>> /\ pending' = <<>> /\ encoded_size' = 0 /\ ~saw_padding'
        /\ decoded_size' = 0
    BY <1>5 DEF FileField, Field, TextInv
  <2>2. Dense(input') = <<>>
    BY <2>1, DenseEmpty
  <2>3. Len(<<>>) = 0 /\ 0 \in Nat
    OBVIOUS
  <2>4. Quartets(<<>>, 0, <<>>) /\ Decoded(<<>>, 0, saw_padding') /\ Total(<<>>, 0) = 0
    BY <2>3 DEF Quartets, Decoded, Total
  <2> QED BY <2>1, <2>2, <2>3, <2>4 DEF DecodeInv
<1>6. ASSUME NEW value \in Checksums, ChecksumField(value) PROVE DecodeInv'
  BY <1>6 DEF ChecksumField, Field, DecodeInv, Reading
<1>7. ASSUME NEW name \in FieldNames, OtherField(name) PROVE DecodeInv'
  BY <1>7 DEF OtherField, Field, DecodeInv, Reading
<1>8. CASE UNCHANGED vars
  BY <1>8 DEF vars, reader, DecodeInv, Reading
<1> QED BY <1>1, <1>2, <1>3, <1>4, <1>5, <1>6, <1>7, <1>8 DEF Next

\* Every reachable state satisfies TextInv and DecodeInv.
LEMMA DecodingHolds == Spec => [](TextInv /\ DecodeInv)
<1>1. Init => TextInv /\ DecodeInv
  BY DenseEmpty DEF Init, TextInv, DecodeInv, Reading
<1>2. Inv /\ Inv' /\ FieldInv /\ TextInv /\ DecodeInv /\ [Next]_vars => (TextInv /\ DecodeInv)'
  BY TextStep, DecodeStep
<1> QED BY <1>1, <1>2, SizesHold, FieldsHold, PTL DEF Spec

\* A text of k quartets that were all decoded is acceptable but for its size.
LEMMA TextWhole ==
  ASSUME NEW d \in Seq(Characters), NEW k \in Nat, Len(d) = 4 * k,
         NEW padded \in BOOLEAN, Decoded(d, k, padded)
  PROVE  /\ Len(d) % 4 = 0
         /\ \A j \in 1 .. Len(d) \div 4 :
              DecodedLen(QuartetOf(d, j)) \in IF 4 * j = Len(d) THEN 1 .. 3 ELSE {3}
         /\ DecodedTotal(d) = Total(d, k)
<1>1. Len(d) % 4 = 0 /\ Len(d) \div 4 = k
  OBVIOUS
<1>2. d = <<>> <=> k = 0
  OBVIOUS
<1>3. ASSUME NEW j \in 1 .. k
      PROVE  DecodedLen(QuartetOf(d, j)) \in IF 4 * j = Len(d) THEN 1 .. 3 ELSE {3}
  <2>1. DecodedLen(QuartetOf(d, j)) \in IF padded /\ j = k THEN 1 .. 2 ELSE {3}
    BY DEF Decoded
  <2>2. j = k <=> 4 * j = Len(d)
    OBVIOUS
  <2> QED BY <2>1, <2>2
<1>4. DecodedTotal(d) = Total(d, k)
  BY <1>1, <1>2 DEF DecodedTotal, Total
<1> QED BY <1>1, <1>3, <1>4

\* However the network cuts the field, and wherever white space stands in it,
\* the file is what the whole field stands for.
THEOREM FilesAreContent == Spec => []FileIsContent
<1>1. Inv /\ TextInv /\ DecodeInv => FileIsContent
  <2> SUFFICES ASSUME Inv, TextInv, DecodeInv, archive
               PROVE  Acceptable(Text) /\ output = Content(Text)
    BY DEF FileIsContent
  <2>1. /\ output \in Seq(Bytes) /\ chunk = <<>> /\ pending = <<>> /\ Reading
        /\ Len(output) \in Nat /\ limit \in Nat /\ Len(output) <= limit
        /\ encoding \in {"base64", "plain"} /\ saw_padding \in BOOLEAN
    BY DEF Inv, TypeInv, SizeInv, TextInv, Reading
  <2>2. output \o chunk = output
    BY <2>1, Concatenated
  <2>3. CASE encoding = "plain"
    <3>1. input = output
      BY <2>1, <2>2, <2>3 DEF TextInv
    <3> QED BY <2>1, <2>3, <3>1 DEF Acceptable, Content, Text
  <2>4. CASE encoding = "base64"
    <3> DEFINE d == Dense(input)
    <3>1. d \in Seq(Characters)
      BY DenseDomain DEF TextInv
    <3>2. decoded_size = Len(output)
      <4>1. decoded_size = Len(output) + Len(chunk)
        BY <2>4 DEF Inv, SizeInv
      <4>2. Len(chunk) = 0
        BY <2>1
      <4> QED BY <2>1, <4>1, <4>2
    <3>3. \A p \in 1 .. Len(output) : output[p] = ByteOf(d, p)
      BY <2>1, <2>2, <2>4, <3>2 DEF DecodeInv
    <3>4. PICK k \in Nat : /\ Quartets(d, k, pending)
                           /\ Decoded(d, k, saw_padding)
                           /\ decoded_size = Total(d, k)
      BY <2>1, <2>4 DEF DecodeInv
    <3>5. Len(d) = 4 * k
      BY <2>1, <3>4 DEF Quartets
    <3> HIDE DEF d
    <3>6. /\ Len(d) % 4 = 0
          /\ \A j \in 1 .. Len(d) \div 4 :
               DecodedLen(QuartetOf(d, j)) \in IF 4 * j = Len(d) THEN 1 .. 3 ELSE {3}
          /\ DecodedTotal(d) = Len(output)
      BY <2>1, <3>1, <3>2, <3>4, <3>5, TextWhole
    <3>7. Text = d
      BY <2>4 DEF Text, d
    <3>8. Acceptable(d)
      BY <2>1, <2>4, <3>6 DEF Acceptable
    <3>9. output = [p \in 1 .. Len(output) |-> ByteOf(d, p)]
      BY <2>1, <3>3
    <3>10. Content(d) = [p \in 1 .. Len(output) |-> ByteOf(d, p)]
      BY <2>4, <3>6 DEF Content, ByteOf
    <3> QED BY <3>7, <3>8, <3>9, <3>10
  <2> QED BY <2>1, <2>3, <2>4
<1> QED BY <1>1, SizesHold, DecodingHolds, PTL

-----------------------------------------------------------------------------
(* Giving a file field up                                                  *)

\* What it takes for a base64 text to be acceptable.
LEMMA AcceptableParts ==
  ASSUME NEW w \in Seq(Characters), encoding = "base64", Acceptable(w), limit \in Nat
  PROVE  \E m \in Nat :
           /\ Len(w) = 4 * m
           /\ \A j \in 1 .. m :
                DecodedLen(QuartetOf(w, j)) \in IF j = m THEN 1 .. 3 ELSE {3}
           /\ m # 0 => 3 * (m - 1) + DecodedLen(QuartetOf(w, m)) <= limit
<1> DEFINE m == Len(w) \div 4
<1>1. Len(w) % 4 = 0 /\ Len(w) \in Nat
  BY DEF Acceptable
<1>2. m \in Nat /\ Len(w) = 4 * m
  BY <1>1
<1>3. /\ \A j \in 1 .. m :
           DecodedLen(QuartetOf(w, j)) \in IF 4 * j = Len(w) THEN 1 .. 3 ELSE {3}
      /\ DecodedTotal(w) <= limit
  BY DEF Acceptable
<1>4. m # 0 => DecodedTotal(w) = 3 * (m - 1) + DecodedLen(QuartetOf(w, m))
  <2>1. m # 0 => w # <<>>
    BY <1>2
  <2> QED BY <2>1 DEF DecodedTotal
<1> HIDE DEF m
<1>5. \A j \in 1 .. m : j = m <=> 4 * j = Len(w)
  BY <1>2
<1> QED BY <1>2, <1>3, <1>4, <1>5

\* Nothing that follows a refused character makes the field acceptable.
LEMMA RefusedForGood ==
  ASSUME Inv, TextInv, DecodeInv, stage = "file", encoding = "base64",
         NEW c \in Characters, c # "space", Refusal(Append(pending, c)) # "none",
         NEW more \in Seq(Characters)
  PROVE  ~Acceptable(Append(Dense(input), c) \o more)
<1> DEFINE d == Dense(input)
           q == Append(pending, c)
           e == Append(d, c)
           w == e \o more
<1>1. d \in Seq(Characters) /\ Len(d) \in Nat
  <2>1. d \in Seq(Characters)
    BY DenseDomain DEF TextInv
  <2> QED BY <2>1
<1>2. e \in Seq(Characters) /\ Len(e) = Len(d) + 1 /\ \A i \in 1 .. Len(d) : e[i] = d[i]
  BY <1>1, Appended
<1>3. /\ w \in Seq(Characters) /\ Len(w) \in Nat /\ Len(w) >= Len(e)
      /\ \A i \in 1 .. Len(e) : w[i] = e[i]
  <2> HIDE DEF e
  <2>1. /\ w \in Seq(Characters) /\ Len(w) = Len(e) + Len(more)
        /\ \A i \in 1 .. Len(e) : w[i] = e[i]
    BY <1>2, Concatenated
  <2>2. Len(more) \in Nat /\ Len(e) \in Nat
    BY <1>2
  <2>3. Len(w) \in Nat /\ Len(w) >= Len(e)
    BY <2>1, <2>2
  <2> QED BY <2>1, <2>3
<1>4. /\ pending \in Seq(Characters) /\ limit \in Nat /\ decoded_size \in Nat
      /\ Len(q) = Len(pending) + 1 /\ q \in Seq(Characters)
  BY Appended DEF Inv, TypeInv
<1>5. /\ encoded_size = Len(d) /\ Len(pending) < 4
      /\ saw_padding => pending = <<>>
  BY DEF DecodeInv, Reading
<1>6. PICK k \in Nat : /\ Quartets(d, k, pending)
                       /\ Decoded(d, k, saw_padding)
                       /\ saw_padding => k > 0
                       /\ decoded_size = Total(d, k)
  BY DEF DecodeInv, Reading
<1>7. Len(d) = 4 * k + Len(pending)
  BY <1>6 DEF Quartets
<1> HIDE DEF d, q, e, w
<1>8. SUFFICES ASSUME Acceptable(w) PROVE FALSE
  BY DEF d, e, w
<1>9. PICK m \in Nat : /\ Len(w) = 4 * m
                       /\ \A j \in 1 .. m :
                            DecodedLen(QuartetOf(w, j)) \in IF j = m THEN 1 .. 3 ELSE {3}
                       /\ m # 0 => 3 * (m - 1) + DecodedLen(QuartetOf(w, m)) <= limit
  BY <1>3, <1>4, <1>8, AcceptableParts
<1>10. 4 * m >= Len(d) + 1
  BY <1>2, <1>3, <1>9
<1>11. m >= k + 1 /\ m # 0
  <2>1. Len(pending) \in Nat
    BY <1>4
  <2> QED BY <1>7, <1>10, <2>1
<1>12. \A j \in 1 .. k : QuartetOf(w, j) = QuartetOf(d, j)
  <2>1. \A i \in 1 .. Len(d) : w[i] = d[i]
    BY <1>1, <1>2, <1>3
  <2>2. Len(d) <= Len(w)
    BY <1>1, <1>2, <1>3
  <2>3. Len(pending) \in Nat
    BY <1>4
  <2>4. \A j \in 1 .. k : j \in Nat \ {0} /\ 4 * j <= Len(d)
    BY <1>7, <2>3
  <2> QED BY <1>1, <1>3, <2>1, <2>2, <2>4, QuartetPrefix
<1>13. CASE saw_padding
  <2>1. k \in 1 .. k /\ k \in 1 .. m /\ k # m
    BY <1>6, <1>11, <1>13
  <2>2. DecodedLen(QuartetOf(d, k)) \in 1 .. 2
    BY <1>6, <1>13, <2>1 DEF Decoded
  <2>3. DecodedLen(QuartetOf(w, k)) = 3
    BY <1>9, <2>1
  <2>4. QuartetOf(w, k) = QuartetOf(d, k)
    BY <1>12, <2>1
  <2> QED BY <2>2, <2>3, <2>4
<1>14. CASE ~saw_padding /\ encoded_size >= encoded_limit
  <2> DEFINE x == (limit + 2) \div 3
  <2>1. x \in Nat /\ 3 * x >= limit
    BY <1>4
  <2>2. Len(d) >= 4 * x
    BY <1>4, <1>5, <1>14 DEF encoded_limit
  <2> HIDE DEF x
  <2>3. m >= x + 1
    BY <1>1, <1>10, <2>1, <2>2
  <2>4. DecodedLen(QuartetOf(w, m)) \in 1 .. 3
    BY <1>9, <1>11
  <2>5. 3 * (m - 1) + DecodedLen(QuartetOf(w, m)) <= limit
    BY <1>9, <1>11
  <2> QED BY <1>4, <2>1, <2>3, <2>4, <2>5
<1>15. CASE ~saw_padding /\ ~(encoded_size >= encoded_limit)
  <2>1. Len(q) = 4 /\ (DecodedLen(q) = 0 \/ decoded_size + DecodedLen(q) > limit)
    <3>1. Refusal(q) # "none"
      BY DEF q
    <3> QED BY <1>15, <3>1, Zenon DEF Refusal
  <2>2. Len(pending) = 3
    <3>1. Len(pending) \in Nat
      BY <1>4
    <3>2. Len(pending) + 1 = 4
      BY <1>4, <2>1
    <3> QED BY <3>1, <3>2, FourMinusOne, Zenon
  <2>3. QuartetOf(w, k + 1) = q
    <3>1. QuartetOf(e, k + 1) = q
      BY <1>1, <1>4, <1>6, <2>2, QuartetDone DEF e, q
    <3>2. Len(e) = 4 * (k + 1)
      BY <1>2, <1>7, <2>2
    <3>3. k + 1 \in Nat \ {0} /\ 4 * (k + 1) <= Len(e) /\ Len(e) <= Len(w)
      BY <1>2, <1>3, <3>2
    <3>4. QuartetOf(w, k + 1) = QuartetOf(e, k + 1)
      BY <1>2, <1>3, <3>3, QuartetPrefix
    <3> QED BY <3>1, <3>4
  <2>4. k + 1 \in 1 .. m
    BY <1>11
  <2>5. DecodedLen(q) \in 1 .. 3
    <3>1. DecodedLen(QuartetOf(w, k + 1)) \in 1 .. 3
      BY <1>9, <2>4
    <3> QED BY <2>3, <3>1
  <2>6. decoded_size + DecodedLen(q) > limit
    BY <2>1, <2>5
  <2>7. decoded_size = 3 * k
    <3>1. CASE k = 0
      BY <1>6, <3>1 DEF Total
    <3>2. CASE k # 0
      <4>1. DecodedLen(QuartetOf(d, k)) = 3
        BY <1>6, <1>15, <3>2 DEF Decoded
      <4> QED BY <1>6, <3>2, <4>1 DEF Total
    <3> QED BY <3>1, <3>2
  <2>8. 3 * k + DecodedLen(q) > limit
    BY <2>6, <2>7
  <2>9. 3 * (m - 1) + DecodedLen(QuartetOf(w, m)) <= limit
    BY <1>9, <1>11
  <2>10. CASE m = k + 1
    <3>1. m - 1 = k
      BY <2>10
    <3> QED BY <1>4, <2>3, <2>5, <2>8, <2>9, <2>10, <3>1
  <2>11. CASE m # k + 1
    <3>1. m - 1 >= k + 1
      BY <1>11, <2>11
    <3>2. DecodedLen(QuartetOf(w, m)) \in 1 .. 3
      BY <1>9, <1>11
    <3> QED BY <1>4, <2>5, <2>8, <2>9, <3>1, <3>2
  <2> QED BY <2>10, <2>11
<1> QED BY <1>13, <1>14, <1>15

Continuations == UNION {[1 .. n -> Characters \ {"space"}] : n \in 0 .. 3}

\* A continuation is a sequence of characters.
LEMMA ContinuationType == \A more \in Continuations : more \in Seq(Characters)
<1>1. ASSUME NEW n \in 0 .. 3, NEW more \in [1 .. n -> Characters \ {"space"}]
      PROVE  more \in Seq(Characters)
  <2>1. more \in [1 .. n -> Characters] /\ n \in Nat
    OBVIOUS
  <2> QED BY <2>1
<1> QED BY <1>1 DEF Continuations

\* What GivenUpRightly says of a text at the moment it is given up.
Hopeless(text) ==
  IF encoding = "base64" /\ Len(text) = encoded_size THEN ~Acceptable(text)
  ELSE \A more \in Continuations : ~Acceptable(text \o more)

GaveUp ==
  stage \in {"400", "413"} /\ ~archive /\ fields # <<>> /\ fields[Len(fields)] = "file"

\* Acceptable, with what it reads of the state as parameters.
Fits(enc, lim, d) ==
  IF enc = "plain" THEN Len(d) <= lim
  ELSE /\ Len(d) % 4 = 0
       /\ \A k \in 1 .. Len(d) \div 4 :
            DecodedLen(QuartetOf(d, k)) \in IF 4 * k = Len(d) THEN 1 .. 3 ELSE {3}
       /\ DecodedTotal(d) <= lim

\* A length with a rest is no multiple of four.
LEMMA NotWhole ==
  \A k, r, n \in Nat : n = 4 * k + r /\ r # 0 /\ r < 4 => n % 4 # 0
OBVIOUS

\* Every step that gives a field up does so rightly.
LEMMA GivenUpStep ==
  ASSUME Inv, FieldInv, TextInv, DecodeInv, GaveUp => Hopeless(Text), [Next]_vars
  PROVE  (GaveUp => Hopeless(Text))'
<1> SUFFICES ASSUME GaveUp' PROVE Hopeless(Text)'
  OBVIOUS
<1>1. ASSUME NEW c \in Characters, Base64Character(c) PROVE Hopeless(Text)'
  <2>1. stage = "file" /\ encoding = "base64" /\ input' = Append(input, c)
    BY <1>1 DEF Base64Character
  <2>2. c # "space" /\ Refusal(Append(pending, c)) # "none"
    <3>1. CASE c = "space"
      BY <1>1, <2>1, <3>1 DEF Base64Character, GaveUp
    <3>2. CASE c # "space" /\ Refusal(Append(pending, c)) = "none"
      BY <1>1, <2>1, <3>2 DEF Base64Character, Push, GaveUp
    <3> QED BY <3>1, <3>2
  <2>3. UNCHANGED <<limit, encoding, encoded_size>>
    BY <1>1, <2>2 DEF Base64Character, Fail, reader
  <2> DEFINE d == Dense(input)
             e == Append(d, c)
  <2>4. Text' = e /\ Len(e) # encoded_size
    <3>1. Text' = Dense(input')
      BY <2>1, <2>3 DEF Text
    <3>2. d \in Seq(Characters) /\ Dense(input') = e
      BY <2>1, <2>2, DenseCharacter, DenseDomain DEF TextInv
    <3>3. Len(e) = Len(d) + 1 /\ Len(d) \in Nat
      BY <3>2, Appended
    <3>4. encoded_size = Len(d)
      BY <2>1 DEF DecodeInv, Reading
    <3> QED BY <3>1, <3>2, <3>3, <3>4
  <2>5. \A more \in Continuations : ~Acceptable(e \o more)
    BY <2>1, <2>2, ContinuationType, RefusedForGood
  <2> HIDE DEF e
  <2>6. \A more \in Continuations : ~Fits(encoding, limit, e \o more)
    BY <2>5 DEF Fits, Acceptable
  <2>7. \A more \in Continuations : ~Fits(encoding', limit', Text' \o more)
    BY <2>3, <2>4, <2>6
  <2>8. ~(encoding' = "base64" /\ Len(Text') = encoded_size')
    BY <2>3, <2>4
  <2>9. \A more \in Continuations : ~Acceptable(Text \o more)'
    BY <2>7 DEF Fits, Acceptable
  <2> QED BY <2>8, <2>9 DEF Hopeless
<1>2. CASE EndChunk
  <2>1. /\ stage = "file" /\ encoding = "plain" /\ Len(output) + Len(chunk) > limit
        /\ UNCHANGED <<limit, encoding, encoded_size, input>>
    <3>1. CASE UNCHANGED stage
      BY <1>2, <3>1 DEF EndChunk, GaveUp
    <3>2. CASE ~UNCHANGED stage
      BY <1>2, <3>2 DEF EndChunk, Fail, reader
    <3> QED BY <3>1, <3>2
  <2>2. Text' = input /\ encoding' = "plain"
    BY <2>1 DEF Text
  <2>3. input = output \o chunk /\ input \in Seq(Characters)
    BY <2>1 DEF TextInv, Reading
  <2>4. /\ Len(input) = Len(output) + Len(chunk) /\ limit \in Nat
        /\ Len(output) \in Nat /\ Len(chunk) \in Nat
    BY <2>3, Concatenated DEF Inv, TypeInv
  <2>5. ASSUME NEW more \in Continuations PROVE ~Acceptable(input \o more)'
    <3>1. more \in Seq(Characters)
      BY ContinuationType
    <3>2. Len(input \o more) = Len(input) + Len(more) /\ Len(more) \in Nat
      BY <2>3, <3>1, Concatenated
    <3>3. ~(Len(input \o more) <= limit)
      BY <2>1, <2>4, <3>2
    <3>4. input' = input /\ limit' = limit /\ encoding' = "plain"
      BY <2>1, <2>2
    <3> QED BY <3>3, <3>4 DEF Acceptable
  <2>6. \A more \in Continuations : ~Acceptable(Text \o more)'
    <3>1. input' = input
      BY <2>1
    <3> QED BY <2>2, <2>5, <3>1 DEF Acceptable
  <2> QED BY <2>2, <2>6 DEF Hopeless
<1>3. CASE EndFile
  <2>1. /\ stage = "file" /\ ~archive /\ pending # <<>>
        /\ UNCHANGED <<limit, encoding, encoded_size, input, pending>>
    <3>1. stage = "file" /\ UNCHANGED <<limit, encoding, encoded_size, input, pending>>
      BY <1>3 DEF EndFile, reader
    <3>2. pending # <<>>
      BY <1>3 DEF EndFile, GaveUp
    <3> QED BY <3>1, <3>2 DEF FieldInv
  <2>2. encoding = "base64"
    BY <2>1 DEF TextInv, Reading, Inv, TypeInv, SizeInv
  <2> DEFINE d == Dense(input)
  <2>3. d \in Seq(Characters) /\ encoded_size = Len(d) /\ Len(pending) < 4
    BY <2>1, <2>2, DenseDomain DEF TextInv, DecodeInv, Reading
  <2>4. PICK k \in Nat : Len(d) = 4 * k + Len(pending)
    BY <2>1, <2>2 DEF DecodeInv, Reading, Quartets
  <2>5. Text' = d
    BY <2>1, <2>2 DEF Text
  <2> HIDE DEF d
  <2>6. Len(pending) \in Nat /\ Len(pending) # 0
    BY <2>1 DEF Inv, TypeInv
  <2>7. Len(d) % 4 # 0
    BY <2>3, <2>4, <2>6, NotWhole
  <2>8. ~Acceptable(Text)'
    BY <2>1, <2>2, <2>5, <2>7 DEF Acceptable
  <2> QED BY <2>1, <2>2, <2>3, <2>5, <2>8 DEF Hopeless
<1>4. CASE ReadFails \/ \E c \in Alphabet : PlainByte(c)
  BY <1>4 DEF ReadFails, PlainByte, Fail, GaveUp
<1>5. ASSUME NEW e \in {"base64", "plain"}, FileField(e) PROVE Hopeless(Text)'
  BY <1>5 DEF FileField, GaveUp
<1>6. ASSUME NEW value \in Checksums, ChecksumField(value) PROVE Hopeless(Text)'
  <2>1. fields' = Append(fields, "sha256") /\ fields \in Seq(FieldNames) /\ "sha256" \in FieldNames
    BY <1>6 DEF ChecksumField, Field, FieldInv, FieldNames
  <2>2. fields'[Len(fields')] = "sha256"
    BY <2>1, Appended
  <2> QED BY <2>2 DEF GaveUp
<1>7. ASSUME NEW name \in FieldNames, OtherField(name) PROVE Hopeless(Text)'
  <2>1. fields' = Append(fields, name) /\ fields \in Seq(FieldNames)
    BY <1>7 DEF OtherField, Field, FieldInv
  <2>2. fields'[Len(fields')] = name
    BY <2>1, Appended
  <2>3. name = "file" => archive'
    BY <1>7 DEF OtherField, Field
  <2> QED BY <2>2, <2>3 DEF GaveUp
<1>8. CASE EndBody
  <2>1. stage = "fields" /\ archive' = archive /\ fields' = fields
    BY <1>8 DEF EndBody
  <2>2. fields \in Seq(FieldNames) /\ fields # <<>> /\ fields[Len(fields)] = "file" /\ ~archive
    BY <2>1 DEF GaveUp, FieldInv
  <2>3. Len(fields) \in DOMAIN fields
    BY <2>2
  <2> QED BY <2>1, <2>2, <2>3 DEF FieldInv, NoFile
<1>9. CASE UNCHANGED vars
  <2>1. GaveUp
    BY <1>9 DEF vars, GaveUp
  <2> QED BY <1>9, <2>1 DEF vars, reader, Hopeless, Text, Acceptable
<1> QED BY <1>1, <1>2, <1>3, <1>4, <1>5, <1>6, <1>7, <1>8, <1>9 DEF Next

\* No file field is refused that could still have become acceptable, and none
\* at its end that was: base64 is decoded on the way without costing a client
\* an upload.
THEOREM FieldsAreGivenUpRightly == Spec => []GivenUpRightly
<1>1. Init => (GaveUp => Hopeless(Text))
  BY DEF Init, GaveUp
<1>2. Inv /\ FieldInv /\ TextInv /\ DecodeInv /\ (GaveUp => Hopeless(Text)) /\ [Next]_vars
      => (GaveUp => Hopeless(Text))'
  BY GivenUpStep
<1>3. (GaveUp => Hopeless(Text)) => GivenUpRightly
  BY DEF GaveUp, Hopeless, GivenUpRightly, Continuations
<1> QED BY <1>1, <1>2, <1>3, SizesHold, FieldsHold, DecodingHolds, PTL DEF Spec
=============================================================================
