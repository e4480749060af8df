----------------------- MODULE ArchiveInspectionProofs -----------------------
(***************************************************************************)
(* What ArchiveInspection.tla guarantees for archives of any length and    *)
(* any entries, and for any limits.                                        *)
(***************************************************************************)
EXTENDS ArchiveInspection, FiniteSetTheorems, TLAPS

-----------------------------------------------------------------------------
(* The inductive invariants                                                *)

Past == {"entries", "manifests", "accepted"}

TypeInv ==
  /\ entries \in Seq(Entries)
  /\ expectedSha \in {"absent", "equal", "other"}
  /\ phase \in {"digest", "preflight", "rejected"} \cup Past
  /\ {count, total_size, stream, pos} \subseteq Nat
  /\ pos <= Len(entries)

\* What preflight_archive lets pass, each entry by itself.
Sound(e) ==
  /\ e.kind \in {"file", "dir", "global"} \cup MemberHeaders
  /\ e.size <= IF e.kind \in Extensions THEN MaxExtension ELSE MaxEntrySize

\* The first pass counts every entry and every byte it has let pass, and the
\* second pass finds them within all limits.
PreflightInv ==
  /\ phase = "digest" => entries = <<>>
  /\ phase \in {"digest", "preflight"} =>
       /\ count = Len(entries)
       /\ total_size = Cardinality(Bytes(entries, Len(entries)))
  /\ phase \in {"preflight"} \cup Past =>
       /\ expectedSha # "other"
       /\ Len(entries) <= MaxEntries
       /\ Cardinality(Bytes(entries, Len(entries))) <= MaxTotalSize
       /\ \A i \in DOMAIN entries : Sound(entries[i])
  /\ phase \in Past => stream <= MaxStream

\* The entries that the second pass has inspected, as far as it got.
Seen == {i \in Visible : i <= pos}

\* What it has let pass, each entry by itself.
Proper(i) ==
  /\ entries[i].kind \in {"file", "dir"}
  /\ entries[i].path.form \notin {"unsafe", "empty"}
  /\ Holds(i, MANIFEST) => entries[i].size <= MaxManifest
  /\ Holds(i, FILES) => entries[i].size <= MaxFiles

\* paths, hashes and the two manifests are those of the entries seen.
PassInv ==
  /\ phase \in {"digest", "preflight"} =>
       /\ pos = 0
       /\ paths = {}
       /\ DOMAIN hashes = {}
       /\ manifest = [m |-> None, f |-> None]
  /\ phase \in Past =>
       /\ count <= pos
       /\ total_size = Cardinality(Bytes(entries, pos))
       /\ paths = {Name(i) : i \in Seen}
       /\ \A i, j \in Seen : Name(i) = Name(j) => i = j
       /\ \A i \in Seen : Proper(i)
       /\ DOMAIN hashes = {Name(i) : i \in {k \in Seen : entries[k].kind = "file"}}
       /\ \A i \in Seen : entries[i].kind = "file" => hashes[Name(i)] = entries[i].content
       /\ \A i \in Seen : Holds(i, MANIFEST) => manifest.m = entries[i].content
       /\ \A i \in Seen : Holds(i, FILES) => manifest.f = entries[i].content
       /\ manifest.m # None => \E i \in Seen : Holds(i, MANIFEST)
       /\ manifest.f # None => \E i \in Seen : Holds(i, FILES)
  /\ phase \in {"manifests", "accepted"} =>
       pos = Len(entries) /\ None \notin {manifest.m, manifest.f}
  /\ phase = "accepted" => validate_files(manifest.m, manifest.f) /\ ValidMeta(manifest.m)

Inv == TypeInv /\ PreflightInv /\ PassInv

\* The headers that have been read and whose member is yet to come.
Open == {i \in DOMAIN entries :
           i <= pos /\ \A k \in i .. pos : entries[k].kind \in MemberHeaders}

\* Their sorts are what tar remembers; every header is one of them, alone of its
\* sort, or had its member.
HeadersInv ==
  /\ phase \in {"digest", "preflight"} => headers = {}
  /\ phase \in Past =>
       /\ headers = {entries[i].kind : i \in Open}
       /\ \A i \in DOMAIN entries \ Visible : i <= pos =>
            \/ Framed(i)
            \/ i \in Open /\ \A k \in i + 1 .. pos : entries[k].kind # entries[i].kind
  /\ phase \in {"manifests", "accepted"} => headers = {}

-----------------------------------------------------------------------------
(* Bytes and their number                                                  *)

\* What the assumption says of one entry, part by part.
LEMMA EntrySize == \A e \in Entries : e.size \in Nat
BY ArchiveInspectionAssumption, Zenon

\* A file has as many bytes as there are places in it.
LEMMA Places == \A n \in Nat : IsFiniteSet(1 .. n) /\ Cardinality(1 .. n) = n
<1> SUFFICES ASSUME NEW n \in Nat PROVE IsFiniteSet(1 .. n) /\ Cardinality(1 .. n) = n
  OBVIOUS
<1>1. IsFiniteSet(1 .. n) /\ Cardinality(1 .. n) = IF 1 > n THEN 0 ELSE n - 1 + 1
  BY FS_Interval
<1> QED BY <1>1

\* One entry more: its bytes are new, and as many as its size says.
LEMMA BytesAdd ==
  ASSUME NEW a \in Seq(Entries), NEW n \in 0 .. Len(a) - 1, IsFiniteSet(Bytes(a, n))
  PROVE  /\ IsFiniteSet(Bytes(a, n + 1))
         /\ Cardinality(Bytes(a, n)) \in Nat
         /\ Cardinality(Bytes(a, n + 1)) = Cardinality(Bytes(a, n)) +
              IF a[n + 1].kind \in Extensions THEN 0 ELSE a[n + 1].size
<1> DEFINE e == a[n + 1]
           new == {n + 1} \X (1 .. e.size)
<1>1. e \in Entries /\ e.size \in Nat
  <2>1. e \in Entries
    OBVIOUS
  <2> QED BY <2>1, EntrySize
<1>2. IsFiniteSet(1 .. e.size) /\ Cardinality(1 .. e.size) = e.size
  BY <1>1, Places
<1>3. IsFiniteSet({n + 1}) /\ Cardinality({n + 1}) = 1
  BY FS_Singleton
<1>4. IsFiniteSet(new) /\ Cardinality(new) = e.size
  <2> HIDE DEF e
  <2>1. IsFiniteSet(new) /\ Cardinality(new) = 1 * e.size
    BY <1>2, <1>3, FS_Product
  <2> QED BY <1>1, <2>1
<1>5. Cardinality(Bytes(a, n)) \in Nat
  BY FS_CardinalityType
<1>6. CASE e.kind \in Extensions
  <2>1. Bytes(a, n + 1) = Bytes(a, n)
    BY <1>6 DEF Bytes
  <2> QED BY <1>5, <1>6, <2>1
<1>7. CASE e.kind \notin Extensions
  <2>1. {k \in 1 .. n + 1 : a[k].kind \notin Extensions}
          = {k \in 1 .. n : a[k].kind \notin Extensions} \cup {n + 1}
    BY <1>7
  <2>2. Bytes(a, n + 1) = Bytes(a, n) \cup new
    BY <2>1 DEF Bytes
  <2>3. Bytes(a, n) \cap new = {}
    BY DEF Bytes
  <2>4. Cardinality(Bytes(a, n) \cap new) = 0
    BY <2>3, FS_EmptySet
  <2>5. /\ IsFiniteSet(Bytes(a, n) \cup new)
        /\ Cardinality(Bytes(a, n) \cup new)
             = Cardinality(Bytes(a, n)) + Cardinality(new) - Cardinality(Bytes(a, n) \cap new)
    BY <1>4, FS_Union
  <2> HIDE DEF new
  <2> DEFINE had == Cardinality(Bytes(a, n))
             size == e.size
  <2>6. Cardinality(Bytes(a, n + 1)) = had + size - 0
    BY <1>4, <2>2, <2>4, <2>5
  <2>7. had \in Nat /\ size \in Nat
    BY <1>1, <1>5
  <2>8. had + size - 0 = had + size
    <3> HIDE DEF had, size
    <3> QED BY <2>7
  <2> QED BY <1>5, <1>7, <2>2, <2>5, <2>6, <2>8
<1> QED BY <1>6, <1>7

\* The bytes of an archive are finitely many.
LEMMA BytesFinite ==
  ASSUME NEW a \in Seq(Entries), NEW n \in 0 .. Len(a)
  PROVE  IsFiniteSet(Bytes(a, n))
<1> DEFINE S == {k \in 1 .. n : a[k].kind \notin Extensions}
           Parts == {{i} \X (1 .. a[i].size) : i \in S}
           f == [i \in S |-> {i} \X (1 .. a[i].size)]
<1>1. IsFiniteSet(S)
  <2>1. IsFiniteSet(1 .. n)
    BY FS_Interval
  <2> QED BY <2>1, FS_Subset
<1>2. f \in Surjection(S, Parts)
  BY DEF Surjection
<1>3. IsFiniteSet(Parts)
  BY <1>1, <1>2, FS_Surjection
<1>4. ASSUME NEW i \in S PROVE IsFiniteSet({i} \X (1 .. a[i].size))
  <2>1. a[i].size \in Nat
    BY EntrySize
  <2>2. IsFiniteSet(1 .. a[i].size) /\ IsFiniteSet({i})
    BY <2>1, Places, FS_Singleton
  <2> QED BY <2>2, FS_Product
<1>5. \A T \in Parts : IsFiniteSet(T)
  BY <1>4
<1> QED BY <1>3, <1>5, FS_UNION DEF Bytes

\* So their number grows with each entry by its size, and never shrinks.
LEMMA BytesCount ==
  ASSUME NEW a \in Seq(Entries), NEW n \in 0 .. Len(a) - 1
  PROVE  /\ Cardinality(Bytes(a, n)) \in Nat
         /\ Cardinality(Bytes(a, n + 1)) = Cardinality(Bytes(a, n)) +
              IF a[n + 1].kind \in Extensions THEN 0 ELSE a[n + 1].size
         /\ Cardinality(Bytes(a, Len(a))) \in Nat
         /\ Cardinality(Bytes(a, n + 1)) <= Cardinality(Bytes(a, Len(a)))
<1>1. IsFiniteSet(Bytes(a, n)) /\ IsFiniteSet(Bytes(a, Len(a)))
  BY BytesFinite
<1>2. Bytes(a, n + 1) \subseteq Bytes(a, Len(a))
  BY DEF Bytes
<1>3. Cardinality(Bytes(a, n + 1)) <= Cardinality(Bytes(a, Len(a)))
  BY <1>1, <1>2, FS_Subset
<1>4. Cardinality(Bytes(a, Len(a))) \in Nat
  BY <1>1, FS_CardinalityType
<1> QED BY <1>1, <1>3, <1>4, BytesAdd

\* An archive that is read further keeps its bytes.
LEMMA BytesPrefix ==
  ASSUME NEW a \in Seq(Entries), NEW e \in Entries
  PROVE  Bytes(Append(a, e), Len(a)) = Bytes(a, Len(a))
<1>1. \A k \in 1 .. Len(a) : Append(a, e)[k] = a[k]
  OBVIOUS
<1> QED BY <1>1 DEF Bytes

\* No entries, no bytes.
LEMMA NoBytes == \A a : Bytes(a, 0) = {} /\ Cardinality(Bytes(a, 0)) = 0
<1>1. ASSUME NEW a PROVE Bytes(a, 0) = {}
  BY DEF Bytes
<1> QED BY <1>1, FS_EmptySet

-----------------------------------------------------------------------------
(* Declarations and files                                                  *)

\* If every declaration R-matches at most one file, then "each file is matched by
\* one declaration, and there are as many of both" and "each file is matched by
\* one declaration, and each declaration matches a file" are the same: the counts
\* of Conforms and the sets that validate_files compares.
LEMMA CountsMatch ==
  ASSUME NEW D, NEW O, NEW R, IsFiniteSet(D), IsFiniteSet(O),
         \A d \in D : \A o, p \in O : <<d, o>> \in R /\ <<d, p>> \in R => o = p,
         \A o \in O : Cardinality({d \in D : <<d, o>> \in R}) = 1
  PROVE  Cardinality(D) = Cardinality(O) <=> \A d \in D : \E o \in O : <<d, o>> \in R
<1> DEFINE f == [o \in O |-> CHOOSE d \in D : <<d, o>> \in R]
<1>1. ASSUME NEW o \in O PROVE \E d \in D : {x \in D : <<x, o>> \in R} = {d}
  <2>1. IsFiniteSet({d \in D : <<d, o>> \in R})
    BY FS_Subset
  <2>2. \E d : {x \in D : <<x, o>> \in R} = {d}
    BY <2>1, FS_Singleton
  <2> QED BY <2>2
<1>2. ASSUME NEW o \in O PROVE f[o] \in D /\ <<f[o], o>> \in R
  BY <1>1
<1>3. f \in Injection(O, D)
  <2> HIDE DEF f
  <2>1. f \in [O -> D]
    BY <1>2 DEF f
  <2> QED BY <1>2, <2>1 DEF Injection, IsInjective
<1>4. Cardinality(O) = Cardinality(D) <=> f \in Surjection(O, D)
  BY <1>3, FS_Injection
<1>5. ASSUME f \in Surjection(O, D), NEW d \in D PROVE \E o \in O : <<d, o>> \in R
  <2> HIDE DEF f
  <2> QED BY <1>2, <1>5 DEF Surjection
<1>6. ASSUME \A d \in D : \E o \in O : <<d, o>> \in R PROVE f \in Surjection(O, D)
  <2>1. ASSUME NEW d \in D PROVE \E o \in O : f[o] = d
    <3>1. PICK o \in O : <<d, o>> \in R
      BY <1>6
    <3>2. f[o] = d
      BY <1>1, <1>2, <3>1
    <3> QED BY <3>2
  <2> HIDE DEF f
  <2> QED BY <1>3, <2>1 DEF Injection, Surjection
<1> QED BY <1>4, <1>5, <1>6

-----------------------------------------------------------------------------
(* The first pass                                                          *)

\* Every kind of entry is one of these.
LEMMA EntryKind == \A e \in Entries : e.kind \in {"file", "dir", "special"} \cup Extensions
BY ArchiveInspectionAssumption, Zenon

\* The first pass begins with nothing.
LEMMA InitInv == Init => Inv
<1> SUFFICES ASSUME Init PROVE Inv
  OBVIOUS
<1>1. entries = <<>> /\ Len(entries) = 0 /\ entries \in Seq(Entries)
  BY DEF Init
<1>2. TypeInv
  BY <1>1 DEF Init, TypeInv, Past
<1>3. PreflightInv
  BY <1>1, NoBytes DEF Init, PreflightInv, Past
<1>4. PassInv
  BY DEF Init, PassInv, Past
<1> QED BY <1>2, <1>3, <1>4 DEF Inv

\* verify_expected_digest looks at nothing else.
LEMMA DigestKeeps ==
  ASSUME Inv, VerifyDigest PROVE Inv'
<1>1. /\ UNCHANGED <<entries, expectedSha, count, total_size, stream, pos, paths, hashes, manifest>>
      /\ phase = "digest" /\ phase' \in {"rejected", "preflight"}
      /\ phase' = "preflight" => expectedSha # "other"
  BY DEF VerifyDigest, Reject
<1>2. TypeInv'
  BY <1>1 DEF Inv, TypeInv
<1>3. PreflightInv'
  <2>1. entries = <<>> /\ Len(entries) = 0 /\ DOMAIN entries = {}
    BY <1>1 DEF Inv, PreflightInv
  <2>2. 0 <= MaxEntries /\ 0 <= MaxTotalSize
    BY ArchiveInspectionAssumption
  <2> QED BY <1>1, <2>1, <2>2, NoBytes DEF Inv, PreflightInv, Past
<1>4. PassInv'
  BY <1>1 DEF Inv, PassInv, Past
<1> QED BY <1>2, <1>3, <1>4 DEF Inv

\* One more raw entry: it is the last, and is counted with its size.
LEMMA RawCounted ==
  ASSUME Inv, NEW e \in Entries, RawEntry(e)
  PROVE  LET n == Len(entries) IN
         /\ entries \in Seq(Entries) /\ n \in Nat
         /\ entries' \in Seq(Entries) /\ Len(entries') = n + 1
         /\ \A i \in 1 .. n : entries'[i] = entries[i]
         /\ entries'[n + 1] = e
         /\ DOMAIN entries = 1 .. n /\ DOMAIN entries' = 1 .. n + 1
         /\ e.size \in Nat /\ e.kind \in {"file", "dir", "special"} \cup Extensions
         /\ count = n
         /\ total_size = Cardinality(Bytes(entries, n))
         /\ total_size \in Nat /\ count \in Nat /\ stream \in Nat /\ pos = 0
         /\ total_size' = Cardinality(Bytes(entries', n + 1)) /\ total_size' \in Nat
<1> DEFINE n == Len(entries)
<1>1. /\ UNCHANGED <<expectedSha, pos, paths, hashes, manifest>>
      /\ phase = "preflight" /\ phase' \in {"rejected", "preflight"}
      /\ phase' = "preflight" => ~RawRefused(e, count + 1, total_size)
      /\ entries' = Append(entries, e)
      /\ count' = count + 1
      /\ total_size' = IF e.kind \in Extensions THEN total_size ELSE total_size + e.size
      /\ stream' = stream + 1 + e.size
  BY DEF RawEntry, Reject
<1>2. /\ entries \in Seq(Entries) /\ n \in Nat
      /\ entries' \in Seq(Entries) /\ Len(entries') = n + 1
      /\ \A i \in 1 .. n : entries'[i] = entries[i]
      /\ entries'[n + 1] = e
      /\ DOMAIN entries = 1 .. n /\ DOMAIN entries' = 1 .. n + 1
  BY <1>1 DEF Inv, TypeInv
<1>3. e.size \in Nat /\ e.kind \in {"file", "dir", "special"} \cup Extensions
  BY EntrySize, EntryKind
<1>4. /\ count = n
      /\ total_size = Cardinality(Bytes(entries, n))
      /\ total_size \in Nat /\ count \in Nat /\ stream \in Nat /\ pos = 0
  BY <1>1 DEF Inv, TypeInv, PreflightInv, PassInv
<1>5. total_size' = Cardinality(Bytes(entries', n + 1)) /\ total_size' \in Nat
  <2>1. Bytes(entries', n) = Bytes(entries, n)
    BY <1>1, <1>2, BytesPrefix
  <2>2. Cardinality(Bytes(entries', n + 1)) = Cardinality(Bytes(entries', n)) +
          IF entries'[n + 1].kind \in Extensions THEN 0 ELSE entries'[n + 1].size
    <3>1. n \in 0 .. Len(entries') - 1
      BY <1>2
    <3> HIDE DEF n
    <3> QED BY <1>2, <3>1, BytesCount
  <2> HIDE DEF n
  <2> QED BY <1>1, <1>2, <1>3, <1>4, <2>1, <2>2
<1> QED BY <1>2, <1>3, <1>4, <1>5

\* What is let pass is within the limits, with all before it.
LEMMA RawKeeps ==
  ASSUME Inv, NEW e \in Entries, RawEntry(e) PROVE Inv'
<1> DEFINE n == Len(entries)
<1>1. /\ UNCHANGED <<expectedSha, pos, paths, hashes, manifest>>
      /\ phase = "preflight" /\ phase' \in {"rejected", "preflight"}
      /\ phase' = "preflight" => ~RawRefused(e, count + 1, total_size)
      /\ entries' = Append(entries, e)
      /\ count' = count + 1
      /\ total_size' = IF e.kind \in Extensions THEN total_size ELSE total_size + e.size
      /\ stream' = stream + 1 + e.size
  BY DEF RawEntry, Reject
<1>2. /\ entries \in Seq(Entries) /\ n \in Nat
      /\ entries' \in Seq(Entries) /\ Len(entries') = n + 1
      /\ \A i \in 1 .. n : entries'[i] = entries[i]
      /\ entries'[n + 1] = e
      /\ DOMAIN entries = 1 .. n /\ DOMAIN entries' = 1 .. n + 1
  BY RawCounted
<1>3. e.size \in Nat /\ e.kind \in {"file", "dir", "special"} \cup Extensions
  BY RawCounted
<1>4. /\ count = n
      /\ total_size = Cardinality(Bytes(entries, n))
      /\ total_size \in Nat /\ count \in Nat /\ stream \in Nat /\ pos = 0
  BY RawCounted
<1>5. total_size' = Cardinality(Bytes(entries', n + 1)) /\ total_size' \in Nat
  BY RawCounted
<1>6. TypeInv'
  <2> HIDE DEF n
  <2>1. stream' \in Nat /\ count' \in Nat /\ pos' \in Nat
    BY <1>1, <1>3, <1>4
  <2>2. pos' <= Len(entries')
    BY <1>1, <1>2, <1>4
  <2> QED BY <1>1, <1>2, <1>5, <2>1, <2>2 DEF Inv, TypeInv
<1>7. ASSUME phase' = "preflight"
      PROVE  /\ n + 1 <= MaxEntries
             /\ total_size' <= MaxTotalSize
             /\ Sound(e)
  <2> HIDE DEF n
  <2>1. total_size <= MaxTotalSize
    BY <1>1, <1>4 DEF Inv, PreflightInv, n
  <2>2. MaxEntries \in Nat /\ MaxTotalSize \in Nat /\ MaxExtension \in Nat /\ MaxEntrySize \in Nat
    BY ArchiveInspectionAssumption
  <2> QED BY <1>1, <1>2, <1>3, <1>4, <1>7, <2>1, <2>2 DEF RawRefused, Sound, Extensions
<1>8. PreflightInv'
  <2> HIDE DEF n
  <2>1. \A i \in DOMAIN entries : Sound(entries[i])
    BY <1>1 DEF Inv, PreflightInv
  <2>2. ASSUME phase' = "preflight" PROVE \A i \in DOMAIN entries' : Sound(entries'[i])
    <3> SUFFICES ASSUME NEW i \in 1 .. n + 1 PROVE Sound(entries'[i])
      BY <1>2
    <3>1. i \in 1 .. n \/ i = n + 1
      BY <1>2
    <3> QED BY <1>2, <1>7, <2>1, <2>2, <3>1
  <2>3. ASSUME phase' = "preflight"
        PROVE  \A i \in DOMAIN entries' : Sound(entries[i])'
    BY <2>2, <2>3 DEF Sound
  <2> QED BY <1>1, <1>2, <1>4, <1>5, <1>7, <2>3 DEF Inv, PreflightInv, Past
<1>9. PassInv'
  BY <1>1 DEF Inv, PassInv, Past
<1> QED BY <1>6, <1>8, <1>9 DEF Inv

\* The stream is measured to its end before the second pass begins.
LEMMA EndPreflightKeeps ==
  ASSUME Inv, NEW trailing \in 0 .. MaxTrailing, EndPreflight(trailing) PROVE Inv'
<1>1. /\ UNCHANGED <<entries, expectedSha, pos, paths, hashes, manifest>>
      /\ phase = "preflight" /\ phase' \in {"rejected", "entries"}
      /\ phase' = "entries" => ~(stream' > MaxStream)
      /\ stream' = stream + trailing /\ count' = 0 /\ total_size' = 0
  BY DEF EndPreflight, Reject
<1>2. stream \in Nat /\ MaxStream \in Nat /\ trailing \in Nat /\ stream' \in Nat
  BY <1>1, ArchiveInspectionAssumption DEF Inv, TypeInv
<1>3. TypeInv'
  BY <1>1, <1>2 DEF Inv, TypeInv, Past
<1>4. PreflightInv'
  BY <1>1, <1>2 DEF Inv, PreflightInv, Past, Sound
<1>5. PassInv'
  <2>1. pos' = 0 /\ paths' = {} /\ DOMAIN hashes' = {} /\ manifest' = [m |-> None, f |-> None]
    BY <1>1 DEF Inv, PassInv
  <2>2. Seen' = {}
    BY <1>1, <2>1 DEF Seen, Visible, Inv, TypeInv
  <2> QED BY <1>1, <2>1, <2>2, NoBytes DEF PassInv, Past
<1> QED BY <1>3, <1>4, <1>5 DEF Inv

-----------------------------------------------------------------------------
(* The second pass                                                         *)

\* The code takes the leading "./" away; Name leaves it out.
LEMMA NameIsNormalized ==
  ASSUME TypeInv, NEW i \in DOMAIN entries
  PROVE  Name(i) = normalized(entries[i].path)
<1> DEFINE p == entries[i].path
<1>1. entries[i] \in Entries
  BY DEF TypeInv
<1>2. p = [name |-> p.name, form |-> p.form]
  BY <1>1, ArchiveInspectionAssumption, Zenon
<1>3. \A n, f : LET q == [name |-> n, form |-> f] IN
         normalized(q) = [name |-> n, form |-> IF f = "dot" THEN "plain" ELSE f]
  BY DEF normalized
<1>4. normalized(p) = [name |-> p.name, form |-> IF p.form = "dot" THEN "plain" ELSE p.form]
  <2> DEFINE a == p.name
             b == p.form
  <2>1. p = [name |-> a, form |-> b]
    BY <1>2
  <2> HIDE DEF p, a, b
  <2>2. normalized(p) = [name |-> a, form |-> IF b = "dot" THEN "plain" ELSE b]
    BY <1>3, <2>1
  <2> QED BY <2>2 DEF a, b
<1> QED BY <1>4 DEF Name

\* The size and number that the second pass finds are within limits already, and
\* its counters are those of what it has seen.
LEMMA WithinLimits ==
  ASSUME Inv, phase = "entries", pos < Len(entries)
  PROVE  LET e == entries[pos + 1] IN
         /\ e \in Entries /\ e.size \in Nat /\ Sound(e)
         /\ pos + 1 \in DOMAIN entries /\ pos \in Nat
         /\ total_size \in Nat /\ count \in Nat /\ count + 1 <= MaxEntries
         /\ Cardinality(Bytes(entries, pos + 1)) =
              total_size + IF e.kind \in Extensions THEN 0 ELSE e.size
         /\ Cardinality(Bytes(entries, pos + 1)) <= MaxTotalSize
         /\ MaxTotalSize \in Nat
<1> DEFINE e == entries[pos + 1]
           n == Len(entries)
<1>1. /\ entries \in Seq(Entries) /\ n \in Nat /\ pos \in 0 .. n - 1
      /\ DOMAIN entries = 1 .. n /\ pos + 1 \in 1 .. n /\ pos \in Nat
  BY DEF Inv, TypeInv
<1>2. e \in Entries /\ e.size \in Nat
  <2>1. e \in Entries
    BY <1>1
  <2> QED BY <2>1, EntrySize
<1>3. /\ Sound(e) /\ n <= MaxEntries /\ Cardinality(Bytes(entries, n)) <= MaxTotalSize
      /\ count <= pos /\ total_size = Cardinality(Bytes(entries, pos))
      /\ count \in Nat /\ total_size \in Nat
  BY <1>1 DEF Inv, PreflightInv, PassInv, TypeInv, Past
<1>4. MaxEntries \in Nat /\ MaxTotalSize \in Nat
  BY ArchiveInspectionAssumption
<1>5. /\ Cardinality(Bytes(entries, pos + 1)) = total_size +
           IF e.kind \in Extensions THEN 0 ELSE e.size
      /\ Cardinality(Bytes(entries, n)) \in Nat
      /\ Cardinality(Bytes(entries, pos + 1)) <= Cardinality(Bytes(entries, n))
  BY <1>1, <1>3, BytesCount
<1>6. count + 1 <= MaxEntries
  BY <1>1, <1>3, <1>4
<1>7. Cardinality(Bytes(entries, pos + 1)) \in Nat
  <2>1. pos + 1 \in 0 .. n
    BY <1>1
  <2> QED BY <1>1, <2>1, BytesFinite, FS_CardinalityType
<1>8. Cardinality(Bytes(entries, pos + 1)) <= MaxTotalSize
  <2> HIDE DEF n
  <2> QED BY <1>3, <1>4, <1>5, <1>7
<1> QED BY <1>1, <1>2, <1>3, <1>4, <1>5, <1>6, <1>8

\* tar reads a member's header by itself.
LEMMA HeaderKeeps ==
  ASSUME Inv, NextEntry, entries[pos + 1].kind \in MemberHeaders, phase' # "rejected"
  PROVE  Inv'
<1>1. /\ UNCHANGED <<entries, expectedSha, stream, phase, count, total_size, paths, hashes, manifest>>
      /\ phase = "entries" /\ pos < Len(entries) /\ pos' = pos + 1
  BY DEF NextEntry, ReadHeader, Reject
<1>2. /\ pos + 1 \in DOMAIN entries /\ pos \in Nat
      /\ Cardinality(Bytes(entries, pos + 1)) = total_size
      /\ entries \in Seq(Entries) /\ Len(entries) \in Nat /\ count \in Nat
  BY <1>1, WithinLimits DEF Inv, TypeInv, Extensions
<1>3. Seen' = Seen
  BY <1>1, <1>2 DEF Seen, Visible
<1>4. TypeInv'
  BY <1>1, <1>2 DEF Inv, TypeInv
<1>5. PreflightInv'
  BY <1>1 DEF Inv, PreflightInv, Past, Sound
<1>6. PassInv'
  <2>1. \A i : Name(i)' = Name(i) /\ (Proper(i)' <=> Proper(i))
              /\ (\A p : Holds(i, p)' <=> Holds(i, p))
    BY <1>1 DEF Name, Proper, Holds
  <2>2. PassInv
    BY DEF Inv
  <2>3. count <= pos'
    BY <1>1, <1>2, <2>2 DEF PassInv, Past
  <2> QED BY <1>1, <1>2, <1>3, <2>1, <2>2, <2>3 DEF PassInv, Past
<1> QED BY <1>4, <1>5, <1>6 DEF Inv

\* What is inspected and not refused is recorded under its name, which is new.
LEMMA InspectKeeps ==
  ASSUME Inv, NextEntry, entries[pos + 1].kind \notin MemberHeaders,
         ~EntryRefused(entries[pos + 1])
  PROVE  Inv'
<1> DEFINE k == pos + 1
           e == entries[k]
           p == Name(k)
<1>1. /\ UNCHANGED <<entries, expectedSha, stream, phase>>
      /\ phase = "entries" /\ pos < Len(entries) /\ pos' = k
      /\ Inspect(e)
  BY DEF NextEntry, Inspect
<1>12. e.kind \in {"file", "dir"} /\ e.kind \notin Extensions
  BY DEF EntryRefused, Extensions, MemberHeaders
<1>2. /\ k \in DOMAIN entries /\ pos \in Nat /\ e \in Entries /\ e.size \in Nat
      /\ Cardinality(Bytes(entries, k)) = total_size + e.size
      /\ entries \in Seq(Entries) /\ Len(entries) \in Nat
      /\ count \in Nat /\ total_size \in Nat
  BY <1>1, <1>12, WithinLimits DEF Inv, TypeInv
<1>3. p = normalized(e.path)
  BY <1>2, NameIsNormalized DEF Inv
<1>4. /\ count' = count + 1
      /\ total_size' = total_size + e.size
      /\ paths' = paths \cup {p}
      /\ e.kind = "dir" => UNCHANGED <<hashes, manifest>>
      /\ e.kind # "dir" =>
           /\ hashes' = [q \in DOMAIN hashes \cup {p} |-> IF q = p THEN e.content ELSE hashes[q]]
           /\ manifest' = [m |-> IF p = MANIFEST THEN e.content ELSE manifest.m,
                           f |-> IF p = FILES THEN e.content ELSE manifest.f]
  BY <1>1, <1>3 DEF Inspect
<1>5. /\ e.kind \in {"file", "dir"}
      /\ e.path.form \notin {"unsafe", "empty"}
      /\ p \notin paths
      /\ e.kind = "file" /\ p = MANIFEST => ~(e.size > MaxManifest)
      /\ e.kind = "file" /\ p = FILES => ~(e.size > MaxFiles)
  BY <1>3 DEF EntryRefused
<1>6. Seen' = Seen \cup {k} /\ k \notin Seen
  BY <1>1, <1>2 DEF Seen, Visible
<1>7. /\ \A i : Name(i)' = Name(i) /\ (Proper(i)' <=> Proper(i))
              /\ (\A q : Holds(i, q)' <=> Holds(i, q))
  BY <1>1 DEF Name, Proper, Holds
<1>8. Proper(k)
  <2>1. MaxManifest \in Nat /\ MaxFiles \in Nat
    BY ArchiveInspectionAssumption
  <2> QED BY <1>2, <1>5, <2>1 DEF Proper, Holds
<1>9. TypeInv'
  BY <1>1, <1>2, <1>4 DEF Inv, TypeInv
<1>10. PreflightInv'
  BY <1>1 DEF Inv, PreflightInv, Past, Sound
<1>11. PassInv'
  <2>1. /\ count <= pos
        /\ paths = {Name(i) : i \in Seen}
        /\ \A i, j \in Seen : Name(i) = Name(j) => i = j
        /\ \A i \in Seen : Proper(i)
        /\ DOMAIN hashes = {Name(i) : i \in {x \in Seen : entries[x].kind = "file"}}
        /\ \A i \in Seen : entries[i].kind = "file" => hashes[Name(i)] = entries[i].content
        /\ \A i \in Seen : Holds(i, MANIFEST) => manifest.m = entries[i].content
        /\ \A i \in Seen : Holds(i, FILES) => manifest.f = entries[i].content
        /\ manifest.m # None => \E i \in Seen : Holds(i, MANIFEST)
        /\ manifest.f # None => \E i \in Seen : Holds(i, FILES)
    BY <1>1 DEF Inv, PassInv, Past
  <2>2. \A i \in Seen : Name(i) # p
    BY <1>5, <2>1
  <2>3. count' <= pos' /\ total_size' = Cardinality(Bytes(entries, pos'))
    BY <1>1, <1>2, <1>4, <2>1
  <2>4. paths' = {Name(i) : i \in Seen'}
    BY <1>4, <1>6, <2>1
  <2>5. \A i, j \in Seen' : Name(i) = Name(j) => i = j
    BY <1>6, <2>1, <2>2
  <2>6. \A i \in Seen' : Proper(i)
    BY <1>6, <1>8, <2>1
  <2>7. DOMAIN hashes' = {Name(i) : i \in {x \in Seen' : entries[x].kind = "file"}}
    <3>1. CASE e.kind = "dir"
      <4>1. {x \in Seen' : entries[x].kind = "file"} = {x \in Seen : entries[x].kind = "file"}
        BY <1>6, <3>1
      <4> QED BY <1>4, <2>1, <3>1, <4>1
    <3>2. CASE e.kind = "file"
      <4>1. {x \in Seen' : entries[x].kind = "file"} = {x \in Seen : entries[x].kind = "file"} \cup {k}
        BY <1>6, <3>2
      <4>2. DOMAIN hashes' = DOMAIN hashes \cup {p}
        BY <1>4, <3>2
      <4> HIDE DEF k, p
      <4> QED BY <2>1, <4>1, <4>2 DEF p
    <3> QED BY <1>5, <3>1, <3>2
  <2>8. \A i \in Seen' : entries[i].kind = "file" => hashes'[Name(i)] = entries[i].content
    <3>1. CASE e.kind = "dir"
      BY <1>4, <1>6, <2>1, <3>1
    <3>2. ASSUME e.kind = "file", NEW i \in Seen', entries[i].kind = "file"
          PROVE  hashes'[Name(i)] = entries[i].content
      <4>1. hashes' = [q \in DOMAIN hashes \cup {p} |-> IF q = p THEN e.content ELSE hashes[q]]
        BY <1>4, <3>2
      <4>2. CASE i = k
        BY <4>1, <4>2
      <4>3. CASE i \in Seen
        <5>1. Name(i) \in DOMAIN hashes /\ Name(i) # p /\ hashes[Name(i)] = entries[i].content
          BY <2>1, <2>2, <3>2, <4>3
        <5> HIDE DEF p
        <5> QED BY <4>1, <5>1
      <4> QED BY <1>6, <3>2, <4>2, <4>3
    <3> QED BY <1>5, <3>1, <3>2
  <2>9. e.kind = "file" => e.content # None
    BY <1>2, ArchiveInspectionAssumption, Zenon
  <2>10. /\ manifest'.m = IF Holds(k, MANIFEST) THEN e.content ELSE manifest.m
         /\ manifest'.f = IF Holds(k, FILES) THEN e.content ELSE manifest.f
    BY <1>4, <1>5 DEF Holds
  <2>11. /\ \A i \in Seen : Holds(i, MANIFEST) => ~Holds(k, MANIFEST)
         /\ \A i \in Seen : Holds(i, FILES) => ~Holds(k, FILES)
    BY <2>2 DEF Holds
  <2>12. /\ \A i \in Seen' : Holds(i, MANIFEST) => manifest'.m = entries[i].content
         /\ \A i \in Seen' : Holds(i, FILES) => manifest'.f = entries[i].content
         /\ manifest'.m # None => \E i \in Seen' : Holds(i, MANIFEST)
         /\ manifest'.f # None => \E i \in Seen' : Holds(i, FILES)
    <3> HIDE DEF k
    <3> QED BY <1>6, <2>1, <2>10, <2>11
  <2> HIDE DEF k, e, p
  <2> QED BY <1>1, <1>7, <2>3, <2>4, <2>5, <2>6, <2>7, <2>8, <2>12 DEF PassInv, Past
<1> QED BY <1>9, <1>10, <1>11 DEF Inv

\* A refusal ends the pass, and changes nothing else that matters.
LEMMA RefusalKeeps ==
  ASSUME Inv, NextEntry, phase' = "rejected"
  PROVE  Inv'
<1>1. /\ UNCHANGED <<entries, expectedSha, stream, count, total_size>>
      /\ phase = "entries" /\ pos < Len(entries) /\ pos' = pos + 1
  BY DEF NextEntry, ReadHeader, Inspect
<1> QED BY <1>1 DEF Inv, TypeInv, PreflightInv, PassInv, Past

\* The second pass ends at the end, and needs both manifests.
LEMMA EndEntriesKeeps ==
  ASSUME Inv, EndEntries PROVE Inv'
<1>1. /\ UNCHANGED <<entries, expectedSha, count, total_size, stream, pos, paths, hashes, manifest>>
      /\ phase = "entries" /\ pos = Len(entries) /\ phase' \in {"rejected", "manifests"}
      /\ phase' = "manifests" => None \notin {manifest.m, manifest.f}
  BY DEF EndEntries, Reject
<1>2. TypeInv'
  BY <1>1 DEF Inv, TypeInv, Past
<1>3. PreflightInv'
  BY <1>1 DEF Inv, PreflightInv, Past, Sound
<1>4. PassInv'
  <2>1. /\ Seen' = Seen
        /\ \A i : Name(i)' = Name(i) /\ (Proper(i)' <=> Proper(i))
                /\ (\A q : Holds(i, q)' <=> Holds(i, q))
    BY <1>1 DEF Seen, Visible, Name, Proper, Holds
  <2> QED BY <1>1, <2>1 DEF Inv, PassInv, Past
<1> QED BY <1>2, <1>3, <1>4 DEF Inv

\* The verdict keeps what was found, and "accepted" is given to what was checked.
LEMMA CheckKeeps ==
  ASSUME Inv, CheckManifests PROVE Inv'
<1>1. /\ UNCHANGED <<entries, expectedSha, count, total_size, stream, pos, paths, hashes, manifest>>
      /\ phase = "manifests" /\ phase' \in {"rejected", "accepted"}
      /\ phase' = "accepted" => validate_files(manifest.m, manifest.f) /\ ValidMeta(manifest.m)
  BY DEF CheckManifests, Reject
<1>2. TypeInv'
  BY <1>1 DEF Inv, TypeInv, Past
<1>3. PreflightInv'
  BY <1>1 DEF Inv, PreflightInv, Past, Sound
<1>4. PassInv'
  <2>1. /\ Seen' = Seen
        /\ \A i : Name(i)' = Name(i) /\ (Proper(i)' <=> Proper(i))
                /\ (\A q : Holds(i, q)' <=> Holds(i, q))
        /\ validate_files(manifest.m, manifest.f)' <=> validate_files(manifest.m, manifest.f)
        /\ ValidMeta(manifest.m)' <=> ValidMeta(manifest.m)
    BY <1>1 DEF Seen, Visible, Name, Proper, Holds, validate_files, Matches, ValidMeta
  <2> QED BY <1>1, <2>1 DEF Inv, PassInv, Past
<1> QED BY <1>2, <1>3, <1>4 DEF Inv

\* Nothing changes what was found while nothing changes.
LEMMA PassKept ==
  ASSUME PassInv,
         UNCHANGED <<entries, expectedSha, phase, count, total_size, stream, pos>>,
         UNCHANGED <<paths, hashes, manifest>>
  PROVE  PassInv'
<1>1. /\ Seen' = Seen
      /\ \A i : Name(i)' = Name(i) /\ (Proper(i)' <=> Proper(i))
              /\ (\A q : Holds(i, q)' <=> Holds(i, q))
      /\ validate_files(manifest.m, manifest.f)' <=> validate_files(manifest.m, manifest.f)
      /\ ValidMeta(manifest.m)' <=> ValidMeta(manifest.m)
  BY DEF Seen, Visible, Name, Proper, Holds, validate_files, Matches, ValidMeta
<1>2. CASE phase \in Past
  BY <1>1, <1>2 DEF PassInv, Past
<1>3. CASE phase \notin Past
  BY <1>3 DEF PassInv, Past
<1> QED BY <1>2, <1>3

\* The invariant is inductive.
LEMMA InvKept == Inv /\ [Next]_vars => Inv'
<1> SUFFICES ASSUME Inv, [Next]_vars PROVE Inv'
  OBVIOUS
<1>1. CASE NextEntry
  <2>1. CASE phase' = "rejected"
    BY <1>1, <2>1, RefusalKeeps
  <2>2. CASE phase' # "rejected" /\ entries[pos + 1].kind \in MemberHeaders
    BY <1>1, <2>2, HeaderKeeps
  <2>3. CASE phase' # "rejected" /\ entries[pos + 1].kind \notin MemberHeaders
    BY <1>1, <2>3, InspectKeeps DEF NextEntry, Reject
  <2> QED BY <2>1, <2>2, <2>3
<1>2. CASE UNCHANGED vars
  <2> /\ UNCHANGED <<entries, expectedSha, phase, count, total_size, stream, pos>>
      /\ UNCHANGED <<paths, hashes, manifest>>
    BY <1>2 DEF vars
  <2>1. TypeInv'
    BY DEF Inv, TypeInv
  <2>2. PreflightInv'
    BY DEF Inv, PreflightInv, Sound
  <2>3. PassInv'
    BY PassKept DEF Inv
  <2> QED BY <2>1, <2>2, <2>3 DEF Inv
<1> QED BY <1>1, <1>2, DigestKeeps, RawKeeps, EndPreflightKeeps, EndEntriesKeeps, CheckKeeps DEF Next

\* So it holds always.
LEMMA InvHolds == Spec => []Inv
BY InitInv, InvKept, PTL DEF Spec

-----------------------------------------------------------------------------
(* The headers of the members                                              *)

\* What a header describes is a matter of the archive alone.
LEMMA SameFrames ==
  ASSUME UNCHANGED entries PROVE Visible' = Visible /\ \A i : Framed(i)' <=> Framed(i)
<1>1. Visible' = Visible
  BY DEF Visible
<1> QED BY <1>1 DEF Framed

\* One header more: it is open, and of a sort that was not.
LEMMA HeaderRead ==
  ASSUME TypeInv, HeadersInv, NextEntry, entries[pos + 1].kind \in MemberHeaders,
         phase' # "rejected"
  PROVE  HeadersInv'
<1> DEFINE n == pos + 1
           e == entries[n]
<1>1. /\ phase = "entries" /\ phase' = "entries" /\ pos' = n /\ UNCHANGED entries
      /\ e.kind \notin headers /\ headers' = headers \cup {e.kind}
  BY DEF NextEntry, ReadHeader, Reject
<1>2. /\ pos \in Nat /\ n \in DOMAIN entries /\ DOMAIN entries = 1 .. Len(entries)
      /\ Len(entries) \in Nat
  BY DEF TypeInv, NextEntry
<1>3. /\ headers = {entries[i].kind : i \in Open}
      /\ \A i \in DOMAIN entries \ Visible : i <= pos =>
           \/ Framed(i)
           \/ i \in Open /\ \A k \in i + 1 .. pos : entries[k].kind # entries[i].kind
  BY <1>1 DEF HeadersInv, Past
<1>4. Open' = Open \cup {n}
  BY <1>1, <1>2 DEF Open
<1>5. headers' = {entries[i].kind : i \in Open'}
  <2> HIDE DEF n
  <2> QED BY <1>1, <1>3, <1>4
<1>6. ASSUME NEW i \in DOMAIN entries \ Visible, i <= n, ~Framed(i)
      PROVE  i \in Open' /\ \A k \in i + 1 .. n : entries[k].kind # entries[i].kind
  <2>1. CASE i = n
    BY <1>2, <1>4, <2>1
  <2>2. CASE i # n
    <3>1. i \in Open /\ \A k \in i + 1 .. pos : entries[k].kind # entries[i].kind
      BY <1>2, <1>3, <1>6, <2>2
    <3>2. e.kind # entries[i].kind
      BY <1>1, <1>3, <3>1
    <3> QED BY <1>2, <1>4, <3>1, <3>2
  <2> QED BY <2>1, <2>2
<1> HIDE DEF n, e
<1> QED BY <1>1, <1>5, <1>6, SameFrames DEF HeadersInv, Past

\* A member takes the headers before it: none is open any more.
LEMMA MemberRead ==
  ASSUME TypeInv, HeadersInv, NextEntry, entries[pos + 1].kind \notin MemberHeaders,
         phase' # "rejected"
  PROVE  HeadersInv'
<1> DEFINE n == pos + 1
<1>1. /\ phase = "entries" /\ phase' = "entries" /\ pos' = n /\ UNCHANGED entries
      /\ headers' = {}
  BY DEF NextEntry, Inspect, Reject
<1>2. /\ pos \in Nat /\ n \in DOMAIN entries /\ DOMAIN entries = 1 .. Len(entries)
      /\ Len(entries) \in Nat
  BY DEF TypeInv, NextEntry
<1>3. \A i \in DOMAIN entries \ Visible : i <= pos =>
           \/ Framed(i)
           \/ i \in Open /\ \A k \in i + 1 .. pos : entries[k].kind # entries[i].kind
  BY <1>1 DEF HeadersInv, Past
<1>4. Open' = {}
  BY <1>1, <1>2 DEF Open
<1>5. n \in Visible
  BY <1>2 DEF Visible
<1>6. ASSUME NEW i \in DOMAIN entries \ Visible, i <= n PROVE Framed(i)
  <2>1. i <= pos /\ i < n /\ n - 1 = pos
    BY <1>2, <1>5, <1>6
  <2> QED BY <1>3, <1>5, <2>1 DEF Framed
<1> HIDE DEF n
<1> QED BY <1>1, <1>4, <1>6, SameFrames DEF HeadersInv, Past

\* What tar remembers of headers is right, along every behaviour.
LEMMA HeadersHold == Spec => []HeadersInv
<1>1. Init => HeadersInv
  BY DEF Init, HeadersInv, Past
<1>2. Inv /\ HeadersInv /\ [Next]_vars => HeadersInv'
  <2> SUFFICES ASSUME Inv, HeadersInv, [Next]_vars PROVE HeadersInv'
    OBVIOUS
  <2>1. CASE VerifyDigest
    BY <2>1 DEF VerifyDigest, Reject, HeadersInv, Past
  <2>2. ASSUME NEW e \in Entries, RawEntry(e) PROVE HeadersInv'
    BY <2>2 DEF RawEntry, Reject, HeadersInv, Past
  <2>3. ASSUME NEW trailing \in 0 .. MaxTrailing, EndPreflight(trailing) PROVE HeadersInv'
    <3>1. /\ phase' \in {"rejected", "entries"} /\ headers' = {} /\ pos' = 0
          /\ DOMAIN entries' = 1 .. Len(entries') /\ Len(entries') \in Nat
      BY <2>3 DEF EndPreflight, Reject, HeadersInv, Inv, TypeInv, PassInv
    <3>2. Open' = {} /\ \A i \in DOMAIN entries' : ~(i <= pos')
      BY <3>1 DEF Open
    <3> QED BY <3>1, <3>2 DEF HeadersInv, Past
  <2>4. CASE NextEntry
    <3>1. CASE phase' = "rejected"
      BY <3>1 DEF HeadersInv, Past
    <3> QED BY <2>4, <3>1, HeaderRead, MemberRead DEF Inv
  <2>5. CASE EndEntries \/ CheckManifests \/ UNCHANGED vars
    <3>1. /\ UNCHANGED <<entries, pos, headers>>
          /\ \/ phase' = "rejected" \/ phase' = phase
             \/ phase \in Past /\ phase' \in {"manifests", "accepted"} /\ headers = {}
      BY <2>5 DEF EndEntries, CheckManifests, Reject, vars, HeadersInv, Past
    <3>2. Open' = Open
      BY <3>1 DEF Open
    <3> QED BY <3>1, <3>2, SameFrames DEF HeadersInv, Past
  <2> QED BY <2>1, <2>2, <2>3, <2>4, <2>5 DEF Next
<1> QED BY <1>1, <1>2, InvHolds, PTL DEF Spec

\* A second header of a sort for one member.
LEMMA DoubleHeader ==
  ASSUME Inv, HeadersInv, NextEntry, entries[pos + 1].kind \in MemberHeaders,
         phase' = "rejected"
  PROVE  ~Conforms
<1> DEFINE n == pos + 1
<1>1. phase = "entries" /\ entries[n].kind \in headers
  BY DEF NextEntry, ReadHeader
<1>2. PICK i \in Open : entries[i].kind = entries[n].kind
  BY <1>1 DEF HeadersInv, Past
<1>3. /\ pos \in Nat /\ n \in DOMAIN entries /\ DOMAIN entries = 1 .. Len(entries)
      /\ Len(entries) \in Nat /\ i \in Nat /\ i <= pos
  BY DEF Inv, TypeInv, NextEntry, Open
<1>4. i \in DOMAIN entries \ Visible
  BY <1>3 DEF Open, Visible
<1>5. ASSUME NEW j \in Visible, i < j PROVE n \in i + 1 .. j - 1
  <2>1. j \in Nat /\ j \notin i .. pos /\ j # n
    BY <1>3, <1>5 DEF Visible, Open
  <2> QED BY <1>3, <1>5, <2>1
<1>6. ~Framed(i)
  BY <1>2, <1>5 DEF Framed
<1> QED BY <1>4, <1>6 DEF Conforms

\* A header that no member follows.
LEMMA DanglingHeader ==
  ASSUME Inv, HeadersInv, EndEntries, headers # {}
  PROVE  ~Conforms
<1>1. phase = "entries" /\ pos = Len(entries)
  BY DEF EndEntries
<1>2. PICK i \in Open : TRUE
  BY <1>1 DEF HeadersInv, Past
<1>3. /\ DOMAIN entries = 1 .. Len(entries) /\ Len(entries) \in Nat /\ i \in Nat /\ i <= pos
  BY DEF Inv, TypeInv, Open
<1>4. i \in DOMAIN entries \ Visible
  BY <1>3 DEF Open, Visible
<1>5. ~Framed(i)
  BY <1>1, <1>3 DEF Framed, Open, Visible
<1> QED BY <1>4, <1>5 DEF Conforms

-----------------------------------------------------------------------------
(* The verdict                                                             *)

\* An archive that reaches the manifests is within all limits.
LEMMA PassedIsSmall ==
  ASSUME Inv, phase \in {"manifests", "accepted"} PROVE Small
<1>1. pos = Len(entries) /\ DOMAIN entries = 1 .. Len(entries) /\ Len(entries) \in Nat
  BY DEF Inv, TypeInv, PassInv
<1>2. \A i \in Visible : i \in Seen /\ Proper(i)
  BY <1>1 DEF Inv, PassInv, Past, Seen, Visible
<1>3. /\ Len(entries) <= MaxEntries /\ stream <= MaxStream
      /\ Cardinality(Bytes(entries, Len(entries))) <= MaxTotalSize
      /\ \A i \in DOMAIN entries : Sound(entries[i])
  BY DEF Inv, PreflightInv, Past
<1>4. ASSUME NEW i \in DOMAIN entries
      PROVE  /\ entries[i].kind # "pax_size"
             /\ entries[i].size <= IF entries[i].kind \in Extensions THEN MaxExtension
                                   ELSE MaxEntrySize
  BY <1>3 DEF Sound, MemberHeaders
<1>5. ASSUME NEW i \in DOMAIN entries
      PROVE  /\ Holds(i, MANIFEST) => entries[i].size <= MaxManifest
             /\ Holds(i, FILES) => entries[i].size <= MaxFiles
  <2>1. entries[i].kind = "file" => i \in Visible
    BY DEF Visible, MemberHeaders
  <2> QED BY <1>2, <2>1 DEF Proper, Holds
<1> QED BY <1>3, <1>4, <1>5 DEF Small

\* Whether validate_files compares sets and looks names up, or Described counts:
\* it is the same, once every name is known to be of one entry.
LEMMA FilesDescribed ==
  ASSUME Inv, phase \in {"manifests", "accepted"},
         NEW m \in Visible, NEW f \in Visible, Holds(m, MANIFEST), Holds(f, FILES)
  PROVE  (validate_files(manifest.m, manifest.f) /\ ValidMeta(manifest.m)) <=> Described(m, f)
<1> DEFINE list == entries[f].content
           D == {d \in DOMAIN list : list[d].ftype = "file"}
           O == {i \in Visible \ {m, f} : entries[i].kind = "file"}
           R == {r \in D \X O : /\ list[r[1]].path = Name(r[2])
                                /\ list[r[1]].content = entries[r[2]].content}
<1>1. /\ pos = Len(entries) /\ DOMAIN entries = 1 .. Len(entries) /\ Len(entries) \in Nat
      /\ entries \in Seq(Entries)
  BY DEF Inv, TypeInv, PassInv
<1>2. Seen = Visible
  BY <1>1 DEF Seen, Visible
<1>3. /\ \A i, j \in Visible : Name(i) = Name(j) => i = j
      /\ DOMAIN hashes = {Name(i) : i \in {k \in Visible : entries[k].kind = "file"}}
      /\ \A i \in Visible : entries[i].kind = "file" => hashes[Name(i)] = entries[i].content
      /\ manifest.m = entries[m].content /\ manifest.f = list
  BY <1>2 DEF Inv, PassInv, Past
<1>4. Name(m) = MANIFEST /\ Name(f) = FILES /\ entries[m].kind = "file" /\ entries[f].kind = "file"
  BY DEF Holds
<1>5. IsFiniteSet(O)
  <2>1. O \subseteq 1 .. Len(entries)
    BY <1>1 DEF Visible
  <2> QED BY <1>1, <2>1, Places, FS_Subset
<1>6. IsFiniteSet(D)
  <2>1. entries[f] \in Entries
    BY <1>1 DEF Visible
  <2>2. entries[f].path.name = FILES.name
    BY <1>4 DEF Name, FILES
  <2>3. IsFiniteSet(DOMAIN list)
    BY <1>4, <2>1, <2>2, ArchiveInspectionAssumption, Zenon
  <2> HIDE DEF list
  <2> QED BY <2>3, FS_Subset
<1>7. DOMAIN hashes \ {MANIFEST, FILES} = {Name(o) : o \in O}
  <2> HIDE DEF list
  <2> QED BY <1>3, <1>4
<1>8. \A d \in D, o \in O : <<d, o>> \in R <=> list[d].path = Name(o)
                                              /\ list[d].content = entries[o].content
  <2> HIDE DEF list, D, O
  <2> QED OBVIOUS
<1>9. \A d \in D : \A o, p \in O : <<d, o>> \in R /\ <<d, p>> \in R => o = p
  <2> HIDE DEF list, D, R
  <2> QED BY <1>3, <1>8
<1>10. \A o \in O : {d \in D : <<d, o>> \in R}
          = {d \in D : list[d].path = Name(o) /\ list[d].content = entries[o].content}
  <2> HIDE DEF list, D, O, R
  <2> QED BY <1>8
<1>11. hashes[FILES] = list
  BY <1>3, <1>4
<1>12. /\ DeclaredFiles(list) = D
       /\ validate_files(manifest.m, manifest.f) <=>
            /\ \A c, d \in D : list[c].path = list[d].path => c = d
            /\ \A d \in D : list[d].path \in DOMAIN hashes /\ hashes[list[d].path] = list[d].content
            /\ {list[d].path : d \in D} = {Name(o) : o \in O}
            /\ entries[m].content.files = list
  <2>1. DeclaredFiles(list) = D
    BY DEF DeclaredFiles
  <2> HIDE DEF D, O
  <2>2. validate_files(manifest.m, list) <=>
          /\ Matches(list)
          /\ {list[d].path : d \in D} = {Name(o) : o \in O}
          /\ hashes[FILES] = manifest.m.files
    BY <1>7, <2>1 DEF validate_files
  <2>3. Matches(list) <=>
          /\ \A c, d \in D : list[c].path = list[d].path => c = d
          /\ \A d \in D : list[d].path \in DOMAIN hashes /\ hashes[list[d].path] = list[d].content
    BY <2>1 DEF Matches
  <2>4. hashes[FILES] = manifest.m.files <=> entries[m].content.files = list
    BY <1>3, <1>11
  <2> HIDE DEF list
  <2> QED BY <1>3, <2>1, <2>2, <2>3, <2>4
<1>13. Described(m, f) <=>
         /\ ValidMeta(manifest.m)
         /\ entries[m].content.files = list
         /\ \A o \in O : Cardinality({d \in D : <<d, o>> \in R}) = 1
         /\ Cardinality(D) = Cardinality(O)
  <2>1. ValidMeta(manifest.m) <=> entries[m].content.valid
    BY <1>3 DEF ValidMeta
  <2>2. \A o \in O : Cardinality({d \in D : <<d, o>> \in R}) = Cardinality({d \in D :
          list[d].path = Name(o) /\ list[d].content = entries[o].content})
    <3> HIDE DEF list, D, O, R
    <3> QED BY <1>10
  <2>3. Described(m, f) <=>
         /\ entries[m].content.valid
         /\ entries[m].content.files = list
         /\ \A o \in O : Cardinality({d \in D :
              list[d].path = Name(o) /\ list[d].content = entries[o].content}) = 1
         /\ Cardinality(D) = Cardinality(O)
    BY DEF Described
  <2> HIDE DEF list, D, O, R
  <2> QED BY <2>1, <2>2, <2>3
<1> HIDE DEF list, D, R
<1>14. ASSUME validate_files(manifest.m, manifest.f)
       PROVE  /\ \A o \in O : Cardinality({d \in D : <<d, o>> \in R}) = 1
              /\ \A d \in D : \E o \in O : <<d, o>> \in R
  <2>1. ASSUME NEW o \in O PROVE \E d \in D : {x \in D : <<x, o>> \in R} = {d}
    <3>1. PICK d \in D : list[d].path = Name(o)
      BY <1>12, <1>14
    <3>2. list[d].content = entries[o].content
      BY <1>3, <1>12, <1>14, <3>1
    <3>3. \A x \in D : <<x, o>> \in R <=> x = d
      BY <1>8, <1>12, <1>14, <3>1, <3>2
    <3> QED BY <3>3
  <2>2. ASSUME NEW d \in D PROVE \E o \in O : <<d, o>> \in R
    <3>1. PICK o \in O : list[d].path = Name(o)
      BY <1>12, <1>14
    <3>2. list[d].content = entries[o].content
      BY <1>3, <1>12, <1>14, <3>1
    <3> QED BY <1>8, <3>1, <3>2
  <2> HIDE DEF O
  <2> QED BY <2>1, <2>2, FS_Singleton
<1>15. ASSUME \A o \in O : Cardinality({d \in D : <<d, o>> \in R}) = 1,
              \A d \in D : \E o \in O : <<d, o>> \in R,
              entries[m].content.files = list
       PROVE  validate_files(manifest.m, manifest.f)
  <2>1. ASSUME NEW o \in O PROVE \E d : {x \in D : <<x, o>> \in R} = {d}
    <3>1. IsFiniteSet({x \in D : <<x, o>> \in R})
      BY <1>6, FS_Subset
    <3> QED BY <1>15, <3>1, FS_Singleton
  <2>2. ASSUME NEW c \in D, NEW d \in D, list[c].path = list[d].path PROVE c = d
    <3>1. PICK o \in O : <<c, o>> \in R
      BY <1>15
    <3>2. PICK p \in O : <<d, p>> \in R
      BY <1>15
    <3>3. Name(o) = Name(p)
      BY <1>8, <2>2, <3>1, <3>2
    <3>4. o = p
      BY <1>3, <3>3
    <3>5. {c, d} \subseteq {x \in D : <<x, o>> \in R}
      BY <3>1, <3>2, <3>4
    <3> QED BY <2>1, <3>5
  <2>3. ASSUME NEW d \in D
        PROVE  /\ list[d].path \in DOMAIN hashes /\ hashes[list[d].path] = list[d].content
               /\ list[d].path \in {Name(o) : o \in O}
    <3>1. PICK o \in O : <<d, o>> \in R
      BY <1>15
    <3> QED BY <1>3, <1>8, <3>1
  <2>4. ASSUME NEW o \in O PROVE Name(o) \in {list[d].path : d \in D}
    <3>1. PICK d \in D : <<d, o>> \in R
      BY <2>1
    <3> QED BY <1>8, <3>1
  <2> HIDE DEF O
  <2> QED BY <1>12, <1>15, <2>2, <2>3, <2>4
<1> HIDE DEF O
<1>16. (\A o \in O : Cardinality({d \in D : <<d, o>> \in R}) = 1) =>
         (Cardinality(D) = Cardinality(O) <=> \A d \in D : \E o \in O : <<d, o>> \in R)
  BY <1>5, <1>6, <1>9, CountsMatch
<1>17. validate_files(manifest.m, manifest.f) => entries[m].content.files = list
  BY <1>12
<1> QED BY <1>13, <1>14, <1>15, <1>16, <1>17

\* The checks of the two passes and of the manifests together are conformity.
LEMMA VerdictIsConformity ==
  ASSUME Inv, HeadersInv, phase \in {"manifests", "accepted"}
  PROVE  (validate_files(manifest.m, manifest.f) /\ ValidMeta(manifest.m)) <=> Conforms
<1>1. /\ pos = Len(entries) /\ DOMAIN entries = 1 .. Len(entries) /\ Len(entries) \in Nat
      /\ None \notin {manifest.m, manifest.f}
  BY DEF Inv, TypeInv, PassInv
<1>2. Seen = Visible
  BY <1>1 DEF Seen, Visible
<1>3. PICK m \in Visible : Holds(m, MANIFEST)
  BY <1>1, <1>2 DEF Inv, PassInv, Past
<1>4. PICK f \in Visible : Holds(f, FILES)
  BY <1>1, <1>2 DEF Inv, PassInv, Past
<1>5. \A i, j \in Visible : Name(i) = Name(j) => i = j
  BY <1>2 DEF Inv, PassInv, Past
<1>6. expectedSha # "other" /\ \A i \in Visible : Proper(i)
  BY <1>2 DEF Inv, PreflightInv, PassInv, Past
<1>7. \A i \in Visible : entries[i].kind \in {"file", "dir"}
                         /\ entries[i].path.form \notin {"unsafe", "empty"}
  BY <1>6 DEF Proper
<1>10. \A i \in DOMAIN entries \ Visible : Framed(i)
  <2>1. Open = {}
    BY DEF HeadersInv, Past
  <2> QED BY <1>1, <2>1 DEF HeadersInv, Past
<1>8. \A x, y \in Visible : Described(x, y) => x = m /\ y = f
  BY <1>3, <1>4, <1>5 DEF Described, Holds
<1>9. Conforms <=> Described(m, f)
  BY <1>3, <1>4, <1>5, <1>6, <1>7, <1>8, <1>10 DEF Conforms
<1> QED BY <1>3, <1>4, <1>9, FilesDescribed

\* Conformity and size are those of the archive, at whatever phase.
LEMMA SameArchive ==
  ASSUME UNCHANGED <<entries, expectedSha, stream>>
  PROVE  (Conforms' <=> Conforms) /\ (Small' <=> Small)
<1>1. /\ Visible' = Visible
      /\ \A i : Name(i)' = Name(i) /\ (\A q : Holds(i, q)' <=> Holds(i, q))
  BY DEF Visible, Name, Holds
<1>2. \A m, f : Described(m, f)' <=> Described(m, f)
  BY <1>1 DEF Described
<1>3. Conforms' <=> Conforms
  BY <1>1, <1>2, SameFrames DEF Conforms
<1>4. Small' <=> Small
  BY <1>1 DEF Small
<1> QED BY <1>3, <1>4

\* The early returns of preflight_archive.
LEMMA RawRefusedRightly ==
  ASSUME Inv, NEW e \in Entries, RawEntry(e), phase' = "rejected"
  PROVE  ~Conforms' \/ ~Small'
<1> DEFINE n == Len(entries)
<1>1. RawRefused(e, count + 1, total_size) /\ phase = "preflight"
  BY DEF RawEntry, Reject
<1>2. /\ n \in Nat /\ Len(entries') = n + 1 /\ entries'[n + 1] = e
      /\ n + 1 \in DOMAIN entries'
      /\ e.size \in Nat /\ count = n /\ total_size \in Nat
      /\ total_size' = Cardinality(Bytes(entries', Len(entries'))) /\ total_size' \in Nat
  BY RawCounted
<1>3. /\ {MaxEntries, MaxEntrySize, MaxTotalSize, MaxExtension} \subseteq Nat
      /\ MaxEntries \in Nat /\ MaxEntrySize \in Nat /\ MaxTotalSize \in Nat /\ MaxExtension \in Nat
  BY ArchiveInspectionAssumption
<1> HIDE DEF n
<1>4. CASE count + 1 > MaxEntries
  <2>1. ~(Len(entries') <= MaxEntries)
    BY <1>2, <1>3, <1>4
  <2> QED BY <2>1 DEF Small
<1>5. CASE e.kind \in Extensions /\ e.size > MaxExtension
  <2>1. ~(entries'[n + 1].size <= MaxExtension) /\ entries'[n + 1].kind \in Extensions
    BY <1>2, <1>3, <1>5
  <2> QED BY <1>2, <2>1 DEF Small
<1>6. CASE e.kind = "pax_size"
  BY <1>2, <1>6 DEF Small
<1>7. CASE e.kind = "special"
  <2>1. n + 1 \in Visible' /\ entries'[n + 1].kind \notin {"file", "dir"}
    BY <1>2, <1>7 DEF Visible, MemberHeaders
  <2> QED BY <2>1 DEF Conforms
<1>8. CASE e.kind \in {"file", "dir"} /\ e.size > MaxEntrySize
  <2>1. entries'[n + 1].kind \notin Extensions /\ ~(entries'[n + 1].size <= MaxEntrySize)
    BY <1>2, <1>3, <1>8 DEF Extensions, MemberHeaders
  <2> QED BY <1>2, <2>1 DEF Small
<1>9. CASE e.kind \in {"file", "dir"} /\ total_size + e.size > MaxTotalSize
  <2>1. total_size' = total_size + e.size
    BY <1>9 DEF RawEntry, Extensions, MemberHeaders
  <2>2. ~(total_size' <= MaxTotalSize)
    BY <1>2, <1>3, <1>9, <2>1
  <2> QED BY <1>2, <2>2 DEF Small
<1> QED BY <1>1, <1>4, <1>5, <1>6, <1>7, <1>8, <1>9 DEF RawRefused

\* The early returns of the second pass.  Its limits on number and size cannot be
\* met any more: the first pass has seen to them.
LEMMA EntryRefusedRightly ==
  ASSUME Inv, NextEntry, phase' = "rejected", entries[pos + 1].kind \notin MemberHeaders
  PROVE  ~Conforms \/ ~Small
<1> DEFINE k == pos + 1
           e == entries[k]
<1>1. phase = "entries" /\ pos < Len(entries)
  BY DEF NextEntry
<1>11. EntryRefused(e) /\ k \in DOMAIN entries /\ k \in Visible /\ Sound(e)
  BY <1>1, WithinLimits DEF NextEntry, Inspect, Visible
<1>12. CASE e.kind = "global"
  BY <1>11, <1>12 DEF Conforms
<1> SUFFICES ASSUME e.kind # "global" PROVE ~Conforms \/ ~Small
  BY <1>12
<1>2. e.kind \in {"file", "dir"} /\ e.kind \notin Extensions /\ EntryRefused(e)
  BY <1>11 DEF Sound, Extensions, MemberHeaders
<1>3. /\ k \in DOMAIN entries /\ pos \in Nat /\ e.size \in Nat /\ Sound(e)
      /\ total_size \in Nat /\ count \in Nat /\ count + 1 <= MaxEntries
      /\ Cardinality(Bytes(entries, k)) = total_size + e.size
      /\ Cardinality(Bytes(entries, k)) <= MaxTotalSize
      /\ MaxTotalSize \in Nat
  BY <1>1, <1>2, WithinLimits
<1>4. {MaxEntries, MaxEntrySize, MaxManifest, MaxFiles} \subseteq Nat
  BY ArchiveInspectionAssumption
<1>5. /\ ~(count + 1 > MaxEntries)
      /\ e.kind \in {"file", "dir"}
      /\ ~(e.size > MaxEntrySize) /\ ~(total_size + e.size > MaxTotalSize)
  BY <1>2, <1>3, <1>4 DEF Sound
<1>6. k \in Visible /\ Name(k) = normalized(e.path)
  BY <1>3, <1>11, NameIsNormalized DEF Inv
<1>7. CASE e.path.form \in {"unsafe", "empty"}
  BY <1>6, <1>7 DEF Conforms
<1>8. CASE normalized(e.path) \in paths
  <2>1. PICK i \in Seen : Name(i) = Name(k)
    BY <1>1, <1>6, <1>8 DEF Inv, PassInv, Past
  <2>2. i \in Visible /\ i # k
    BY <1>3 DEF Seen, Visible
  <2> QED BY <1>6, <2>1, <2>2 DEF Conforms
<1>9. CASE e.kind = "file" /\ normalized(e.path) = MANIFEST /\ e.size > MaxManifest
  <2>1. Holds(k, MANIFEST) /\ ~(e.size <= MaxManifest)
    BY <1>3, <1>4, <1>6, <1>9 DEF Holds
  <2> QED BY <1>3, <1>6, <2>1 DEF Small
<1>10. CASE e.kind = "file" /\ normalized(e.path) = FILES /\ e.size > MaxFiles
  <2>1. Holds(k, FILES) /\ ~(e.size <= MaxFiles)
    BY <1>3, <1>4, <1>6, <1>10 DEF Holds
  <2> QED BY <1>3, <1>6, <2>1 DEF Small
<1> QED BY <1>2, <1>5, <1>7, <1>8, <1>9, <1>10 DEF EntryRefused

\* A manifest that was not found is not there.
LEMMA MissingManifest ==
  ASSUME Inv, EndEntries, phase' = "rejected", headers = {}
  PROVE  ~Conforms
<1>1. phase = "entries" /\ pos = Len(entries) /\ None \in {manifest.m, manifest.f}
  BY DEF EndEntries
<1>2. /\ DOMAIN entries = 1 .. Len(entries) /\ Len(entries) \in Nat
      /\ \A i \in DOMAIN entries : entries[i] \in Entries
  BY DEF Inv, TypeInv
<1>3. Seen = Visible
  BY <1>1, <1>2 DEF Seen, Visible
<1>4. \A i \in Visible : entries[i].kind = "file" => entries[i].content # None
  <2> SUFFICES ASSUME NEW i \in Visible, entries[i].kind = "file"
               PROVE  entries[i].content # None
    OBVIOUS
  <2>1. entries[i] \in Entries
    BY <1>2 DEF Visible
  <2> QED BY <2>1, ArchiveInspectionAssumption, Zenon
<1>5. \A i \in Visible : /\ Holds(i, MANIFEST) => manifest.m = entries[i].content
                         /\ Holds(i, FILES) => manifest.f = entries[i].content
  BY <1>1, <1>3 DEF Inv, PassInv, Past
<1>6. \A m, f \in Visible : ~(Holds(m, MANIFEST) /\ Holds(f, FILES))
  BY <1>1, <1>4, <1>5 DEF Holds
<1> QED BY <1>6 DEF Conforms, Described

-----------------------------------------------------------------------------
\* What inspect_archive accepts conforms as a whole and is within every limit,
\* for archives of any length, any order of their entries and any limits: its
\* counters, sets and tables over two passes say of the archive what Conforms
\* and Small say.
THEOREM AcceptedArchivesConform == Spec => []AcceptedConforms
<1>1. Inv /\ HeadersInv => AcceptedConforms
  <2> SUFFICES ASSUME Inv, HeadersInv, phase = "accepted" PROVE Conforms /\ Small
    BY DEF AcceptedConforms
  <2>1. validate_files(manifest.m, manifest.f) /\ ValidMeta(manifest.m)
    BY DEF Inv, PassInv
  <2> QED BY <2>1, VerdictIsConformity, PassedIsSmall
<1> QED BY <1>1, InvHolds, HeadersHold, PTL

\* Every early return of inspect_archive, preflight_archive and validate_files
\* has its reason in the archive: what is rejected does not conform or exceeds a
\* limit.
THEOREM RejectionsHaveReasons == Spec => []RejectedForAReason
<1>1. Init => RejectedForAReason
  BY DEF Init, RejectedForAReason
<1>2. Inv /\ HeadersInv /\ RejectedForAReason /\ [Next]_vars => RejectedForAReason'
  <2> SUFFICES ASSUME Inv, HeadersInv, RejectedForAReason, [Next]_vars, phase' = "rejected"
               PROVE  ~Conforms' \/ ~Small'
    BY DEF RejectedForAReason
  <2>1. CASE VerifyDigest
    <3>1. expectedSha' = "other"
      BY <2>1 DEF VerifyDigest
    <3> QED BY <3>1 DEF Conforms
  <2>2. ASSUME NEW e \in Entries, RawEntry(e) PROVE ~Conforms' \/ ~Small'
    BY <2>2, RawRefusedRightly
  <2>3. ASSUME NEW trailing \in 0 .. MaxTrailing, EndPreflight(trailing)
        PROVE  ~Small'
    <3>1. stream' > MaxStream /\ stream \in Nat /\ MaxStream \in Nat /\ stream' = stream + trailing
      BY <2>3, ArchiveInspectionAssumption DEF EndPreflight, Inv, TypeInv
    <3>2. ~(stream' <= MaxStream)
      BY <3>1
    <3> QED BY <3>2 DEF Small
  <2>4. CASE NextEntry
    <3>1. UNCHANGED <<entries, expectedSha, stream>>
      BY <2>4 DEF NextEntry
    <3> QED BY <2>4, <3>1, EntryRefusedRightly, DoubleHeader, SameArchive
  <2>5. CASE EndEntries
    <3>1. UNCHANGED <<entries, expectedSha, stream>>
      BY <2>5 DEF EndEntries
    <3> QED BY <2>5, <3>1, MissingManifest, DanglingHeader, SameArchive
  <2>6. CASE CheckManifests
    <3>1. /\ UNCHANGED <<entries, expectedSha, stream>>
          /\ phase = "manifests"
          /\ ~(validate_files(manifest.m, manifest.f) /\ ValidMeta(manifest.m))
      BY <2>6 DEF CheckManifests
    <3> QED BY <3>1, VerdictIsConformity, SameArchive
  <2>7. CASE UNCHANGED vars
    <3>1. UNCHANGED <<entries, expectedSha, stream, phase>>
      BY <2>7 DEF vars
    <3> QED BY <3>1, SameArchive DEF RejectedForAReason
  <2> QED BY <2>1, <2>2, <2>3, <2>4, <2>5, <2>6, <2>7 DEF Next
<1> QED BY <1>1, <1>2, InvHolds, HeadersHold, PTL DEF Spec
=============================================================================
