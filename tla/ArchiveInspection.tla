-------------------------- MODULE ArchiveInspection --------------------------
(***************************************************************************)
(* The inspection of an uploaded archive (galaxy.rs).  The archive is read *)
(* twice: a first pass over its raw entries keeps what tar would buffer or *)
(* skip within bounds, the second looks at paths and contents.  Then the   *)
(* two manifests are compared with what was found.                         *)
(*                                                                         *)
(* A checksum is represented by the content it is the checksum of.  A      *)
(* MANIFEST.json that cannot be read counts as not valid; a FILES.json     *)
(* that cannot, as one with a declaration that names no file.              *)
(***************************************************************************)
EXTENDS Naturals, Sequences, FiniteSets

CONSTANTS
  Entries,      \* tar entries an archive may have: [kind, size, path, content]
  MaxEntries,   \* 10000 in the code
  MaxEntrySize, \* 64 MiB
  MaxTotalSize, \* 256 MiB
  MaxExtension, \* 64 KiB of extension header
  MaxStream,    \* 272 MiB of decompressed tar, headers and padding included
  MaxManifest,  \* 1 MiB of MANIFEST.json
  MaxFiles,     \* 4 MiB of FILES.json
  MaxLength,    \* bound: entries of an archive
  MaxTrailing,  \* bound: bytes after its end
  None

\* The headers that tar takes as part of the member that follows: GNU long
\* names and link names and local PAX headers.
MemberHeaders == {"longname", "longlink", "pax"}

\* A global PAX header stands for itself.  pax_size is a PAX header of either
\* sort that overrides the size of what follows.
Extensions == MemberHeaders \cup {"global", "pax_size"}

\* A path is a name and the way it is written: as it is, with a leading "./",
\* with a "./" or a second slash inside, leaving the archive, or "./" alone.
\* Only the leading "./" is taken away: "a//b" and "a/b" are two paths.
Unstripped(path) == path

normalized(path) == IF path.form = "dot" THEN [path EXCEPT !.form = "plain"] ELSE path

MANIFEST == [name |-> "MANIFEST.json", form |-> "plain"]
FILES == [name |-> "FILES.json", form |-> "plain"]

\* A path is no more than its name and form, the content of a file is not None,
\* and that of a FILES.json is a finite list.
ASSUME ArchiveInspectionAssumption ==
  /\ {MaxEntries, MaxEntrySize, MaxTotalSize, MaxExtension, MaxStream,
      MaxManifest, MaxFiles, MaxLength, MaxTrailing} \subseteq Nat
  /\ \A e \in Entries :
       /\ e.kind \in {"file", "dir", "special"} \cup Extensions
       /\ e.size \in Nat
       /\ e.path = [name |-> e.path.name, form |-> e.path.form]
       /\ e.kind = "file" => e.content # None
       /\ e.kind = "file" /\ e.path.name = FILES.name =>
            IsFiniteSet(DOMAIN e.content)

VARIABLES
  entries,    \* the raw entries of the archive, as far as the first pass got
  expectedSha, \* "absent", "equal" or "other": the sha256 field of the request
  phase,      \* "digest", "preflight", "entries", "manifests" or the verdict
  count, total_size,
  stream,     \* decompressed bytes of the first pass
  pos,        \* entries seen by the second pass
  paths,      \* normalized paths
  hashes,     \* path of a regular file -> its content
  manifest,   \* content of MANIFEST.json and FILES.json, None before
  headers     \* member headers that tar has read for the next member

vars == <<entries, expectedSha, phase, count, total_size, stream, pos, paths,
          hashes, manifest, headers>>

Init ==
  /\ entries = <<>>
  /\ expectedSha \in {"absent", "equal", "other"}
  /\ phase = "digest"
  /\ count = 0
  /\ total_size = 0
  /\ stream = 0
  /\ pos = 0
  /\ paths = {}
  /\ hashes = << >>
  /\ manifest = [m |-> None, f |-> None]
  /\ headers = {}

Reject == phase' = "rejected"

VerifyDigest ==
  /\ phase = "digest"
  /\ IF expectedSha = "other" THEN Reject ELSE phase' = "preflight"
  /\ UNCHANGED <<entries, expectedSha, count, total_size, stream, pos, paths,
                 hashes, manifest, headers>>

-----------------------------------------------------------------------------
(* preflight_archive                                                       *)

RawRefused(e, n, total) ==
  \/ n > MaxEntries
  \/ e.kind \in Extensions /\ e.size > MaxExtension
  \/ e.kind = "pax_size"
  \/ e.kind = "special"
  \/ e.kind \in {"file", "dir"} /\ (e.size > MaxEntrySize \/ total + e.size > MaxTotalSize)

\* The next raw entry; a header counts as one byte of the stream.
RawEntry(e) ==
  /\ phase = "preflight"
  /\ Len(entries) < MaxLength
  /\ entries' = Append(entries, e)
  /\ count' = count + 1
  /\ total_size' = IF e.kind \in Extensions THEN total_size ELSE total_size + e.size
  /\ stream' = stream + 1 + e.size
  /\ IF RawRefused(e, count + 1, total_size) THEN Reject ELSE UNCHANGED phase
  /\ UNCHANGED <<expectedSha, pos, paths, hashes, manifest, headers>>

\* The end of the archive: what trails it is drained, and counts as well.
EndPreflight(trailing) ==
  /\ phase = "preflight"
  /\ stream' = stream + trailing
  /\ IF stream' > MaxStream THEN Reject ELSE phase' = "entries"
  /\ count' = 0
  /\ total_size' = 0
  /\ UNCHANGED <<entries, expectedSha, pos, paths, hashes, manifest, headers>>

-----------------------------------------------------------------------------
(* The second pass.  tar hands out members; what precedes a member as its  *)
(* header it reads itself, and fails on a second one of a sort for one     *)
(* member and on one that no member follows.                               *)

EntryRefused(e) ==
  \/ count + 1 > MaxEntries
  \/ e.kind \notin {"file", "dir"}
  \/ e.size > MaxEntrySize \/ total_size + e.size > MaxTotalSize
  \/ e.path.form \in {"unsafe", "empty"}
  \/ normalized(e.path) \in paths
  \/ e.kind = "file" /\ normalized(e.path) = MANIFEST /\ e.size > MaxManifest
  \/ e.kind = "file" /\ normalized(e.path) = FILES /\ e.size > MaxFiles

Inspect(e) ==
  LET p == normalized(e.path) IN
  /\ count' = count + 1
  /\ total_size' = total_size + e.size
  /\ paths' = paths \cup {p}
  /\ IF e.kind = "dir" THEN UNCHANGED <<hashes, manifest>>
     ELSE /\ hashes' = [q \in DOMAIN hashes \cup {p} |->
                          IF q = p THEN e.content ELSE hashes[q]]
          /\ manifest' = [m |-> IF p = MANIFEST THEN e.content ELSE manifest.m,
                          f |-> IF p = FILES THEN e.content ELSE manifest.f]
  /\ UNCHANGED phase

\* A header for the next member, read by tar on the way to it.
ReadHeader(e) ==
  /\ IF e.kind \in headers THEN Reject ELSE UNCHANGED phase
  /\ headers' = headers \cup {e.kind}
  /\ UNCHANGED <<count, total_size, paths, hashes, manifest>>

NextEntry ==
  LET e == entries[pos + 1] IN
  /\ phase = "entries"
  /\ pos < Len(entries)
  /\ pos' = pos + 1
  /\ \/ /\ e.kind \in MemberHeaders
        /\ ReadHeader(e)
     \/ /\ e.kind \notin MemberHeaders /\ ~EntryRefused(e)
        /\ Inspect(e)
        /\ headers' = {}
     \/ /\ e.kind \notin MemberHeaders /\ EntryRefused(e)
        /\ Reject
        /\ UNCHANGED <<count, total_size, paths, hashes, manifest, headers>>
  /\ UNCHANGED <<entries, expectedSha, stream>>

EndEntries ==
  /\ phase = "entries"
  /\ pos = Len(entries)
  /\ IF headers # {} \/ None \in {manifest.m, manifest.f}
     THEN Reject ELSE phase' = "manifests"
  /\ UNCHANGED <<entries, expectedSha, count, total_size, stream, pos, paths,
                 hashes, manifest, headers>>

-----------------------------------------------------------------------------
(* validate_files.  FILES.json holds a list of [ftype, path, content] of   *)
(* what it declares, MANIFEST.json the content of FILES.json it was made   *)
(* for.  Only the declarations of files count.                             *)

\* The places in the list of those that count.
DeclaredFiles(f) == {i \in DOMAIN f : f[i].ftype = "file"}

Matches(f) ==
  /\ \A i, j \in DeclaredFiles(f) : f[i].path = f[j].path => i = j
  /\ \A i \in DeclaredFiles(f) :
       f[i].path \in DOMAIN hashes /\ hashes[f[i].path] = f[i].content

\* Mutation: what FILES.json declares is there, what it omits is not noticed.
FilesDeclared(m, f) ==
  /\ Matches(f)
  /\ hashes[FILES] = m.files

validate_files(m, f) ==
  /\ Matches(f)
  /\ {f[i].path : i \in DeclaredFiles(f)} = DOMAIN hashes \ {MANIFEST, FILES}
  /\ hashes[FILES] = m.files

\* The collection's names, version and dependencies, each by itself.
ValidMeta(m) == m.valid

\* FILES.json is judged before the collection it belongs to.
CheckManifests ==
  /\ phase = "manifests"
  /\ IF validate_files(manifest.m, manifest.f) /\ ValidMeta(manifest.m)
     THEN phase' = "accepted" ELSE Reject
  /\ UNCHANGED <<entries, expectedSha, count, total_size, stream, pos, paths,
                 hashes, manifest, headers>>

Next ==
  \/ VerifyDigest
  \/ \E e \in Entries : RawEntry(e)
  \/ \E trailing \in 0..MaxTrailing : EndPreflight(trailing)
  \/ NextEntry \/ EndEntries \/ CheckManifests

Spec == Init /\ [][Next]_vars

-----------------------------------------------------------------------------
(* A conforming archive, stated of the whole and not of its reading        *)

Visible == {i \in DOMAIN entries : entries[i].kind \notin MemberHeaders}
Name(i) == [name |-> entries[i].path.name,
            form |-> IF entries[i].path.form = "dot" THEN "plain" ELSE entries[i].path.form]
Holds(i, path) == entries[i].kind = "file" /\ Name(i) = path

\* The MANIFEST.json at m was made for the FILES.json at f, which lists every
\* other file once, with its checksum, and nothing else.
Described(m, f) ==
  LET list == entries[f].content
      declared == {d \in DOMAIN list : list[d].ftype = "file"}
      others == {i \in Visible \ {m, f} : entries[i].kind = "file"}
  IN  /\ Holds(m, MANIFEST) /\ Holds(f, FILES)
      /\ entries[m].content.valid
      /\ entries[m].content.files = list
      /\ \A i \in others : Cardinality({d \in declared :
           list[d].path = Name(i) /\ list[d].content = entries[i].content}) = 1
      /\ Cardinality(declared) = Cardinality(others)

\* The header at i has a member to describe, and is the only one of its sort
\* there.
Framed(i) ==
  \E j \in Visible : /\ i < j
                     /\ \A k \in i + 1 .. j - 1 : entries[k].kind # entries[i].kind

\* Every member is a file or a directory inside the archive, no two have one
\* path as they are written, a leading "./" apart, every header belongs to a
\* member, and the manifests describe the files.
Conforms ==
  /\ expectedSha # "other"
  /\ \A i \in Visible : entries[i].kind \in {"file", "dir"}
                        /\ entries[i].path.form \notin {"unsafe", "empty"}
  /\ \A i, j \in Visible : Name(i) = Name(j) => i = j
  /\ \A i \in DOMAIN entries \ Visible : Framed(i)
  /\ \E m, f \in Visible : Described(m, f)

\* The bytes of the first n entries of an archive, headers left out, each named
\* by its entry and its place in it.
Bytes(archive, n) ==
  UNION {{i} \X (1 .. archive[i].size) :
           i \in {k \in 1 .. n : archive[k].kind \notin Extensions}}

Small ==
  /\ Len(entries) <= MaxEntries
  /\ Cardinality(Bytes(entries, Len(entries))) <= MaxTotalSize
  /\ stream <= MaxStream
  /\ \A i \in DOMAIN entries :
       /\ entries[i].kind # "pax_size"
       /\ entries[i].size <= IF entries[i].kind \in Extensions THEN MaxExtension
                             ELSE MaxEntrySize
       /\ Holds(i, MANIFEST) => entries[i].size <= MaxManifest
       /\ Holds(i, FILES) => entries[i].size <= MaxFiles

\* What is accepted conforms, in whatever order its members and headers come:
\* every file that clients will install is covered by a checksum, under the path
\* that FILES.json writes, and no path is written twice.  PLAN.md asks for more:
\* that no two paths be the same when normalized, "a//b" and "a/b" included.
AcceptedConforms == phase = "accepted" => Conforms /\ Small

\* What is rejected does not conform, or is too big: no order of members, no
\* header that describes one and no leading "./" costs a good archive.
RejectedForAReason ==
  phase = "rejected" => ~Conforms \/ ~Small
=============================================================================
