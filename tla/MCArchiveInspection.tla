------------------------ MODULE MCArchiveInspection ------------------------
(* Instances of ArchiveInspection.tla for TLC.                             *)
EXTENDS ArchiveInspection

Path(n, f) == [name |-> n, form |-> f]
File(p, s, c) == [kind |-> "file", size |-> s, path |-> p, content |-> c]
Other(k, s) == [kind |-> k, size |-> s, path |-> Path("d", "plain"), content |-> None]

Declares(t, f) == [ftype |-> t, path |-> Path("a", f), content |-> "x"]

\* Nothing; a file beside a directory of its name; it twice; in two spellings.
Declared == {<<>>, <<Declares("dir", "plain"), Declares("file", "plain")>>,
             <<Declares("file", "plain"), Declares("file", "plain")>>,
             <<Declares("file", "plain"), Declares("file", "slash")>>}

MCEntries ==
  {File(Path("MANIFEST.json", "dot"), 1, [files |-> d, valid |-> TRUE]) : d \in Declared}
  \cup {File(Path("MANIFEST.json", "plain"), s, [files |-> <<>>, valid |-> s = 2]) : s \in {1, 2}}
  \cup {File(Path("FILES.json", "plain"), 1, d) : d \in Declared}
  \cup {File(Path("FILES.json", "dot"), 3, <<>>)}
  \cup {File(Path("a", "plain"), 1, "x"), File(Path("a", "dot"), 1, "y"),
        File(Path("a", "slash"), 1, "x"), File(Path("a", "unsafe"), 1, "x"),
        File(Path("a", "plain"), 4, "x")}
  \cup {Other("dir", 0), Other("longname", 1), Other("longname", 2), Other("pax", 1),
        Other("global", 1), Other("pax_size", 1), Other("special", 0)}
=============================================================================
