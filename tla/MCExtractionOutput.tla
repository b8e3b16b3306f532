------------------------- MODULE MCExtractionOutput -------------------------
(* Up to three members: a file and a link beside each other, in two orders;  *)
(* two names of one file on a case-insensitive filesystem, of which one may  *)
(* be a directory or a symbolic link; and, for the run that shows what is    *)
(* not so, one name twice.                                                   *)
EXTENDS ExtractionOutput

M(name, kind) == [name |-> name, kind |-> kind]
F(name) == M(name, "file")

MCFold == [n \in {"a", "A", "b"} |-> IF n = "A" THEN "a" ELSE n]

MCArchives ==
    {<<F("a"), M("b", "symlink")>>, <<M("b", "hardlink"), F("a")>>, <<F("a"), F("A")>>,
     <<F("b"), F("a"), F("A")>>, <<M("a", "dir"), F("b"), F("A")>>,
     <<M("A", "symlink"), F("a")>>, <<M("A", "symlink"), M("a", "dir")>>,
     <<M("a", "dir"), M("A", "symlink")>>}

MCTwice == {<<F("a"), F("a")>>}
=============================================================================
