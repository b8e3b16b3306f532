--------------------------- MODULE MCWriterStorage ---------------------------
EXTENDS SpoolStorage, CapacityStorage, SolidChain, SourceWriting, ArchiveLayout, TLC

Symmetric == Permutations(Spools)

\* The parts of a writer modelled here share nothing: one of them runs.
VARIABLE part

MCClassOf == [o \in Owners |-> IF o = "spool" THEN "payload" ELSE "preparation"]

Sizes(p, a) == [payload |-> p, array |-> a]

\* A memory spool of one to three blocks of two bytes with one, two or four
\* slots, and two arrays that double or have their final size at once.
MCWants == [o \in Owners |->
  IF o = "spool" THEN {Sizes(2, 1), Sizes(4, 2), Sizes(6, 4)}
  ELSE {Sizes(0, 1), Sizes(0, 2), Sizes(0, 4)}]

\* Four members: empty ones that take no space or some, one that shrinks, and
\* two that do not, of which one is large enough to be stored.
File(s, p) == [kind |-> "file", size |-> s, packed |-> p]
Entry(k, s) == [kind |-> k, size |-> s, packed |-> s]
Bodies == {Entry("dir", 0), File(0, 0), File(0, 1), File(2, 1), File(1, 1), File(2, 2)}
WithLinks == {Entry("dir", 0), Entry("link", 1), File(0, 0), File(2, 1)}

MCSolidJobs ==
  [family : {"rar13", "rar15", "rar20", "rar50"}, members : [1 .. 4 -> Bodies]]
  \cup [family : {"rar13", "rar15", "rar20"}, members : [1 .. 4 -> WithLinks]]
  \cup [family : {"rar50"}, members : [1 .. 4 -> {Entry("dir", 0), Entry("link", 0), File(0, 0), File(2, 1)}]]

\* Sources of up to three bytes that become shorter, longer or different.  RAR5
\* sets of two members whose cuts fall inside, at the end of and after a
\* member; legacy archives of one member or two, and sets of one.
From(f, c, e) == [first |-> [i \in 1 .. f |-> 0], coding |-> c, encrypted |-> e]
MCRevisions == {<<>>, <<0, 1>>, <<0, 0, 0>>, <<1, 0, 0>>, <<0, 0, 0, 0>>}
Plainly(c) == From(2, c, FALSE)

MCWriteJobs ==
  {[family |-> "rar50", volumes |-> v, members |-> <<From(f, c, e), second>>] :
     v \in BOOLEAN, f \in {0, 2, 3}, c \in {"stored", "packed"}, e \in BOOLEAN,
     second \in {From(0, "packed", FALSE), From(1, "fallback", FALSE), From(2, "packed", TRUE)}}
  \cup {[family |-> "legacy", volumes |-> v, members |-> <<From(f, c, FALSE)>>] :
     v \in BOOLEAN, f \in {0, 2, 3}, c \in {"stored", "packed", "fallback"}}
  \cup {[family |-> "legacy", volumes |-> FALSE, members |-> <<Plainly(c), From(1, "stored", FALSE)>>] :
     c \in {"stored", "packed", "fallback"}}

\* Bodies around the lengths at which an offset takes one more byte, with extra
\* areas and quick-open blocks that reach those lengths, too.
Below(b) == {b - k : k \in 0 .. 36}

MCLayouts ==
  [encrypted : BOOLEAN, fixed : {1}, record : {"given", "retained", "none"}, metadata : {20, 118, 16350},
   body : {0} \cup Below(110) \cup Below(16384) \cup Below(2097152),
   quickOpen : {Omitted, 60, 16255}, recovery : BOOLEAN]

MCWidthLimit == <<128, 16384, 2097152, 268435456>>

SomeJob == CHOOSE j \in SolidJobs : TRUE
SomeWriteJob == CHOOSE j \in WriteJobs : TRUE
SomeLayout == CHOOSE l \in Layouts : TRUE

MCInit ==
  /\ part \in {"spools", "capacity", "solid", "sources", "layout"}
  /\ part # "spools" => leftover = {}
  /\ part # "capacity" => ledgers = {"exec"}
  /\ part # "solid" => solidJob = SomeJob
  /\ part # "sources" => writeJob = SomeWriteJob
  /\ part # "layout" => layout = SomeLayout
  /\ SpoolInit /\ CapacityInit /\ SolidInit /\ WritingInit /\ LayoutInit

MCNext ==
  /\ UNCHANGED part
  /\ \/ part = "spools" /\ SpoolNext
     \/ part = "capacity" /\ CapacityNext
     \/ part = "solid" /\ SolidNext
     \/ part = "sources" /\ WritingNext
     \/ part = "layout" /\ LayoutNext
  /\ part # "spools" => UNCHANGED spoolVars
  /\ part # "capacity" => UNCHANGED capacityVars
  /\ part # "solid" => UNCHANGED solidVars
  /\ part # "sources" => UNCHANGED writingVars
  /\ part # "layout" => UNCHANGED layoutVars

MCSpec == MCInit /\ [][MCNext]_<<part, spoolVars, capacityVars, solidVars, writingVars, layoutVars>>
=============================================================================
