------------------------------ MODULE Extraction ------------------------------
(***************************************************************************)
(* A call that extracts an archive.  With a limit on the reader's          *)
(* workspace and independent members it goes through extract_windowed      *)
(* (ExtractWindowed), without one through the batches of map_prefix        *)
(* (ParallelPrefix); everything else is extracted member after member      *)
(* (MemberExtraction).  The paths share no state but the archive.          *)
(***************************************************************************)
EXTENDS ExtractWindowed, ParallelPrefix, MemberExtraction

CONSTANT Paths  \* the paths of extract_to_parallel_buffered that are taken

ASSUME PathsAssumption == Paths \subseteq {"windowed", "batches", "members"}

VARIABLE path

\* A part that is not on the path stays as it was when the call was made.
SomeHints == CHOOSE h \in Hints : TRUE
SomeTask  == CHOOSE t \in Tasks : TRUE
SomeJob   == CHOOSE j \in Jobs : TRUE

ExtractionInit ==
  \/ /\ path = "windowed" /\ path \in Paths
     /\ job = SomeJob /\ MemberInit /\ task = SomeTask /\ PrefixInit
     /\ ExtractInit
  \/ /\ path = "batches" /\ path \in Paths
     /\ job = SomeJob /\ MemberInit /\ hint = SomeHints /\ ExtractInit
     /\ PrefixInit
  \/ /\ path = "members" /\ path \in Paths
     /\ hint = SomeHints /\ ExtractInit /\ task = SomeTask /\ PrefixInit
     /\ MemberInit

OnWindowed(A) == path = "windowed" /\ A /\ UNCHANGED <<path, prefixVars, memberVars>>
OnBatches(A)  == path = "batches" /\ A /\ UNCHANGED <<path, extractVars, memberVars>>
OnMembers(A)  == path = "members" /\ A /\ UNCHANGED <<path, extractVars, prefixVars>>

ExtractionNext ==
  \/ OnWindowed(ExtractNext)
  \/ OnBatches(PrefixNext)
  \/ OnMembers(MemberNext)

extractionVars == <<path, extractVars, prefixVars, memberVars>>

\* The calling thread and the workers keep running: decoders, sinks and callbacks
\* return.
ExtractionSpec ==
  /\ ExtractionInit /\ [][ExtractionNext]_extractionVars
  /\ WF_extractionVars(OnWindowed(CoordinatorNext))
  /\ \A s \in Scopes : WF_extractionVars(OnWindowed(WorkerNext(s)))
  /\ WF_extractionVars(OnBatches(CallerNext))
  /\ WF_extractionVars(OnBatches(\E m \in 1 .. Count : DecoderNext(m)))

\* The parallel paths return: no batch is empty, no worker waits for memory or
\* for another one, and every batch takes members from the archive.
EveryCallReturns ==
  /\ path = "windowed" ~> outcome # "running"
  /\ path = "batches" ~> returned # "none"
=============================================================================
