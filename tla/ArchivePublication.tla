-------------------------- MODULE ArchivePublication --------------------------
(* How a finished archive gets its name.  A builder or a repair of the       *)
(* library, a command of the CLI and the Node worker write a private file    *)
(* beside the destination and rename it (pending_archive.rs, builder.rs,     *)
(* lib.rs; rars-cli main.rs, write_archive_file; npm-src/node-worker.cjs).   *)
(* A volume set of the Node worker is written that way all parts at once, of *)
(* which the first failure rejects the call while the others go on; a volume *)
(* set of the CLI is written in place, one part after the other.             *)
(*                                                                           *)
(* Calls run at the same time, to the same destinations.  Any step may fail, *)
(* and the process, or the worker on an abort, may be stopped anywhere.      *)
(*                                                                           *)
(* Abstracted: names of temporary files.  The Node worker's is made of the   *)
(* destination, the process and the millisecond and opened without           *)
(* create_new: two calls do not share one here (see the README).             *)
EXTENDS Integers, FiniteSets

CONSTANTS
    Calls, CallKinds,   \* [how, parts]: "staged" (library and CLI), "node" or
                        \*   "in place"; the number of parts
    Destinations,       \* of the parts: what a call's archive may be named
    TempNames           \* the names create_new may try; the code tries 128

Nobody == [by |-> "earlier", whole |-> TRUE]
NoFile == [by |-> "nobody", whole |-> FALSE]

ASSUME PublicationAssumption ==
    /\ \A k \in CallKinds :
        /\ k.how \in {"staged", "node", "in place"} /\ k.parts \in Nat \ {0}
        /\ k.how = "staged" => k.parts = 1
        /\ k.parts \in 1 .. Cardinality(Destinations)
    /\ {"earlier", "nobody"} \cap Calls = {}

VARIABLES
    callKind,      \* call -> its kind
    targetOf,      \* call -> part -> destination; the parts' names differ
    target,        \* destination -> the file there, if any
    temporary,     \* temporary name -> the file there, if any
    nameOf,        \* call -> part -> its temporary name
    progressOf,      \* call -> part -> how far it is
    answer         \* call -> what its caller was told

publicationVars == <<callKind, targetOf, target, temporary, nameOf, progressOf, answer>>

Parts(c) == 1 .. callKind[c].parts
AllParts == UNION {1 .. k.parts : k \in CallKinds}
PrivateNames == Calls \X AllParts

\* The worker names its files after the target, its process and the time.
ASSUME TempNamesAssumption == TempNames \cap PrivateNames = {}

Injective(f, S) == \A i, j \in S : f[i] = f[j] => i = j

PublicationInit ==
    /\ callKind \in [Calls -> CallKinds]
    /\ targetOf \in [Calls -> [AllParts -> Destinations]]
    /\ \A c \in Calls : Injective(targetOf[c], Parts(c))
    /\ target \in [Destinations -> {NoFile, Nobody}]
    \* An earlier process with this number may have left a file.
    /\ temporary \in {[n \in TempNames \cup PrivateNames |-> IF n \in L THEN Nobody ELSE NoFile] :
                       L \in SUBSET TempNames}
    /\ nameOf = [c \in Calls |-> [i \in AllParts |-> <<c, i>>]]
    /\ progressOf = [c \in Calls |-> [i \in AllParts |-> "new"]]
    /\ answer = [c \in Calls |-> "none"]

---------------------------------------------------------------------------
InPlace(c) == callKind[c].how = "in place"

(* In place, the parts come one after the other. *)
Runs(c, i) ==
    /\ answer[c] # "stopped" /\ i \in Parts(c)
    /\ InPlace(c) => /\ answer[c] = "none"
                     /\ \A j \in Parts(c) : j < i => progressOf[c][j] = "published"

FileOf(c, whole) == [by |-> c, whole |-> whole]
To(c, i, state) == progressOf' = [progressOf EXCEPT ![c][i] = state]
CallsStay == <<callKind, targetOf, answer>>

CreateAnyway(c, i) == TempNames   \* mutant: create(true).truncate(true)

NamesFor(c, i) ==
    IF callKind[c].how = "node" THEN {<<c, i>>}
    ELSE {n \in TempNames : temporary[n] = NoFile}

CreateTemporary(c, i) ==
    /\ Runs(c, i) /\ ~InPlace(c) /\ progressOf[c][i] = "new"
    /\ \E n \in NamesFor(c, i) :
        /\ temporary' = [temporary EXCEPT ![n] = FileOf(c, FALSE)]
        /\ nameOf' = [nameOf EXCEPT ![c][i] = n]
    /\ To(c, i, "created")
    /\ UNCHANGED target /\ UNCHANGED CallsStay

(* No name was free, or the directory refuses. *)
CreateRefused(c, i) ==
    /\ Runs(c, i) /\ progressOf[c][i] = "new"
    /\ To(c, i, "failed")
    /\ UNCHANGED <<target, temporary, nameOf>> /\ UNCHANGED CallsStay

WriteTemporary(c, i) ==
    /\ Runs(c, i) /\ ~InPlace(c) /\ progressOf[c][i] = "created"
    /\ temporary' = [temporary EXCEPT ![nameOf[c][i]] = FileOf(c, TRUE)]
    /\ To(c, i, "written")
    /\ UNCHANGED <<target, nameOf>> /\ UNCHANGED CallsStay

ReadyEarly(c, i) == progressOf[c][i] \in {"created", "written"}   \* mutant: renamed, then written

ReadyToRename(c, i) == progressOf[c][i] = "written"

RenameTemporary(c, i) ==
    /\ Runs(c, i) /\ ReadyToRename(c, i)
    /\ target' = [target EXCEPT ![targetOf[c][i]] = temporary[nameOf[c][i]]]
    /\ temporary' = [temporary EXCEPT ![nameOf[c][i]] = NoFile]
    /\ To(c, i, "published")
    /\ UNCHANGED nameOf /\ UNCHANGED CallsStay

(* A write error, a refused sync, a cancellation after it, a refused rename. *)
FailPart(c, i) ==
    /\ Runs(c, i) /\ progressOf[c][i] \in {"created", "written"}
    /\ To(c, i, IF InPlace(c) THEN "failed" ELSE "failing")
    /\ UNCHANGED <<target, temporary, nameOf>> /\ UNCHANGED CallsStay

RemoveNothing(c, i) == {}   \* mutant: the temporary file stays

RemovedBy(c, i) == {nameOf[c][i]}

(* PendingArchive::drop, remove_file and unlink; a refusal is ignored. *)
RemoveTemporary(c, i) ==
    /\ Runs(c, i) /\ progressOf[c][i] = "failing"
    /\ \/ /\ temporary' = [n \in DOMAIN temporary |->
                             IF n \in RemovedBy(c, i) THEN NoFile ELSE temporary[n]]
          /\ To(c, i, "failed")
       \/ To(c, i, "abandoned") /\ UNCHANGED temporary
    /\ UNCHANGED <<target, nameOf>> /\ UNCHANGED CallsStay

TruncateInPlace(c, i) ==
    /\ Runs(c, i) /\ InPlace(c) /\ progressOf[c][i] = "new"
    /\ target' = [target EXCEPT ![targetOf[c][i]] = FileOf(c, FALSE)]
    /\ To(c, i, "created")
    /\ UNCHANGED <<temporary, nameOf>> /\ UNCHANGED CallsStay

(* The file may have been replaced by another call meanwhile.  What two such *)
(* sets leave in one file is not told apart.                                 *)
WriteInPlace(c, i) ==
    /\ Runs(c, i) /\ InPlace(c) /\ progressOf[c][i] = "created"
    /\ target' = [target EXCEPT ![targetOf[c][i]] = IF @.by = c THEN FileOf(c, TRUE) ELSE @]
    /\ To(c, i, "published")
    /\ UNCHANGED <<temporary, nameOf>> /\ UNCHANGED CallsStay

(* Promise.all resolves after every part and rejects at the first failure. *)
Answer(c) ==
    /\ answer[c] = "none"
    /\ \/ /\ \A i \in Parts(c) : progressOf[c][i] = "published"
          /\ answer' = [answer EXCEPT ![c] = "ok"]
       \/ /\ \E i \in Parts(c) : progressOf[c][i] \in {"failed", "abandoned"}
          /\ answer' = [answer EXCEPT ![c] = "failed"]
    /\ UNCHANGED <<callKind, targetOf, target, temporary, nameOf, progressOf>>

StopCall(c) ==
    /\ answer[c] # "stopped" /\ \E i \in Parts(c) : progressOf[c][i] \in {"created", "written", "failing"}
    /\ answer' = [answer EXCEPT ![c] = "stopped"]
    /\ UNCHANGED <<callKind, targetOf, target, temporary, nameOf, progressOf>>

PartNext(c, i) ==
    \/ CreateTemporary(c, i) \/ CreateRefused(c, i) \/ WriteTemporary(c, i)
    \/ RenameTemporary(c, i) \/ FailPart(c, i) \/ RemoveTemporary(c, i)
    \/ TruncateInPlace(c, i) \/ WriteInPlace(c, i)

PublicationNext ==
    \E c \in Calls : Answer(c) \/ StopCall(c) \/ \E i \in AllParts : PartNext(c, i)

PublicationSpec == PublicationInit /\ [][PublicationNext]_publicationVars

---------------------------------------------------------------------------
(* What stands at a destination was there before or is the whole archive of  *)
(* one call, unless a CLI volume set is being written over it, however the   *)
(* calls interleave, fail and stop; a single archive whose call failed left  *)
(* the destination alone (rars-cli main.rs:2813, the test                    *)
(* archive_publication_failures_preserve_destinations_and_clean_staging).    *)
(* Nobody writes into another's temporary file, and none outlives its call   *)
(* unless the call was stopped or the removal refused.                       *)
ArchivesAreAtomic ==
    /\ \A d \in Destinations :
        LET c == target[d].by
        IN  c \in Calls =>
              /\ ~target[d].whole => InPlace(c)
              /\ ~InPlace(c) => \E i \in Parts(c) :
                                   targetOf[c][i] = d /\ progressOf[c][i] = "published"
              /\ callKind[c].parts = 1 /\ ~InPlace(c) => answer[c] # "failed"
    /\ \A n \in DOMAIN temporary :
        LET c == temporary[n].by
        IN  c \in Calls =>
              \/ answer[c] = "stopped"
              \/ \E i \in Parts(c) :
                   nameOf[c][i] = n
                   /\ progressOf[c][i] \in {"created", "written", "failing", "abandoned"}
    /\ \A c \in Calls : \A i \in Parts(c) :
        ~InPlace(c) /\ progressOf[c][i] \in {"created", "written"} =>
            temporary[nameOf[c][i]] = FileOf(c, progressOf[c][i] = "written")
=============================================================================
