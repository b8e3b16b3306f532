-------------------------- MODULE ExtractionOutput --------------------------
(* Where `rars x` puts what the library extracts (rars-cli main.rs,          *)
(* ExtractOutputState; output.rs).  Each member is written into private      *)
(* storage beside the destination and moved to its place -- published --     *)
(* when the library asks for the next one, for by then it has been verified. *)
(* An extraction that fails still publishes the members verified before.     *)
(*                                                                           *)
(* The library calls back in archive order, and may fail before it asks for  *)
(* a member or while it writes one.  Every filesystem call may fail; another *)
(* process may create files and links; the process may be killed between any *)
(* two steps, which is why the invariants are about every state.             *)
(*                                                                           *)
(* Abstracted: parent directories and names no path is made of (both ways to *)
(* fail), what a link or file copy refers to, modification times.            *)
EXTENDS Integers, Sequences, FiniteSets

CONSTANTS
    Archives,    \* sequences of [name, kind]; kind: file, dir, symlink, hardlink
    Fold,        \* the file a name denotes: two names of a case-insensitive
                 \*   filesystem may denote the same one
    MaxForeign   \* files and links others create; the code has no bound

Names == DOMAIN Fold
Files == {Fold[n] : n \in Names}
Kinds == {"file", "dir", "symlink", "hardlink"}
NoName == "no name"      \* an error without entry context

ASSUME ArchivesAssumption ==
    /\ Archives \subseteq Seq([name : Names, kind : Kinds])
    /\ NoName \notin Names
    /\ MaxForeign \in Nat

VARIABLES
    archive,     \* the archive extracted
    overwrite,   \* --overwrite
    phase,       \* who runs: the library, open_entry or create_link, the
                 \*   writer, publish_before_failure, publish, nobody
    step,        \* the step of the publication under way
    outputs,     \* members recorded in `outputs`
    published,   \* members counted as moved
    staged,      \* members whose staged file exists
    identities,  \* published_identities
    dest,        \* what each destination file holds
    verified,    \* members whose data passed its checks
    cause,       \* why the extraction failed
    foreign      \* files and links created by others

extractVars == <<archive, overwrite, phase, step, outputs, published, staged,
                 identities, dest, verified, cause, foreign>>

Gone == [by |-> -1, kind |-> "file", whole |-> TRUE]
Old(kind) == [by |-> 0, kind |-> kind, whole |-> TRUE]
Whole(m) == [by |-> m, kind |-> archive[m].kind, whole |-> TRUE]
Partial(m) == [by |-> m, kind |-> archive[m].kind, whole |-> FALSE]

File(m) == Fold[archive[m].name]
Kind(m) == archive[m].kind
Count == Len(archive)
Redirection(m) == Kind(m) \in {"symlink", "hardlink"}

OutputTypeOK ==
    /\ archive \in Archives /\ overwrite \in {"never", "always"}
    /\ phase \in {"library", "open", "writing", "salvage", "finish", "ok", "failed"}
    /\ step \in {"check", "place", "copy", "clean"}
    /\ outputs \in 0..Count /\ published \in 0..outputs
    /\ staged \subseteq 1..Count
    /\ identities \subseteq Files
    /\ dest \in [Files -> [by : -1..Count, kind : Kinds, whole : BOOLEAN]]
    /\ verified \subseteq 1..Count
    /\ cause \in {"none", "named", "unnamed", "publication"}
    /\ foreign \in 0..MaxForeign

Init ==
    /\ archive \in Archives
    /\ overwrite \in {"never", "always"}
    /\ dest \in [Files -> {Gone, Old("file"), Old("dir"), Old("symlink")}]
    /\ phase = "library" /\ step = "check"
    /\ outputs = 0 /\ published = 0
    /\ staged = {} /\ identities = {} /\ verified = {}
    /\ cause = "none" /\ foreign = 0

---------------------------------------------------------------------------
(* Errors.  The entry an error names decides whether the last staged member  *)
(* is taken for verified; the error of a callback may or may not have been   *)
(* given a name by the library on its way out.                               *)

ErrorNames ==
    {NoName} \cup
    CASE phase \in {"library", "open"} -> {archive[i].name : i \in {outputs + 1} \cap 1..Count}
      [] phase = "writing" -> {archive[outputs].name}
      [] OTHER -> {}

KeepsAlways(name) == TRUE   \* mutant: whatever was staged is published
KeepsNever(name) == FALSE   \* mutant: the last staged member is always discarded

KeepsLast(name) ==
    /\ name # NoName
    /\ outputs > 0 => name # archive[outputs].name

Popped(name) ==
    IF ~KeepsLast(name) /\ outputs > published THEN outputs - 1 ELSE outputs

(* An error returned to the library ends the extraction and starts           *)
(* publish_before_failure; one from there or from `publish` ends all.        *)
Raise(why) ==
    /\ step' = "check"
    /\ \E name \in ErrorNames :
        IF phase \in {"salvage", "finish"}
        THEN /\ phase' = "failed" /\ staged' = {}
             /\ cause' = why
             /\ UNCHANGED outputs
        ELSE /\ phase' = "salvage"
             /\ outputs' = Popped(name)
             /\ cause' = IF why = "publication" THEN why
                         ELSE IF name = NoName THEN "unnamed" ELSE "named"
             /\ UNCHANGED staged

Fail(why) ==
    /\ Raise(why)
    /\ UNCHANGED <<archive, overwrite, published, identities, dest, verified, foreign>>

---------------------------------------------------------------------------
(* The library. *)

CallOpen ==
    /\ phase = "library" /\ outputs < Count
    /\ phase' = "open"
    /\ UNCHANGED <<archive, overwrite, step, outputs, published, staged,
                   identities, dest, verified, cause, foreign>>

FailBefore == phase = "library" /\ outputs < Count /\ Fail("extraction")

Verify ==
    /\ phase = "writing"
    /\ phase' = "library"
    /\ verified' = verified \cup {outputs}
    /\ UNCHANGED <<archive, overwrite, step, outputs, published, staged,
                   identities, dest, cause, foreign>>

FailWriting == phase = "writing" /\ Fail("extraction")

CompleteUnpublished ==   \* mutant: publish does not call publish_verified
    /\ phase = "library" /\ outputs = Count
    /\ phase' = "ok" /\ staged' = {}
    /\ UNCHANGED <<archive, overwrite, step, outputs, published, identities,
                   dest, verified, cause, foreign>>

Complete ==
    /\ phase = "library" /\ outputs = Count
    /\ phase' = "finish"
    /\ UNCHANGED <<archive, overwrite, step, outputs, published, staged,
                   identities, dest, verified, cause, foreign>>

---------------------------------------------------------------------------
(* The callbacks, once the members before have been published. *)

FollowsLink(f) == FALSE   \* mutant: the last component is not looked at

(* checked_output_path: no component of a path, the last one included, may   *)
(* be a symbolic link, whoever made it.                                      *)
CrossesLink(f) == dest[f].kind = "symlink"

Planned(k) == \E j \in 1..outputs : archive[j].name = archive[k].name
Refused(k) ==
    \/ CrossesLink(File(k))
    \/ Planned(k)
    \/ overwrite = "never" /\ Kind(k) # "dir" /\ dest[File(k)] # Gone
    \/ \E j \in staged : File(j) = File(k)

StageMember ==
    /\ phase = "open" /\ published = outputs
    /\ ~Refused(outputs + 1)
    /\ outputs' = outputs + 1
    /\ staged' = staged \cup {outputs'}
    /\ IF Kind(outputs') = "file"
       THEN phase' = "writing" /\ UNCHANGED verified
       ELSE phase' = "library" /\ verified' = verified \cup {outputs'}
    /\ UNCHANGED <<archive, overwrite, step, published, identities, dest, cause, foreign>>

(* Refused above, or a path or filesystem error. *)
FailStaging == phase = "open" /\ published = outputs /\ Fail("extraction")

---------------------------------------------------------------------------
(* publish_verified: the member after the last published one. *)

Publishing == phase \in {"open", "salvage", "finish"} /\ published < outputs
Due == published + 1
AtStep(s) == Publishing /\ step = s

Rest == <<archive, overwrite, outputs, verified, foreign>>

AnyDestination == TRUE   \* mutant: the identity of the destination is not looked up

(* The path is checked once more, and then the identity of what is there.    *)
(* (A member that is no directory has its path checked again when its parent *)
(* exists; what others create after the last check is there for the steps    *)
(* below.)                                                                   *)
Distinct ==
    /\ ~CrossesLink(File(Due))
    /\ dest[File(Due)] # Gone => File(Due) \notin identities

CheckAlias ==
    /\ AtStep("check") /\ Distinct
    /\ step' = "place"
    /\ UNCHANGED <<phase, published, staged, identities, dest, cause>> /\ UNCHANGED Rest

RefuseAlias == AtStep("check") /\ ~Distinct /\ Fail("publication")

(* What every publication ends with.  A link has no identity of its own. *)
Book ==
    /\ published' = Due
    /\ identities' = IF dest'[File(Due)].kind = "symlink" THEN identities
                     ELSE identities \cup {File(Due)}
    /\ step' = "check"

(* create_dir_all is content with a link to a directory. *)
PlaceDirectory ==
    /\ AtStep("place") /\ Kind(Due) = "dir"
    /\ dest[File(Due)] = Gone \/ dest[File(Due)].kind \in {"dir", "symlink"}
    /\ dest' = [dest EXCEPT ![File(Due)] = IF @ = Gone THEN Whole(Due) ELSE @]
    /\ Book
    /\ UNCHANGED <<phase, staged, cause>> /\ UNCHANGED Rest

(* --overwrite=never: a hard link, or where there are none a copy into a     *)
(* file that must be new.                                                    *)
MayTruncate == dest[File(Due)].kind # "dir"   \* mutant: create(true).truncate(true)

IsFree == dest[File(Due)] = Gone

LinkNew ==
    /\ AtStep("place") /\ Kind(Due) # "dir" /\ overwrite = "never"
    /\ IsFree
    /\ dest' = [dest EXCEPT ![File(Due)] = Whole(Due)]
    /\ step' = "clean"
    /\ UNCHANGED <<phase, published, staged, identities, cause>> /\ UNCHANGED Rest

CopyNew ==
    /\ AtStep("place") /\ Kind(Due) \in {"file", "hardlink"} /\ overwrite = "never"
    /\ IsFree
    /\ dest' = [dest EXCEPT ![File(Due)] = Partial(Due)]
    /\ step' = "copy"
    /\ UNCHANGED <<phase, published, staged, identities, cause>> /\ UNCHANGED Rest

CopyData ==
    /\ AtStep("copy")
    /\ dest' = [dest EXCEPT ![File(Due)] = Whole(Due)]
    /\ step' = "clean"
    /\ UNCHANGED <<phase, published, staged, identities, cause>> /\ UNCHANGED Rest

(* --overwrite=always: an atomic rename.  A redirection removes an empty     *)
(* directory that is in its way first.                                       *)
RemoveDirectory ==
    /\ AtStep("place") /\ overwrite = "always" /\ Redirection(Due)
    /\ dest[File(Due)].kind = "dir"
    /\ dest' = [dest EXCEPT ![File(Due)] = Gone]
    /\ UNCHANGED <<phase, step, published, staged, identities, cause>> /\ UNCHANGED Rest

CanReplace == Kind(Due) # "dir" /\ overwrite = "always" /\ dest[File(Due)].kind # "dir"

Rename ==
    /\ AtStep("place") /\ CanReplace
    /\ dest' = [dest EXCEPT ![File(Due)] = Whole(Due)]
    /\ staged' = staged \ {Due}
    /\ Book
    /\ UNCHANGED <<phase, cause>> /\ UNCHANGED Rest

CopyAcross ==   \* mutant: the copy goes to the destination itself
    /\ AtStep("place") /\ CanReplace
    /\ dest' = [dest EXCEPT ![File(Due)] = Partial(Due)]
    /\ step' = "copy"
    /\ UNCHANGED <<phase, published, staged, identities, cause>> /\ UNCHANGED Rest

(* On another filesystem: copied beside the destination, then renamed. *)
RenameAcross ==
    /\ AtStep("place") /\ CanReplace
    /\ dest' = [dest EXCEPT ![File(Due)] = Whole(Due)]
    /\ step' = "clean"
    /\ UNCHANGED <<phase, published, staged, identities, cause>> /\ UNCHANGED Rest

RemoveStaged ==
    /\ AtStep("clean")
    /\ staged' = staged \ {Due}
    /\ UNCHANGED <<phase, dest, cause>> /\ UNCHANGED Rest
    /\ Book

(* Any of these filesystem calls may fail, with what was done before it left *)
(* as it is.                                                                 *)
FailPublication == Publishing /\ Fail("publication")

---------------------------------------------------------------------------
End ==
    /\ phase \in {"salvage", "finish"} /\ published = outputs
    /\ phase' = IF phase = "finish" THEN "ok" ELSE "failed"
    /\ staged' = {}
    /\ UNCHANGED <<archive, overwrite, step, outputs, published, identities,
                   dest, verified, cause, foreign>>

ForeignKinds == {"file", "symlink"}

CreateForeign(f, kind) ==
    /\ phase \notin {"ok", "failed"} /\ foreign < MaxForeign
    /\ dest[f] = Gone
    /\ dest' = [dest EXCEPT ![f] = Old(kind)]
    /\ foreign' = foreign + 1
    /\ UNCHANGED <<archive, overwrite, phase, step, outputs, published, staged,
                   identities, verified, cause>>

Publish ==
    \/ CheckAlias \/ RefuseAlias
    \/ PlaceDirectory \/ LinkNew \/ CopyNew \/ CopyData
    \/ RemoveDirectory \/ Rename \/ RenameAcross
    \/ RemoveStaged \/ FailPublication

Next ==
    \/ CallOpen \/ FailBefore \/ Verify \/ FailWriting \/ Complete
    \/ StageMember \/ FailStaging
    \/ Publish
    \/ End
    \/ \E f \in Files, kind \in ForeignKinds : CreateForeign(f, kind)

Spec == Init /\ [][Next]_extractVars

---------------------------------------------------------------------------
Holds(f, m) == dest[f].by = m

(* Nothing that was not verified is ever at a destination, whole or in part: *)
(* publish_before_failure has only the name of the failed entry to tell a    *)
(* member that verified from one that did not.                               *)
PublishedIsVerified ==
    \A f \in Files : \A m \in 1..Count : Holds(f, m) => m \in verified

(* A file that is there stays as it is, or is the copy that becomes whole. *)
KeepsFiles ==
    overwrite = "never" => \A f \in Files :
        (dest[f] # Gone /\ dest'[f] # dest[f]) =>
            ~dest[f].whole /\ dest'[f].whole /\ dest'[f].by = dest[f].by

(* --overwrite=never changes no file that is there, whoever made it and      *)
(* whenever: only what it is copying itself becomes whole.                   *)
NeverReplaces == [][KeepsFiles]_extractVars

(* --overwrite=always replaces a file at once or not at all: no state shows  *)
(* part of a member.  (Without hard links, "never" copies in place.)         *)
AlwaysReplacesWhole ==
    overwrite = "always" => \A f \in Files : dest[f].whole

(* No member replaces another: two names of one file are refused             *)
(* (rars-cli/tests/extraction_publication.rs:202,                            *)
(* case_aliases_are_refused_on_insensitive_filesystems_...), a file by its   *)
(* identity and a link, which has none, as a link.                           *)
MembersAreKept ==
    [][\A f \in Files : \A m \in 1..Count :
        (m <= published /\ Holds(f, m)) => dest'[f].by = m]_extractVars

(* A successful extraction has put every member in its place. *)
SuccessIsComplete ==
    phase = "ok" => \A m \in 1..Count :
        Kind(m) # "dir" => dest[File(m)] = Whole(m)

(* Never a part of a member where a file is replaced, and all of every       *)
(* member once the command says so.                                          *)
NothingByHalves == AlwaysReplacesWhole /\ SuccessIsComplete

(* An extraction that fails keeps the members verified before (main.rs:719,  *)
(* 1055): unless the error names no entry or publication itself failed,      *)
(* every verified member is at its destination when the command ends.        *)
VerifiedAreKept ==
    (phase = "failed" /\ cause = "named") => \A m \in verified :
        Kind(m) # "dir" => Holds(File(m), m)

=============================================================================
