----------------------- MODULE ExtractionOutputProofs -----------------------
(* The extraction's output state, for every archive and every set of aliases *)
(* among its names (ExtractionOutput), and the publication of archives, for  *)
(* any number of calls, destinations and temporary names                     *)
(* (ArchivePublication).                                                     *)
EXTENDS ExtractionOutput, ArchivePublication, TLAPS

(* What the callbacks may rely on: whatever is recorded has been verified,   *)
(* except the member being written, which is the last and not published.     *)
RecordedIsVerified ==
    /\ phase \in {"library", "open", "salvage", "finish"} => 1..outputs \subseteq verified
    /\ phase = "writing" =>
        /\ outputs \in Nat \ {0} /\ published < outputs
        /\ 1..(outputs - 1) \subseteq verified

(* A callback runs for a member of the archive; a publication is under way   *)
(* only while there is something to publish; a copy in progress is of the    *)
(* member due.                                                               *)
StepsAreDue ==
    /\ phase = "open" => outputs < Count
    /\ (phase \in {"library", "writing", "ok", "failed"} \/ published = outputs)
        => step = "check"
    /\ step = "copy" => overwrite = "never" /\ dest[File(Due)] = Partial(Due)

OutputInv ==
    /\ OutputTypeOK
    /\ RecordedIsVerified
    /\ StepsAreDue
    /\ PublishedIsVerified
    /\ AlwaysReplacesWhole

---------------------------------------------------------------------------
(* An archive of the model is a sequence of members. *)
LEMMA MembersOf ==
    ASSUME archive \in Archives
    PROVE  /\ Count \in Nat
           /\ \A m \in 1..Count :
                /\ archive[m].name \in Names
                /\ Kind(m) \in Kinds
                /\ File(m) \in Files
                /\ Whole(m) = [by |-> m, kind |-> Kind(m), whole |-> TRUE]
                /\ Partial(m) = [by |-> m, kind |-> Kind(m), whole |-> FALSE]
<1>1. PICK R : R = [name : Names, kind : Kinds]
  OBVIOUS
<1>2. archive \in Seq(R)
  BY <1>1, ArchivesAssumption
<1>3. Count \in Nat /\ \A m \in 1..Count : archive[m] \in R
  BY <1>2 DEF Count
<1>4. SUFFICES ASSUME NEW m \in 1..Count
               PROVE  /\ archive[m].name \in Names
                      /\ Kind(m) \in Kinds
                      /\ File(m) \in Files
                      /\ Whole(m) = [by |-> m, kind |-> Kind(m), whole |-> TRUE]
                      /\ Partial(m) = [by |-> m, kind |-> Kind(m), whole |-> FALSE]
  BY <1>3
<1>5. archive[m].name \in Names /\ Kind(m) \in Kinds
  BY <1>1, <1>3 DEF Kind
<1>6. File(m) \in Files
  BY <1>5 DEF File, Files
<1>7. Whole(m) = [by |-> m, kind |-> Kind(m), whole |-> TRUE]
  BY DEF Whole, Kind
<1>8. Partial(m) = [by |-> m, kind |-> Kind(m), whole |-> FALSE]
  BY DEF Partial, Kind
<1> QED
  BY <1>5, <1>6, <1>7, <1>8

(* The error that ends a writing names the member written or nobody, so the  *)
(* member is not kept; any other error leaves verified members only.         *)
LEMMA FailKeeps ==
    ASSUME OutputInv, NEW why \in {"extraction", "publication"}, Fail(why),
           phase \notin {"ok", "failed"},
           phase \in {"salvage", "finish"} => why = "publication"
    PROVE  OutputInv'
<1>1. Count \in Nat /\ Count' = Count /\ outputs \in 0..Count /\ published \in 0..outputs
  BY MembersOf DEF OutputInv, OutputTypeOK, Fail, Count
<1>2. PICK name \in ErrorNames :
        IF phase \in {"salvage", "finish"}
        THEN /\ phase' = "failed" /\ staged' = {}
             /\ cause' = why
             /\ UNCHANGED outputs
        ELSE /\ phase' = "salvage"
             /\ outputs' = Popped(name)
             /\ cause' = IF why = "publication" THEN why
                         ELSE IF name = NoName THEN "unnamed" ELSE "named"
             /\ UNCHANGED staged
  BY DEF Fail, Raise
<1>3. /\ step' = "check"
      /\ UNCHANGED <<archive, overwrite, published, identities, dest, verified, foreign>>
  BY DEF Fail, Raise
<1>4. outputs' \in 0..Count /\ published \in 0..outputs' /\ outputs' <= outputs
  BY <1>1, <1>2 DEF Popped
<1>5. OutputTypeOK'
  BY <1>1, <1>2, <1>3, <1>4 DEF OutputInv, OutputTypeOK, Count
<1>6. RecordedIsVerified'
  <2>1. CASE phase = "writing"
    <3>1. ~KeepsLast(name)
      BY <1>2, <2>1 DEF ErrorNames, KeepsLast, OutputInv, RecordedIsVerified
    <3>2. outputs' = outputs - 1
      BY <1>1, <1>2, <2>1, <3>1 DEF Popped, OutputInv, RecordedIsVerified
    <3> QED
      BY <1>2, <1>3, <2>1, <3>2 DEF OutputInv, RecordedIsVerified
  <2>2. CASE phase # "writing"
    <3>1. 1..outputs \subseteq verified
      BY <2>2 DEF OutputInv, OutputTypeOK, RecordedIsVerified
    <3>2. 1..outputs' \subseteq verified'
      BY <1>1, <1>3, <1>4, <3>1
    <3> QED
      BY <1>2, <3>2 DEF RecordedIsVerified
  <2> QED
    BY <2>1, <2>2
<1>7. StepsAreDue'
  BY <1>1, <1>2, <1>3 DEF StepsAreDue
<1>8. PublishedIsVerified' /\ AlwaysReplacesWhole'
  BY <1>1, <1>3 DEF OutputInv, PublishedIsVerified, AlwaysReplacesWhole, Holds
<1> QED
  BY <1>5, <1>6, <1>7, <1>8 DEF OutputInv

---------------------------------------------------------------------------
LEMMA InitOutput == Init => OutputInv
<1> SUFFICES ASSUME Init PROVE OutputInv
  OBVIOUS
<1>1. Count \in Nat
  BY MembersOf DEF Init
<1>2. 0 \in 0..Count /\ 0 \in -1..Count /\ -1 \in -1..Count /\ 1..0 = {}
  BY <1>1
<1>3. \A f \in Files :
        dest[f] \in [by : {-1, 0}, kind : Kinds, whole : {TRUE}]
  <2>1. {Gone, Old("file"), Old("dir"), Old("symlink")} \subseteq [by : {-1, 0}, kind : Kinds, whole : {TRUE}]
    BY DEF Gone, Old, Kinds
  <2> QED
    BY <2>1 DEF Init
<1>4. dest \in [Files -> [by : -1..Count, kind : Kinds, whole : BOOLEAN]]
  <2>1. [by : {-1, 0}, kind : Kinds, whole : {TRUE}]
          \subseteq [by : -1..Count, kind : Kinds, whole : BOOLEAN]
    BY <1>2
  <2> QED
    BY <1>3, <2>1 DEF Init
<1>5. OutputTypeOK
  BY <1>2, <1>4, ArchivesAssumption DEF Init, OutputTypeOK
<1>6. RecordedIsVerified /\ StepsAreDue
  BY <1>2 DEF Init, RecordedIsVerified, StepsAreDue
<1>7. PublishedIsVerified /\ AlwaysReplacesWhole
  <2>1. \A f \in Files : dest[f].by \in {-1, 0} /\ dest[f].whole
    BY <1>3
  <2>2. \A m \in 1..Count : m # -1 /\ m # 0
    BY <1>1
  <2> QED
    BY <2>1, <2>2 DEF PublishedIsVerified, AlwaysReplacesWhole, Holds
<1> QED
  BY <1>5, <1>6, <1>7 DEF OutputInv

(* A member is put at its destination, whole, or in part where it may be.    *)
LEMMA PlacedKeeps ==
    ASSUME OutputInv, NEW file \in [by : -1..Count, kind : Kinds, whole : BOOLEAN],
           dest' = [dest EXCEPT ![File(Due)] = file],
           Due \in 1..Count,
           file.by \in verified \/ file.by \notin 1..Count,
           file.whole \/ overwrite = "never",
           UNCHANGED <<archive, overwrite, verified>>
    PROVE  /\ dest' \in [Files -> [by : -1..Count', kind : Kinds, whole : BOOLEAN]]
           /\ dest'[File(Due)] = file
           /\ PublishedIsVerified' /\ AlwaysReplacesWhole'
<1>1. Count' = Count
  BY DEF Count
<1>2. File(Due) \in Files
  BY MembersOf DEF OutputInv, OutputTypeOK
<1>3. dest \in [Files -> [by : -1..Count, kind : Kinds, whole : BOOLEAN]]
  BY DEF OutputInv, OutputTypeOK
<1>4. \A f \in Files : dest'[f] = IF f = File(Due) THEN file ELSE dest[f]
  BY <1>2, <1>3
<1>5. dest' \in [Files -> [by : -1..Count', kind : Kinds, whole : BOOLEAN]]
  BY <1>1, <1>3
<1>6. PublishedIsVerified'
  BY <1>1, <1>4 DEF OutputInv, PublishedIsVerified, Holds
<1>7. AlwaysReplacesWhole'
  BY <1>4 DEF OutputInv, AlwaysReplacesWhole
<1> QED
  BY <1>2, <1>4, <1>5, <1>6, <1>7

---------------------------------------------------------------------------
(* One step per action. *)

LEMMA LibraryKeeps ==
    ASSUME OutputInv, CallOpen \/ FailBefore \/ Verify \/ FailWriting \/ Complete
    PROVE  OutputInv'
<1>1. Count \in Nat /\ outputs \in 0..Count /\ published \in 0..outputs
  BY MembersOf DEF OutputInv, OutputTypeOK
<1>2. CASE CallOpen \/ Complete
  <2>1. Count' = Count
    BY <1>2 DEF CallOpen, Complete, Count
  <2>2. OutputTypeOK'
    BY <1>2, <2>1 DEF OutputInv, OutputTypeOK, CallOpen, Complete
  <2>3. RecordedIsVerified' /\ StepsAreDue'
    BY <1>2, <2>1 DEF OutputInv, RecordedIsVerified, StepsAreDue, CallOpen, Complete
  <2>4. PublishedIsVerified' /\ AlwaysReplacesWhole'
    BY <1>2, <2>1 DEF OutputInv, PublishedIsVerified, AlwaysReplacesWhole, Holds,
                      CallOpen, Complete
  <2> QED
    BY <2>2, <2>3, <2>4 DEF OutputInv
<1>3. CASE Verify
  <2>1. Count' = Count
    BY <1>3 DEF Verify, Count
  <2>2. outputs \in 1..Count
    BY <1>1, <1>3 DEF OutputInv, RecordedIsVerified, Verify
  <2>3. OutputTypeOK'
    BY <1>3, <2>1, <2>2 DEF OutputInv, OutputTypeOK, Verify
  <2>4. 1..outputs \subseteq verified'
    <3>1. 1..(outputs - 1) \subseteq verified /\ verified' = verified \cup {outputs}
      BY <1>3 DEF OutputInv, RecordedIsVerified, Verify
    <3>2. \A i \in 1..outputs : i \in 1..(outputs - 1) \/ i = outputs
      BY <2>2, <1>1
    <3> QED
      BY <3>1, <3>2
  <2>5. RecordedIsVerified' /\ StepsAreDue'
    BY <1>3, <2>4 DEF OutputInv, RecordedIsVerified, StepsAreDue, Verify
  <2>6. PublishedIsVerified' /\ AlwaysReplacesWhole'
    BY <1>3, <2>1 DEF OutputInv, PublishedIsVerified, AlwaysReplacesWhole, Holds, Verify
  <2> QED
    BY <2>3, <2>5, <2>6 DEF OutputInv
<1>4. CASE FailBefore
  BY <1>4, FailKeeps DEF FailBefore
<1>5. CASE FailWriting
  BY <1>5, FailKeeps DEF FailWriting
<1> QED
  BY <1>2, <1>3, <1>4, <1>5

LEMMA StagingKeeps ==
    ASSUME OutputInv, StageMember \/ FailStaging \/ End
    PROVE  OutputInv'
<1>1. Count \in Nat /\ outputs \in 0..Count /\ published \in 0..outputs
  BY MembersOf DEF OutputInv, OutputTypeOK
<1>2. CASE StageMember
  <2>1. Count' = Count /\ outputs + 1 = outputs'
    BY <1>2 DEF StageMember, Count
  <2>2. outputs' \in 1..Count
    BY <1>1, <1>2, <2>1 DEF OutputInv, StepsAreDue, StageMember
  <2>3. OutputTypeOK'
    <3>1. /\ staged' = staged \cup {outputs'} /\ phase' \in {"writing", "library"}
          /\ verified' \in {verified, verified \cup {outputs'}}
          /\ UNCHANGED <<archive, overwrite, step, published, identities, dest, cause, foreign>>
      BY <1>2 DEF StageMember
    <3>2. outputs' \in 0..Count' /\ published' \in 0..outputs'
          /\ staged' \subseteq 1..Count' /\ verified' \subseteq 1..Count'
      BY <1>1, <2>1, <2>2, <3>1 DEF OutputInv, OutputTypeOK
    <3> QED
      BY <2>1, <3>1, <3>2 DEF OutputInv, OutputTypeOK
  <2>4. 1..outputs \subseteq verified /\ \A i \in 1..outputs' : i \in 1..outputs \/ i = outputs'
    BY <1>1, <1>2, <2>1 DEF OutputInv, RecordedIsVerified, StageMember
  <2>5. RecordedIsVerified'
    BY <1>1, <1>2, <2>1, <2>2, <2>4 DEF RecordedIsVerified, StageMember
  <2>6. StepsAreDue'
    BY <1>2 DEF OutputInv, StepsAreDue, StageMember
  <2>7. PublishedIsVerified' /\ AlwaysReplacesWhole'
    BY <1>2, <2>1 DEF OutputInv, PublishedIsVerified, AlwaysReplacesWhole, Holds, StageMember
  <2> QED
    BY <2>3, <2>5, <2>6, <2>7 DEF OutputInv
<1>3. CASE FailStaging
  BY <1>3, FailKeeps DEF FailStaging
<1>4. CASE End
  <2>1. Count' = Count
    BY <1>4 DEF End, Count
  <2>2. OutputTypeOK'
    BY <1>4, <2>1 DEF OutputInv, OutputTypeOK, End
  <2>3. RecordedIsVerified' /\ StepsAreDue'
    BY <1>4 DEF OutputInv, RecordedIsVerified, StepsAreDue, End
  <2>4. PublishedIsVerified' /\ AlwaysReplacesWhole'
    BY <1>4, <2>1 DEF OutputInv, PublishedIsVerified, AlwaysReplacesWhole, Holds, End
  <2> QED
    BY <2>2, <2>3, <2>4 DEF OutputInv
<1> QED
  BY <1>2, <1>3, <1>4

(* What every step of a publication starts from. *)
LEMMA DueIsRecorded ==
    ASSUME OutputInv, Publishing
    PROVE  /\ Count \in Nat /\ published \in Nat /\ outputs \in 0..Count
           /\ Due \in 1..Count /\ Due \in 1..outputs
           /\ Due \in verified /\ File(Due) \in Files
           /\ phase \in {"open", "salvage", "finish"}
           /\ Whole(Due) \in [by : -1..Count, kind : Kinds, whole : BOOLEAN]
           /\ Partial(Due) \in [by : -1..Count, kind : Kinds, whole : BOOLEAN]
           /\ Whole(Due).by = Due /\ Whole(Due).whole
           /\ Partial(Due).by = Due /\ ~Partial(Due).whole
<1>1. Count \in Nat /\ outputs \in 0..Count /\ published \in 0..outputs
  BY MembersOf DEF OutputInv, OutputTypeOK
<1>2. Due \in 1..Count /\ Due \in 1..outputs /\ published \in Nat
  BY <1>1 DEF Publishing, Due
<1>3. Due \in verified
  BY <1>2 DEF OutputInv, RecordedIsVerified, Publishing
<1>4. /\ File(Due) \in Files /\ Kind(Due) \in Kinds
      /\ Whole(Due) = [by |-> Due, kind |-> Kind(Due), whole |-> TRUE]
      /\ Partial(Due) = [by |-> Due, kind |-> Kind(Due), whole |-> FALSE]
  BY <1>2, MembersOf DEF OutputInv, OutputTypeOK
<1>5. Due \in -1..Count
  BY <1>1, <1>2
<1>6. /\ Whole(Due) \in [by : -1..Count, kind : Kinds, whole : BOOLEAN]
      /\ Whole(Due).by = Due /\ Whole(Due).whole
  BY <1>4, <1>5
<1>7. /\ Partial(Due) \in [by : -1..Count, kind : Kinds, whole : BOOLEAN]
      /\ Partial(Due).by = Due /\ ~Partial(Due).whole
  BY <1>4, <1>5
<1> QED
  BY <1>1, <1>2, <1>3, <1>4, <1>6, <1>7 DEF Publishing

(* A step that books the member, or goes to another step, and writes nothing *)
(* but the destination of the member due.                                    *)
LEMMA PublishStepKeeps ==
    ASSUME OutputInv, Publishing, UNCHANGED <<Rest, phase, cause>>,
           staged' \subseteq staged,
           \/ UNCHANGED dest
           \/ \E file \in {Gone, Whole(Due)} : dest' = [dest EXCEPT ![File(Due)] = file]
           \/ /\ dest' = [dest EXCEPT ![File(Due)] = Partial(Due)]
              /\ overwrite = "never",
           \/ Book
           \/ /\ step' \in {"check", "place", "copy", "clean"}
              /\ UNCHANGED <<published, identities>>
              /\ step' = "copy" => dest' = [dest EXCEPT ![File(Due)] = Partial(Due)]
                                   /\ overwrite = "never"
    PROVE  OutputInv'
<1>1. Count \in Nat /\ Count' = Count /\ Due \in 1..outputs /\ outputs' = outputs
  BY DueIsRecorded DEF Rest, Count
<1>2. Gone \in [by : -1..Count, kind : Kinds, whole : BOOLEAN] /\ Gone.whole /\ Gone.by = -1
  BY <1>1 DEF Gone, Kinds
<1>3. /\ dest' \in [Files -> [by : -1..Count', kind : Kinds, whole : BOOLEAN]]
      /\ PublishedIsVerified' /\ AlwaysReplacesWhole'
  <2>1. CASE UNCHANGED dest
    BY <1>1, <2>1 DEF OutputInv, OutputTypeOK, PublishedIsVerified, AlwaysReplacesWhole,
                      Holds, Rest
  <2>2. CASE dest' = [dest EXCEPT ![File(Due)] = Gone]
    <3>1. Gone.by \notin 1..Count
      BY <1>1, <1>2
    <3> QED
      BY <1>2, <2>2, <3>1, DueIsRecorded, PlacedKeeps DEF Rest
  <2>3. CASE dest' = [dest EXCEPT ![File(Due)] = Whole(Due)]
    BY <2>3, DueIsRecorded, PlacedKeeps DEF Rest
  <2>4. CASE dest' = [dest EXCEPT ![File(Due)] = Partial(Due)] /\ overwrite = "never"
    BY <2>4, DueIsRecorded, PlacedKeeps DEF Rest
  <2> QED
    BY <2>1, <2>2, <2>3, <2>4
<1>4. identities' \subseteq Files /\ published' \in 0..outputs
  BY <1>1, DueIsRecorded DEF Book, OutputInv, OutputTypeOK, Due
<1>5. OutputTypeOK'
  BY <1>1, <1>3, <1>4 DEF OutputInv, OutputTypeOK, Book, Rest
<1>6. RecordedIsVerified'
  BY <1>1, DueIsRecorded DEF OutputInv, RecordedIsVerified, Rest
<1>7. StepsAreDue'
  <2>1. CASE Book
    BY <1>1, <2>1, DueIsRecorded DEF OutputInv, StepsAreDue, Book, Rest
  <2>2. CASE ~Book
    <3>1. published' = published /\ Due' = Due /\ published # outputs
      BY <1>1, <2>2, DueIsRecorded DEF Due, Publishing
    <3>2. step' = "copy" => overwrite' = "never" /\ dest'[File(Due)'] = Partial(Due)'
      <4>1. SUFFICES ASSUME step' = "copy"
                     PROVE  overwrite' = "never" /\ dest'[File(Due)'] = Partial(Due)'
        OBVIOUS
      <4>2. dest' = [dest EXCEPT ![File(Due)] = Partial(Due)] /\ overwrite = "never"
        BY <2>2, <4>1
      <4>3. dest'[File(Due)] = Partial(Due)
        BY <4>2, DueIsRecorded DEF OutputInv, OutputTypeOK
      <4>4. File(Due)' = File(Due) /\ Partial(Due)' = Partial(Due)
        BY <3>1 DEF File, Partial, Rest
      <4> QED
        BY <4>2, <4>3, <4>4 DEF Rest
    <3> QED
      BY <1>1, <3>1, <3>2, DueIsRecorded DEF OutputInv, StepsAreDue, Rest
  <2> QED
    BY <2>1, <2>2
<1> QED
  BY <1>3, <1>5, <1>6, <1>7 DEF OutputInv

LEMMA PublishKeeps ==
    ASSUME OutputInv, Publish
    PROVE  OutputInv'
<1>1. CASE CheckAlias
  <2>1. Publishing /\ step' = "place"
        /\ UNCHANGED <<Rest, phase, published, staged, identities, dest, cause>>
    BY <1>1 DEF CheckAlias, AtStep
  <2> QED
    BY <2>1, PublishStepKeeps
<1>2. CASE RefuseAlias \/ FailPublication
  <2>1. Publishing /\ Fail("publication")
    BY <1>2 DEF RefuseAlias, FailPublication, AtStep
  <2> QED
    BY <2>1, FailKeeps DEF Publishing
<1>3. CASE PlaceDirectory
  <2>1. Publishing /\ Book /\ UNCHANGED <<Rest, phase, staged, cause>>
    BY <1>3 DEF PlaceDirectory, AtStep
  <2>2. dest' = [dest EXCEPT ![File(Due)] = Whole(Due)] \/ UNCHANGED dest
    <3>1. File(Due) \in Files /\ dest \in [Files -> [by : -1..Count, kind : Kinds, whole : BOOLEAN]]
      BY <2>1, DueIsRecorded DEF OutputInv, OutputTypeOK
    <3> QED
      BY <1>3, <3>1 DEF PlaceDirectory
  <2> QED
    BY <2>1, <2>2, PublishStepKeeps
<1>4. CASE LinkNew
  <2>1. Publishing /\ step' = "clean" /\ dest' = [dest EXCEPT ![File(Due)] = Whole(Due)]
        /\ UNCHANGED <<Rest, phase, published, staged, identities, cause>>
    BY <1>4 DEF LinkNew, AtStep
  <2> QED
    BY <2>1, PublishStepKeeps
<1>5. CASE CopyNew
  <2>1. Publishing /\ step' = "copy" /\ overwrite = "never"
        /\ dest' = [dest EXCEPT ![File(Due)] = Partial(Due)]
        /\ UNCHANGED <<Rest, phase, published, staged, identities, cause>>
    BY <1>5 DEF CopyNew, AtStep
  <2> QED
    BY <2>1, PublishStepKeeps
<1>6. CASE CopyData
  <2>1. Publishing /\ step' = "clean" /\ dest' = [dest EXCEPT ![File(Due)] = Whole(Due)]
        /\ UNCHANGED <<Rest, phase, published, staged, identities, cause>>
    BY <1>6 DEF CopyData, AtStep
  <2> QED
    BY <2>1, PublishStepKeeps
<1>7. CASE RemoveDirectory
  <2>1. Publishing /\ step' = "place" /\ dest' = [dest EXCEPT ![File(Due)] = Gone]
        /\ UNCHANGED <<Rest, phase, published, staged, identities, cause>>
    BY <1>7 DEF RemoveDirectory, AtStep
  <2> QED
    BY <2>1, PublishStepKeeps
<1>8. CASE Rename
  <2>1. Publishing /\ Book /\ staged' \subseteq staged
        /\ dest' = [dest EXCEPT ![File(Due)] = Whole(Due)]
        /\ UNCHANGED <<Rest, phase, cause>>
    BY <1>8 DEF Rename, AtStep
  <2> QED
    BY <2>1, PublishStepKeeps
<1>9. CASE RenameAcross
  <2>1. Publishing /\ step' = "clean" /\ dest' = [dest EXCEPT ![File(Due)] = Whole(Due)]
        /\ UNCHANGED <<Rest, phase, published, staged, identities, cause>>
    BY <1>9 DEF RenameAcross, AtStep
  <2> QED
    BY <2>1, PublishStepKeeps
<1>10. CASE RemoveStaged
  <2>1. Publishing /\ Book /\ staged' \subseteq staged
        /\ UNCHANGED <<Rest, phase, dest, cause>>
    BY <1>10 DEF RemoveStaged, AtStep
  <2> QED
    BY <2>1, PublishStepKeeps
<1> QED
  BY <1>1, <1>2, <1>3, <1>4, <1>5, <1>6, <1>7, <1>8, <1>9, <1>10 DEF Publish

(* A file somebody else creates takes a free place, so it disturbs no copy.  *)
LEMMA ForeignKeeps ==
    ASSUME OutputInv, NEW f \in Files, NEW kind \in ForeignKinds, CreateForeign(f, kind)
    PROVE  OutputInv'
<1>1. Count \in Nat /\ Count' = Count /\ outputs \in 0..Count /\ published \in 0..outputs
  BY MembersOf DEF OutputInv, OutputTypeOK, CreateForeign, Count
<1>2. dest \in [Files -> [by : -1..Count, kind : Kinds, whole : BOOLEAN]]
  BY DEF OutputInv, OutputTypeOK
<1>3. Old(kind) \in [by : -1..Count, kind : Kinds, whole : BOOLEAN]
      /\ Old(kind).by = 0 /\ Old(kind).whole
  BY <1>1 DEF Old, Kinds, ForeignKinds
<1>4. \A g \in Files : dest'[g] = IF g = f THEN Old(kind) ELSE dest[g]
  BY <1>2 DEF CreateForeign
<1>5. dest' \in [Files -> [by : -1..Count', kind : Kinds, whole : BOOLEAN]]
  BY <1>1, <1>2, <1>3 DEF CreateForeign
<1>6. OutputTypeOK'
  BY <1>1, <1>5, ArchivesAssumption DEF OutputInv, OutputTypeOK, CreateForeign
<1>7. RecordedIsVerified'
  BY DEF OutputInv, RecordedIsVerified, CreateForeign
<1>8. StepsAreDue'
  <2>1. step = "copy" => Publishing
    BY <1>1 DEF OutputInv, OutputTypeOK, StepsAreDue, Publishing, CreateForeign
  <2>2. step = "copy" => f # File(Due) /\ File(Due) \in Files
    <3>1. SUFFICES ASSUME step = "copy" PROVE f # File(Due) /\ File(Due) \in Files
      OBVIOUS
    <3>2. dest[File(Due)] = Partial(Due) /\ ~Partial(Due).whole /\ File(Due) \in Files
      BY <2>1, <3>1, DueIsRecorded DEF OutputInv, StepsAreDue
    <3>3. Gone.whole /\ dest[f] = Gone
      BY DEF Gone, CreateForeign
    <3> QED
      BY <3>2, <3>3
  <2>3. step = "copy" => dest'[File(Due)] = dest[File(Due)]
    BY <1>4, <2>2
  <2>4. /\ UNCHANGED <<step, phase, published, outputs, archive, overwrite>>
        /\ File(Due)' = File(Due) /\ Partial(Due)' = Partial(Due)
    BY DEF CreateForeign, File, Partial, Due
  <2> QED
    BY <1>1, <2>3, <2>4 DEF OutputInv, StepsAreDue
<1>9. PublishedIsVerified' /\ AlwaysReplacesWhole'
  <2>1. \A m \in 1..Count : m # 0
    BY <1>1
  <2> QED
    BY <1>1, <1>3, <1>4, <2>1 DEF OutputInv, PublishedIsVerified, AlwaysReplacesWhole, Holds,
                                  CreateForeign
<1> QED
  BY <1>6, <1>7, <1>8, <1>9 DEF OutputInv

LEMMA OutputInvPreserved == OutputInv /\ [Next]_extractVars => OutputInv'
<1> SUFFICES ASSUME OutputInv, [Next]_extractVars PROVE OutputInv'
  OBVIOUS
<1>1. CASE CallOpen \/ FailBefore \/ Verify \/ FailWriting \/ Complete
  BY <1>1, LibraryKeeps
<1>2. CASE StageMember \/ FailStaging \/ End
  BY <1>2, StagingKeeps
<1>3. CASE Publish
  BY <1>3, PublishKeeps
<1>4. CASE \E f \in Files, kind \in ForeignKinds : CreateForeign(f, kind)
  BY <1>4, ForeignKeeps
<1>5. CASE UNCHANGED extractVars
  BY <1>5 DEF extractVars, OutputInv, OutputTypeOK, RecordedIsVerified, StepsAreDue,
              PublishedIsVerified, AlwaysReplacesWhole, Holds, Count, Due, File, Partial
<1> QED
  BY <1>1, <1>2, <1>3, <1>4, <1>5 DEF Next

(* Whatever the library does and wherever the extraction fails, nothing that *)
(* did not pass its checks reaches a destination, and a file of an           *)
(* --overwrite=always run is never there in part                             *)
(* (ExtractOutputState, main.rs; publish_verified_output, output.rs).        *)
THEOREM OutputCorrect == Spec => [](OutputTypeOK /\ PublishedIsVerified /\ AlwaysReplacesWhole)
<1>1. Init => OutputInv
  BY InitOutput
<1>2. OutputInv /\ [Next]_extractVars => OutputInv'
  BY OutputInvPreserved
<1>3. OutputInv => OutputTypeOK /\ PublishedIsVerified /\ AlwaysReplacesWhole
  BY DEF OutputInv
<1> QED
  BY <1>1, <1>2, <1>3, PTL DEF Spec

---------------------------------------------------------------------------
(* A destination changes only where nothing is, or where this run's own copy *)
(* becomes whole.                                                            *)
LEMMA StepKeepsFiles == OutputInv /\ [Next]_extractVars => KeepsFiles
<1> SUFFICES ASSUME OutputInv, [Next]_extractVars, overwrite = "never", NEW f \in Files,
                    dest[f] # Gone, dest'[f] # dest[f]
             PROVE  ~dest[f].whole /\ dest'[f].whole /\ dest'[f].by = dest[f].by
  BY DEF KeepsFiles
<1>1. dest \in [Files -> [by : -1..Count, kind : Kinds, whole : BOOLEAN]]
  BY DEF OutputInv, OutputTypeOK
<1>2. CASE CopyData
  <2>1. Publishing /\ step = "copy" /\ dest' = [dest EXCEPT ![File(Due)] = Whole(Due)]
    BY <1>2 DEF CopyData, AtStep
  <2>2. f = File(Due)
    BY <1>1, <2>1
  <2>3. dest[f] = Partial(Due) /\ dest'[f] = Whole(Due)
    BY <1>1, <2>1, <2>2 DEF OutputInv, StepsAreDue
  <2> QED
    BY <2>1, <2>3, DueIsRecorded
<1>3. CASE PlaceDirectory
  <2>1. dest' = [dest EXCEPT ![File(Due)] = IF @ = Gone THEN Whole(Due) ELSE @]
    BY <1>3 DEF PlaceDirectory
  <2> QED
    BY <1>1, <2>1
<1>4. CASE LinkNew \/ CopyNew
  BY <1>1, <1>4 DEF LinkNew, CopyNew, IsFree
<1>5. CASE RemoveDirectory \/ Rename \/ RenameAcross
  BY <1>5 DEF RemoveDirectory, Rename, RenameAcross, CanReplace
<1>6. CASE CheckAlias \/ RefuseAlias \/ FailPublication \/ RemoveStaged
  BY <1>6 DEF CheckAlias, RefuseAlias, FailPublication, RemoveStaged, Fail
<1>7. CASE CallOpen \/ FailBefore \/ Verify \/ FailWriting \/ Complete
  BY <1>7 DEF CallOpen, FailBefore, Verify, FailWriting, Complete, Fail
<1>8. CASE StageMember \/ FailStaging \/ End
  BY <1>8 DEF StageMember, FailStaging, End, Fail
<1>9. CASE \E g \in Files, kind \in ForeignKinds : CreateForeign(g, kind)
  BY <1>1, <1>9 DEF CreateForeign
<1>10. CASE UNCHANGED extractVars
  BY <1>10 DEF extractVars
<1> QED
  BY <1>2, <1>3, <1>4, <1>5, <1>6, <1>7, <1>8, <1>9, <1>10 DEF Next, Publish

(* --overwrite=never changes no file that is there, at whatever moment       *)
(* another process made it (create_output_file and publish_no_replace,       *)
(* output.rs).                                                               *)
THEOREM NeverReplacesFiles == Spec => NeverReplaces
<1>1. Init => OutputInv
  BY InitOutput
<1>2. OutputInv /\ [Next]_extractVars => OutputInv'
  BY OutputInvPreserved
<1>3. OutputInv /\ [Next]_extractVars => KeepsFiles
  BY StepKeepsFiles
<1> QED
  BY <1>1, <1>2, <1>3, PTL DEF Spec, NeverReplaces

---------------------------------------------------------------------------
(* What a successful or failed command leaves. *)

(* KeepsLast compares names, so a name stands for one member. *)
NamesDiffer ==
    \A m, n \in 1..Count : m # n => archive[m].name # archive[n].name

(* A published member is known by its identity or is seen to be a link. *)
PlacedStand ==
    \A m \in 1..published :
        /\ dest[File(m)] # Gone
        /\ Kind(m) # "dir" => dest[File(m)] = Whole(m)
        /\ CrossesLink(File(m)) \/ File(m) \in identities

HoldersAreNamed == \A f \in Files : \A m \in 1..Count : Holds(f, m) => f = File(m)

(* Past the check no published member has the file of the one due. *)
DueIsDistinct ==
    /\ step # "check" => \A m \in 1..published : File(m) # File(Due)
    /\ step = "clean" => dest[File(Due)] = Whole(Due)

PlacesInv == PlacedStand /\ HoldersAreNamed /\ DueIsDistinct

(* Only the file of the member due changes, and it is not booked before it   *)
(* holds that member.                                                        *)
LEMMA PlaceStep ==
    ASSUME OutputInv, PlacesInv, Publishing, step # "check", UNCHANGED Rest,
           \/ UNCHANGED dest
           \/ \E file \in {Gone, Whole(Due), Partial(Due)} :
                dest' = [dest EXCEPT ![File(Due)] = file],
           \/ /\ Book
              /\ dest'[File(Due)] # Gone
              /\ Kind(Due) # "dir" => dest'[File(Due)] = Whole(Due)
           \/ /\ UNCHANGED <<published, identities>>
              /\ step' = "clean" => dest'[File(Due)] = Whole(Due)
    PROVE  PlacesInv'
<1>1. /\ Count \in Nat /\ published \in Nat /\ outputs \in 0..Count
      /\ Due \in 1..Count /\ Due = published + 1 /\ File(Due) \in Files
      /\ Gone.by = -1 /\ Whole(Due).by = Due /\ Partial(Due).by = Due
  BY DueIsRecorded DEF Due, Gone
<1>2. /\ Count' = Count /\ \A m : File(m)' = File(m) /\ Kind(m)' = Kind(m) /\ Whole(m)' = Whole(m)
  BY DEF Rest, Count, File, Kind, Whole
<1>3. dest \in [Files -> [by : -1..Count, kind : Kinds, whole : BOOLEAN]]
  BY DEF OutputInv, OutputTypeOK
<1>4. \A f \in Files : f # File(Due) => dest'[f] = dest[f]
  BY <1>3
<1>5. dest'[File(Due)] = dest[File(Due)] \/ dest'[File(Due)] \in {Gone, Whole(Due), Partial(Due)}
  BY <1>1, <1>3
<1>6. \A m \in 1..published : File(m) # File(Due) /\ File(m) \in Files /\ m \in 1..Count
  <2>1. \A m \in 1..published : m \in 1..Count
    BY <1>1
  <2>2. \A m \in 1..Count : File(m) \in Files
    BY MembersOf DEF OutputInv, OutputTypeOK
  <2> QED
    BY <2>1, <2>2 DEF PlacesInv, DueIsDistinct
<1>7. \A m \in 1..published :
        /\ dest'[File(m)] # Gone
        /\ Kind(m) # "dir" => dest'[File(m)] = Whole(m)
        /\ dest'[File(m)].kind = "symlink" \/ File(m) \in identities
  BY <1>4, <1>6 DEF PlacesInv, PlacedStand, CrossesLink
<1>8. HoldersAreNamed'
  <2> SUFFICES ASSUME NEW f \in Files, NEW m \in 1..Count, dest'[f].by = m PROVE f = File(m)
    BY <1>2 DEF HoldersAreNamed, Holds
  <2>1. CASE dest'[f] = dest[f]
    BY <2>1 DEF PlacesInv, HoldersAreNamed, Holds
  <2>2. CASE dest'[f] # dest[f]
    <3>1. f = File(Due) /\ dest'[f].by \in {-1, Due}
      BY <1>1, <1>4, <1>5, <2>2
    <3>2. m # -1
      BY <1>1
    <3> QED
      BY <3>1, <3>2
  <2> QED
    BY <2>1, <2>2
<1>9. CASE Book /\ dest'[File(Due)] # Gone /\ (Kind(Due) # "dir" => dest'[File(Due)] = Whole(Due))
  <2>1. /\ published' = Due /\ step' = "check"
        /\ identities' = IF dest'[File(Due)].kind = "symlink" THEN identities
                         ELSE identities \cup {File(Due)}
    BY <1>9 DEF Book
  <2>2. \A m \in 1..published' : m \in 1..published \/ m = Due
    BY <1>1, <2>1
  <2>3. PlacedStand'
    <3> SUFFICES ASSUME NEW m \in 1..published'
                 PROVE  /\ dest'[File(m)] # Gone
                        /\ Kind(m) # "dir" => dest'[File(m)] = Whole(m)
                        /\ dest'[File(m)].kind = "symlink" \/ File(m) \in identities'
      BY <1>2 DEF PlacedStand, CrossesLink
    <3>1. CASE m \in 1..published
      BY <1>7, <2>1, <3>1
    <3>2. CASE m = Due
      BY <1>9, <2>1, <3>2
    <3> QED
      BY <2>2, <3>1, <3>2
  <2>4. DueIsDistinct'
    BY <2>1 DEF DueIsDistinct
  <2> QED
    BY <1>8, <2>3, <2>4 DEF PlacesInv
<1>10. CASE /\ UNCHANGED <<published, identities>>
            /\ step' = "clean" => dest'[File(Due)] = Whole(Due)
  <2>1. Due' = Due
    BY <1>10 DEF Due
  <2>2. File(Due)' = File(Due) /\ Whole(Due)' = Whole(Due)
    BY <2>1 DEF Rest, File, Whole
  <2>3. PlacedStand'
    BY <1>2, <1>7, <1>10 DEF PlacedStand, CrossesLink
  <2>4. DueIsDistinct'
    BY <1>2, <1>6, <1>10, <2>2 DEF DueIsDistinct
  <2> QED
    BY <1>8, <2>3, <2>4 DEF PlacesInv
<1> QED
  BY <1>9, <1>10

(* The steps that leave the destinations and what was booked alone. *)
LEMMA PlacesStay ==
    ASSUME OutputInv, PlacesInv, UNCHANGED <<archive, published, identities, dest>>,
           \/ step' = step \/ step' = "check"
           \/ step' = "place" /\ \A m \in 1..published : File(m) # File(Due)
    PROVE  PlacesInv'
<1>1. /\ Count' = Count /\ Due' = Due
      /\ \A m : File(m)' = File(m) /\ Kind(m)' = Kind(m) /\ Whole(m)' = Whole(m)
  BY DEF Count, Due, File, Kind, Whole
<1>2. PlacedStand'
  BY <1>1 DEF PlacesInv, PlacedStand, CrossesLink
<1>3. HoldersAreNamed'
  BY <1>1 DEF PlacesInv, HoldersAreNamed, Holds
<1>4. File(Due)' = File(Due) /\ Whole(Due)' = Whole(Due)
  BY <1>1 DEF File, Whole
<1>5. DueIsDistinct'
  BY <1>1, <1>4 DEF PlacesInv, DueIsDistinct
<1> QED
  BY <1>2, <1>3, <1>5 DEF PlacesInv

LEMMA PlacesPublish ==
    ASSUME OutputInv, PlacesInv, Publish
    PROVE  PlacesInv'
<1>1. CASE CheckAlias
  <2>1. Publishing /\ Distinct /\ step' = "place" /\ UNCHANGED <<archive, published, identities, dest>>
    BY <1>1 DEF CheckAlias, AtStep, Rest
  <2>2. \A m \in 1..published : File(m) # File(Due)
    BY <2>1 DEF Distinct, PlacesInv, PlacedStand
  <2> QED
    BY <2>1, <2>2, PlacesStay
<1>2. CASE RefuseAlias \/ FailPublication
  <2>1. step' = "check" /\ UNCHANGED <<archive, published, identities, dest>>
    BY <1>2 DEF RefuseAlias, FailPublication, Fail, Raise
  <2> QED
    BY <2>1, PlacesStay
<1>3. ASSUME Publishing
      PROVE  /\ Due \in 1..Count /\ File(Due) \in Files
             /\ Whole(Due).by = Due /\ Gone.by = -1 /\ Whole(Due) # Gone
             /\ dest \in [Files -> [by : -1..Count, kind : Kinds, whole : BOOLEAN]]
  <2>1. Due \in 1..Count /\ File(Due) \in Files /\ Whole(Due).by = Due
    BY <1>3, DueIsRecorded
  <2>2. Gone.by = -1 /\ Due # -1
    BY <1>3, DueIsRecorded DEF Gone
  <2> QED
    BY <2>1, <2>2 DEF OutputInv, OutputTypeOK
<1>4. CASE PlaceDirectory
  <2>1. Publishing /\ step # "check" /\ Book /\ UNCHANGED Rest /\ Kind(Due) = "dir"
        /\ dest' = [dest EXCEPT ![File(Due)] = IF @ = Gone THEN Whole(Due) ELSE @]
    BY <1>4 DEF PlaceDirectory, AtStep
  <2>2. dest'[File(Due)] # Gone
    BY <1>3, <2>1
  <2>3. CASE dest[File(Due)] = Gone
    <3>1. dest' = [dest EXCEPT ![File(Due)] = Whole(Due)]
      BY <2>1, <2>3
    <3> QED
      BY <2>1, <2>2, <3>1, PlaceStep
  <2>4. CASE dest[File(Due)] # Gone
    <3>1. UNCHANGED dest
      BY <1>3, <2>1, <2>4
    <3> QED
      BY <2>1, <2>2, <3>1, PlaceStep
  <2> QED
    BY <2>3, <2>4
<1>5. CASE LinkNew \/ CopyData \/ RenameAcross
  <2>1. /\ Publishing /\ step # "check" /\ UNCHANGED Rest /\ UNCHANGED <<published, identities>>
        /\ dest' = [dest EXCEPT ![File(Due)] = Whole(Due)]
    BY <1>5 DEF LinkNew, CopyData, RenameAcross, AtStep
  <2>2. dest'[File(Due)] = Whole(Due)
    BY <1>3, <2>1
  <2> QED
    BY <2>1, <2>2, PlaceStep
<1>6. CASE CopyNew
  <2>1. /\ Publishing /\ step # "check" /\ UNCHANGED Rest /\ UNCHANGED <<published, identities>>
        /\ dest' = [dest EXCEPT ![File(Due)] = Partial(Due)] /\ step' # "clean"
    BY <1>6 DEF CopyNew, AtStep
  <2> QED
    BY <2>1, PlaceStep
<1>7. CASE RemoveDirectory
  <2>1. /\ Publishing /\ step # "check" /\ UNCHANGED Rest /\ UNCHANGED <<published, identities>>
        /\ dest' = [dest EXCEPT ![File(Due)] = Gone] /\ step' # "clean"
    BY <1>7 DEF RemoveDirectory, AtStep
  <2> QED
    BY <2>1, PlaceStep
<1>8. CASE Rename
  <2>1. /\ Publishing /\ step # "check" /\ UNCHANGED Rest /\ Book
        /\ dest' = [dest EXCEPT ![File(Due)] = Whole(Due)]
    BY <1>8 DEF Rename, AtStep
  <2>2. dest'[File(Due)] = Whole(Due) /\ dest'[File(Due)] # Gone
    BY <1>3, <2>1
  <2> QED
    BY <2>1, <2>2, PlaceStep
<1>9. CASE RemoveStaged
  <2>1. /\ Publishing /\ step = "clean" /\ UNCHANGED Rest /\ Book /\ UNCHANGED dest
    BY <1>9 DEF RemoveStaged, AtStep
  <2>2. dest'[File(Due)] = Whole(Due) /\ dest'[File(Due)] # Gone
    BY <1>3, <2>1 DEF PlacesInv, DueIsDistinct
  <2> QED
    BY <2>1, <2>2, PlaceStep
<1> QED
  BY <1>1, <1>2, <1>4, <1>5, <1>6, <1>7, <1>8, <1>9 DEF Publish

LEMMA PlacesForeign ==
    ASSUME OutputInv, PlacesInv, NEW f \in Files, NEW kind \in ForeignKinds, CreateForeign(f, kind)
    PROVE  PlacesInv'
<1>1. /\ dest \in [Files -> [by : -1..Count, kind : Kinds, whole : BOOLEAN]]
      /\ Count \in Nat /\ published \in 0..outputs /\ outputs \in 0..Count
  BY MembersOf DEF OutputInv, OutputTypeOK
<1>2. /\ dest[f] = Gone /\ dest' = [dest EXCEPT ![f] = Old(kind)]
      /\ UNCHANGED <<archive, step, published, identities>>
  BY DEF CreateForeign
<1>3. Gone.by = -1 /\ Old(kind).by = 0
  BY DEF Gone, Old
<1>4. /\ Count' = Count /\ Due' = Due
      /\ \A m : File(m)' = File(m) /\ Kind(m)' = Kind(m) /\ Whole(m)' = Whole(m)
  BY <1>2 DEF Count, Due, File, Kind, Whole
<1>5. \A g \in Files : dest[g] # Gone => dest'[g] = dest[g]
  BY <1>1, <1>2
<1>6. \A m \in 1..Count : File(m) \in Files /\ Whole(m).by = m /\ Whole(m) # Gone
  <2>1. \A m \in 1..Count : File(m) \in Files /\ Whole(m).by = m /\ m # -1
    BY <1>1, MembersOf DEF OutputInv, OutputTypeOK
  <2> QED
    BY <1>3, <2>1
<1>7. PlacedStand'
  <2>1. \A m \in 1..published : m \in 1..Count
    BY <1>1
  <2> QED
    BY <1>2, <1>4, <1>5, <1>6, <2>1 DEF PlacesInv, PlacedStand, CrossesLink
<1>8. HoldersAreNamed'
  <2>1. \A m \in 1..Count : m # 0
    BY <1>1
  <2>2. \A g \in Files : dest'[g] = dest[g] \/ dest'[g].by = 0
    BY <1>1, <1>2, <1>3
  <2> QED
    BY <1>4, <2>1, <2>2 DEF PlacesInv, HoldersAreNamed, Holds
<1>9. DueIsDistinct'
  <2>1. step = "clean" => Due \in 1..Count
    <3>1. step = "clean" => published # outputs
      BY DEF OutputInv, StepsAreDue
    <3> QED
      BY <1>1, <3>1 DEF Due
  <2>2. step = "clean" => dest'[File(Due)] = Whole(Due)
    BY <1>5, <1>6, <2>1 DEF PlacesInv, DueIsDistinct
  <2>3. File(Due)' = File(Due) /\ Whole(Due)' = Whole(Due)
    BY <1>4 DEF File, Whole
  <2> QED
    BY <1>2, <1>4, <2>2, <2>3 DEF PlacesInv, DueIsDistinct
<1> QED
  BY <1>7, <1>8, <1>9 DEF PlacesInv

LEMMA PlacesInitial == Init => PlacesInv
<1> SUFFICES ASSUME Init PROVE PlacesInv
  OBVIOUS
<1>1. published = 0 /\ step = "check" /\ Count \in Nat
  BY MembersOf DEF Init
<1>2. PlacedStand /\ DueIsDistinct
  BY <1>1 DEF PlacedStand, DueIsDistinct
<1>3. \A f \in Files : dest[f].by \in {-1, 0}
  BY DEF Init, Gone, Old
<1>4. HoldersAreNamed
  <2>1. \A m \in 1..Count : m \notin {-1, 0}
    BY <1>1
  <2> QED
    BY <1>3, <2>1 DEF HoldersAreNamed, Holds
<1> QED
  BY <1>2, <1>4 DEF PlacesInv

LEMMA PlacesPreserved == OutputInv /\ PlacesInv /\ [Next]_extractVars => PlacesInv'
<1> SUFFICES ASSUME OutputInv, PlacesInv, [Next]_extractVars PROVE PlacesInv'
  OBVIOUS
<1>1. CASE CallOpen \/ FailBefore \/ Verify \/ FailWriting \/ Complete
  <2>1. UNCHANGED <<archive, published, identities, dest>> /\ (step' = step \/ step' = "check")
    BY <1>1 DEF CallOpen, FailBefore, Verify, FailWriting, Complete, Fail, Raise
  <2> QED
    BY <2>1, PlacesStay
<1>2. CASE StageMember \/ FailStaging \/ End
  <2>1. UNCHANGED <<archive, published, identities, dest>> /\ (step' = step \/ step' = "check")
    BY <1>2 DEF StageMember, FailStaging, End, Fail, Raise
  <2> QED
    BY <2>1, PlacesStay
<1>3. CASE Publish
  BY <1>3, PlacesPublish
<1>4. CASE \E f \in Files, kind \in ForeignKinds : CreateForeign(f, kind)
  BY <1>4, PlacesForeign
<1>5. CASE UNCHANGED extractVars
  <2>1. UNCHANGED <<archive, published, identities, dest>> /\ step' = step
    BY <1>5 DEF extractVars
  <2> QED
    BY <2>1, PlacesStay
<1> QED
  BY <1>1, <1>2, <1>3, <1>4, <1>5 DEF Next

---------------------------------------------------------------------------
(* How far the command has come when it succeeds, and, when it fails with    *)
(* the name of an entry, which members are left to publish.                  *)
EndsComplete ==
    /\ phase = "finish" => outputs = Count
    /\ phase = "ok" => published = Count

VerifiedAreOutputs ==
    /\ phase \in {"library", "open"} => verified \subseteq 1..outputs
    /\ phase = "writing" => verified \subseteq 1..(outputs - 1)
    /\ NamesDiffer /\ cause = "named" =>
        /\ phase = "salvage" => verified \subseteq 1..outputs
        /\ phase = "failed" => verified \subseteq 1..published

LEMMA FailureKeepsVerified ==
    ASSUME OutputInv, EndsComplete, VerifiedAreOutputs,
           NEW why \in {"extraction", "publication"}, Fail(why),
           phase \notin {"ok", "failed"},
           phase \in {"salvage", "finish"} => why = "publication"
    PROVE  EndsComplete' /\ VerifiedAreOutputs'
<1>1. Count \in Nat /\ outputs \in 0..Count /\ published \in 0..outputs /\ verified \subseteq 1..Count
  BY MembersOf DEF OutputInv, OutputTypeOK
<1>2. UNCHANGED <<archive, published, verified>>
  BY DEF Fail
<1>3. PICK name \in ErrorNames :
        IF phase \in {"salvage", "finish"}
        THEN phase' = "failed" /\ cause' = why /\ UNCHANGED outputs
        ELSE /\ phase' = "salvage" /\ outputs' = Popped(name)
             /\ cause' = IF why = "publication" THEN why
                         ELSE IF name = NoName THEN "unnamed" ELSE "named"
  BY DEF Fail, Raise
<1>4. phase' \in {"salvage", "failed"} /\ EndsComplete'
  BY <1>3 DEF EndsComplete
<1>5. SUFFICES ASSUME NamesDiffer, cause' = "named"
               PROVE  /\ phase' = "salvage" => verified \subseteq 1..outputs'
                      /\ phase' = "failed" => verified \subseteq 1..published
  <2>1. NamesDiffer' = NamesDiffer
    BY <1>2 DEF NamesDiffer, Count
  <2> QED
    BY <1>2, <1>4, <2>1 DEF VerifiedAreOutputs
<1>6. /\ phase \notin {"salvage", "finish"} /\ phase' = "salvage" /\ name # NoName
      /\ outputs' = Popped(name)
  BY <1>3, <1>5
<1>7. CASE phase = "writing"
  <2>1. outputs' = outputs - 1
    BY <1>1, <1>6, <1>7 DEF ErrorNames, KeepsLast, Popped, OutputInv, RecordedIsVerified
  <2> QED
    BY <1>6, <1>7, <2>1 DEF VerifiedAreOutputs
<1>8. CASE phase \in {"library", "open"}
  <2>1. PICK i \in {outputs + 1} \cap 1..Count : name = archive[i].name
    BY <1>6, <1>8 DEF ErrorNames
  <2>2. outputs > 0 => name # archive[outputs].name
    BY <1>1, <1>5, <2>1 DEF NamesDiffer
  <2>3. outputs' = outputs
    BY <1>6, <2>2 DEF KeepsLast, Popped
  <2> QED
    BY <1>6, <1>8, <2>3 DEF VerifiedAreOutputs
<1> QED
  BY <1>6, <1>7, <1>8 DEF OutputInv, OutputTypeOK

LEMMA EndsPreserved ==
    OutputInv /\ EndsComplete /\ VerifiedAreOutputs /\ [Next]_extractVars
        => EndsComplete' /\ VerifiedAreOutputs'
<1> SUFFICES ASSUME OutputInv, EndsComplete, VerifiedAreOutputs, [Next]_extractVars
             PROVE  EndsComplete' /\ VerifiedAreOutputs'
  OBVIOUS
<1>1. Count \in Nat /\ outputs \in 0..Count /\ published \in 0..outputs /\ verified \subseteq 1..Count
  BY MembersOf DEF OutputInv, OutputTypeOK
<1>2. archive' = archive /\ Count' = Count /\ NamesDiffer' = NamesDiffer
  BY DEF Next, Publish, extractVars, CallOpen, FailBefore, Verify, FailWriting, Complete, StageMember,
         FailStaging, CheckAlias, RefuseAlias, PlaceDirectory, LinkNew, CopyNew, CopyData, RemoveDirectory,
         Rename, RenameAcross, RemoveStaged, FailPublication, End, CreateForeign, Fail, Rest, NamesDiffer,
         Count
<1>3. CASE FailBefore \/ FailWriting \/ FailStaging
  <2>1. Fail("extraction") /\ phase \in {"library", "writing", "open"}
    BY <1>3 DEF FailBefore, FailWriting, FailStaging
  <2> QED
    BY <2>1, FailureKeepsVerified
<1>4. CASE RefuseAlias \/ FailPublication
  <2>1. Fail("publication") /\ phase \in {"open", "salvage", "finish"}
    BY <1>4 DEF RefuseAlias, FailPublication, AtStep, Publishing
  <2> QED
    BY <2>1, FailureKeepsVerified
<1>5. CASE CallOpen \/ Complete
  BY <1>1, <1>2, <1>5 DEF CallOpen, Complete, EndsComplete, VerifiedAreOutputs
<1>6. CASE Verify
  <2>1. /\ phase = "writing" /\ phase' = "library" /\ verified' = verified \cup {outputs}
        /\ outputs' = outputs /\ outputs \in 1..Count
    BY <1>1, <1>6 DEF Verify, OutputInv, RecordedIsVerified
  <2>2. verified \subseteq 1..(outputs - 1)
    BY <2>1 DEF VerifiedAreOutputs
  <2>3. verified' \subseteq 1..outputs
    BY <2>1, <2>2
  <2> QED
    BY <2>1, <2>3 DEF EndsComplete, VerifiedAreOutputs
<1>7. CASE StageMember
  <2>1. /\ phase = "open" /\ phase' \in {"library", "writing"} /\ outputs' = outputs + 1
        /\ phase' = "writing" => verified' = verified
        /\ verified' \in {verified, verified \cup {outputs'}}
    BY <1>7 DEF StageMember
  <2>2. verified \subseteq 1..outputs
    BY <2>1 DEF VerifiedAreOutputs
  <2>3. verified' \subseteq 1..outputs' /\ (phase' = "writing" => verified' \subseteq 1..(outputs' - 1))
    BY <1>1, <2>1, <2>2
  <2> QED
    BY <2>1, <2>3 DEF EndsComplete, VerifiedAreOutputs
<1>8. CASE End
  <2>1. /\ phase \in {"salvage", "finish"} /\ published = outputs
        /\ phase' = IF phase = "finish" THEN "ok" ELSE "failed"
        /\ UNCHANGED <<outputs, published, verified, cause>>
    BY <1>8 DEF End
  <2> QED
    BY <1>2, <2>1 DEF EndsComplete, VerifiedAreOutputs
<1>9. CASE CheckAlias \/ PlaceDirectory \/ LinkNew \/ CopyNew \/ CopyData \/ RemoveDirectory
           \/ Rename \/ RenameAcross \/ RemoveStaged
  <2>1. /\ UNCHANGED <<phase, outputs, verified, cause>> /\ phase \in {"open", "salvage", "finish"}
    BY <1>9 DEF CheckAlias, PlaceDirectory, LinkNew, CopyNew, CopyData, RemoveDirectory, Rename,
                RenameAcross, RemoveStaged, Rest, AtStep, Publishing
  <2> QED
    BY <1>2, <2>1 DEF EndsComplete, VerifiedAreOutputs
<1>10. CASE \E f \in Files, kind \in ForeignKinds : CreateForeign(f, kind)
  <2>1. UNCHANGED <<phase, outputs, published, verified, cause>>
    BY <1>10 DEF CreateForeign
  <2> QED
    BY <1>2, <2>1 DEF EndsComplete, VerifiedAreOutputs
<1>11. CASE UNCHANGED extractVars
  <2>1. UNCHANGED <<phase, outputs, published, verified, cause>>
    BY <1>11 DEF extractVars
  <2> QED
    BY <1>2, <2>1 DEF EndsComplete, VerifiedAreOutputs
<1> QED
  BY <1>3, <1>4, <1>5, <1>6, <1>7, <1>8, <1>9, <1>10, <1>11 DEF Next, Publish

LEMMA EndsInitial == Init => EndsComplete /\ VerifiedAreOutputs
  BY DEF Init, EndsComplete, VerifiedAreOutputs

(* The three invariants together. *)
LEMMA PlacesInvariant ==
    Spec => [](OutputInv /\ PlacesInv /\ EndsComplete /\ VerifiedAreOutputs)
<1>1. Init => OutputInv
  BY InitOutput
<1>2. OutputInv /\ [Next]_extractVars => OutputInv'
  BY OutputInvPreserved
<1> QED
  BY <1>1, <1>2, PlacesInitial, PlacesPreserved, EndsInitial, EndsPreserved, PTL DEF Spec

(* A command that answers success has put every member at its destination,   *)
(* and nothing of it has been replaced since, by a later member or by a file *)
(* somebody else created (publish, publish_verified, main.rs).               *)
THEOREM OutputIsComplete == Spec => []NothingByHalves
<1>1. OutputInv /\ PlacesInv /\ EndsComplete => NothingByHalves
  <2> SUFFICES ASSUME OutputInv, PlacesInv, EndsComplete PROVE NothingByHalves
    OBVIOUS
  <2>1. phase = "ok" => published = Count
    BY DEF EndsComplete
  <2> QED
    BY <2>1 DEF OutputInv, PlacesInv, PlacedStand, NothingByHalves, SuccessIsComplete
<1> QED
  BY <1>1, PlacesInvariant, PTL

(* A command that fails at a named entry has published every member that     *)
(* passed its checks before it (publish_before_failure, main.rs:719): the    *)
(* name tells the member being written from the last one that verified.      *)
THEOREM OutputIsSalvaged ==
    NamesDiffer /\ Spec => []VerifiedAreKept
<1>1. NamesDiffer /\ [Next]_extractVars => NamesDiffer'
  <2> SUFFICES ASSUME [Next]_extractVars PROVE archive' = archive
    BY DEF NamesDiffer, Count
  <2> QED
    BY DEF Next, Publish, extractVars, CallOpen, FailBefore, Verify, FailWriting, Complete, StageMember,
           FailStaging, CheckAlias, RefuseAlias, PlaceDirectory, LinkNew, CopyNew, CopyData,
           RemoveDirectory, Rename, RenameAcross, RemoveStaged, FailPublication, End, CreateForeign, Fail,
           Rest
<1>2. OutputInv /\ PlacesInv /\ VerifiedAreOutputs /\ NamesDiffer => VerifiedAreKept
  <2> SUFFICES ASSUME OutputInv, PlacesInv, VerifiedAreOutputs, NamesDiffer,
                      phase = "failed", cause = "named", NEW m \in verified, Kind(m) # "dir"
               PROVE  dest[File(m)].by = m
    BY DEF VerifiedAreKept, Holds
  <2>1. m \in 1..published /\ m \in 1..Count
    BY DEF VerifiedAreOutputs, OutputInv, OutputTypeOK
  <2>2. dest[File(m)] = Whole(m)
    BY <2>1 DEF PlacesInv, PlacedStand
  <2> QED
    BY <2>2 DEF Whole
<1> QED
  BY <1>1, <1>2, PlacesInvariant, PTL DEF Spec

(* No later member replaces one that is published, under either --overwrite, *)
(* however the names alias and whatever links others put at the destinations *)
(* (published_identities, main.rs; checked_output_path, filename.rs).        *)
THEOREM MembersStay == Spec => MembersAreKept
<1> DEFINE Stay == \A f \in Files : \A m \in 1..Count :
                     (m <= published /\ Holds(f, m)) => dest'[f].by = m
<1>1. OutputInv /\ PlacesInv /\ [Next]_extractVars => Stay
  <2> SUFFICES ASSUME OutputInv, PlacesInv, [Next]_extractVars, NEW f \in Files, NEW m \in 1..Count,
                      m <= published, dest[f].by = m
               PROVE  dest'[f] = dest[f]
    BY DEF Holds
  <2>1. /\ dest \in [Files -> [by : -1..Count, kind : Kinds, whole : BOOLEAN]]
        /\ Count \in Nat /\ published \in 0..outputs /\ outputs \in 0..Count
    BY MembersOf DEF OutputInv, OutputTypeOK
  <2>2. f = File(m) /\ m \in 1..published
    BY <2>1 DEF PlacesInv, HoldersAreNamed, Holds
  <2>3. CASE Publish /\ dest' # dest
    <3>1. /\ Publishing /\ step # "check"
          /\ \E x : dest' = [dest EXCEPT ![File(Due)] = x]
      BY <2>3 DEF Publish, CheckAlias, RefuseAlias, PlaceDirectory, LinkNew, CopyNew, CopyData,
                  RemoveDirectory, Rename, RenameAcross, RemoveStaged, FailPublication, Fail, AtStep
    <3>2. f # File(Due)
      BY <2>2, <3>1 DEF PlacesInv, DueIsDistinct
    <3> QED
      BY <2>1, <3>1, <3>2
  <2>4. CASE \E g \in Files, kind \in ForeignKinds : CreateForeign(g, kind)
    <3>1. PICK g \in Files : dest[g] = Gone /\ \E x : dest' = [dest EXCEPT ![g] = x]
      BY <2>4 DEF CreateForeign
    <3>2. Gone.by = -1 /\ m # -1
      BY <2>1 DEF Gone
    <3> QED
      BY <2>1, <3>1, <3>2
  <2>5. CASE CallOpen \/ FailBefore \/ Verify \/ FailWriting \/ Complete
             \/ StageMember \/ FailStaging \/ End \/ UNCHANGED extractVars
    BY <2>5 DEF CallOpen, FailBefore, Verify, FailWriting, Complete, StageMember, FailStaging, End,
                Fail, extractVars
  <2> QED
    BY <2>3, <2>4, <2>5 DEF Next
<1>2. [Stay]_extractVars = [\A f \in Files : \A m \in 1..Count :
        (m <= published /\ Holds(f, m)) => dest'[f].by = m]_extractVars
  OBVIOUS
<1> QED
  BY <1>1, PlacesInvariant, PTL DEF Spec, MembersAreKept

---------------------------------------------------------------------------
(* Archives that calls publish side by side (ArchivePublication). *)

Written == [by : Calls \cup {"earlier", "nobody"}, whole : BOOLEAN]
AllNames == TempNames \cup PrivateNames
Progress == {"new", "created", "written", "published", "failing", "failed", "abandoned"}

PublicationTypeOK ==
  /\ callKind \in [Calls -> CallKinds]
  /\ targetOf \in [Calls -> [AllParts -> Destinations]]
  /\ target \in [Destinations -> Written]
  /\ temporary \in [AllNames -> Written]
  /\ nameOf \in [Calls -> [AllParts -> AllNames]]
  /\ progressOf \in [Calls -> [AllParts -> Progress]]
  /\ answer \in [Calls -> {"none", "ok", "failed", "stopped"}]

\* A part has a temporary file from its creation to its renaming or removal.
HoldsTemporary(c, i) ==
  ~InPlace(c) /\ progressOf[c][i] \in {"created", "written", "failing", "abandoned"}

\* Whose names are whose, and what stands under the name of a part that has a file.
PartInOrder(c, i) ==
  /\ InPlace(c) => progressOf[c][i] \in {"new", "created", "published", "failed"}
  /\ callKind[c].how = "node" => nameOf[c][i] = <<c, i>>
  /\ HoldsTemporary(c, i) =>
       /\ callKind[c].how # "node" => nameOf[c][i] \in TempNames
       /\ temporary[nameOf[c][i]].by = c
       /\ progressOf[c][i] = "created" => ~temporary[nameOf[c][i]].whole
       /\ progressOf[c][i] = "written" => temporary[nameOf[c][i]].whole

OneNameEach ==
  \A c, e \in Calls : \A i, j \in AllParts :
    /\ HoldsTemporary(c, i) /\ HoldsTemporary(e, j)
    /\ nameOf[c][i] = nameOf[e][j]
    => c = e /\ i = j

\* A temporary file of a call is the file of one of its parts.
TemporaryHasPart ==
  \A n \in AllNames : \A c \in Calls : temporary[n].by = c =>
    \E i \in Parts(c) : nameOf[c][i] = n /\ HoldsTemporary(c, i)

\* What stands at a destination has been published by a part, or is being written there.
TargetHasPart ==
  \A d \in Destinations : \A c \in Calls : target[d].by = c /\ ~InPlace(c) =>
    /\ target[d].whole
    /\ \E i \in Parts(c) : targetOf[c][i] = d /\ progressOf[c][i] = "published"

FailuresAreParts ==
  \A c \in Calls : answer[c] = "failed" =>
    \E i \in Parts(c) : progressOf[c][i] \in {"failed", "abandoned"}

PublicationInv ==
  /\ PublicationTypeOK
  /\ \A c \in Calls : \A i \in AllParts : PartInOrder(c, i)
  /\ OneNameEach /\ TemporaryHasPart /\ TargetHasPart /\ FailuresAreParts

----------------------------------------------------------------------------
LEMMA FilesAreWritten ==
  /\ NoFile \in Written /\ Nobody \in Written /\ NoFile.by \notin Calls /\ Nobody.by \notin Calls
  /\ \A c \in Calls : \A w \in BOOLEAN :
       FileOf(c, w) \in Written /\ FileOf(c, w).by = c /\ FileOf(c, w).whole = w
BY PublicationAssumption DEF NoFile, Nobody, Written, FileOf

LEMMA PartsAreParts ==
  ASSUME PublicationTypeOK, NEW c \in Calls
  PROVE  Parts(c) \subseteq AllParts
<1>1. callKind[c] \in CallKinds
  BY DEF PublicationTypeOK
<1>. QED
  BY <1>1 DEF Parts, AllParts

LEMMA PublicationInitial == PublicationInit => PublicationInv
<1>. SUFFICES ASSUME PublicationInit PROVE PublicationInv
  OBVIOUS
<1>1. PublicationTypeOK
  <2>1. temporary \in [AllNames -> Written] /\ target \in [Destinations -> Written]
    BY FilesAreWritten DEF PublicationInit, AllNames
  <2>2. nameOf \in [Calls -> [AllParts -> AllNames]]
    BY DEF PublicationInit, AllNames, PrivateNames
  <2>. QED
    BY <2>1, <2>2 DEF PublicationInit, PublicationTypeOK, Progress
<1>2. \A c \in Calls : \A i \in AllParts : progressOf[c][i] = "new" /\ nameOf[c][i] = <<c, i>>
  BY DEF PublicationInit
<1>3. \A c \in Calls : \A i \in AllParts : PartInOrder(c, i) /\ ~HoldsTemporary(c, i)
  BY <1>2 DEF PartInOrder, HoldsTemporary
<1>4. \A n \in AllNames : temporary[n].by \notin Calls
  BY SMTT(60), FilesAreWritten DEF PublicationInit, AllNames
<1>5. \A d \in Destinations : target[d].by \notin Calls
  BY FilesAreWritten DEF PublicationInit
<1>6. FailuresAreParts
  BY DEF PublicationInit, FailuresAreParts
<1>. QED
  BY <1>1, <1>3, <1>4, <1>5, <1>6
     DEF PublicationInv, OneNameEach, TemporaryHasPart, TargetHasPart

\* The steps that only tell how far a part is, or what its caller was told, and leave
\* every file alone.
LEMMA FilesStay ==
  ASSUME PublicationInv, UNCHANGED <<callKind, targetOf, target, temporary, nameOf>>,
         PublicationTypeOK', FailuresAreParts',
         \A c \in Calls : \A i \in AllParts :
           \/ progressOf'[c][i] = progressOf[c][i]
           \/ progressOf[c][i] = "new" /\ progressOf'[c][i] = "failed"
           \/ progressOf[c][i] \in {"created", "written"}
              /\ progressOf'[c][i] = (IF InPlace(c) THEN "failed" ELSE "failing")
           \/ progressOf[c][i] = "failing" /\ progressOf'[c][i] = "abandoned"
  PROVE  PublicationInv'
<1>1. \A c \in Calls : InPlace(c)' = InPlace(c) /\ Parts(c)' = Parts(c)
  BY DEF InPlace, Parts
<1>2. \A c \in Calls : \A i \in AllParts :
        /\ PartInOrder(c, i)
        /\ (HoldsTemporary(c, i))' <=> HoldsTemporary(c, i)
        /\ progressOf[c][i] = "published" => progressOf'[c][i] = "published"
  BY <1>1 DEF HoldsTemporary, PublicationInv, PartInOrder
<1>3. \A c \in Calls : \A i \in AllParts : PartInOrder(c, i)'
  BY <1>1, <1>2 DEF PartInOrder
<1>4. OneNameEach'
  BY <1>2 DEF OneNameEach, PublicationInv, AllParts
<1>5. TemporaryHasPart'
  BY <1>1, <1>2, PartsAreParts DEF TemporaryHasPart, PublicationInv, AllNames, PrivateNames
<1>6. TargetHasPart'
  BY <1>1, <1>2, PartsAreParts DEF TargetHasPart, PublicationInv
<1>. QED
  BY <1>3, <1>4, <1>5, <1>6 DEF PublicationInv, AllParts

\* A part moves on alone.
LEMMA PartMoves ==
  ASSUME PublicationTypeOK, NEW c \in Calls, NEW i \in AllParts, NEW p \in Progress, To(c, i, p)
  PROVE  /\ progressOf' \in [Calls -> [AllParts -> Progress]]
         /\ progressOf'[c][i] = p
         /\ \A e \in Calls : \A j \in AllParts :
              ~(e = c /\ j = i) => progressOf'[e][j] = progressOf[e][j]
<1>1. progressOf \in [Calls -> [AllParts -> Progress]]
  BY DEF PublicationTypeOK
<1>2. progressOf' = [progressOf EXCEPT ![c] = [progressOf[c] EXCEPT ![i] = p]]
  BY <1>1 DEF To
<1>3. [progressOf[c] EXCEPT ![i] = p] \in [AllParts -> Progress]
  BY <1>1
<1>. QED
  BY <1>1, <1>2, <1>3

\* A creation or a write that failed, and a stopped call.
LEMMA QuietPublication ==
  ASSUME PublicationInv, NEW c \in Calls, NEW i \in AllParts,
         \/ CreateRefused(c, i) \/ FailPart(c, i) \/ Answer(c) \/ StopCall(c)
         \/ /\ RemoveTemporary(c, i) /\ UNCHANGED temporary /\ To(c, i, "abandoned")
  PROVE  PublicationInv'
<1>1. PublicationTypeOK /\ i \in AllParts
  BY DEF PublicationInv
<1>2. CASE CreateRefused(c, i) \/ FailPart(c, i)
           \/ (RemoveTemporary(c, i) /\ UNCHANGED temporary /\ To(c, i, "abandoned"))
  <2>1. UNCHANGED <<callKind, targetOf, target, temporary, nameOf, answer>>
    BY <1>2 DEF CreateRefused, FailPart, RemoveTemporary, CallsStay
  <2>2. PICK p \in Progress :
          /\ To(c, i, p)
          /\ \/ progressOf[c][i] = "new" /\ p = "failed"
             \/ progressOf[c][i] \in {"created", "written"}
                /\ p = (IF InPlace(c) THEN "failed" ELSE "failing")
             \/ progressOf[c][i] = "failing" /\ p = "abandoned"
    <3>1. CASE CreateRefused(c, i)
      BY <3>1 DEF CreateRefused, Progress
    <3>2. CASE FailPart(c, i)
      BY <3>2 DEF FailPart, Progress
    <3>3. CASE RemoveTemporary(c, i) /\ UNCHANGED temporary /\ To(c, i, "abandoned")
      BY <3>3 DEF RemoveTemporary, Progress
    <3>. QED
      BY <1>2, <3>1, <3>2, <3>3
  <2>3. /\ progressOf' \in [Calls -> [AllParts -> Progress]] /\ progressOf'[c][i] = p
        /\ \A e \in Calls : \A j \in AllParts :
             ~(e = c /\ j = i) => progressOf'[e][j] = progressOf[e][j]
    BY <1>1, <2>2, PartMoves
  <2>4. PublicationTypeOK'
    BY <1>1, <2>1, <2>3 DEF PublicationTypeOK, AllNames, PrivateNames, AllParts
  <2>5. FailuresAreParts'
    <3>1. \A e \in Calls : Parts(e)' = Parts(e) /\ Parts(e) \subseteq AllParts
      BY <1>1, <2>1, PartsAreParts DEF Parts
    <3>2. progressOf[c][i] \notin {"failed", "abandoned"}
      BY <2>2
    <3>3. \A e \in Calls : \A j \in AllParts :
            progressOf[e][j] \in {"failed", "abandoned"} =>
              progressOf'[e][j] = progressOf[e][j]
      BY <2>3, <3>2
    <3>. QED
      BY <2>1, <3>1, <3>3 DEF FailuresAreParts, PublicationInv
  <2>6. \A e \in Calls : \A j \in AllParts :
          \/ progressOf'[e][j] = progressOf[e][j]
          \/ progressOf[e][j] = "new" /\ progressOf'[e][j] = "failed"
          \/ progressOf[e][j] \in {"created", "written"}
             /\ progressOf'[e][j] = (IF InPlace(e) THEN "failed" ELSE "failing")
          \/ progressOf[e][j] = "failing" /\ progressOf'[e][j] = "abandoned"
    BY <2>2, <2>3
  <2>. QED
    BY <2>1, <2>4, <2>5, <2>6, FilesStay
<1>3. CASE Answer(c) \/ StopCall(c)
  <2>1. UNCHANGED <<callKind, targetOf, target, temporary, nameOf, progressOf>>
        /\ \E a \in {"ok", "failed", "stopped"} :
             /\ answer' = [answer EXCEPT ![c] = a]
             /\ a = "failed" => \E j \in Parts(c) : progressOf[c][j] \in {"failed", "abandoned"}
    BY <1>3 DEF Answer, StopCall
  <2>2. PublicationTypeOK'
    BY <1>1, <2>1 DEF PublicationTypeOK, AllNames, PrivateNames, AllParts
  <2>3. \A e \in Calls : Parts(e)' = Parts(e)
    BY <2>1 DEF Parts
  <2>4. FailuresAreParts'
    BY <1>1, <2>1, <2>3 DEF FailuresAreParts, PublicationInv, PublicationTypeOK
  <2>5. \A e \in Calls : \A j \in AllParts : progressOf'[e][j] = progressOf[e][j]
    BY <2>1
  <2>. QED
    BY <2>1, <2>2, <2>4, <2>5, FilesStay
<1>. QED
  BY <1>2, <1>3

\* create_new, or the private name of the Node worker: the file is new, so it is nobody's.
LEMMA CreateStep ==
  ASSUME PublicationInv, NEW c \in Calls, NEW i \in AllParts, CreateTemporary(c, i)
  PROVE  PublicationInv'
<1>1. PublicationTypeOK /\ ~InPlace(c) /\ progressOf[c][i] = "new" /\ i \in Parts(c)
  BY DEF PublicationInv, CreateTemporary, Runs
<1>2. PICK n \in NamesFor(c, i) :
        /\ temporary' = [temporary EXCEPT ![n] = FileOf(c, FALSE)]
        /\ nameOf' = [nameOf EXCEPT ![c][i] = n]
  BY DEF CreateTemporary
<1>3. /\ n \in AllNames
      /\ callKind[c].how = "node" => n = <<c, i>>
      /\ callKind[c].how # "node" => n \in TempNames /\ temporary[n] = NoFile
  BY DEF NamesFor, AllNames, PrivateNames
<1>4. UNCHANGED <<callKind, targetOf, target, answer>> /\ To(c, i, "created")
  BY DEF CreateTemporary, CallsStay
<1>5. /\ progressOf' \in [Calls -> [AllParts -> Progress]] /\ progressOf'[c][i] = "created"
      /\ \A e \in Calls : \A j \in AllParts :
           ~(e = c /\ j = i) => progressOf'[e][j] = progressOf[e][j]
  BY <1>1, <1>4, PartMoves DEF Progress
<1>6. /\ nameOf' \in [Calls -> [AllParts -> AllNames]] /\ nameOf'[c][i] = n
      /\ \A e \in Calls : \A j \in AllParts :
           ~(e = c /\ j = i) => nameOf'[e][j] = nameOf[e][j]
  <2>1. nameOf \in [Calls -> [AllParts -> AllNames]]
    BY <1>1 DEF PublicationTypeOK
  <2>2. nameOf' = [nameOf EXCEPT ![c] = [nameOf[c] EXCEPT ![i] = n]]
    BY <1>2, <2>1
  <2>3. [nameOf[c] EXCEPT ![i] = n] \in [AllParts -> AllNames]
    BY <1>3, <2>1
  <2>. QED
    BY <2>1, <2>2, <2>3
<1>7. /\ temporary' \in [AllNames -> Written]
      /\ temporary'[n].by = c /\ ~temporary'[n].whole
      /\ \A m \in AllNames \ {n} : temporary'[m] = temporary[m]
  BY <1>1, <1>2, <1>3, FilesAreWritten DEF PublicationTypeOK
<1>8. PublicationTypeOK'
  BY <1>1, <1>4, <1>5, <1>6, <1>7 DEF PublicationTypeOK, AllNames, PrivateNames, AllParts
<1>9. \A e \in Calls : (InPlace(e))' = InPlace(e) /\ (Parts(e))' = Parts(e) /\ Parts(e) \subseteq AllParts
  BY <1>1, <1>4, PartsAreParts DEF InPlace, Parts
<1>10. \A e \in Calls : \A j \in AllParts :
         /\ (HoldsTemporary(e, j))' <=> (HoldsTemporary(e, j) \/ (e = c /\ j = i))
         /\ HoldsTemporary(e, j) => ~(e = c /\ j = i)
  BY <1>1, <1>5, <1>9 DEF HoldsTemporary
<1>11. \A e \in Calls : \A j \in AllParts : HoldsTemporary(e, j) => nameOf[e][j] # n /\ nameOf[e][j] \in AllNames
  <2>. TAKE e \in Calls
  <2>. TAKE j \in AllParts
  <2>. HAVE HoldsTemporary(e, j)
  <2>1. /\ callKind[e].how = "node" => nameOf[e][j] = <<e, j>>
        /\ callKind[e].how # "node" => nameOf[e][j] \in TempNames
        /\ temporary[nameOf[e][j]].by = e
        /\ nameOf[e][j] \in AllNames
    BY <1>1 DEF PublicationInv, PartInOrder, PublicationTypeOK
  <2>2. ~(e = c /\ j = i)
    BY <1>10
  <2>3. CASE callKind[c].how = "node"
    <3>1. n \in PrivateNames
      BY <1>3, <2>3 DEF PrivateNames
    <3>2. n \notin TempNames
      BY <3>1, TempNamesAssumption
    <3>3. <<e, j>> # <<c, i>>
      BY <2>2
    <3>. QED
      BY <1>3, <2>1, <2>3, <3>2, <3>3
  <2>4. CASE callKind[c].how # "node"
    BY <1>3, <2>1, <2>4, FilesAreWritten
  <2>. QED
    BY <2>3, <2>4, <2>1
<1>12. \A e \in Calls : \A j \in AllParts : PartInOrder(e, j)'
  <2>. TAKE e \in Calls
  <2>. TAKE j \in AllParts
  <2>1. PartInOrder(e, j)
    BY DEF PublicationInv
  <2>2. CASE e = c /\ j = i
    BY <1>1, <1>3, <1>4, <1>5, <1>6, <1>7, <1>9, <2>2 DEF PartInOrder
  <2>3. CASE ~(e = c /\ j = i)
    <3>1. progressOf'[e][j] = progressOf[e][j] /\ nameOf'[e][j] = nameOf[e][j]
          /\ ((HoldsTemporary(e, j))' <=> HoldsTemporary(e, j))
      BY <1>5, <1>6, <1>10, <2>3
    <3>2. HoldsTemporary(e, j) => temporary'[nameOf[e][j]] = temporary[nameOf[e][j]]
      BY <1>7, <1>11
    <3>. QED
      BY <1>4, <1>9, <2>1, <3>1, <3>2 DEF PartInOrder
  <2>. QED
    BY <2>2, <2>3
<1>13. OneNameEach'
  BY <1>6, <1>10, <1>11 DEF OneNameEach, PublicationInv, AllParts
<1>14. TemporaryHasPart'
  <2>. SUFFICES ASSUME NEW m \in AllNames, NEW e \in Calls, temporary'[m].by = e
       PROVE  \E j \in Parts(e) : nameOf'[e][j] = m /\ (HoldsTemporary(e, j))'
    BY <1>9 DEF TemporaryHasPart, AllNames, PrivateNames, AllParts
  <2>1. CASE m = n
    BY <1>1, <1>6, <1>7, <1>10, <2>1
  <2>2. CASE m # n
    <3>1. PICK j \in Parts(e) : nameOf[e][j] = m /\ HoldsTemporary(e, j)
      BY <1>7, <2>2 DEF PublicationInv, TemporaryHasPart
    <3>. QED
      BY <1>6, <1>9, <1>10, <3>1
  <2>. QED
    BY <2>1, <2>2
<1>15. TargetHasPart'
  BY <1>1, <1>4, <1>5, <1>9 DEF TargetHasPart, PublicationInv
<1>16. FailuresAreParts'
  BY <1>1, <1>4, <1>5, <1>9 DEF FailuresAreParts, PublicationInv
<1>. QED
  BY <1>8, <1>12, <1>13, <1>14, <1>15, <1>16 DEF PublicationInv, AllParts

\* The archive is written into the part's own file.
LEMMA WriteStep ==
  ASSUME PublicationInv, NEW c \in Calls, NEW i \in AllParts, WriteTemporary(c, i)
  PROVE  PublicationInv'
<1>. DEFINE n == nameOf[c][i]
<1>1. PublicationTypeOK /\ ~InPlace(c) /\ progressOf[c][i] = "created" /\ HoldsTemporary(c, i)
      /\ n \in AllNames
  BY DEF PublicationInv, WriteTemporary, HoldsTemporary, PublicationTypeOK
<1>2. /\ temporary' = [temporary EXCEPT ![n] = FileOf(c, TRUE)] /\ To(c, i, "written")
      /\ UNCHANGED <<callKind, targetOf, target, nameOf, answer>>
  BY DEF WriteTemporary, CallsStay
<1>3. /\ progressOf' \in [Calls -> [AllParts -> Progress]] /\ progressOf'[c][i] = "written"
      /\ \A e \in Calls : \A j \in AllParts :
           ~(e = c /\ j = i) => progressOf'[e][j] = progressOf[e][j]
  BY <1>1, <1>2, PartMoves DEF Progress
<1>4. /\ temporary' \in [AllNames -> Written]
      /\ temporary'[n].by = c /\ temporary'[n].whole
      /\ \A m \in AllNames \ {n} : temporary'[m] = temporary[m]
  BY <1>1, <1>2, FilesAreWritten DEF PublicationTypeOK
<1>5. PublicationTypeOK'
  BY <1>1, <1>2, <1>3, <1>4 DEF PublicationTypeOK, AllNames, PrivateNames, AllParts
<1>6. \A e \in Calls : (InPlace(e))' = InPlace(e) /\ (Parts(e))' = Parts(e) /\ Parts(e) \subseteq AllParts
  BY <1>1, <1>2, PartsAreParts DEF InPlace, Parts
<1>7. \A e \in Calls : \A j \in AllParts :
        /\ (HoldsTemporary(e, j))' <=> HoldsTemporary(e, j)
        /\ HoldsTemporary(e, j) /\ ~(e = c /\ j = i) => nameOf[e][j] \in AllNames \ {n}
        /\ progressOf[e][j] \in {"published", "failed", "abandoned"} => progressOf'[e][j] = progressOf[e][j]
  BY <1>1, <1>3, <1>6 DEF HoldsTemporary, PublicationInv, OneNameEach, PublicationTypeOK
<1>8. \A e \in Calls : \A j \in AllParts : PartInOrder(e, j)'
  <2>. TAKE e \in Calls
  <2>. TAKE j \in AllParts
  <2>1. PartInOrder(e, j)
    BY DEF PublicationInv
  <2>2. CASE e = c /\ j = i
    BY <1>1, <1>2, <1>3, <1>4, <1>6, <2>1, <2>2 DEF PartInOrder
  <2>3. CASE ~(e = c /\ j = i)
    <3>1. progressOf'[e][j] = progressOf[e][j] /\ nameOf'[e][j] = nameOf[e][j]
          /\ ((HoldsTemporary(e, j))' <=> HoldsTemporary(e, j))
      BY <1>2, <1>3, <1>7, <2>3
    <3>2. HoldsTemporary(e, j) => temporary'[nameOf[e][j]] = temporary[nameOf[e][j]]
      BY <1>4, <1>7, <2>3
    <3>. QED
      BY <1>2, <1>6, <2>1, <3>1, <3>2 DEF PartInOrder
  <2>. QED
    BY <2>2, <2>3
<1>. HIDE DEF n
<1>9. OneNameEach'
  BY <1>2, <1>7 DEF OneNameEach, PublicationInv, AllParts
<1>10. TemporaryHasPart'
  <2>. SUFFICES ASSUME NEW m \in AllNames, NEW e \in Calls, temporary'[m].by = e
       PROVE  \E j \in Parts(e) : nameOf'[e][j] = m /\ (HoldsTemporary(e, j))'
    BY <1>6 DEF TemporaryHasPart, AllNames, PrivateNames, AllParts
  <2>1. temporary[m].by = e
    BY <1>1, <1>4 DEF PublicationInv, PartInOrder, n
  <2>2. PICK j \in Parts(e) : nameOf[e][j] = m /\ HoldsTemporary(e, j)
    BY <2>1 DEF PublicationInv, TemporaryHasPart
  <2>. QED
    BY <1>2, <1>6, <1>7, <2>2
<1>11. TargetHasPart'
  BY <1>2, <1>6, <1>7 DEF TargetHasPart, PublicationInv
<1>12. FailuresAreParts'
  BY <1>2, <1>6, <1>7 DEF FailuresAreParts, PublicationInv
<1>. QED
  BY <1>5, <1>8, <1>9, <1>10, <1>11, <1>12 DEF PublicationInv, AllParts

\* A part gives its file up: it becomes the destination's (rename), or it is removed.
LEMMA ReleaseStep ==
  ASSUME PublicationInv, NEW c \in Calls, NEW i \in AllParts,
         \/ RenameTemporary(c, i)
         \/ RemoveTemporary(c, i) /\ ~(UNCHANGED temporary /\ To(c, i, "abandoned"))
  PROVE  PublicationInv'
<1>. DEFINE n == nameOf[c][i]
<1>1. PublicationTypeOK /\ HoldsTemporary(c, i) /\ ~InPlace(c) /\ n \in AllNames /\ i \in Parts(c)
      /\ temporary[n].by = c /\ progressOf[c][i] \in {"written", "failing"}
  <2>1. progressOf[c][i] \in {"written", "failing"} /\ i \in Parts(c) /\ PublicationTypeOK
        /\ PartInOrder(c, i)
    BY DEF PublicationInv, RenameTemporary, ReadyToRename, RemoveTemporary, Runs
  <2>2. ~InPlace(c)
    BY <2>1 DEF PartInOrder
  <2>. QED
    BY <2>1, <2>2 DEF PublicationTypeOK, HoldsTemporary, PartInOrder
<1>2. PICK p \in {"published", "failed"} :
        /\ temporary' = [m \in AllNames |-> IF m = n THEN NoFile ELSE temporary[m]]
        /\ To(c, i, p)
        /\ p = "published" =>
             /\ target' = [target EXCEPT ![targetOf[c][i]] = temporary[n]]
             /\ progressOf[c][i] = "written"
        /\ p = "failed" => target' = target
        /\ UNCHANGED <<callKind, targetOf, nameOf, answer>>
  <2>1. DOMAIN temporary = AllNames /\ temporary \in [AllNames -> Written]
    BY <1>1 DEF PublicationTypeOK
  <2>2. CASE RenameTemporary(c, i)
    <3>1. temporary' = [temporary EXCEPT ![n] = NoFile]
      BY <2>2 DEF RenameTemporary
    <3>2. temporary' = [m \in AllNames |-> IF m = n THEN NoFile ELSE temporary[m]]
      BY <1>1, <2>1, <3>1
    <3>. QED
      BY <2>2, <3>2 DEF RenameTemporary, ReadyToRename, CallsStay
  <2>3. CASE RemoveTemporary(c, i) /\ ~(UNCHANGED temporary /\ To(c, i, "abandoned"))
    <3>1. temporary' = [m \in AllNames |-> IF m = n THEN NoFile ELSE temporary[m]]
      BY <2>1, <2>3 DEF RemoveTemporary, RemovedBy
    <3>. QED
      BY <2>3, <3>1 DEF RemoveTemporary, CallsStay
  <2>. QED
    BY <2>2, <2>3
<1>3. /\ progressOf' \in [Calls -> [AllParts -> Progress]] /\ progressOf'[c][i] = p
      /\ \A e \in Calls : \A j \in AllParts :
           ~(e = c /\ j = i) => progressOf'[e][j] = progressOf[e][j]
  BY <1>1, <1>2, PartMoves DEF Progress
<1>4. /\ temporary' \in [AllNames -> Written] /\ temporary'[n].by \notin Calls
      /\ \A m \in AllNames \ {n} : temporary'[m] = temporary[m]
  BY <1>1, <1>2, FilesAreWritten DEF PublicationTypeOK
<1>5. PublicationTypeOK'
  <2>1. target' \in [Destinations -> Written]
    <3>1. temporary[n] \in Written /\ target \in [Destinations -> Written]
      BY <1>1 DEF PublicationTypeOK
    <3>. QED
      BY <1>2, <3>1
  <2>. QED
    BY <1>1, <1>2, <1>3, <1>4, <2>1 DEF PublicationTypeOK, AllNames, PrivateNames, AllParts
<1>6. \A e \in Calls : (InPlace(e))' = InPlace(e) /\ (Parts(e))' = Parts(e) /\ Parts(e) \subseteq AllParts
  BY <1>1, <1>2, PartsAreParts DEF InPlace, Parts
<1>7. \A e \in Calls : \A j \in AllParts :
        /\ (HoldsTemporary(e, j))' <=> HoldsTemporary(e, j) /\ ~(e = c /\ j = i)
        /\ HoldsTemporary(e, j) /\ ~(e = c /\ j = i) => nameOf[e][j] \in AllNames \ {n}
        /\ progressOf[e][j] \in {"published", "failed", "abandoned"} => progressOf'[e][j] = progressOf[e][j]
  BY <1>1, <1>3, <1>6 DEF HoldsTemporary, PublicationInv, OneNameEach, PublicationTypeOK
<1>8. \A e \in Calls : \A j \in AllParts : PartInOrder(e, j)'
  <2>. TAKE e \in Calls
  <2>. TAKE j \in AllParts
  <2>1. PartInOrder(e, j)
    BY DEF PublicationInv
  <2>2. CASE e = c /\ j = i
    BY <1>1, <1>2, <1>3, <1>6, <1>7, <2>1, <2>2 DEF PartInOrder
  <2>3. CASE ~(e = c /\ j = i)
    BY <1>2, <1>3, <1>4, <1>6, <1>7, <2>1, <2>3 DEF PartInOrder
  <2>. QED
    BY <2>2, <2>3
<1>. HIDE DEF n
<1>9. OneNameEach'
  BY <1>2, <1>7 DEF OneNameEach, PublicationInv, AllParts
<1>10. TemporaryHasPart'
  <2>. SUFFICES ASSUME NEW m \in AllNames, NEW e \in Calls, temporary'[m].by = e
       PROVE  \E j \in Parts(e) : nameOf'[e][j] = m /\ (HoldsTemporary(e, j))'
    BY <1>6 DEF TemporaryHasPart, AllNames, PrivateNames, AllParts
  <2>1. temporary[m].by = e /\ m # n
    BY <1>1, <1>4
  <2>2. PICK j \in Parts(e) : nameOf[e][j] = m /\ HoldsTemporary(e, j)
    BY <2>1 DEF PublicationInv, TemporaryHasPart
  <2>3. ~(e = c /\ j = i)
    BY <2>1, <2>2 DEF n
  <2>. QED
    BY <1>2, <1>6, <1>7, <2>2, <2>3
<1>11. TargetHasPart'
  <2>. SUFFICES ASSUME NEW d \in Destinations, NEW e \in Calls, target'[d].by = e, ~InPlace(e)
       PROVE  /\ target'[d].whole
              /\ \E j \in Parts(e) : targetOf[e][j] = d /\ progressOf'[e][j] = "published"
    BY <1>2, <1>6 DEF TargetHasPart
  <2>1. CASE p = "published" /\ d = targetOf[c][i]
    <3>1. target'[d] = temporary[n] /\ progressOf[c][i] = "written"
      BY <1>1, <1>2, <2>1 DEF PublicationTypeOK
    <3>2. e = c /\ temporary[n].whole
      BY <1>1, <3>1 DEF PublicationInv, PartInOrder, n
    <3>. QED
      BY <1>1, <1>3, <2>1, <3>1, <3>2
  <2>2. CASE ~(p = "published" /\ d = targetOf[c][i])
    <3>1. target'[d] = target[d]
      BY <1>1, <1>2, <2>2 DEF PublicationTypeOK
    <3>2. /\ target[d].whole
          /\ \E j \in Parts(e) : targetOf[e][j] = d /\ progressOf[e][j] = "published"
      BY <3>1 DEF PublicationInv, TargetHasPart
    <3>. QED
      BY <1>6, <1>7, <3>1, <3>2
  <2>. QED
    BY <2>1, <2>2
<1>12. FailuresAreParts'
  BY <1>2, <1>6, <1>7 DEF FailuresAreParts, PublicationInv
<1>. QED
  BY <1>5, <1>8, <1>9, <1>10, <1>11, <1>12 DEF PublicationInv, AllParts

\* A volume set of the CLI is written over its destinations.
LEMMA InPlaceStep ==
  ASSUME PublicationInv, NEW c \in Calls, NEW i \in AllParts,
         TruncateInPlace(c, i) \/ WriteInPlace(c, i)
  PROVE  PublicationInv'
<1>1. PublicationTypeOK /\ InPlace(c) /\ progressOf[c][i] \in {"new", "created"}
  BY DEF PublicationInv, TruncateInPlace, WriteInPlace
<1>2. PICK p \in {"created", "published"} :
        /\ To(c, i, p) /\ UNCHANGED <<callKind, targetOf, temporary, nameOf, answer>>
        /\ target' \in [Destinations -> Written]
        /\ \A d \in Destinations : target'[d] = target[d] \/ target'[d].by = c
  <2>1. /\ target \in [Destinations -> Written] /\ FileOf(c, TRUE) \in Written
        /\ FileOf(c, FALSE) \in Written /\ FileOf(c, TRUE).by = c /\ FileOf(c, FALSE).by = c
    BY <1>1, FilesAreWritten DEF PublicationTypeOK
  <2>2. PICK f \in Written : f.by = c /\ (target' = [target EXCEPT ![targetOf[c][i]] = f] \/ target' = target)
    <3>1. CASE TruncateInPlace(c, i)
      BY <2>1, <3>1 DEF TruncateInPlace
    <3>2. CASE WriteInPlace(c, i) /\ target[targetOf[c][i]].by = c
      BY <2>1, <3>2 DEF WriteInPlace
    <3>3. CASE WriteInPlace(c, i) /\ target[targetOf[c][i]].by # c
      <4>1. target' = [target EXCEPT ![targetOf[c][i]] = target[targetOf[c][i]]]
        BY <3>3 DEF WriteInPlace
      <4>. QED
        BY <2>1, <4>1
    <3>. QED
      BY <3>1, <3>2, <3>3
  <2>3. /\ target' \in [Destinations -> Written]
        /\ \A d \in Destinations : target'[d] = target[d] \/ target'[d].by = c
    BY <2>1, <2>2
  <2>. QED
    BY <2>3 DEF TruncateInPlace, WriteInPlace, CallsStay
<1>3. /\ progressOf' \in [Calls -> [AllParts -> Progress]] /\ progressOf'[c][i] = p
      /\ \A e \in Calls : \A j \in AllParts :
           ~(e = c /\ j = i) => progressOf'[e][j] = progressOf[e][j]
  BY <1>1, <1>2, PartMoves DEF Progress
<1>4. PublicationTypeOK'
  BY <1>1, <1>2, <1>3 DEF PublicationTypeOK, AllNames, PrivateNames, AllParts
<1>5. \A e \in Calls : (InPlace(e))' = InPlace(e) /\ (Parts(e))' = Parts(e) /\ Parts(e) \subseteq AllParts
  BY <1>1, <1>2, PartsAreParts DEF InPlace, Parts
<1>6. \A e \in Calls : \A j \in AllParts :
        /\ (HoldsTemporary(e, j))' <=> HoldsTemporary(e, j)
        /\ progressOf[e][j] \in {"published", "failed", "abandoned"} => progressOf'[e][j] = progressOf[e][j]
  BY <1>1, <1>3, <1>5 DEF HoldsTemporary
<1>7. \A e \in Calls : \A j \in AllParts : PartInOrder(e, j)'
  <2>. TAKE e \in Calls
  <2>. TAKE j \in AllParts
  <2>1. PartInOrder(e, j)
    BY DEF PublicationInv
  <2>2. CASE e = c /\ j = i
    BY <1>1, <1>2, <1>3, <1>5, <1>6, <2>1, <2>2 DEF PartInOrder, HoldsTemporary
  <2>3. CASE ~(e = c /\ j = i)
    BY <1>2, <1>3, <1>5, <1>6, <2>1, <2>3 DEF PartInOrder
  <2>. QED
    BY <2>2, <2>3
<1>8. OneNameEach'
  BY <1>2, <1>6 DEF OneNameEach, PublicationInv, AllParts
<1>9. TemporaryHasPart'
  BY <1>2, <1>5, <1>6 DEF TemporaryHasPart, PublicationInv, AllNames, PrivateNames, AllParts
<1>10. TargetHasPart'
  <2>. SUFFICES ASSUME NEW d \in Destinations, NEW e \in Calls, target'[d].by = e, ~InPlace(e)
       PROVE  /\ target'[d].whole
              /\ \E j \in Parts(e) : targetOf[e][j] = d /\ progressOf'[e][j] = "published"
    BY <1>2, <1>5 DEF TargetHasPart
  <2>1. target'[d] = target[d]
    BY <1>1, <1>2
  <2>2. /\ target[d].whole
        /\ \E j \in Parts(e) : targetOf[e][j] = d /\ progressOf[e][j] = "published"
    BY <2>1 DEF PublicationInv, TargetHasPart
  <2>. QED
    BY <1>5, <1>6, <2>1, <2>2
<1>11. FailuresAreParts'
  BY <1>2, <1>5, <1>6 DEF FailuresAreParts, PublicationInv
<1>. QED
  BY <1>4, <1>7, <1>8, <1>9, <1>10, <1>11 DEF PublicationInv, AllParts

----------------------------------------------------------------------------
\* The invariant of all calls, for any calls, destinations and names.
THEOREM PublicationInvariant == PublicationSpec => []PublicationInv
<1>1. ASSUME PublicationInv, PublicationNext
      PROVE  PublicationInv'
  <2>1. PICK c \in Calls : Answer(c) \/ StopCall(c) \/ \E i \in AllParts : PartNext(c, i)
    BY <1>1 DEF PublicationNext
  <2>2. ASSUME NEW i \in AllParts, PartNext(c, i)
        PROVE  PublicationInv'
    BY <1>1, <2>2, QuietPublication, CreateStep, WriteStep, ReleaseStep, InPlaceStep DEF PartNext
  <2>3. CASE Answer(c) \/ StopCall(c)
    <3>1. PICK i \in Parts(c) : TRUE
      <4>1. callKind[c] \in CallKinds
        BY <1>1 DEF PublicationInv, PublicationTypeOK
      <4>2. callKind[c].parts \in Nat \ {0}
        BY <4>1, PublicationAssumption
      <4>3. 1 \in Parts(c)
        BY <4>2 DEF Parts
      <4>. QED
        BY <4>3
    <3>2. i \in AllParts
      BY <1>1, <3>1, PartsAreParts DEF PublicationInv
    <3>. QED
      BY <1>1, <2>3, <3>2, QuietPublication
  <2>. QED
    BY <2>1, <2>2, <2>3
<1>2. ASSUME PublicationInv, UNCHANGED publicationVars
      PROVE  PublicationInv'
  <2>1. UNCHANGED <<callKind, targetOf, target, temporary, nameOf, progressOf, answer>>
    BY <1>2 DEF publicationVars
  <2>2. PublicationTypeOK' /\ FailuresAreParts'
    BY <1>2, <2>1
       DEF PublicationInv, PublicationTypeOK, FailuresAreParts, AllNames, PrivateNames, AllParts, Parts
  <2>. QED
    BY <1>2, <2>1, <2>2, FilesStay
<1>. QED
  BY <1>1, <1>2, PublicationInitial, PTL DEF PublicationSpec

\* A destination holds what was there before or the whole archive of one call, unless a
\* volume set of the CLI is written over it; a temporary file is written by its own part
\* alone and goes with it (pending_archive.rs, write_archive_file, node-worker.cjs).
THEOREM PublicationCorrect == PublicationSpec => []ArchivesAreAtomic
<1>1. PublicationInv => ArchivesAreAtomic
  <2>. SUFFICES ASSUME PublicationInv PROVE ArchivesAreAtomic
    OBVIOUS
  <2>1. PublicationTypeOK /\ \A c \in Calls : Parts(c) \subseteq AllParts
    BY PartsAreParts DEF PublicationInv
  <2>2. ASSUME NEW d \in Destinations, target[d].by \in Calls
        PROVE  LET c == target[d].by
               IN  /\ ~target[d].whole => InPlace(c)
                   /\ ~InPlace(c) => \E i \in Parts(c) :
                        targetOf[c][i] = d /\ progressOf[c][i] = "published"
                   /\ callKind[c].parts = 1 /\ ~InPlace(c) => answer[c] # "failed"
    <3>. DEFINE c == target[d].by
    <3>1. ~InPlace(c) => /\ target[d].whole
                         /\ \E i \in Parts(c) : targetOf[c][i] = d /\ progressOf[c][i] = "published"
      BY <2>2 DEF PublicationInv, TargetHasPart
    <3>2. ASSUME callKind[c].parts = 1, ~InPlace(c), answer[c] = "failed"
          PROVE  FALSE
      <4>1. \A i \in Parts(c) : i = 1
        BY <3>2 DEF Parts
      <4>2. \E i \in Parts(c) : progressOf[c][i] \in {"failed", "abandoned"}
        BY <2>2, <3>2 DEF PublicationInv, FailuresAreParts
      <4>. QED
        BY <3>1, <3>2, <4>1, <4>2
    <3>. QED
      BY <3>1, <3>2
  <2>3. ASSUME NEW n \in DOMAIN temporary, temporary[n].by \in Calls
        PROVE  \E i \in Parts(temporary[n].by) :
                 /\ nameOf[temporary[n].by][i] = n
                 /\ progressOf[temporary[n].by][i] \in {"created", "written", "failing", "abandoned"}
    <3>1. n \in AllNames
      BY <2>1, <2>3 DEF PublicationTypeOK
    <3>. QED
      BY <2>3, <3>1 DEF PublicationInv, TemporaryHasPart, HoldsTemporary
  <2>4. ASSUME NEW c \in Calls, NEW i \in Parts(c), ~InPlace(c),
               progressOf[c][i] \in {"created", "written"}
        PROVE  temporary[nameOf[c][i]] = FileOf(c, progressOf[c][i] = "written")
    <3>1. i \in AllParts
      BY <2>1
    <3>2. /\ temporary[nameOf[c][i]].by = c /\ temporary[nameOf[c][i]] \in Written
          /\ temporary[nameOf[c][i]].whole = (progressOf[c][i] = "written")
      BY <2>1, <2>4, <3>1
         DEF PublicationInv, PartInOrder, HoldsTemporary, PublicationTypeOK, Written
    <3>. QED
      BY <3>2 DEF FileOf, Written
  <2>. QED
    BY <2>2, <2>3, <2>4 DEF ArchivesAreAtomic
<1>. QED
  BY <1>1, PublicationInvariant, PTL
=============================================================================
