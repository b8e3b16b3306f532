---------------------------- MODULE SourceWriting ----------------------------
(* Members on their way from their sources into an archive or a volume set:  *)
(* the RAR5 writer (rar50/write/engine.rs, compress.rs), which cuts members  *)
(* at any byte where a volume is full, and the legacy writers (rar13 and     *)
(* rar15_40/write.rs, write_stream.rs), whose volume sets hold one member.   *)
(*                                                                           *)
(* "A reopenable source is not a snapshot" (engine.rs:126): a source may     *)
(* change between two reads of it.  A header is written before the payload   *)
(* it describes, so a stored member is read once for its checksum, once more *)
(* when it is copied, and a fragment of it once in between.                  *)
(*                                                                           *)
(* Abstracted: a byte is a small number and one read; a checksum is the      *)
(* sequence it was made of; ciphertext is the plain text with its padding;   *)
(* coding puts one table before the data.  Left out: the legacy ciphers,     *)
(* which work on a member in memory, and the blocks around the members.      *)
EXTENDS Integers, Sequences

CONSTANTS
    Bytes,
    WriteJobs,     \* [family, volumes, members]; members are
                   \*   [first, coding, encrypted]: the source at the start, and
                   \*   "stored", "packed" or "fallback" (coding did not help)
    Revisions,     \* what a source may be changed to
    MaxRevisions,  \* bound: changes during one call
    MaxPayload,    \* max_payload_per_volume
    CipherBlock,   \* 16
    Padding, Table, NoData

\* A payload has what coding and encryption add.
Cells == Bytes \cup {Padding, Table}

ASSUME WritingAssumption ==
    /\ MaxRevisions \in Nat /\ MaxPayload \in Nat \ {0} /\ CipherBlock \in Nat \ {0}
    /\ Revisions \in SUBSET Seq(Bytes) /\ NoData \notin Nat \cup Seq(Cells)
    /\ \A j \in WriteJobs :
        /\ j.family \in {"legacy", "rar50"} /\ j.volumes \in BOOLEAN
        /\ j.members # <<>>
        /\ j.members \in Seq([first : Seq(Bytes), coding : {"stored", "packed", "fallback"},
                               encrypted : BOOLEAN])
        /\ j.family = "legacy" => \A m \in DOMAIN j.members : ~j.members[m].encrypted
        /\ j.family = "legacy" /\ j.volumes => Len(j.members) = 1

VARIABLES
    writeJob,
    content,       \* member -> its source
    revisions,
    writeStage,
    member,        \* the member at hand
    expected,      \* member -> its length, asked once
    integrity,     \* member -> what its checksum was made of
    kept,          \* member -> its payload if the writer holds it: in memory, or in
                   \*   a spool; NoData when it is copied from the source
    seen,          \* what the current pass has read
    start,         \* bytes of the member's payload that are written
    fragment,      \* the checksum of the current fragment, read ahead
    emitted,       \* FragmentSource::Stored.emitted
    entries,       \* the file headers written, with their payloads
    ends,          \* of every finished volume, whether another follows: EFL_NEXT_VOLUME;
                   \*   in legacy sets the split flags alone say it
    body           \* payload bytes in the open volume, or NoData

sourceVars == <<content, revisions>>
knownVars == <<expected, integrity, kept>>
passVars == <<seen, start, fragment, emitted>>
setVars == <<entries, ends, body>>
writingVars == <<writeJob, writeStage, member, sourceVars, knownVars, passVars, setVars>>

Rar50 == writeJob.family = "rar50"
Volumes == writeJob.volumes
Everyone == DOMAIN writeJob.members
AtHand == writeJob.members[member]
Source == content[member]

Unasked == [m \in Everyone |-> 0]
Nothing == [m \in Everyone |-> NoData]

Over == {"written", "refused"}

WritingInit ==
    /\ writeJob \in WriteJobs
    /\ content = [m \in Everyone |-> writeJob.members[m].first] /\ revisions = 0
    /\ writeStage = "measure" /\ member = 1
    /\ expected = Unasked /\ integrity = Nothing /\ kept = Nothing
    /\ seen = <<>> /\ start = 0 /\ fragment = NoData /\ emitted = <<>>
    /\ entries = <<>> /\ ends = <<>> /\ body = NoData

\* The same for the next member, and for the last one go on.
EachThen(following) ==
    IF member < Len(writeJob.members)
    THEN member' = member + 1 /\ UNCHANGED writeStage
    ELSE member' = 1 /\ writeStage' = following

\* The call fails and its buffers, spools and checksums are dropped; what the
\* sink or the output has been given, it has.
Refuse ==
    /\ writeStage' = "refused" /\ member' = 1
    /\ expected' = Unasked /\ integrity' = Nothing /\ kept' = Nothing
    /\ seen' = <<>> /\ start' = 0 /\ fragment' = NoData /\ emitted' = <<>> /\ body' = NoData
    /\ UNCHANGED <<writeJob, sourceVars, entries, ends>>

---------------------------------------------------------------------------
(* What is written of a member. *)

SealedLength(m, n) ==
    IF writeJob.members[m].encrypted THEN ((n + CipherBlock - 1) \div CipherBlock) * CipherBlock ELSE n
Sealed(m, data) == data \o [i \in 1 .. SealedLength(m, Len(data)) - Len(data) |-> Padding]

\* RAR5 stores an empty member whatever was asked for.
Packed(m) == writeJob.members[m].coding = "packed" /\ (Rar50 => expected[m] > 0)

\* What the writer holds once it has read a member for its checksum.  The RAR5
\* writer opens a source again for what it stores, the legacy ones only when
\* they were asked to store and need not cut.
Held(data) ==
    IF Packed(member) THEN Sealed(member, <<Table>> \o data)
    ELSE IF Rar50 \/ (AtHand.coding = "stored" /\ ~Volumes) THEN NoData
    ELSE data

PayloadLength == IF kept[member] # NoData THEN Len(kept[member]) ELSE expected[member]

FragmentWhole == PayloadLength - start  \* mutant: a volume takes what is left of the member

FragmentLength ==
    LET room == IF ~Volumes THEN PayloadLength
                ELSE MaxPayload - (IF body = NoData THEN 0 ELSE body)
    IN IF room < PayloadLength - start THEN room ELSE PayloadLength - start

SplitAfter == start + FragmentLength < PayloadLength

---------------------------------------------------------------------------
(* A pass over a source: its bytes, then the probe that it has no more. *)

Measure ==
    /\ writeStage = "measure"
    /\ expected' = [expected EXCEPT ![member] = Len(Source)]
    /\ IF Rar50 THEN EachThen("integrity") ELSE writeStage' = "integrity" /\ UNCHANGED member
    /\ UNCHANGED <<writeJob, sourceVars, integrity, kept, passVars, setVars>>

Whole == writeStage \in {"integrity", "encrypt"}
Passing == Whole \/ writeStage \in {"checksum", "copy"}
Goal == IF Whole THEN expected[member] ELSE FragmentLength
ReachesEnd == Whole \/ (writeStage = "copy" /\ start + Goal = expected[member])

ReadByte ==
    /\ Passing /\ Len(seen) < Goal /\ start + Len(seen) < Len(Source)
    /\ seen' = Append(seen, Source[start + Len(seen) + 1])
    /\ UNCHANGED <<writeJob, writeStage, member, sourceVars, knownVars, start, fragment, emitted, setVars>>

FindShort ==
    /\ Passing /\ Len(seen) < Goal /\ start + Len(seen) >= Len(Source)
    /\ Refuse

Probed == ReachesEnd => Len(Source) = start + Goal

NeverVerified == TRUE  \* mutant: a copy is not compared with the checksums

\* PreparedSource::verify, and what emit_range and write_member compare.
Verified ==
    CASE writeStage = "encrypt" -> seen = integrity[member]
      [] writeStage = "copy" ->
           /\ fragment # NoData => seen = fragment
           /\ ReachesEnd => emitted \o seen = integrity[member]
      [] OTHER -> TRUE

PassEnds(stage) == writeStage = stage /\ Len(seen) = Goal /\ Probed /\ Verified

FindChanged == Passing /\ Len(seen) = Goal /\ ~(Probed /\ Verified) /\ Refuse

EndIntegrity ==
    /\ PassEnds("integrity")
    /\ integrity' = [integrity EXCEPT ![member] = seen]
    /\ kept' = [kept EXCEPT ![member] = Held(seen)]
    /\ seen' = <<>>
    /\ IF Rar50 THEN EachThen("prepare") ELSE writeStage' = "cut" /\ UNCHANGED member
    /\ UNCHANGED <<writeJob, sourceVars, expected, start, fragment, emitted, setVars>>

\* prepare_volume_member: one cipher runs over the member, so it is encrypted
\* into a spool before it is cut.
Prepare ==
    /\ writeStage = "prepare"
    /\ IF Volumes /\ AtHand.encrypted /\ kept[member] = NoData
       THEN writeStage' = "encrypt" /\ UNCHANGED member
       ELSE EachThen("cut")
    /\ UNCHANGED <<writeJob, sourceVars, knownVars, passVars, setVars>>

EndEncrypt ==
    /\ PassEnds("encrypt")
    /\ kept' = [kept EXCEPT ![member] = Sealed(member, seen)]
    /\ seen' = <<>>
    /\ IF member < Len(writeJob.members)
       THEN member' = member + 1 /\ writeStage' = "prepare"
       ELSE member' = 1 /\ writeStage' = "cut"
    /\ UNCHANGED <<writeJob, sourceVars, expected, integrity, start, fragment, emitted, setVars>>

---------------------------------------------------------------------------
(* VolumeWriter::write_member; an archive is a set without a limit. *)

Full == Volumes /\ body = MaxPayload

\* A full volume is closed when somebody asks for room, and then another follows.
FinishVolume ==
    /\ writeStage = "cut" /\ Full
    /\ ends' = Append(ends, TRUE) /\ body' = NoData
    /\ UNCHANGED <<writeJob, writeStage, member, sourceVars, knownVars, passVars, entries>>

\* The legacy writers need something to cut.
RefuseEmpty ==
    /\ writeStage = "cut" /\ ~Rar50 /\ Volumes /\ PayloadLength = 0
    /\ Refuse

Emit(data, checksum) ==
    /\ entries' = Append(entries,
         [of |-> member, volume |-> Len(ends) + 1, before |-> start > 0, after |-> SplitAfter,
          size |-> expected[member], checksum |-> checksum, data |-> data])
    /\ body' = (IF body = NoData THEN 0 ELSE body) + Len(data)
    /\ seen' = <<>> /\ fragment' = NoData
    /\ IF SplitAfter
       THEN /\ start' = start + FragmentLength /\ emitted' = emitted \o data
            /\ writeStage' = "cut" /\ UNCHANGED member
       ELSE /\ start' = 0 /\ emitted' = <<>>
            /\ IF member = Len(writeJob.members) THEN writeStage' = "finish" /\ UNCHANGED member
               ELSE member' = member + 1 /\ writeStage' = IF Rar50 THEN "cut" ELSE "measure"
    /\ UNCHANGED <<writeJob, sourceVars, knownVars, ends>>

Cut ==
    /\ writeStage = "cut" /\ ~Full
    /\ ~Rar50 /\ Volumes => PayloadLength > 0
    /\ IF kept[member] # NoData
       THEN LET data == SubSeq(kept[member], start + 1, start + FragmentLength)
            IN Emit(data, IF SplitAfter THEN data ELSE integrity[member])
       ELSE /\ writeStage' = IF SplitAfter THEN "checksum" ELSE "copy"
            /\ body' = IF body = NoData THEN 0 ELSE body
            /\ UNCHANGED <<writeJob, member, sourceVars, knownVars, passVars, entries, ends>>

\* The header of a fragment carries the checksum of its own bytes.
EndChecksum ==
    /\ PassEnds("checksum")
    /\ fragment' = seen /\ seen' = <<>> /\ writeStage' = "copy"
    /\ UNCHANGED <<writeJob, member, sourceVars, knownVars, start, emitted, setVars>>

EndCopy ==
    /\ PassEnds("copy")
    /\ Emit(Sealed(member, seen), IF SplitAfter THEN fragment ELSE integrity[member])

FinishByRoom ==  \* mutant: a full volume is taken for one that another follows
    /\ writeStage = "finish"
    /\ ends' = Append(ends, Full) /\ body' = NoData /\ writeStage' = "written"
    /\ UNCHANGED <<writeJob, member, sourceVars, knownVars, passVars, entries>>

Finish ==
    /\ writeStage = "finish"
    /\ ends' = Append(ends, FALSE) /\ body' = NoData /\ writeStage' = "written"
    /\ UNCHANGED <<writeJob, member, sourceVars, knownVars, passVars, entries>>

---------------------------------------------------------------------------
\* Another program writes to a source.
Revise(m) ==
    /\ writeStage \notin Over /\ revisions < MaxRevisions
    /\ content' \in {[content EXCEPT ![m] = r] : r \in Revisions \ {content[m]}}
    /\ revisions' = revisions + 1
    /\ UNCHANGED <<writeJob, writeStage, member, knownVars, passVars, setVars>>

\* A cancellation is observed, a read or a write fails.
StopWriting == writeStage \notin Over /\ Refuse

WritingNext ==
    \/ Measure \/ ReadByte \/ FindShort \/ FindChanged \/ EndIntegrity
    \/ Prepare \/ EndEncrypt \/ FinishVolume \/ RefuseEmpty \/ Cut \/ EndChecksum \/ EndCopy \/ Finish
    \/ \E m \in Everyone : Revise(m)
    \/ StopWriting

WritingSpec == WritingInit /\ [][WritingNext]_writingVars

---------------------------------------------------------------------------
(* What a reader finds: parts of one member are joined while the flags say   *)
(* so, decrypted and decoded as one, and compared with the last checksum.    *)

Starts == {n \in DOMAIN entries : ~entries[n].before}
LastPart(n) == CHOOSE k \in n .. Len(entries) : ~entries[k].after /\ \A i \in n .. k - 1 : entries[i].after

JoinedTo(n) ==
    LET join[k \in n .. Len(entries)] ==
          IF k = n THEN entries[k].data ELSE join[k - 1] \o entries[k].data
    IN join[LastPart(n)]

Decoded(n) ==
    LET size == entries[LastPart(n)].size
    IN IF Packed(entries[n].of) THEN SubSeq(JoinedTo(n), 2, size + 1) ELSE SubSeq(JoinedTo(n), 1, size)

PayloadOf(v) ==
    LET sum[n \in 0 .. Len(entries)] ==
          IF n = 0 THEN 0
          ELSE sum[n - 1] + IF entries[n].volume = v THEN Len(entries[n].data) ELSE 0
    IN sum[Len(entries)]

\* A set that was written holds every member once and in order; its parts
\* follow one another without a gap, from the last place of one volume to the
\* first of the next; they decode to what the last header declares, length and
\* checksum; every other part has a checksum of its own bytes; no volume is
\* longer than asked; and each volume but the last says that another follows.
\* This holds whatever happened to the sources meanwhile: a call that cannot
\* describe what it wrote is refused.
WrittenSetsVerify ==
    writeStage = "written" =>
      /\ {entries[n].of : n \in Starts} = Everyone
      /\ \A n, k \in Starts : n < k => entries[n].of < entries[k].of
      /\ ~entries[1].before /\ ~entries[Len(entries)].after
      /\ \A n \in 1 .. Len(entries) - 1 :
           /\ entries[n].after <=> entries[n + 1].before
           /\ entries[n].after => /\ entries[n + 1].of = entries[n].of
                                  /\ entries[n + 1].volume = entries[n].volume + 1
                                  /\ entries[n].data # <<>>
      /\ \A n \in Starts :
           /\ Len(Decoded(n)) = entries[LastPart(n)].size
           /\ Decoded(n) = entries[LastPart(n)].checksum
      /\ \A n \in DOMAIN entries : entries[n].after => entries[n].checksum = entries[n].data
      /\ {entries[n].volume : n \in DOMAIN entries} = DOMAIN ends
      /\ \A v \in DOMAIN ends : /\ Volumes => PayloadOf(v) <= MaxPayload
                                /\ ends[v] <=> v < Len(ends)
=============================================================================
