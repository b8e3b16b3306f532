------------------------------ MODULE SolidChain ------------------------------
(* A solid archive from its writer to its readers.  The members of a run     *)
(* are coded by one encoder, each against what the members before it left;   *)
(* the headers must tell a reader where its decoder goes on and where it     *)
(* starts afresh (rar13/write.rs, rar15_40/write.rs, rar50/write/compress.rs;*)
(* the readers rar13.rs, rar15_40/extract.rs, rar50/extract.rs and, as the   *)
(* comment at rar15_40/write.rs:626 describes it, 7-Zip).                    *)
(*                                                                           *)
(* Abstracted: payloads, of which only the two lengths count.  A history is  *)
(* the sequence of the members whose data it holds.  Left out: a filter      *)
(* named under forced PPMd, which is coded on its own and read as coded.     *)
EXTENDS Naturals, Sequences

CONSTANTS
    SolidJobs,      \* [family, members]; members are [kind, size, packed]:
                    \*   dir, link or file, its length and what coding makes of it
    MinStoreFallbackSize

ASSUME SolidAssumption ==
    /\ MinStoreFallbackSize \in Nat
    /\ \A j \in SolidJobs :
        /\ j.family \in {"rar13", "rar15", "rar20", "rar50"}
        /\ j.members \in Seq([kind : {"dir", "link", "file"}, size : Nat, packed : Nat])
        /\ \A i \in DOMAIN j.members :
            j.members[i].kind = "dir" => j.members[i].size = 0

VARIABLES
    solidJob,
    headers,        \* the members written: [stored, solid, base]; `base` is the
                    \*   history the payload was coded against
    encoder,        \* the history of the encoder
    runHasMember,   \* solid_run_has_member
    reader,         \* "none" while the archive is written
    position,       \* members read
    decoder,        \* the history of the reader's decoder
    decodedFiles    \* decoded_files, extracted_count

chainWriterVars == <<headers, encoder, runHasMember>>
chainReaderVars == <<reader, position, decoder, decodedFiles>>
solidVars == <<solidJob, chainWriterVars, chainReaderVars>>

Family == solidJob.family
Chain == solidJob.members

SolidInit ==
    /\ solidJob \in SolidJobs
    /\ headers = <<>> /\ encoder = <<>> /\ runHasMember = FALSE
    /\ reader = "none" /\ position = 0 /\ decoder = <<>> /\ decodedFiles = 0

---------------------------------------------------------------------------
(* The writer. *)

Coding == reader = "none" /\ Len(headers) < Len(Chain)
Current == Chain[Len(headers) + 1]
Remembering(history, i) == IF Chain[i].size > 0 THEN Append(history, i) ELSE history

StoresAnyway ==   \* mutant: a RAR 1.5 or RAR5 member is stored within its chain
    Current.packed >= Current.size /\ Current.size >= MinStoreFallbackSize

(* StoreFallback::applies: only RAR 2.0 to 4.x can end a chain.  RAR5 stores *)
(* what is empty, which no chain notices.                                    *)
FallsBack ==
    \/ /\ Family = "rar20"
       /\ Current.packed >= Current.size /\ Current.size >= MinStoreFallbackSize
    \/ Family = "rar50" /\ Current.size = 0

(* The RAR 1.3 writer codes a link as it codes a file.                       *)
Stored ==
    \/ Current.kind = "dir"
    \/ Current.kind = "link" /\ Family # "rar13"
    \/ FallsBack

FlagsCompressed == ~Stored /\ runHasMember   \* mutant: directories are not flagged

FlagsContinuation == (~Stored \/ Current.kind = "dir") /\ runHasMember

SolidFlag ==
    CASE Family = "rar13" -> FALSE
      [] Family = "rar50" -> headers # <<>>
      [] OTHER            -> FlagsContinuation

RebuildNever == FALSE   \* mutant: the encoder survives a stored member

(* A member the legacy writer stores, and a link before it is stored.        *)
Rebuilds == Family \in {"rar15", "rar20"} /\ Stored /\ Current.kind # "dir"

CountsAll ==   \* mutant: an empty compressed member counts
    IF Current.kind = "dir" THEN runHasMember ELSE ~Stored

RunAfter ==
    IF Current.kind = "dir" THEN runHasMember
    ELSE ~Stored /\ (runHasMember \/ Current.size # 0)

WriteSolidMember ==
    /\ Coding
    /\ headers' = Append(headers, [stored |-> Stored, solid |-> SolidFlag, base |-> encoder])
    /\ encoder' = IF Rebuilds THEN <<>>
                  ELSE IF Stored THEN encoder
                  ELSE Remembering(encoder, Len(headers) + 1)
    /\ runHasMember' = IF Family \in {"rar15", "rar20"} THEN RunAfter ELSE runHasMember
    /\ UNCHANGED <<solidJob, chainReaderVars>>

---------------------------------------------------------------------------
(* The readers. *)

OpenArchive ==
    /\ reader = "none" /\ Len(headers) = Len(Chain)
    /\ reader' \in {"rars"} \cup {r \in {"7-Zip"} : Family = "rar20"}
    /\ UNCHANGED <<solidJob, chainWriterVars, position, decoder, decodedFiles>>

Reading == reader # "none" /\ position < Len(Chain)
Header == headers[position + 1]
Following == Chain[position + 1]

(* An empty payload is passed over. *)
PassesOver == Header.stored \/ (Family \in {"rar15", "rar20"} /\ Following.size + Following.packed = 0)

(* RAR 1.3 and 1.5 count, RAR5 and 7-Zip go by the flag, RAR 2.0 does both. *)
GoesOn ==
    /\ Family \in {"rar20", "rar50"} => Header.solid
    /\ Family # "rar50" /\ reader # "7-Zip" => decodedFiles # 0

(* The history the decoder has for the next member. *)
Base == IF GoesOn THEN decoder ELSE <<>>

(* RAR 1.3 counts every member; 7-Zip restarts at headers it passes over.    *)
PassMember ==
    /\ Reading /\ PassesOver
    /\ position' = position + 1
    /\ decodedFiles' = IF Family = "rar13" THEN decodedFiles + 1 ELSE decodedFiles
    /\ decoder' = IF reader = "7-Zip" THEN Base ELSE decoder
    /\ UNCHANGED <<solidJob, chainWriterVars, reader>>

DecodeMember ==
    /\ Reading /\ ~PassesOver
    /\ position' = position + 1
    /\ decodedFiles' = decodedFiles + 1
    /\ decoder' = Remembering(Base, position + 1)
    /\ UNCHANGED <<solidJob, chainWriterVars, reader>>

SolidNext == WriteSolidMember \/ OpenArchive \/ PassMember \/ DecodeMember

SolidSpec == SolidInit /\ [][SolidNext]_solidVars

---------------------------------------------------------------------------
(* Every reader decodes every member against exactly the members its payload *)
(* was coded against, in the order of coding.                                *)
DecodesAsCoded == Reading /\ ~PassesOver => Base = Header.base

(* Storing never breaks a chain that the readers go on with: the comment at  *)
(* rar15_40/write.rs:2291 says of RAR 1.5 that "readers take every member of *)
(* a solid RAR 1.5 archive as a continuation whatever the header says.       *)
(* Breaking the chain there writes an archive nothing can read."             *)
ChainsUnbroken == Family = "rar15" => DecodesAsCoded

(* A link, before which the writer of RAR 1.5 rebuilds its encoder as those  *)
(* of the later formats do, and before that a member with data.              *)
BehindLink(i) ==
    /\ Family = "rar15"
    /\ \E k \in 1 .. i - 1 :
        /\ Chain[k].kind = "link"
        /\ \E j \in 1 .. k - 1 : Chain[j].kind = "file" /\ Chain[j].size > 0

(* Writers and readers agree wherever stored and empty members, directories  *)
(* and links stand between two members, but for what comes behind such a     *)
(* link in a RAR 1.5 archive, which ChainsUnbroken is about.  The writer's   *)
(* flags and the readers' counters are two accounts of the same chain.       *)
ChainsAgree == ~BehindLink(position + 1) => DecodesAsCoded
=============================================================================
