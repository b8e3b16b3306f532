-------------------------- MODULE MemberExtraction --------------------------
(***************************************************************************)
(* Sequential extraction of the three archive families: of one archive     *)
(* (extract_with_allowance of rar13.rs, rar15_40.rs and rar50/extract.rs)  *)
(* and of a volume set (extract_volumes_with_allowance), with the member   *)
(* selection and error callbacks (extraction_control.rs), the output       *)
(* budget (output_limit.rs) and the cancellation checks (read_control.rs). *)
(*                                                                         *)
(* A step runs from one callback, cancellation check or write to the next; *)
(* the token may be set between any two.  The caller's callbacks, its sink *)
(* and the packed data may fail wherever they are used.  A volume set is   *)
(* the concatenation of the entries of its volumes.                        *)
(***************************************************************************)
EXTENDS Integers, Sequences, FiniteSets, FiniteSetsExt, Totals

CONSTANTS Jobs,       \* the calls: what is extracted and with which options
          NoLimit,    \* a limit that is not configured
          Buffered    \* rar50_buffered_decode_limit

\* An entry is one file header.
\*   kind    "directory", "redirection" (RAR 5), "stored", "packed",
\*           "empty" (compressed, without payload), or "huge" (RAR 5: packed
\*           with a dictionary above the caller's limit)
\*   solid   its solid flag;  link  a RAR 1.5-4 symbolic link
\*   old     an unpack version below 20, otherwise 29
\*   before, after  its split flags
\*   size    declared output bytes;  data  payload bytes of a stored entry
Kinds == {"directory", "redirection", "stored", "packed", "empty", "huge"}
Entry == [name : STRING, kind : Kinds, solid : BOOLEAN, link : BOOLEAN, old : BOOLEAN,
          before : BOOLEAN, after : BOOLEAN, size : Nat, data : Nat]

\* A job: the family, the entries, MHD_SOLID, whether they come from a volume
\* set, the callbacks it has (selector, handler, links) and its limits.  A
\* redirection has no payload that could be split over volumes.  A RAR 1.3 set
\* takes every split entry for a file (PendingSplitRefs::write_to), so none of
\* them counts as a directory, whatever its attributes say.
ASSUME JobsAssumption ==
  /\ NoLimit \in Nat /\ Buffered \in Nat
  /\ \A j \in Jobs :
       /\ j.family \in {"rar13", "rar15", "rar50"} /\ j.entries \in Seq(Entry)
       /\ {j.solid, j.volumes, j.selector, j.handler, j.links} \subseteq BOOLEAN
       /\ j.handler => j.selector
       /\ j.selector => ~j.volumes /\ ~j.links
       /\ j.memberLimit \in 0 .. NoLimit /\ j.totalLimit \in 0 .. NoLimit
       /\ j.volumes => \A i \in DOMAIN j.entries :
                         j.entries[i].kind = "redirection" => ~(j.entries[i].before \/ j.entries[i].after)
       /\ j.volumes /\ j.family = "rar13" => \A i \in DOMAIN j.entries :
                         j.entries[i].kind = "directory" => ~(j.entries[i].before \/ j.entries[i].after)

VARIABLES job,       \* the call
          at,        \* the entry being visited
          stage,     \* where the loop is
          decision,  \* what the last callback answered
          token,     \* the caller's ReadCancellation
          pending,   \* PendingSplitRefs.fragments; empty when there is none
          parts,     \* the entries the current member is read from
          history,   \* members whose output the decoder can refer to
          codec,     \* whether the decoder is one for old members; "none" at first
          decoded,   \* decoded_files, or extracted_count of RAR 1.3
          ready,     \* RAR 5: the member in memory has been decoded and verified
          spent,     \* OutputBudget.used
          accepted,     \* bytes of each member the sink has accepted
          trouble,   \* what the guarded writer, the control and the codec remember
          failure,   \* the error of the current member
          answer,    \* what the call returned, "none" while it runs
          seen,      \* history each member was decoded with
          made,      \* entries each member was assembled from
          fate,      \* what became of each entry
          spoiled    \* entries whose payload proved to be damaged

callVars    == <<job, token>>
loopVars    == <<at, stage, decision, failure, answer>>
readVars    == <<pending, parts>>
sessionVars == <<history, codec, decoded, ready>>
budgetVars  == <<spent, accepted, trouble>>
recordVars  == <<seen, made, fate, spoiled>>
memberVars  == <<callVars, loopVars, readVars, sessionVars, budgetVars, recordVars>>

Entries == DOMAIN job.entries
E(i) == job.entries[i]
Now == E(at)

MemberInit ==
  /\ job \in Jobs /\ token = FALSE
  /\ at = 0 /\ stage = "next" /\ decision = "none" /\ failure = "none" /\ answer = "none"
  /\ pending = <<>> /\ parts = <<>>
  /\ history = {} /\ codec = "none" /\ decoded = 0 /\ ready = FALSE
  /\ spent = 0 /\ accepted = [i \in Entries |-> 0] /\ trouble = {}
  /\ seen = [i \in Entries |-> {}] /\ made = [i \in Entries |-> <<>>]
  /\ fate = [i \in Entries |-> "untouched"] /\ spoiled = {}

----------------------------------------------------------------------------
(* What the entries say.                                                   *)

Split(e) == e.before \/ e.after
HasOutput(e) == e.kind \notin {"directory", "redirection"}
Compressed(e) == e.kind \in {"packed", "huge"}
IsTarget == job.links /\ Now.link    \* a legacy link: decoded into memory

\* The control's reading of "solid": no member of such an archive can be
\* skipped, and no failure in it can be passed over.
AnySolid == job.solid \/ (job.family # "rar13" /\ \E i \in Entries : E(i).solid)

\* Bytes of payload behind the current member.
Payload == MapThenSumSet(LAMBDA n : E(parts[n]).data, DOMAIN parts)

\* Stored payload is copied to its end, whatever size was declared, by RAR 1.3
\* and for split members of RAR 5; every other decoder stops at the size, after
\* it has compared the two.
CopiesAll == Now.kind = "stored" /\ (job.family = "rar13" \/ (job.family = "rar50" /\ Split(Now)))
Produced == IF CopiesAll THEN Payload ELSE Now.size
MisSized == Now.kind = "stored" /\ Payload # Now.size

\* The decoder goes on with the history it has.
KeepsSolid ==
  CASE job.family = "rar13" -> job.solid /\ decoded # 0
    [] job.family = "rar15" -> /\ job.solid /\ decoded # 0 /\ (Now.old \/ Now.solid)
                               /\ codec = Now.old
    [] job.family = "rar50" -> Now.solid

\* RAR 5 decodes a small member into memory, verifies it and only then writes;
\* a larger one goes to the sink as it is decoded, by a copy of the decoder
\* that replaces the decoder when the member proved good.
InMemory == job.family = "rar50" /\ Compressed(Now) /\ Now.size <= Buffered
OnCopy   == job.family = "rar50" /\ Compressed(Now) /\ Now.size > Buffered

----------------------------------------------------------------------------
(* The loop over the entries.                                              *)

Return(a) == stage' = "done" /\ answer' = a
Fail(f) == stage' = "failed" /\ failure' = f
OnlyLoop == UNCHANGED <<callVars, readVars, sessionVars, budgetVars, recordVars>>

\* The stages that begin with a cancellation check whose error ends the call.
Checked == {"select", "selected", "join", "admit", "open", "opened", "link", "handler", "handled"}
AtEnd == stage = "next" /\ at = Len(job.entries)

Interrupt ==
  /\ token
  /\ stage \in Checked \/ (AtEnd /\ pending = <<>>)
  /\ Return("cancelled")
  /\ UNCHANGED <<at, decision, failure>> /\ OnlyLoop

Cancel ==
  /\ answer = "none" /\ ~token
  /\ token' = TRUE
  /\ UNCHANGED <<job, loopVars, readVars, sessionVars, budgetVars, recordVars>>

NextEntry ==
  /\ stage = "next" /\ ~AtEnd
  /\ at' = at + 1 /\ parts' = <<at + 1>>
  /\ stage' = IF job.selector THEN "select" ELSE IF job.volumes THEN "join" ELSE "admit"
  /\ decision' = "none" /\ failure' = "none"
  /\ UNCHANGED <<callVars, answer, pending, sessionVars, budgetVars, recordVars>>

\* A member that is still open when the volumes end is reported before anything.
EndOfEntries ==
  /\ AtEnd
  /\ \/ pending # <<>> /\ Return("refused")
     \/ pending = <<>> /\ ~token /\ Return("complete")
  /\ UNCHANGED <<at, decision, failure>> /\ OnlyLoop

\* The selector is called; its answer is looked at after another check.
Select ==
  /\ stage = "select" /\ ~token
  /\ \/ stage' = "selected" /\ decision' \in {"extract", "skip", "stop"} /\ UNCHANGED answer
     \/ Return("callback") /\ UNCHANGED decision
  /\ UNCHANGED <<at, failure>> /\ OnlyLoop

SkipAnything == TRUE  \* mistake: the members after a skipped one need its output
MaySkip == ~(AnySolid /\ HasOutput(Now))

SkipMember ==
  /\ stage = "selected" /\ ~token /\ decision = "skip"
  /\ IF MaySkip THEN stage' = "next" /\ fate' = [fate EXCEPT ![at] = "skipped"] /\ UNCHANGED answer
                ELSE Return("refused") /\ UNCHANGED fate
  /\ UNCHANGED <<callVars, at, decision, failure, readVars, sessionVars, budgetVars, seen, made,
                 spoiled>>

TakeMember ==
  /\ stage = "selected" /\ ~token /\ decision # "skip"
  /\ IF decision = "stop" THEN Return("stopped") ELSE stage' = "admit" /\ UNCHANGED answer
  /\ UNCHANGED <<at, decision, failure>> /\ OnlyLoop

----------------------------------------------------------------------------
(* Volume sets: SplitVolumeState, and the pending fragments.               *)

\* validate_split_continuation_refs, append of RAR 1.3: name, method, version,
\* and with RAR 5 the solid flag, which is part of the compression info.
AnyName(e, f) ==  \* mistake: the name is not compared
  e.kind = f.kind /\ e.old = f.old /\ (job.family = "rar50" => e.solid = f.solid)
Continues(e, f) ==
  /\ e.name = f.name /\ e.kind = f.kind /\ e.old = f.old
  /\ job.family = "rar50" => e.solid = f.solid

\* A first part that is a directory is refused, but RAR 1.3 does not look.
SplitDirectory == job.family # "rar13" /\ Now.kind = "directory"

\* RAR 5 checks the dictionary before it looks at the flags.
JoinVolumes ==
  /\ stage = "join" /\ ~token
  /\ \/ /\ Now.kind = "huge"
        /\ Fail("limit") /\ UNCHANGED readVars
     \/ /\ Now.kind # "huge"
        /\ \/ ~Split(Now) /\ pending = <<>>                 \* Regular
              /\ stage' = "admit" /\ UNCHANGED <<failure, readVars>>
           \/ ~Now.before /\ Now.after /\ pending = <<>> /\ ~SplitDirectory  \* Start
              /\ pending' = <<at>> /\ stage' = "next" /\ UNCHANGED <<failure, parts>>
           \/ /\ Now.before /\ pending # <<>>               \* Continue, Finish
              /\ IF ~Continues(Now, E(pending[1])) THEN Fail("refused") /\ UNCHANGED readVars
                 ELSE IF Now.after
                 THEN /\ pending' = Append(pending, at) /\ stage' = "next"
                      /\ UNCHANGED <<failure, parts>>
                 ELSE /\ parts' = Append(pending, at) /\ pending' = <<>> /\ stage' = "admit"
                      /\ UNCHANGED failure
           \/ /\ (Now.before /\ pending = <<>>)             \* MissingFirst
                 \/ (~Now.before /\ pending # <<>>)         \* Interrupted
                 \/ (~Now.before /\ Now.after /\ SplitDirectory)
              /\ Fail("refused") /\ UNCHANGED readVars
  /\ UNCHANGED <<callVars, at, decision, answer, sessionVars, budgetVars, recordVars>>

----------------------------------------------------------------------------
(* Admission and the caller's open.                                        *)

WithinMember(n) == job.memberLimit = NoLimit \/ n <= job.memberLimit
WithinTotalEach(n) == job.totalLimit = NoLimit \/ n <= job.totalLimit  \* mistake: per member
WithinTotal(n) == job.totalLimit = NoLimit \/ n <= job.totalLimit - spent

AdmitMember ==
  /\ stage = "admit" /\ ~token /\ HasOutput(Now)
  /\ \/ Now.kind = "huge" /\ Fail("limit")
     \/ /\ Now.kind # "huge"
        /\ IF Split(Now) /\ ~job.volumes THEN Fail("refused")
           ELSE IF ~(WithinMember(Now.size) /\ WithinTotal(Now.size)) THEN Fail("limit")
           ELSE stage' = (IF IsTarget THEN "opened" ELSE "open") /\ UNCHANGED failure
  /\ UNCHANGED <<at, decision, answer>> /\ OnlyLoop

\* Directories are opened and no more; RAR 1.3 counts them like members.
AdmitDirectory ==
  /\ stage = "admit" /\ ~token /\ Now.kind = "directory"
  /\ IF Split(Now) THEN Fail("refused") ELSE stage' = "open" /\ UNCHANGED failure
  /\ UNCHANGED <<at, decision, answer>> /\ OnlyLoop

\* RAR 5 redirections go to a callback of their own, or nowhere; a call with a
\* selector cannot extract them.
Redirect ==
  /\ stage = "admit" /\ ~token /\ Now.kind = "redirection"
  /\ \/ job.selector /\ Fail("refused") /\ UNCHANGED fate
     \/ job.links /\ Fail("callback") /\ UNCHANGED fate
     \/ /\ ~job.selector
        /\ stage' = "next" /\ fate' = [fate EXCEPT ![at] = "done"] /\ UNCHANGED failure
  /\ UNCHANGED <<callVars, at, decision, answer, readVars, sessionVars, budgetVars, seen, made,
                 spoiled>>

\* The selector has supplied the writer, or open is called.
OpenOutput ==
  /\ stage = "open" /\ ~token
  /\ \/ stage' = "opened" /\ UNCHANGED failure
     \/ ~job.selector /\ Fail("callback")
  /\ UNCHANGED <<at, decision, answer>> /\ OnlyLoop

OpenedDirectory ==
  /\ stage = "opened" /\ ~token /\ Now.kind = "directory"
  /\ stage' = "next" /\ fate' = [fate EXCEPT ![at] = "done"]
  /\ decoded' = IF job.family = "rar13" THEN decoded + 1 ELSE decoded
  /\ UNCHANGED <<callVars, at, decision, failure, answer, readVars, history, codec, ready,
                 budgetVars, seen, made, spoiled>>

----------------------------------------------------------------------------
(* OutputBudget::run around the member's decoder.                          *)

Remember(t) == trouble' = trouble \cup {t}

\* The decoder is chosen and gets the history it needs; sizes that contradict
\* each other are refused before the first byte, unless the copy goes to the end.
BeginDecoding ==
  /\ stage = "opened" /\ ~token /\ HasOutput(Now)
  /\ made' = [made EXCEPT ![at] = parts]
  /\ ready' = FALSE
  /\ IF MisSized /\ ~CopiesAll
     THEN stage' = "returned" /\ trouble' = {"codec"} /\ spoiled' = spoiled \cup {at}
     ELSE stage' = "write" /\ trouble' = {} /\ UNCHANGED spoiled
  /\ LET context == IF KeepsSolid THEN history ELSE {}
     IN IF Compressed(Now)
        THEN /\ seen' = [seen EXCEPT ![at] = context]
             /\ history' = IF OnCopy THEN history ELSE context \cup {at}
             /\ codec' = Now.old
        ELSE UNCHANGED <<seen, history, codec>>
  /\ UNCHANGED <<callVars, at, decision, failure, answer, readVars, decoded, spent, accepted, fate>>

\* A check in the decoder, its reader or the guarded writer finds the token set.
Observe ==
  /\ stage = "write" /\ token
  /\ Remember("observed") /\ stage' = "returned"
  /\ UNCHANGED <<callVars, at, decision, failure, answer, readVars, sessionVars, spent, accepted,
                 recordVars>>

\* The payload does not decode, or its checksum is wrong: while it is decoded,
\* which for a member in memory is before the first write.
FindDamage ==
  /\ stage = "write" /\ ~ready
  /\ Remember("codec") /\ spoiled' = spoiled \cup {at} /\ stage' = "returned"
  /\ UNCHANGED <<callVars, at, decision, failure, answer, readVars, sessionVars, spent, accepted,
                 seen, made, fate>>

VerifyInMemory ==
  /\ stage = "write" /\ InMemory /\ ~ready
  /\ ready' = TRUE
  /\ UNCHANGED <<callVars, loopVars, readVars, history, codec, decoded, budgetVars, recordVars>>

Writing == stage = "write" /\ accepted[at] < Produced /\ (InMemory => ready)
Limited == job.memberLimit # NoLimit \/ job.totalLimit # NoLimit

WriteByte ==
  /\ Writing /\ ~token
  /\ WithinMember(accepted[at] + 1) /\ WithinTotal(1)
  /\ accepted' = [accepted EXCEPT ![at] = @ + 1]
  /\ spent' = IF job.totalLimit = NoLimit THEN spent ELSE spent + 1
  /\ UNCHANGED <<callVars, loopVars, readVars, sessionVars, trouble, recordVars>>

\* The guard refuses the write, or the sink fails.  The decoder sees an I/O error
\* and returns one of its own, which may look like damage.
WriteRefused ==
  /\ Writing /\ ~token
  /\ IF WithinMember(accepted[at] + 1) /\ WithinTotal(1)
     THEN trouble' = trouble \cup {"sink", "codec"}
     ELSE trouble' = trouble \cup {"exceeded", "codec"}
  /\ stage' = "returned"
  /\ UNCHANGED <<callVars, at, decision, failure, answer, readVars, sessionVars, spent, accepted,
                 recordVars>>

\* Everything is written; a stored copy that went to its end is now compared
\* with the declared size.
AllWritten ==
  /\ stage = "write" /\ accepted[at] = Produced /\ (InMemory => ready)
  /\ stage' = "returned"
  /\ IF MisSized THEN Remember("codec") /\ spoiled' = spoiled \cup {at}
                 ELSE UNCHANGED <<trouble, spoiled>>
  /\ UNCHANGED <<callVars, at, decision, failure, answer, readVars, sessionVars, spent, accepted,
                 seen, made, fate>>

\* What run makes of the refusal, the sink's error, an observed cancellation and
\* the decoder's result; a good result is followed by a last check.
CodecFirst ==  \* mistake: the decoder's own error is believed
  IF "codec" \in trouble    THEN "damaged"
  ELSE IF "exceeded" \in trouble THEN "limit"
  ELSE IF "sink" \in trouble     THEN "sink"
  ELSE IF token THEN "cancelled" ELSE "ok"
RunResult ==
  IF "exceeded" \in trouble      THEN "limit"
  ELSE IF "sink" \in trouble     THEN "sink"
  ELSE IF "observed" \in trouble THEN "cancelled"
  ELSE IF "codec" \in trouble    THEN "damaged"
  ELSE IF token THEN "cancelled" ELSE "ok"

Counts == job.family = "rar13" \/ (job.family = "rar15" /\ Compressed(Now))
FinishRun ==
  /\ stage = "returned" /\ RunResult = "ok"
  /\ decoded' = IF Counts THEN decoded + 1 ELSE decoded
  /\ history' = IF OnCopy THEN seen[at] \cup {at} ELSE history
  /\ IF IsTarget THEN stage' = "link" /\ UNCHANGED fate
                 ELSE stage' = "next" /\ fate' = [fate EXCEPT ![at] = "done"]
  /\ UNCHANGED <<callVars, at, decision, failure, answer, readVars, codec, ready, budgetVars,
                 seen, made, spoiled>>

FailRun ==
  /\ stage = "returned" /\ RunResult # "ok"
  /\ Fail(RunResult)
  /\ UNCHANGED <<at, decision, answer>> /\ OnlyLoop

\* emit_legacy_link: the caller gets the target of a verified link.
EmitLink ==
  /\ stage = "link" /\ ~token
  /\ \/ stage' = "next" /\ fate' = [fate EXCEPT ![at] = "done"] /\ UNCHANGED failure
     \/ Fail("callback") /\ UNCHANGED fate
  /\ UNCHANGED <<callVars, at, decision, answer, readVars, sessionVars, budgetVars, seen, made,
                 spoiled>>

----------------------------------------------------------------------------
(* finish_member: the error handler may pass over an independent failure.  *)

AsksAll == job.handler  \* mistake: the handler is asked about every failure
Asks == job.handler /\ ~AnySolid /\ failure \notin {"cancelled", "limit"}

GiveUp ==
  /\ stage = "failed" /\ ~Asks
  /\ Return(failure)
  /\ UNCHANGED <<at, decision, failure>> /\ OnlyLoop

AskHandler ==
  /\ stage = "failed" /\ Asks
  /\ stage' = "handler"
  /\ UNCHANGED <<at, decision, failure, answer>> /\ OnlyLoop

Handler ==
  /\ stage = "handler" /\ ~token
  /\ \/ Split(Now) /\ Return(failure) /\ UNCHANGED decision
     \/ ~Split(Now) /\ Return("callback") /\ UNCHANGED decision
     \/ ~Split(Now) /\ stage' = "handled" /\ decision' \in {"abort", "continue"} /\ UNCHANGED answer
  /\ UNCHANGED <<at, failure>> /\ OnlyLoop

\* The decoder is built anew for the members that follow.
Handled ==
  /\ stage = "handled" /\ ~token
  /\ IF decision = "abort"
     THEN Return(failure) /\ UNCHANGED <<fate, history, codec, decoded>>
     ELSE /\ stage' = "next" /\ fate' = [fate EXCEPT ![at] = "failed"]
          /\ history' = {} /\ codec' = "none"
          /\ decoded' = IF job.family = "rar15" THEN 0 ELSE decoded
          /\ UNCHANGED answer
  /\ UNCHANGED <<callVars, at, decision, failure, readVars, ready, budgetVars, seen, made, spoiled>>

MemberDone == stage = "done" /\ UNCHANGED memberVars

MemberNext ==
  \/ Cancel \/ Interrupt \/ NextEntry \/ EndOfEntries
  \/ Select \/ SkipMember \/ TakeMember \/ JoinVolumes
  \/ AdmitMember \/ AdmitDirectory \/ Redirect \/ OpenOutput \/ OpenedDirectory
  \/ BeginDecoding \/ Observe \/ FindDamage \/ VerifyInMemory \/ WriteByte \/ WriteRefused \/ AllWritten
  \/ FinishRun \/ FailRun \/ EmitLink
  \/ GiveUp \/ AskHandler \/ Handler \/ Handled
  \/ MemberDone

MemberSpec == MemberInit /\ [][MemberNext]_memberVars

----------------------------------------------------------------------------
(* Properties.                                                             *)

Members == {i \in Entries : HasOutput(E(i)) /\ ~E(i).after}

CompressedMembers == {i \in Members : Compressed(E(i))}

\* Member i starts afresh, by what the archive says of it and of the compressed
\* member before it, not by what this call has decoded.
SwitchesCodec(i) ==
  \E p \in CompressedMembers :
    p < i /\ E(p).old # E(i).old /\ \A k \in CompressedMembers : k <= p \/ k >= i
StartsAfresh(i) ==
  CASE job.family = "rar13" -> ~job.solid
    [] job.family = "rar15" -> ~job.solid \/ ~(E(i).old \/ E(i).solid) \/ SwitchesCodec(i)
    [] job.family = "rar50" -> ~E(i).solid

\* The members whose output the encoder of member i could refer to.
Chain(i) ==
  {j \in CompressedMembers : j < i /\ \A k \in CompressedMembers : k \in j + 1 .. i => ~StartsAfresh(k)}

\* A member is decoded with exactly the history its encoder had: no member of the
\* chain was skipped, failed or left out, and none outside of it got in, through
\* selections, failures passed over, copies of the decoder and split members.
HistoryIsChain ==
  \A i \in CompressedMembers :
    fate[i] = "done" => seen[i] = Chain(i) /\ \A j \in seen[i] : fate[j] = "done"

\* The parts of member i are consecutive entries of one name and method, opened
\* by a first part and closed by the last one.
Contiguous(i) ==
  /\ made[i] = [n \in 1 .. Len(made[i]) |-> i - Len(made[i]) + n]
  /\ ~E(made[i][1]).before
  /\ \A n \in 2 .. Len(made[i]) :
       /\ E(made[i][n - 1]).after /\ E(made[i][n]).before
       /\ E(made[i][n]).name = E(i).name /\ E(made[i][n]).kind = E(i).kind

\* What counts as extracted is whole: assembled from its own parts, as long as
\* declared, not damaged.  A call that completes accounts for every entry, and a
\* member that is verified in memory sends nothing of a damaged payload.
MembersAreWhole ==
  /\ \A i \in Entries :
       HasOutput(E(i)) /\ fate[i] = "done" =>
         Contiguous(i) /\ accepted[i] = E(i).size /\ i \notin spoiled
  /\ answer = "complete" =>
       \A i \in Entries :
         \/ fate[i] \in {"done", "skipped"} \/ (fate[i] = "failed" /\ job.handler)
         \/ \E f \in Entries : fate[f] = "done" /\ \E n \in DOMAIN made[f] : made[f][n] = i
  /\ \A i \in spoiled :
       job.family = "rar50" /\ Compressed(E(i)) /\ E(i).size <= Buffered => accepted[i] = 0

\* The budget of the call counts every byte the sinks accepted, those of failed
\* members included, and neither limit is passed by a single byte.
OutputIsBounded ==
  LET total == Total(accepted, Entries, NoLimit + 1)
  IN /\ Limited /\ job.totalLimit # NoLimit => spent = total /\ total <= job.totalLimit
     /\ \A i \in Entries : WithinMember(accepted[i])

\* The error a call reports is what went wrong: damage is found in the payload,
\* a limit was really in the way, the sink did fail, the caller did cancel; what
\* the decoder made of a refused write does not show.  A token that nobody has
\* looked at does not replace another error, unless a handler is to be asked
\* about it, which looks at the token first.
BlameIsReal ==
  /\ answer = "damaged" => at \in spoiled
  /\ answer = "sink" => "sink" \in trouble
  /\ answer = "cancelled" => token /\ (job.handler \/ trouble \subseteq {"observed"})
  /\ answer = "limit" =>
       \/ Now.kind = "huge"
       \/ ~WithinMember(Now.size) \/ ~WithinMember(accepted[at] + 1)
       \/ ~WithinTotal(Now.size) \/ ~WithinTotal(1)

=============================================================================
