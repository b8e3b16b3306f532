---------------------------- MODULE RewriteWriter ----------------------------
(***************************************************************************)
(* An archive writer as the consumer of RewritePipeline: it prepares its   *)
(* inputs in windows of parallel jobs and emits them in order.  The legacy *)
(* writer (rar15_40/write.rs) asks the sources how many inputs the staging *)
(* quota lets it prepare at once, and keeps each until it has emitted it.  *)
(* The RAR5 writer (rar50/write/compress.rs) prepares all waves before it  *)
(* emits; a compressed input is released as soon as it is compressed, a    *)
(* stored one when it has been emitted.  RAR5 waves are as wide as threads *)
(* and memory allow.                                                       *)
(***************************************************************************)
EXTENDS RewritePipeline

CONSTANTS Threads,  \* parallel::default_window(), parallel::threads()
          Writers,  \* the writers a rewrite may use: "legacy" and "rar5"
          MayStore  \* the sets of members that may come out stored

ASSUME WriterAssumption ==
  /\ Threads \in Nat \ {0} /\ Writers \subseteq {"legacy", "rar5"}
  /\ Readers = 1 .. Threads /\ MaxOpens >= 2 * Cardinality(Selected)
  /\ MayStore \subseteq SUBSET Selected

VARIABLES writer,  \* the writer of this rewrite
          stored,  \* the members that are stored, not compressed
          base,    \* inputs in the waves before this one
          wave,    \* inputs in this wave
          input    \* how far each input has come

writerVars == <<writer, stored, base, wave, input>>
fixed == <<writer, stored, base, wave>>
rewriteVars == <<pipelineVars, writerVars>>

Rar5 == writer = "rar5"

Inputs == 1 .. Cardinality(Selected)

\* The sources in the order of the archive.
Items == [k \in Inputs |-> CHOOSE m \in Selected : Cardinality({j \in Selected : j <= m}) = k]

\* Delivery.max_preparation_window, by the largest selected payload.
Largest == Max({1} \cup {size[m] : m \in Selected})
MaxPreparationWindow == Max({1, Quota \div Largest})

WindowOfThreads == Threads  \* mistake: the legacy writer does not ask

LegacyWindow == Min({Threads, MaxPreparationWindow})

Remaining == Cardinality(Selected) - base

\* A RAR5 wave is any prefix that memory admits; a legacy window is a chunk.
WaveSizes ==
  IF Rar5 THEN 1 .. Min({Threads, Remaining}) ELSE {Min({LegacyWindow, Remaining})}

WriterInit ==
  /\ PipelineInit
  /\ writer \in Writers /\ stored \in MayStore
  /\ base = 0 /\ wave = 0
  /\ input = [k \in Inputs |-> "waiting"]

InWave(k) == base < k /\ k <= base + wave
Member(k) == Items[k]
Job(k) == k - base      \* the thread that prepares input k
Emitter == 1            \* the coordinator emits

Move(k, next) == input' = [input EXCEPT ![k] = next]

NextWave ==
  /\ caller = "consume" /\ Remaining > 0
  /\ \A k \in Inputs : InWave(k) => input[k] \in (IF Rar5 THEN {"prepared", "emitted"} ELSE {"emitted"})
  /\ base + wave < Cardinality(Selected)
  /\ UNCHANGED <<pipelineVars, writer, stored, input>>
  /\ base' = base + wave
  /\ wave' \in WaveSizes'

Prepare(k) ==
  /\ caller = "consume" /\ InWave(k) /\ input[k] = "waiting"
  /\ Open(Job(k), Member(k)) /\ Move(k, "opened")
  /\ UNCHANGED fixed

\* The payload has been read; the reader is dropped.
Consumed(k) ==
  /\ InWave(k) /\ input[k] = "opened" /\ reader[Job(k)] = "reading"
  /\ Close(Job(k)) /\ Move(k, "read")
  /\ UNCHANGED fixed

\* What stays behind when preparation ends: RAR5 keeps what it stores.
ReleasesAll(k) == Rar5  \* mistake: stored inputs are not kept for the emission

ReleasesAtOnce(k) == TRUE  \* mistake: the emission finds nothing

ReleasesEarly(k) == Rar5 /\ Member(k) \notin stored

Prepared(k) ==
  /\ InWave(k) /\ input[k] = "read" /\ reader[Job(k)] = "idle"
  /\ IF ReleasesEarly(k) THEN Release(Job(k), Member(k)) ELSE UNCHANGED pipelineVars
  /\ Move(k, IF Rar5 /\ Member(k) \notin stored THEN "emitted" ELSE "prepared")
  /\ UNCHANGED fixed

\* Emission in order: by window in the legacy writer, at the end in RAR5.
EmissionOpen(k) ==
  /\ caller = "consume"
  /\ \A j \in 1 .. k - 1 : input[j] = "emitted"
  /\ IF Rar5 THEN \A j \in Inputs : input[j] \in {"prepared", "emitting", "emitted"}
             ELSE \A j \in Inputs : InWave(j) => input[j] \in {"prepared", "emitting", "emitted"}

Emit(k) ==
  /\ EmissionOpen(k) /\ input[k] = "prepared"
  /\ IF Member(k) \in stored
       THEN Open(Emitter, Member(k))
       ELSE UNCHANGED pipelineVars
  /\ Move(k, "emitting")
  /\ UNCHANGED fixed

CloseEmitted(k) ==
  /\ input[k] = "emitting" /\ reader[Emitter] = "reading"
  /\ Close(Emitter) /\ Move(k, "written")
  /\ UNCHANGED fixed

ReleaseEmitted(k) ==
  /\ input[k] = "written" \/ (input[k] = "emitting" /\ Member(k) \notin stored)
  /\ reader[Emitter] = "idle"
  /\ IF Member(k) \in ready THEN Release(Emitter, Member(k)) ELSE UNCHANGED pipelineVars
  /\ Move(k, "emitted")
  /\ UNCHANGED fixed

\* An open that returned without a reader is an error of the job.
Refused(k) ==
  /\ \/ input[k] = "opened" /\ InWave(k) /\ reader[Job(k)] = "idle"
     \/ input[k] = "emitting" /\ Member(k) \in stored /\ reader[Emitter] = "idle"
  /\ Move(k, "failed")
  /\ UNCHANGED <<pipelineVars, fixed>>

\* The writer returns when all is emitted, or when the jobs of a failed wave
\* have been joined.
WriterReturns ==
  /\ ConsumeReturns
  /\ result' = IF \E k \in Inputs : input[k] = "failed" THEN "error" ELSE "ok"
  /\ \/ \A k \in Inputs : input[k] = "emitted"
     \/ /\ \E k \in Inputs : input[k] = "failed"
        /\ \A k \in Inputs : input[k] \notin {"opened", "read", "written"}
  /\ UNCHANGED writerVars

WriterNext ==
  \/ NextWave \/ WriterReturns
  \/ \E k \in Inputs :
       Prepare(k) \/ Consumed(k) \/ Prepared(k) \/ Emit(k) \/ CloseEmitted(k)
         \/ ReleaseEmitted(k) \/ Refused(k)

Surroundings ==
  /\ \/ CancelParent \/ DecoderNext \/ (CallerNext /\ caller # "consume")
     \/ (\E r \in Readers : ReaderProceeds(r)) \/ Ended
  /\ UNCHANGED writerVars

RewriteNext == WriterNext \/ Surroundings

RewriteSpec ==
  /\ WriterInit /\ [][RewriteNext]_rewriteVars
  /\ WF_rewriteVars(WriterNext)
  /\ WF_rewriteVars(DecoderNext /\ UNCHANGED writerVars)
  /\ WF_rewriteVars(CallerNext /\ caller # "consume" /\ UNCHANGED writerVars)
  /\ \A r \in Readers : WF_rewriteVars(ReaderProceeds(r) /\ UNCHANGED writerVars)
----------------------------------------------------------------------------
(* Properties.                                                             *)

\* A preparation window retains its sources until they are emitted, and yet a
\* selection whose largest payload fits the quota never runs into it, however
\* sizes are mixed (the comment in rewrite_staging/pipeline.rs:177).
WindowsFitTheQuota == (\A m \in Selected : size[m] <= Quota) => failure # "limit"

\* The legacy writer asks the sources for its window and keeps that promise.
LegacyWindowsFit == ~Rar5 => WindowsFitTheQuota

\* The writer fails only when the decoder fails or is cancelled: a source is
\* never released before the last time the writer opens it.
OnlyTheDecoderFails ==
  (\E k \in Inputs : input[k] = "failed") => failure \in {"limit", "decode", "panic", "cancelled"} \/ parent

\* The rewrite ends, with the decoder, the jobs and the emitter waiting for
\* each other.
RewriteEnds == <>(caller = "done")
=============================================================================
