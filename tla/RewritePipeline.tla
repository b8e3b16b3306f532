--------------------------- MODULE RewritePipeline ---------------------------
(***************************************************************************)
(* Demand-driven staging for archive rewrites (rewrite_staging.rs and      *)
(* rewrite_staging/pipeline.rs).  One decoder thread walks the archive in  *)
(* order and stages each selected payload in a private temporary file; the *)
(* threads of one writer call (`consume') open the staged sources, which   *)
(* blocks until the decoder publishes them.  The byte quota covers what is *)
(* staged at one time.  A source's file lives as long as its lease: the    *)
(* `ready' map and every open reader hold the lease.                       *)
(*                                                                         *)
(* The state mutex is held inside one step, except by a thread that is     *)
(* about to wait or that is dropping a lease under it.                     *)
(***************************************************************************)
EXTENDS Naturals, FiniteSets, FiniteSetsExt, Totals

CONSTANTS N,         \* members of the archive
          Selected,  \* the members the caller rewrites
          Dependencies, \* in a solid archive, the payloads: they are decoded too
          Sizes,     \* the unpacked sizes a call may meet: functions of the members
          Quota,     \* RewriteStaging.max_staged_bytes
          Readers,   \* threads that open sources
          MaxOpens   \* bound: how many opens they make together

ASSUME PipelineAssumption ==
  /\ N \in Nat /\ Selected \subseteq 1 .. N /\ Selected # {}
  /\ Dependencies \subseteq 1 .. N /\ Sizes \subseteq [1 .. N -> Nat] /\ Quota \in Nat
  /\ IsFiniteSet(Readers) /\ MaxOpens \in Nat

VARIABLES size,       \* size[m]: the unpacked bytes of member m
          parent,     \* the caller's ReadCancellation is cancelled
          token,      \* Delivery.cancellation, its child, is cancelled itself
          requested,  \* State.requested, 0 for None
          ready,      \* keys of State.ready
          published,  \* State.published
          error,      \* State.error
          done,       \* State.done
          used,       \* Delivery.used
          file,       \* bytes of each member's temporary file
          decoder,    \* where the decoder thread is
          current,    \* the member it is at
          written,    \* bytes of it decoded so far
          pending,    \* staged_pending, 0 for None
          failure,    \* the Result of stage
          caller,     \* where the calling thread is
          result,     \* what consume returned
          unused,     \* some source was never requested
          reader,     \* what each reader is doing
          target,     \* the member it opens or reads
          opens       \* opens made so far

stateVars   == <<requested, ready, published, error, done>>
decoderVars == <<decoder, current, written, pending, failure>>
callerVars  == <<caller, result, unused>>
readerVars  == <<reader, target, opens>>
diskVars    == <<used, file>>
tokenVars   == <<size, parent, token>>
pipelineVars == <<tokenVars, stateVars, diskVars, decoderVars, callerVars, readerVars>>

LastSelected == Max(Selected)
Cancelled == token \/ parent

\* Nobody holds the state mutex.
Unlocked ==
  /\ \A r \in Readers : reader[r] \notin {"blocking", "releasing"}
  /\ caller # "clearing"

\* Condvar::notify_all: every waiting reader will look again.
Notified == [r \in Readers |-> IF reader[r] = "waiting" THEN "woken" ELSE reader[r]]
NotifyAll == reader' = Notified

\* The readers that keep the lease of m.
HoldingNothing(m) == {r \in Readers : reader[r] = "opening" /\ target[r] = m}  \* mistake

Holding(m) == {r \in Readers : reader[r] = "reading" /\ target[r] = m}

PipelineInit ==
  /\ size \in Sizes /\ parent = FALSE /\ token = FALSE
  /\ requested = 0 /\ ready = {} /\ published = {} /\ error = "none" /\ done = FALSE
  /\ used = 0 /\ file = [m \in 1 .. N |-> 0]
  /\ decoder = "start" /\ current = 1 /\ written = 0 /\ pending = 0 /\ failure = "none"
  /\ caller = "consume" /\ result = "none" /\ unused = FALSE
  /\ reader = [r \in Readers |-> "idle"] /\ target = [r \in Readers |-> 0]
  /\ opens = 0

\* The caller's token is cancelled from outside, at any time; nobody is notified.
CancelParent ==
  /\ ~parent /\ parent' = TRUE
  /\ UNCHANGED <<size, token, stateVars, diskVars, decoderVars, callerVars, readerVars>>
----------------------------------------------------------------------------
(* Readers: Source::open, the reader's drop, Source::release.              *)

\* One pass of the loop in open_with_cancellation, under the mutex.
Look(m) ==
  IF error # "none" \/ Cancelled THEN "idle"
  ELSE IF m \in ready THEN "reading"
  ELSE IF m \in published \/ done THEN "idle"
  ELSE "blocking"

\* An idle reader aims at nothing.
Aimed(r, m, doing) == [target EXCEPT ![r] = IF doing = "idle" THEN 0 ELSE m]

Open(r, m) ==
  /\ Unlocked
  /\ reader[r] = "idle" /\ opens < MaxOpens
  /\ opens' = opens + 1
  /\ requested' = Max({requested, m})
  /\ reader' = [Notified EXCEPT ![r] = Look(m)]
  /\ target' = Aimed(r, m, Look(m))
  /\ UNCHANGED <<tokenVars, ready, published, error, done, diskVars, decoderVars, callerVars>>

\* Condvar::wait gives the mutex up and sleeps; it has no timeout.
Sleep(r) ==
  /\ reader[r] = "blocking"
  /\ reader' = [reader EXCEPT ![r] = "waiting"]
  /\ UNCHANGED <<tokenVars, stateVars, diskVars, decoderVars, callerVars, target, opens>>

LookAgain(r) ==
  /\ Unlocked
  /\ reader[r] = "woken"
  /\ reader' = [reader EXCEPT ![r] = Look(target[r])]
  /\ target' = Aimed(r, target[r], Look(target[r]))
  /\ UNCHANGED <<tokenVars, stateVars, diskVars, decoderVars, callerVars, opens>>

\* A lease's last holder removes the file first, and then returns its bytes.
RefundFileLength(m) == used' = used - file[m] /\ UNCHANGED file  \* mistake: it is gone

Unlink(m) == file' = [file EXCEPT ![m] = 0] /\ UNCHANGED used
Refund(m) == used' = used - size[m] /\ UNCHANGED file

Close(r) ==
  LET m == target[r] IN
  /\ reader[r] = "reading"
  /\ IF Holding(m) = {r} /\ m \notin ready
       THEN Unlink(m) /\ reader' = [reader EXCEPT ![r] = "closing"] /\ UNCHANGED target
       ELSE /\ reader' = [reader EXCEPT ![r] = "idle"] /\ target' = Aimed(r, m, "idle")
            /\ UNCHANGED diskVars
  /\ UNCHANGED <<tokenVars, stateVars, decoderVars, callerVars, opens>>

\* The lease leaves the map and is dropped under the mutex; then a notify_all.
\* (Without a lease in the map, it is a spurious wakeup only.)
Release(r, m) ==
  /\ Unlocked
  /\ reader[r] = "idle" /\ m \in ready
  /\ ready' = ready \ {m}
  /\ IF Holding(m) = {}
       THEN /\ Unlink(m) /\ reader' = [reader EXCEPT ![r] = "releasing"]
            /\ target' = [target EXCEPT ![r] = m]
       ELSE NotifyAll /\ UNCHANGED <<diskVars, target>>
  /\ UNCHANGED <<tokenVars, requested, published, error, done, decoderVars, callerVars, opens>>

DropLease(r) ==
  /\ reader[r] \in {"closing", "releasing"}
  /\ Refund(target[r])
  /\ reader' = [(IF reader[r] = "releasing" THEN Notified ELSE reader) EXCEPT ![r] = "idle"]
  /\ target' = Aimed(r, target[r], "idle")
  /\ UNCHANGED <<tokenVars, stateVars, decoderVars, callerVars, opens>>

ReaderProceeds(r) == Sleep(r) \/ LookAgain(r) \/ DropLease(r)

ReaderNext(r) ==
  \/ \E m \in Selected : Open(r, m) \/ Release(r, m)
  \/ Close(r)
  \/ ReaderProceeds(r)
----------------------------------------------------------------------------
(* The decoder: native::stage with a delivery, and what run wraps it in.   *)

\* The Result is an error: the spools still owned by stage are dropped, and
\* their bytes stay counted - but for those of a write that did not happen.
Owned(m) == m = pending \/ (decoder \in {"write", "store"} /\ m = current)

Fail(e) ==
  /\ failure' = e /\ decoder' = "finish"
  /\ file' = [m \in 1 .. N |-> IF Owned(m) THEN 0 ELSE file[m]]
  /\ used' = IF decoder = "store" THEN used - 1 ELSE used
  /\ UNCHANGED <<tokenVars, stateVars, current, written, pending, callerVars, readerVars>>

\* Admission of the selection: its largest payload must fit the quota.
Start ==
  /\ decoder = "start"
  /\ ~Cancelled /\ \A m \in Selected : size[m] <= Quota
  /\ decoder' = "member"
  /\ UNCHANGED <<tokenVars, stateVars, diskVars, current, written, pending, failure,
                 callerVars, readerVars>>

RefuseSelection ==
  /\ decoder = "start"
  /\ \E m \in Selected : size[m] > Quota
  /\ Fail("limit")

\* The extraction callback first publishes the member verified before it.  The
\* token is read before the mutex is taken.
MayPublish ==
  /\ decoder = "member" /\ pending # 0
  /\ ~Cancelled
  /\ decoder' = "publish"
  /\ UNCHANGED <<tokenVars, stateVars, diskVars, current, written, pending, failure,
                 callerVars, readerVars>>

Publish ==
  /\ decoder = "publish" /\ Unlocked
  /\ decoder' = "member"
  /\ published' = published \cup {pending}
  /\ ready' = ready \cup {pending}
  /\ pending' = 0
  /\ NotifyAll
  /\ UNCHANGED <<tokenVars, requested, error, done, diskVars, current, written, failure,
                 callerVars, target, opens>>

\* It stops behind the last selected member, skips what nobody needs, and
\* waits for demand before anything is decoded.
Stop == /\ current > LastSelected /\ decoder' = "finish" /\ UNCHANGED current
Skip == /\ current \notin Selected \cup Dependencies
        /\ current' = current + 1 /\ UNCHANGED decoder
Need == /\ current \in Selected \cup Dependencies
        /\ decoder' = "wait" /\ UNCHANGED current

Decide ==
  /\ decoder = "member" /\ pending = 0
  /\ Stop \/ (current <= LastSelected /\ (Skip \/ Need))
  /\ UNCHANGED <<tokenVars, stateVars, diskVars, written, pending, failure, callerVars, readerVars>>

\* Delivery::wait_for, which looks again every 50 ms, for the next member
\* that will be retained.
NextRetained == Min({m \in Selected : m >= current})

DemandedStrictly ==  \* mistake: the last request is not enough
  /\ decoder = "wait"
  /\ ~Cancelled /\ Unlocked /\ requested > NextRetained
  /\ decoder' = "write"
  /\ UNCHANGED <<tokenVars, stateVars, diskVars, current, written, pending, failure,
                 callerVars, readerVars>>

Demanded ==
  /\ decoder = "wait"
  /\ ~Cancelled /\ Unlocked /\ requested >= NextRetained
  /\ decoder' = "write"
  /\ UNCHANGED <<tokenVars, stateVars, diskVars, current, written, pending, failure,
                 callerVars, readerVars>>

\* Sink::write admits the bytes, then writes them; a predecessor goes to io::sink.
AdmitPastLimit(n) == used < Quota + n  \* mistake: one byte too many

AdmitBytes(n) == used + n <= Quota

Reserve ==
  /\ decoder = "write" /\ written < size[current]
  /\ IF current \notin Selected
       THEN written' = written + 1 /\ UNCHANGED <<used, decoder>>
       ELSE AdmitBytes(1) /\ used' = used + 1 /\ decoder' = "store" /\ UNCHANGED written
  /\ UNCHANGED <<tokenVars, stateVars, file, current, pending, failure, callerVars, readerVars>>

OverLimit ==
  /\ decoder = "write" /\ written < size[current]
  /\ current \in Selected /\ ~AdmitBytes(1)
  /\ Fail("limit")

Store ==
  /\ decoder = "store"
  /\ file' = [file EXCEPT ![current] = @ + 1]
  /\ written' = written + 1 /\ decoder' = "write"
  /\ UNCHANGED <<tokenVars, stateVars, used, current, pending, failure, callerVars, readerVars>>

\* All bytes are there and the member's checksum holds.
Verified ==
  /\ decoder = "write" /\ written = size[current]
  /\ pending' = IF current \in Selected THEN current ELSE 0
  /\ current' = current + 1 /\ written' = 0 /\ decoder' = "member"
  /\ UNCHANGED <<tokenVars, stateVars, diskVars, failure, callerVars, readerVars>>

\* Cancellation is seen at the decoder's checks; decoding, the temporary file
\* or a callback may fail or panic.
Interrupted == decoder \in {"start", "member", "wait", "write"} /\ Cancelled /\ Fail("cancelled")
DecodeError == decoder \in {"member", "write"} /\ \E e \in {"decode", "panic"} : Fail(e)
StoreError  == decoder = "store" /\ Fail("decode")

\* The thread's last words: the error, done, and a notify_all.
FinishSilently ==  \* mistake: nobody is told
  /\ decoder = "finish" /\ Unlocked
  /\ error' = failure /\ done' = TRUE
  /\ decoder' = "exited"
  /\ UNCHANGED <<tokenVars, requested, ready, published, diskVars, current, written, pending,
                 failure, callerVars, readerVars>>

Finish ==
  /\ decoder = "finish" /\ Unlocked
  /\ error' = failure /\ done' = TRUE
  /\ decoder' = "exited"
  /\ NotifyAll
  /\ UNCHANGED <<tokenVars, requested, ready, published, diskVars, current, written, pending,
                 failure, callerVars, target, opens>>

DecoderNext ==
  \/ Start \/ RefuseSelection \/ MayPublish \/ Publish \/ Decide \/ Demanded \/ Reserve \/ OverLimit \/ Store
  \/ Verified \/ Interrupted \/ DecodeError \/ StoreError \/ Finish
----------------------------------------------------------------------------
(* The calling thread: pipeline::run around and after consume.             *)

\* consume joins the threads it made, so none of them is inside open.
ConsumeReturns ==
  /\ caller = "consume"
  /\ \A r \in Readers : reader[r] \in {"idle", "reading"}
  /\ result' \in {"ok", "error", "panic"}
  /\ caller' = IF result' = "panic" THEN "guard" ELSE "judge"
  /\ UNCHANGED <<tokenVars, stateVars, diskVars, decoderVars, unused, readerVars>>

StopOnErrorOnly(u) == result = "error"  \* mistake: unused sources are forgotten

MustStop(u) == result = "error" \/ u

Judge ==
  /\ caller = "judge" /\ Unlocked
  /\ unused' = (requested # LastSelected)
  /\ caller' = IF MustStop(unused') THEN "stop" ELSE "join"
  /\ UNCHANGED <<tokenVars, stateVars, diskVars, decoderVars, result, readerVars>>

\* cancel() and notify_all() are two steps, outside the mutex.
StopDecoder ==
  /\ caller = "stop"
  /\ token' = TRUE /\ caller' = "notify"
  /\ UNCHANGED <<size, parent, stateVars, diskVars, decoderVars, result, unused, readerVars>>

NotifyDecoder ==
  /\ caller = "notify"
  /\ NotifyAll /\ caller' = "join"
  /\ UNCHANGED <<tokenVars, stateVars, diskVars, decoderVars, result, unused, target, opens>>

Join ==
  /\ caller = "join" /\ decoder = "exited"
  /\ caller' = IF result = "panic" THEN "done" ELSE "guard"
  /\ UNCHANGED <<tokenVars, stateVars, diskVars, decoderVars, result, unused, readerVars>>

\* StopOnDrop: before the join when consume panics, after it otherwise.
GuardCancels ==
  /\ caller = "guard"
  /\ token' = TRUE /\ caller' = "clear"
  /\ UNCHANGED <<size, parent, stateVars, diskVars, decoderVars, result, unused, readerVars>>

GuardLocks ==
  /\ caller = "clear" /\ Unlocked
  /\ caller' = "clearing"
  /\ UNCHANGED <<tokenVars, stateVars, diskVars, decoderVars, result, unused, readerVars>>

\* ready.clear() drops the leases one by one, under the mutex.
GuardKeeps ==  \* mistake: the map keeps its leases
  /\ caller = "clearing" /\ caller' = "wake"
  /\ UNCHANGED <<tokenVars, stateVars, diskVars, decoderVars, result, unused, readerVars>>

GuardClears ==
  /\ caller = "clearing"
  /\ IF ready = {}
       THEN caller' = "wake" /\ UNCHANGED <<diskVars, ready>>
       ELSE LET m == Min(ready) IN
            /\ ready' = ready \ {m}
            /\ IF Holding(m) = {}
                 THEN used' = used - size[m] /\ file' = [file EXCEPT ![m] = 0]
                 ELSE UNCHANGED diskVars
            /\ UNCHANGED caller
  /\ UNCHANGED <<tokenVars, requested, published, error, done, decoderVars, result, unused,
                 readerVars>>

GuardNotifies ==
  /\ caller = "wake"
  /\ NotifyAll
  /\ caller' = IF result = "panic" THEN "join" ELSE "done"
  /\ UNCHANGED <<tokenVars, stateVars, diskVars, decoderVars, result, unused, target, opens>>

CallerNext ==
  \/ ConsumeReturns \/ Judge \/ StopDecoder \/ NotifyDecoder \/ Join
  \/ GuardCancels \/ GuardLocks \/ GuardClears \/ GuardNotifies

\* What run returns: the error of consume, else that of the decoder, unless it
\* was stopped only because some source was never used.
FinishAcceptsCancelled == failure \in {"none", "cancelled"}  \* mistake: by anyone

FinishDecoder == failure = "none" \/ (failure = "cancelled" /\ unused)

Outcome ==
  IF result # "ok" THEN result ELSE IF FinishDecoder THEN "ok" ELSE failure

Ended ==
  /\ caller = "done"
  /\ \A r \in Readers : reader[r] \in {"idle", "reading"}
  /\ UNCHANGED pipelineVars

PipelineNext ==
  \/ CancelParent \/ DecoderNext \/ CallerNext \/ (\E r \in Readers : ReaderNext(r)) \/ Ended

\* Threads run; the consumer ends, but need not close its readers; decoding a
\* member ends.  Nothing is assumed of the caller's token.
PipelineSpec ==
  /\ PipelineInit /\ [][PipelineNext]_pipelineVars
  /\ WF_pipelineVars(DecoderNext) /\ WF_pipelineVars(CallerNext)
  /\ \A r \in Readers : WF_pipelineVars(ReaderProceeds(r))
----------------------------------------------------------------------------
(* Properties.                                                             *)

PipelineTypeOK ==
  /\ size \in Sizes
  /\ parent \in BOOLEAN /\ token \in BOOLEAN /\ done \in BOOLEAN /\ unused \in BOOLEAN
  /\ requested \in 0 .. N /\ ready \subseteq Selected /\ published \subseteq Selected
  /\ {error, failure} \subseteq {"none", "limit", "decode", "panic", "cancelled"}
  /\ used \in 0 .. Quota /\ file \in [1 .. N -> 0 .. Quota]
  /\ decoder \in {"start", "member", "publish", "wait", "write", "store", "finish", "exited"}
  /\ current \in 1 .. N + 1 /\ written \in Nat /\ pending \in {0} \cup Selected
  /\ caller \in {"consume", "judge", "stop", "notify", "join", "guard", "clear", "clearing",
                 "wake", "done"}
  /\ result \in {"none", "ok", "error", "panic"}
  /\ reader \in [Readers -> {"idle", "blocking", "waiting", "woken", "reading", "closing",
                             "releasing"}]
  /\ target \in [Readers -> {0} \cup Selected] /\ opens \in 0 .. MaxOpens

\* The bytes of the quota each member answers for: those of its spool while it
\* is decoded, those of its lease until the last holder has returned them.
Leased(m) ==
  \/ m \in ready
  \/ \E r \in Readers : target[r] = m /\ reader[r] \in {"reading", "closing", "releasing"}

Charged ==
  [m \in 1 .. N |->
     IF Leased(m) \/ m = pending THEN size[m]
     ELSE IF m = current /\ m \in Selected
            THEN written + (IF decoder = "store" THEN 1 ELSE 0)
            ELSE 0]

\* The quota's counter is exact and within max_staged_bytes, whatever the
\* decoder, the readers and the guard do at once, and no file is larger than
\* what is charged for it: bytes are counted before they reach the disk and
\* returned after they left it.
Accounted ==
  /\ used <= Quota /\ used = Total(Charged, 1 .. N, Quota)
  /\ \A m \in 1 .. N : file[m] <= Charged[m]

\* Staging is one implementation of the quota: with Accounted, the disk never
\* holds more than max_staged_bytes.
StagingQuota == INSTANCE Quota WITH held <- Charged, Holders <- 1 .. N, Limit <- Quota
ImplementsQuota == StagingQuota!Spec

\* A reader that was handed out reads the whole verified payload to its end,
\* though the source is released, the call fails or the guard clears the map.
OpenReadersKeepTheirFile ==
  \A r \in Readers : reader[r] = "reading" =>
    target[r] \in published /\ file[target[r]] = size[target[r]]

\* Unless some source was left unused, Ok is returned only if every selected
\* member was decoded and verified: a consumer that swallows the error of an
\* open does not turn a failed or cancelled decoding into a success.
OkMeansStaged ==
  caller = "done" /\ Outcome = "ok" /\ ~unused => published = Selected

\* When the call is over no temporary file remains but those of readers the
\* consumer kept.  Behind a panic there may be one more, published between the
\* guard's clearing and the decoder's next look at the token.
NothingLeftBehind ==
  caller = "done" =>
    /\ \A m \in 1 .. N : file[m] > 0 => Leased(m)
    /\ IF result = "panic" THEN Cardinality(ready) <= 1 ELSE ready = {}

\* Both: what a finished call returned, and what it left.
EndIsClean == OkMeansStaged /\ NothingLeftBehind

\* The call returns, whatever the consumer opened, left unopened, or failed at,
\* although open waits without a timeout.
AlwaysReturns == <>(caller = "done")

\* Every open is answered: no wakeup is lost between a look at the state and
\* the wait, even for a source kept past the call.
OpensAreAnswered ==
  \A r \in Readers :
    reader[r] \in {"blocking", "waiting", "woken"} ~> reader[r] \in {"idle", "reading"}

\* Decoder, readers and caller wait for one another on one condition variable
\* without a timeout, and all of them get on: calls return, opens are answered.
EverybodyProceeds == AlwaysReturns /\ OpensAreAnswered
=============================================================================
