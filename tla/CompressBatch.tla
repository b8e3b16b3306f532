---------------------------- MODULE CompressBatch ----------------------------
(***************************************************************************)
(* The compression stage of RAR5 writer calls (rar50/write/compress.rs)    *)
(* that share one WriterResources (streaming.rs).  A call's coordinator    *)
(* walks its members in waves.  It takes the workspace of a whole wave     *)
(* from the shared MemoryBudget, so that no job waits for memory, runs the *)
(* jobs, and scans their results after all of them have joined.            *)
(* A job that fails stops its own batch only.  The caller cancels through  *)
(* a callback that may answer anything at any time; ResourceProgress       *)
(* (write_progress.rs) retains the first request it sees.                  *)
(***************************************************************************)
EXTENDS Naturals, FiniteSets, FiniteSetsExt, Totals

CONSTANTS Writers,  \* the coordinators: writer calls with clones of the resources
          N,        \* members of each call
          Threads,  \* parallel::threads()
          Limit,    \* WriterResources.memory_limit
          Largest,  \* the largest workspace a member can be planned with
          Plans,    \* the member plans a call may have: functions of its members
          Faults    \* the sets of members whose source or encoder always fails

\* No workspace is empty: an encoder needs its window and tables.
ASSUME BatchAssumption ==
  /\ IsFiniteSet(Writers) /\ N \in Nat \ {0} /\ Threads \in Nat \ {0}
  /\ Limit \in Nat /\ Largest \in Nat
  /\ Plans \subseteq [1 .. N -> [whole : BOOLEAN, workspace : 1 .. Largest]]
  /\ Faults \subseteq SUBSET (1 .. N)

Members == 1 .. N

VARIABLES used,      \* MemoryBudget.used
          plan,      \* the MemberPlans of each call
          faulty,    \* its members that fail
          latch,     \* ResourceProgress.cancelled
          pc,        \* where its coordinator is
          first,     \* start: the first member of its wave
          permit,    \* MemoryPermit.bytes it holds
          job,       \* what the job of each member is doing
          stopped,   \* BatchProgress.stopped
          outcome,   \* what the call returned
          culprit    \* the member named by the error it returned

waveVars == <<first, permit>>
jobVars == <<job, stopped>>
endVars == <<outcome, culprit>>
batchVars == <<used, plan, faulty, latch, pc, waveVars, jobVars, endVars>>

BatchInit ==
  /\ used = 0
  /\ plan \in [Writers -> Plans] /\ faulty \in [Writers -> Faults]
  /\ latch = [w \in Writers |-> FALSE]
  /\ pc = [w \in Writers |-> "wave"]
  /\ first = [w \in Writers |-> 1] /\ permit = [w \in Writers |-> 0]
  /\ job = [w \in Writers |-> [m \in Members |-> "waiting"]]
  /\ stopped = [w \in Writers |-> FALSE]
  /\ outcome = [w \in Writers |-> "none"] /\ culprit = [w \in Writers |-> 0]

\* One call of ResourceProgress::is_cancelled, and its answer.
ObserveAnew(w, seen) == seen \in BOOLEAN /\ UNCHANGED latch  \* mistake: no latch

Observe(w, seen) ==
  /\ latch[w] => seen
  /\ latch' = [latch EXCEPT ![w] = seen]

\* BatchProgress::is_cancelled: a stopped batch does not ask the caller.
ObserveBatch(w, seen) ==
  IF stopped[w] THEN seen /\ UNCHANGED latch ELSE Observe(w, seen)

Goto(w, place) == pc' = [pc EXCEPT ![w] = place]

\* The call fails: its permit, if it holds one, is dropped on the way out.
Fail(w, error, m) ==
  /\ outcome' = [outcome EXCEPT ![w] = error]
  /\ culprit' = [culprit EXCEPT ![w] = m]
  /\ Goto(w, "release")
----------------------------------------------------------------------------
(* Planning and admission of a wave.                                       *)

Whole(w, m) == plan[w][m].whole
Workspaces(w, S) == Total([m \in S |-> plan[w][m].workspace], S, Largest)
Need(w, a, b) == Workspaces(w, a .. b)

\* whole_member_wave: a contiguous wave of whole members, as long as threads and
\* the limit allow; the first job is included whatever it needs.  A member that
\* falls back to blocks is alone.
FitsTogether(w, e) ==
  \/ e = first[w]
  \/ /\ \A m \in first[w] .. e : Whole(w, m)
     /\ e - first[w] < Threads
     /\ Need(w, first[w], e) <= Limit

WaveEnd(w) == Max({e \in first[w] .. N : FitsTogether(w, e)})
Wave(w) == first[w] .. WaveEnd(w)

\* What the wave reserves.  The blocks of a fallback member run as many at once
\* as threads and the limit allow; they count as one job.
BlocksAtOnce(w) == Max({1, Min({Limit \div plan[w][first[w]].workspace, Threads})})

FirstOnly(w) == Need(w, first[w], first[w])  \* mistake: not for the whole wave

Reserved(w) ==
  IF Whole(w, first[w]) THEN Need(w, first[w], WaveEnd(w))
  ELSE plan[w][first[w]].workspace * BlocksAtOnce(w)

\* All members have been compressed.
Return(w) ==
  /\ pc[w] = "wave" /\ first[w] > N
  /\ Goto(w, "done") /\ outcome' = [outcome EXCEPT ![w] = "ok"]
  /\ UNCHANGED <<used, plan, faulty, latch, waveVars, jobVars, culprit>>

\* The checks before each attempt to take the permit.
NeverTooMuch(w) == FALSE  \* mistake: an oversized wave waits like any other

TooMuch(w) == Reserved(w) > Limit

Check(w) ==
  /\ pc[w] = "wave" /\ first[w] <= N
  /\ \E seen \in BOOLEAN :
       /\ Observe(w, seen)
       /\ IF seen THEN Fail(w, "cancelled", 0)
          ELSE IF TooMuch(w) THEN Fail(w, "limit", first[w])
          ELSE Goto(w, "acquire") /\ UNCHANGED endVars
  /\ UNCHANGED <<used, plan, faulty, waveVars, jobVars>>

HasRoom(w) == Limit - used >= Reserved(w)

\* MemoryBudget::acquire_cancellable under its mutex; without room it sleeps for
\* at most 25 ms and checks again.
Acquire(w) ==
  /\ pc[w] = "acquire"
  /\ IF HasRoom(w)
       THEN /\ used' = used + Reserved(w)
            /\ permit' = [permit EXCEPT ![w] = Reserved(w)]
            /\ job' = [job EXCEPT ![w] =
                 [m \in Members |-> IF m \in Wave(w) THEN "queued" ELSE job[w][m]]]
            /\ Goto(w, "run")
       ELSE Goto(w, "wave") /\ UNCHANGED <<used, permit, job>>
  /\ stopped' = [stopped EXCEPT ![w] = FALSE]
  /\ UNCHANGED <<plan, faulty, latch, first, endVars>>
----------------------------------------------------------------------------
(* The jobs of a batch: complete_jobs' callback, in any interleaving.      *)

SetJob(w, m, state) == job' = [job EXCEPT ![w][m] = state]
Stop(w) == stopped' = [stopped EXCEPT ![w] = TRUE]
QuietUnless(w, failed) == IF failed THEN Stop(w) ELSE UNCHANGED stopped

\* A job that sees cancellation before it starts leaves its slot empty.
Begin(w, m) ==
  /\ pc[w] = "run" /\ job[w][m] = "queued"
  /\ \E seen \in BOOLEAN :
       ObserveBatch(w, seen) /\ SetJob(w, m, IF seen THEN "skipped" ELSE "mapping")
  /\ UNCHANGED <<used, plan, faulty, pc, waveVars, stopped, endVars>>

\* The job's map ends.  It stops at its next report if the batch is cancelled.
MapReturns(w, m) ==
  /\ job[w][m] = "mapping"
  /\ \E seen \in BOOLEAN :
       /\ ObserveBatch(w, seen)
       /\ SetJob(w, m, IF seen THEN "cancelled" ELSE IF m \in faulty[w] THEN "failed" ELSE "ok")
       /\ QuietUnless(w, seen \/ m \in faulty[w])
  /\ UNCHANGED <<used, plan, faulty, pc, waveVars, endVars>>

\* The failure comes before anything else is looked at.
MapFails(w, m) ==
  /\ job[w][m] = "mapping" /\ m \in faulty[w]
  /\ SetJob(w, m, "failed") /\ Stop(w)
  /\ UNCHANGED <<used, plan, faulty, latch, pc, waveVars, endVars>>

\* A callback panics: the panic is rethrown after the join, and the pool may
\* leave queued jobs undone.
MapPanics(w, m) ==
  /\ job[w][m] = "mapping" /\ SetJob(w, m, "panicked")
  /\ UNCHANGED <<used, plan, faulty, latch, pc, waveVars, stopped, endVars>>

Panicked(w) == \E m \in Members : job[w][m] = "panicked"

Abandon(w, m) ==
  /\ pc[w] = "run" /\ job[w][m] = "queued" /\ Panicked(w)
  /\ SetJob(w, m, "skipped")
  /\ UNCHANGED <<used, plan, faulty, latch, pc, waveVars, stopped, endVars>>

JobNext(w, m) == Begin(w, m) \/ MapReturns(w, m) \/ MapFails(w, m) \/ MapPanics(w, m) \/ Abandon(w, m)
----------------------------------------------------------------------------
(* The coordinator after the join.                                         *)

Joined(w) == pc[w] = "run" /\ \A m \in Wave(w) : job[w][m] \notin {"queued", "mapping"}
InState(w, state) == {m \in Wave(w) : job[w][m] = state}

\* The first failure in job order, but a cancellation only if there is no other.
FailureInOrder(w) ==  \* mistake: a cancellation counts as much as its cause
  LET errors == InState(w, "failed") \cup InState(w, "cancelled") IN
  IF errors = {} THEN 0 ELSE Min(errors)

Failure(w) ==
  IF InState(w, "failed") # {} THEN Min(InState(w, "failed"))
  ELSE IF InState(w, "cancelled") # {} THEN Min(InState(w, "cancelled")) ELSE 0

Unwind(w) == Joined(w) /\ Panicked(w) /\ Fail(w, "panic", 0)
               /\ UNCHANGED <<used, plan, faulty, latch, waveVars, jobVars>>

ReportFailure(w) ==
  /\ Joined(w) /\ ~Panicked(w) /\ Failure(w) # 0
  /\ Fail(w, job[w][Failure(w)], Failure(w))
  /\ UNCHANGED <<used, plan, faulty, latch, waveVars, jobVars>>

\* No job has an error.  After a last look at the cancellation every slot must
\* hold a result: the coordinator expects it.
Collect(w) ==
  /\ Joined(w) /\ ~Panicked(w) /\ Failure(w) = 0
  /\ \E seen \in BOOLEAN :
       /\ ObserveBatch(w, seen)
       /\ IF seen THEN Fail(w, "cancelled", 0)
          ELSE IF InState(w, "skipped") # {} THEN Fail(w, "unfinished", 0)
          ELSE Goto(w, "release") /\ UNCHANGED endVars
  /\ UNCHANGED <<used, plan, faulty, waveVars, jobVars>>

\* MemoryPermit::drop, at the end of the wave or while the call fails.
KeepsUnlessOk(w) == IF outcome[w] = "panic" THEN 0 ELSE permit[w]  \* mistake

GivenBack(w) == permit[w]

Release(w) ==
  /\ pc[w] = "release"
  /\ used' = used - GivenBack(w)
  /\ permit' = [permit EXCEPT ![w] = 0]
  /\ IF outcome[w] = "none"
       THEN first' = [first EXCEPT ![w] = WaveEnd(w) + 1] /\ Goto(w, "wave")
       ELSE UNCHANGED first /\ Goto(w, "done")
  /\ UNCHANGED <<plan, faulty, latch, jobVars, endVars>>

CoordinatorNext(w) ==
  Return(w) \/ Check(w) \/ Acquire(w) \/ Unwind(w) \/ ReportFailure(w) \/ Collect(w) \/ Release(w)

Ended == (\A w \in Writers : pc[w] = "done") /\ UNCHANGED batchVars

BatchNext ==
  \/ \E w \in Writers : CoordinatorNext(w) \/ \E m \in Members : JobNext(w, m)
  \/ Ended

\* Threads run, and sources are finite.  Nothing is assumed of the callback, nor
\* of the order in which waiting calls get their permits.
BatchSpec ==
  /\ BatchInit /\ [][BatchNext]_batchVars
  /\ \A w \in Writers :
       /\ WF_batchVars(CoordinatorNext(w))
       /\ \A m \in Members : WF_batchVars(JobNext(w, m))
----------------------------------------------------------------------------
(* Properties.                                                             *)

BatchTypeOK ==
  /\ used \in 0 .. Limit
  /\ plan \in [Writers -> Plans] /\ faulty \in [Writers -> Faults]
  /\ latch \in [Writers -> BOOLEAN] /\ stopped \in [Writers -> BOOLEAN]
  /\ pc \in [Writers -> {"wave", "acquire", "run", "release", "done"}]
  /\ first \in [Writers -> 1 .. N + 1] /\ permit \in [Writers -> 0 .. Limit]
  /\ job \in [Writers -> [Members -> {"waiting", "queued", "mapping", "ok", "failed",
                                       "cancelled", "skipped", "panicked"}]]
  /\ outcome \in [Writers -> {"none", "ok", "limit", "failed", "cancelled", "panic", "unfinished"}]
  /\ culprit \in [Writers -> 0 .. N]

\* The jobs a call runs at one time work within its permit, although they never
\* ask for memory.  All permits together are within the limit (PermitsAreExact).
Running(w) == {m \in Members : job[w][m] = "mapping"}
JobsFitInMemory == \A w \in Writers : Workspaces(w, Running(w)) <= permit[w]

\* The budget's counter is exactly what the permits hold, through failed,
\* cancelled and panicking waves.
WriterBudget == INSTANCE Quota WITH held <- permit, Holders <- Writers
ImplementsQuota == WriterBudget!Spec
PermitsAreExact == used = Total(permit, Writers, Limit)

\* expect("all jobs completed") never fails: a job that was skipped because of a
\* cancellation leaves a trace that the coordinator sees, even if the callback
\* has changed its answer since.
AllJobsCompleted == \A w \in Writers : outcome[w] # "unfinished"

\* Cancelled is returned only to a caller that asked for it: neither a sibling's
\* failure nor another call's ever shows up as a cancellation.
OnlyTheCallerCancels == \A w \in Writers : outcome[w] = "cancelled" => latch[w]

\* What a call reports of a wave that stopped half-way, with jobs skipped,
\* interrupted and done: every member is accounted for, and a cancellation is
\* somebody's wish.
OutcomesAreHonest == AllJobsCompleted /\ OnlyTheCallerCancels

\* Every call returns, though calls wait for each other's permits without a
\* queue: a wave takes all it needs at once, and what cannot fit is refused.
CallsReturn == \A w \in Writers : <>(pc[w] = "done")

\* The comment on the scan: "Scan in job order, so scheduling does not choose
\* which error we report".  The failing member named by the error would be the
\* first one of its wave that fails whenever it is tried.
FirstFailureReported ==
  \A w \in Writers :
    outcome[w] = "failed" /\ ~latch[w] => culprit[w] = Min(faulty[w] \cap Wave(w))
=============================================================================
