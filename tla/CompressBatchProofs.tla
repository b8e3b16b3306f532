------------------------- MODULE CompressBatchProofs -------------------------
(***************************************************************************)
(* The compression waves of any number of calls and members, for every     *)
(* plan: the shared memory budget is exact, the running jobs fit in it,    *)
(* every slot is filled when results are collected, and a cancellation is  *)
(* only ever the caller's.                                                 *)
(***************************************************************************)
EXTENDS CompressBatch, TotalsProofs

----------------------------------------------------------------------------
(* Waves: what a call reserves covers the jobs of its wave.                *)

\* A plan keeps the type of its parts.
LEMMA PlanType ==
  ASSUME BatchAssumption, BatchTypeOK, NEW w \in Writers, NEW m \in Members
  PROVE  plan[w][m].whole \in BOOLEAN /\ plan[w][m].workspace \in 1 .. Largest
<1>1. plan[w] \in [1 .. N -> [whole : BOOLEAN, workspace : 1 .. Largest]]
  BY DEF BatchTypeOK, BatchAssumption
<1>2. plan[w][m] \in [whole : BOOLEAN, workspace : 1 .. Largest]
  BY <1>1 DEF Members
<1>. QED
  BY <1>2

\* The workspaces of a set of members are a number, which grows with the set.
LEMMA WorkspacesGrow ==
  ASSUME BatchAssumption, NEW w \in Writers,
         NEW T \in SUBSET Members, NEW S \in SUBSET T
  PROVE  Workspaces(w, T) \in Nat /\ Workspaces(w, S) <= Workspaces(w, T)
<1>1. IsFiniteSet(Members) /\ Largest \in Nat
  BY FS_Interval DEF Members, BatchAssumption
<1>2. IsFiniteSet(T)
  BY <1>1, FS_Subset
<1>. DEFINE f == [m \in S |-> plan[w][m].workspace]
            g == [m \in T |-> plan[w][m].workspace]
<1>3. \A m \in S : f[m] = g[m]
  OBVIOUS
<1>. HIDE DEF f, g
<1>4. Total(g, T, Largest) \in Nat /\ Total(f, S, Largest) <= Total(g, T, Largest)
  BY <1>1, <1>2, <1>3, TotalFinite, TotalSubset
<1>. QED
  BY <1>4 DEF f, g, Workspaces

\* One member's workspace is what it was planned with.
LEMMA WorkspaceOfOne ==
  ASSUME BatchAssumption, BatchTypeOK, NEW w \in Writers, NEW m \in Members
  PROVE  Workspaces(w, {m}) = plan[w][m].workspace
<1>. DEFINE f == [k \in {m} |-> plan[w][k].workspace]
<1>1. f \in [{m} -> 0 .. Largest] /\ f[m] = plan[w][m].workspace
  BY PlanType DEF BatchAssumption
<1>. HIDE DEF f
<1>2. IsFiniteSet({m}) /\ Largest \in Nat
  BY FS_Singleton DEF BatchAssumption
<1>3. Cardinality(Own(f, {m}, Largest, m)) = f[m]
  BY <1>1, <1>2, OwnCardinality
<1>4. Own(f, {m}, Largest, m) = Units(f, {m}, Largest)
  BY DEF Own, Units
<1>. QED
  BY <1>1, <1>3, <1>4 DEF Total, Workspaces, f

\* A wave starts at the call's first member and ends at one that fits with it.
LEMMA WaveShape ==
  ASSUME BatchAssumption, BatchTypeOK, NEW w \in Writers, first[w] <= N
  PROVE  /\ WaveEnd(w) \in first[w] .. N /\ FitsTogether(w, WaveEnd(w))
         /\ Wave(w) \in SUBSET Members /\ first[w] \in Wave(w)
<1>. DEFINE S == {e \in first[w] .. N : FitsTogether(w, e)}
<1>1. first[w] \in 1 .. N /\ N \in Nat
  BY DEF BatchTypeOK, BatchAssumption
<1>2. first[w] \in S
  BY <1>1 DEF FitsTogether
<1>3. S \in SUBSET Nat /\ S # {} /\ \A e \in S : e <= N
  BY <1>1, <1>2
<1>4. WaveEnd(w) \in S
  <2>. HIDE DEF S
  <2>1. Max(S) \in S
    BY <1>1, <1>3, MaxExists
  <2>. QED
    BY <2>1 DEF WaveEnd, S
<1>. QED
  BY <1>1, <1>4 DEF Wave, Members

\* The blocks of a fallback member are at least one.
LEMMA BlocksAtOnceType ==
  ASSUME BatchAssumption, BatchTypeOK, NEW w \in Writers, first[w] <= N
  PROVE  BlocksAtOnce(w) \in Nat \ {0}
<1>1. plan[w][first[w]].workspace \in 1 .. Largest
  BY SMTT(60), PlanType DEF Members, BatchTypeOK, BatchAssumption
<1>. DEFINE k == Limit \div plan[w][first[w]].workspace
            b == Min({k, Threads})
<1>2. k \in Nat /\ Threads \in Nat
  <2>1. Largest \in Nat /\ Limit \in Nat /\ Threads \in Nat
    BY DEF BatchAssumption
  <2>2. Limit \div plan[w][first[w]].workspace \in Nat
    BY <1>1, <2>1, Quotients
  <2>. QED
    BY <2>1, <2>2
<1>. HIDE DEF k
<1>3. b \in Nat
  BY SMTT(60), <1>2, MinExists
<1>. HIDE DEF b
<1>. DEFINE S == {1, b}
<1>4. S \in SUBSET Nat /\ S # {} /\ b + 1 \in Nat /\ \A s \in S : s <= b + 1
  BY <1>3
<1>5. Max(S) \in S /\ \A s \in S : s <= Max(S)
  BY <1>4, MaxExists
<1>6. Max(S) \in Nat \ {0}
  BY <1>3, <1>5
<1>. QED
  BY <1>6 DEF BlocksAtOnce, b, k

\* What a wave reserves covers every job of the wave at once.
LEMMA ReservedCovers ==
  ASSUME BatchAssumption, BatchTypeOK, NEW w \in Writers, first[w] <= N
  PROVE  Reserved(w) \in Nat /\ Workspaces(w, Wave(w)) <= Reserved(w)
<1>1. Wave(w) \in SUBSET Members /\ first[w] \in Wave(w)
  BY WaveShape
<1>2. Workspaces(w, Wave(w)) \in Nat
  BY <1>1, WorkspacesGrow
<1>3. CASE Whole(w, first[w])
  BY <1>2, <1>3 DEF Reserved, Need, Wave
<1>4. CASE ~Whole(w, first[w])
  <2>1. first[w] \in 1 .. N
    BY DEF BatchTypeOK, BatchAssumption
  <2>2. WaveEnd(w) = first[w]
    BY <1>4, <2>1, WaveShape DEF FitsTogether, BatchAssumption
  <2>3. Wave(w) = {first[w]}
    BY <2>1, <2>2 DEF Wave
  <2>4. Workspaces(w, Wave(w)) = plan[w][first[w]].workspace
    BY <2>1, <2>3, WorkspaceOfOne DEF Members
  <2>. DEFINE u == plan[w][first[w]].workspace
              b == BlocksAtOnce(w)
  <2>5. u \in Nat /\ b \in Nat /\ b >= 1
    BY <2>1, PlanType, BlocksAtOnceType DEF Members, BatchAssumption
  <2>. HIDE DEF u, b
  <2>6. u * b \in Nat /\ u <= u * b
    BY <2>5
  <2>. QED
    BY <1>4, <2>4, <2>6 DEF Reserved, u, b
<1>. QED
  BY <1>3, <1>4

\* A step that keeps a call's plan and position keeps its wave.
LEMMA SameWave ==
  ASSUME NEW w \in Writers, plan' = plan, first'[w] = first[w]
  PROVE  Wave(w)' = Wave(w) /\ Reserved(w)' = Reserved(w) /\ WaveEnd(w)' = WaveEnd(w)
<1>1. \A S : Workspaces(w, S)' = Workspaces(w, S)
  BY DEF Workspaces
<1>2. \A a, b : Need(w, a, b)' = Need(w, a, b)
  BY <1>1 DEF Need
<1>3. \A m : Whole(w, m)' = Whole(w, m)
  BY DEF Whole
<1>4. \A e : FitsTogether(w, e)' <=> FitsTogether(w, e)
  BY <1>2, <1>3 DEF FitsTogether
<1>5. {e \in first[w] .. N : FitsTogether(w, e)}' = {e \in first[w] .. N : FitsTogether(w, e)}
  BY <1>4
<1>6. WaveEnd(w)' = WaveEnd(w)
  BY <1>5 DEF WaveEnd
<1>7. BlocksAtOnce(w)' = BlocksAtOnce(w)
  BY DEF BlocksAtOnce
<1>. QED
  BY <1>2, <1>3, <1>6, <1>7 DEF Wave, Reserved
----------------------------------------------------------------------------
(* The inductive invariant, call by call.                                  *)

\* Only the wave of a call that runs has jobs that are waiting or working.
JobsAreInWave(w) ==
  \A m \in Members : job[w][m] \in {"queued", "mapping"} => pc[w] = "run" /\ m \in Wave(w)

\* A call that runs holds what its wave needs; one that is between waves, nothing.
PermitIsForWave(w) ==
  /\ pc[w] = "run" => permit[w] = Reserved(w)
  /\ pc[w] \in {"wave", "acquire", "done"} => permit[w] = 0
  /\ pc[w] \in {"acquire", "run", "release"} => first[w] <= N

\* A batch stops, and its jobs see a cancellation, because one of them failed or
\* because the caller cancelled.
StopHasCause(w) ==
  pc[w] = "run" /\ (stopped[w] \/ InState(w, "cancelled") # {})
    => InState(w, "failed") # {} \/ latch[w]

\* A job is skipped because the batch stopped, the caller cancelled, or a sibling
\* panicked: each leaves a trace that lasts until the results are collected.
SkipHasCause(w) ==
  pc[w] = "run" /\ InState(w, "skipped") # {} => stopped[w] \/ latch[w] \/ Panicked(w)

WriterInv(w) ==
  /\ JobsAreInWave(w) /\ PermitIsForWave(w)
  /\ StopHasCause(w) /\ SkipHasCause(w)
  /\ outcome[w] = "cancelled" => latch[w]
  /\ outcome[w] # "unfinished"

BatchInv == BatchTypeOK /\ PermitsAreExact /\ \A w \in Writers : WriterInv(w)

\* Nothing that belongs to call v changes.
Unmoved(v) ==
  /\ first'[v] = first[v] /\ permit'[v] = permit[v] /\ pc'[v] = pc[v]
  /\ job'[v] = job[v] /\ stopped'[v] = stopped[v] /\ latch'[v] = latch[v]
  /\ outcome'[v] = outcome[v]

\* A step of one call leaves every other call alone, and all plans.
LEMMA OneCallMoves ==
  ASSUME BatchTypeOK, NEW w \in Writers,
         CoordinatorNext(w) \/ \E m \in Members : JobNext(w, m)
  PROVE  plan' = plan /\ faulty' = faulty /\ \A v \in Writers \ {w} : Unmoved(v)
<1>. USE DEF BatchTypeOK, Unmoved, Goto, Fail, Observe, ObserveBatch, SetJob, Stop, QuietUnless,
             waveVars, jobVars, endVars
<1>1. CASE Return(w)
  BY <1>1 DEF Return
<1>2. CASE Check(w)
  BY <1>2 DEF Check
<1>3. CASE Acquire(w)
  BY <1>3 DEF Acquire
<1>4. CASE Unwind(w)
  BY <1>4 DEF Unwind
<1>5. CASE ReportFailure(w)
  BY <1>5 DEF ReportFailure
<1>6. CASE Collect(w)
  BY <1>6 DEF Collect
<1>7. CASE Release(w)
  BY <1>7 DEF Release
<1>8. ASSUME NEW m \in Members, Begin(w, m) PROVE plan' = plan /\ faulty' = faulty /\ \A v \in Writers \ {w} : Unmoved(v)
  BY <1>8 DEF Begin
<1>9. ASSUME NEW m \in Members, MapReturns(w, m) PROVE plan' = plan /\ faulty' = faulty /\ \A v \in Writers \ {w} : Unmoved(v)
  BY <1>9 DEF MapReturns
<1>10. ASSUME NEW m \in Members, MapFails(w, m) PROVE plan' = plan /\ faulty' = faulty /\ \A v \in Writers \ {w} : Unmoved(v)
  BY <1>10 DEF MapFails
<1>11. ASSUME NEW m \in Members, MapPanics(w, m) PROVE plan' = plan /\ faulty' = faulty /\ \A v \in Writers \ {w} : Unmoved(v)
  BY <1>11 DEF MapPanics
<1>12. ASSUME NEW m \in Members, Abandon(w, m) PROVE plan' = plan /\ faulty' = faulty /\ \A v \in Writers \ {w} : Unmoved(v)
  BY <1>12 DEF Abandon
<1>. QED
  BY <1>1, <1>2, <1>3, <1>4, <1>5, <1>6, <1>7, <1>8, <1>9, <1>10, <1>11, <1>12
     DEF CoordinatorNext, JobNext

\* A call that is left alone keeps its part of the invariant.
LEMMA UnmovedKeeps ==
  ASSUME NEW v \in Writers, plan' = plan, Unmoved(v), WriterInv(v)
  PROVE  WriterInv(v)'
<1>1. Wave(v)' = Wave(v) /\ Reserved(v)' = Reserved(v)
  BY SameWave DEF Unmoved
<1>2. \A state : InState(v, state)' = InState(v, state)
  BY <1>1 DEF InState, Unmoved
<1>3. Panicked(v)' <=> Panicked(v)
  BY DEF Panicked, Unmoved
<1>4. JobsAreInWave(v)'
  BY <1>1 DEF JobsAreInWave, Unmoved, WriterInv
<1>5. PermitIsForWave(v)'
  BY <1>1 DEF PermitIsForWave, Unmoved, WriterInv
<1>6. StopHasCause(v)' /\ SkipHasCause(v)'
  BY <1>2, <1>3 DEF StopHasCause, SkipHasCause, Unmoved, WriterInv
<1>. QED
  BY <1>4, <1>5, <1>6 DEF WriterInv, Unmoved

\* What one call takes or gives back is what the budget's counter moves by.
LEMMA PermitStep ==
  ASSUME BatchAssumption, BatchTypeOK, PermitsAreExact, NEW w \in Writers,
         permit' \in [Writers -> 0 .. Limit],
         \A v \in Writers \ {w} : permit'[v] = permit[v],
         used' = used - permit[w] + permit'[w]
  PROVE  PermitsAreExact' /\ used' \in Nat /\ permit[w] <= used
<1>1. IsFiniteSet(Writers) /\ Limit \in Nat /\ permit \in [Writers -> 0 .. Limit]
  BY DEF BatchAssumption, BatchTypeOK
<1>2. ASSUME NEW g \in [Writers -> 0 .. Limit], \A v \in Writers \ {w} : g[v] = permit[v]
      PROVE  Total(g, Writers, Limit) = Total(permit, Writers, Limit) - permit[w] + g[w]
  BY <1>1, <1>2, TotalUpdate
<1>3. Total(permit', Writers, Limit) \in Nat /\ permit[w] <= Total(permit, Writers, Limit)
  BY <1>1, TotalFinite, TotalMember
<1>. QED
  BY <1>2, <1>3 DEF PermitsAreExact
----------------------------------------------------------------------------
(* Steps of the jobs.                                                      *)

JobStates == {"waiting", "queued", "mapping", "ok", "failed", "cancelled", "skipped", "panicked"}

\* What the invariant asks of a job that goes on to state t.
JobMoves(w, m, t) ==
  /\ job[w][m] \in {"queued", "mapping"}
  /\ t \in JobStates \ {"queued"}
  /\ job' = [job EXCEPT ![w][m] = t]
  /\ latch' \in [Writers -> BOOLEAN] /\ stopped' \in [Writers -> BOOLEAN]
  /\ latch[w] => latch'[w]
  /\ stopped[w] => stopped'[w]
  /\ stopped'[w] \/ t = "cancelled" => stopped[w] \/ t = "failed" \/ latch'[w]
  /\ t = "skipped" => stopped'[w] \/ latch'[w] \/ Panicked(w)
  /\ UNCHANGED <<used, plan, faulty, pc, waveVars, endVars>>

LEMMA JobActionsMove ==
  ASSUME BatchTypeOK, NEW w \in Writers, NEW m \in Members, JobNext(w, m)
  PROVE  \E t \in JobStates : JobMoves(w, m, t)
<1>. USE DEF BatchTypeOK, JobMoves, JobStates, SetJob, Stop, QuietUnless, Observe, ObserveBatch,
             waveVars, endVars
<1>1. CASE Begin(w, m)
  <2>1. PICK seen \in BOOLEAN :
           ObserveBatch(w, seen) /\ SetJob(w, m, IF seen THEN "skipped" ELSE "mapping")
    BY <1>1 DEF Begin
  <2>. DEFINE t == IF seen THEN "skipped" ELSE "mapping"
  <2>2. JobMoves(w, m, t)
    BY <1>1, <2>1 DEF Begin
  <2>. QED
    BY <2>2
<1>2. CASE MapReturns(w, m)
  <2>. DEFINE After(seen) == IF seen THEN "cancelled" ELSE IF m \in faulty[w] THEN "failed" ELSE "ok"
  <2>1. PICK seen \in BOOLEAN :
           /\ ObserveBatch(w, seen) /\ SetJob(w, m, After(seen))
           /\ QuietUnless(w, seen \/ m \in faulty[w])
    BY <1>2 DEF MapReturns
  <2>2. JobMoves(w, m, After(seen))
    BY ZenonT(60), <1>2, <2>1 DEF MapReturns
  <2>. QED
    BY <2>2
<1>3. CASE MapFails(w, m)
  <2>1. JobMoves(w, m, "failed")
    BY <1>3 DEF MapFails
  <2>. QED
    BY <2>1
<1>4. CASE MapPanics(w, m)
  <2>1. JobMoves(w, m, "panicked")
    BY <1>4 DEF MapPanics
  <2>. QED
    BY <2>1
<1>5. CASE Abandon(w, m)
  <2>1. JobMoves(w, m, "skipped")
    BY <1>5 DEF Abandon
  <2>. QED
    BY <2>1
<1>. QED
  BY <1>1, <1>2, <1>3, <1>4, <1>5 DEF JobNext

LEMMA JobStep ==
  ASSUME BatchAssumption, BatchInv, NEW w \in Writers, NEW m \in Members,
         NEW t \in JobStates, JobMoves(w, m, t)
  PROVE  BatchTypeOK' /\ PermitsAreExact' /\ WriterInv(w)'
<1>1. /\ plan' = plan /\ faulty' = faulty /\ pc' = pc /\ first' = first /\ permit' = permit
      /\ used' = used /\ outcome' = outcome /\ culprit' = culprit
  BY DEF JobMoves, waveVars, endVars
<1>2. job \in [Writers -> [Members -> JobStates]] /\ WriterInv(w)
  BY DEF BatchInv, BatchTypeOK, JobStates
<1>3. /\ job' \in [Writers -> [Members -> JobStates]] /\ job'[w][m] = t
      /\ \A k \in Members \ {m} : job'[w][k] = job[w][k]
  BY <1>2 DEF JobMoves
<1>4. BatchTypeOK'
  BY <1>1, <1>3 DEF BatchInv, BatchTypeOK, JobMoves, JobStates
<1>5. PermitsAreExact'
  BY <1>1 DEF BatchInv, PermitsAreExact
<1>6. Wave(w)' = Wave(w) /\ Reserved(w)' = Reserved(w)
  BY <1>1, SameWave
<1>7. pc[w] = "run" /\ m \in Wave(w) /\ first[w] <= N
  BY <1>2 DEF WriterInv, JobsAreInWave, JobMoves, PermitIsForWave
<1>8. Wave(w) \in SUBSET Members
  BY <1>7, WaveShape DEF BatchInv
<1>9. \A state \in JobStates \ {t, "queued", "mapping"} : InState(w, state)' = InState(w, state)
  BY <1>3, <1>6, <1>8 DEF InState, JobMoves
<1>10. InState(w, t)' = InState(w, t) \cup {m}
  BY <1>3, <1>6, <1>7, <1>8 DEF InState, JobMoves
<1>11. JobsAreInWave(w)'
  BY <1>1, <1>2, <1>3, <1>6, <1>7 DEF JobsAreInWave, WriterInv
<1>12. PermitIsForWave(w)'
  BY <1>1, <1>2, <1>6 DEF PermitIsForWave, WriterInv
<1>13. StopHasCause(w)'
  <2>1. InState(w, "failed") # {} => InState(w, "failed")' # {}
    BY <1>9, <1>10 DEF JobStates
  <2>2. t = "failed" => InState(w, "failed")' # {}
    BY <1>10
  <2>3. t # "cancelled" => InState(w, "cancelled")' = InState(w, "cancelled")
    BY <1>9 DEF JobStates
  <2>. QED
    BY <1>2, <1>7, <2>1, <2>2, <2>3 DEF StopHasCause, WriterInv, JobMoves
<1>14. SkipHasCause(w)'
  <2>1. Panicked(w) => Panicked(w)'
    BY <1>3 DEF Panicked, JobMoves
  <2>2. t # "skipped" => InState(w, "skipped")' = InState(w, "skipped")
    BY <1>9 DEF JobStates
  <2>. QED
    BY <1>2, <1>7, <2>1, <2>2 DEF SkipHasCause, WriterInv, JobMoves
<1>15. (outcome[w] = "cancelled" => latch[w])' /\ outcome'[w] # "unfinished"
  BY <1>1, <1>2 DEF WriterInv, JobMoves
<1>. QED
  BY <1>4, <1>5, <1>11, <1>12, <1>13, <1>14, <1>15 DEF WriterInv
----------------------------------------------------------------------------
(* Steps of the coordinator.                                               *)

\* The part of the invariant that says nothing of a call that does not run.
LEMMA NotRunning ==
  ASSUME NEW w \in Writers, pc'[w] # "run",
         \A m \in Members : job'[w][m] \notin {"queued", "mapping"},
         pc'[w] \in {"wave", "acquire", "done"} => permit'[w] = 0,
         pc'[w] \in {"acquire", "release"} => first'[w] <= N,
         outcome'[w] = "cancelled" => latch'[w],
         outcome'[w] # "unfinished"
  PROVE  WriterInv(w)'
BY DEF WriterInv, JobsAreInWave, PermitIsForWave, StopHasCause, SkipHasCause

\* A call whose jobs have joined has none in any state but an ended one.
LEMMA AfterJoin ==
  ASSUME BatchAssumption, BatchInv, NEW w \in Writers, Joined(w)
  PROVE  /\ \A m \in Members : job[w][m] \notin {"queued", "mapping"}
         /\ first[w] <= N /\ pc[w] = "run" /\ Wave(w) \in SUBSET Members
<1>1. WriterInv(w) /\ pc[w] = "run"
  BY DEF BatchInv, Joined
<1>2. first[w] <= N
  BY <1>1 DEF WriterInv, PermitIsForWave
<1>. QED
  BY <1>1, <1>2, WaveShape DEF BatchInv, WriterInv, JobsAreInWave, Joined

\* The failure that is reported is one of the wave's, and it is a cancellation
\* only if there is no other.
LEMMA FailureIsOfWave ==
  ASSUME BatchAssumption, BatchInv, NEW w \in Writers, Joined(w)
  PROVE  /\ Failure(w) # 0 => /\ Failure(w) \in Members
                              /\ job[w][Failure(w)] \in {"failed", "cancelled"}
                              /\ job[w][Failure(w)] = "cancelled" =>
                                   InState(w, "failed") = {} /\ InState(w, "cancelled") # {}
         /\ Failure(w) = 0 => InState(w, "failed") = {} /\ InState(w, "cancelled") = {}
<1>1. Members \in SUBSET (Nat \ {0}) /\ Wave(w) \in SUBSET Members
  BY AfterJoin DEF Members, BatchAssumption
<1>2. ASSUME NEW state, InState(w, state) # {}
      PROVE  Min(InState(w, state)) \in InState(w, state)
  <2>1. InState(w, state) \in SUBSET Nat
    BY <1>1 DEF InState
  <2>. QED
    BY <1>2, <2>1, MinExists
<1>3. \A state : \A m \in InState(w, state) : m \in Members /\ m # 0 /\ job[w][m] = state
  BY <1>1 DEF InState
<1>. QED
  BY <1>2, <1>3 DEF Failure

Outcomes == {"none", "ok", "limit", "failed", "cancelled", "panic", "unfinished"}

\* A call that fails, or records nothing, keeps the type of what it returns.
LEMMA EndType ==
  ASSUME BatchAssumption, BatchTypeOK, NEW w \in Writers,
         NEW error \in Outcomes, NEW m \in 0 .. N,
         Fail(w, error, m) \/ UNCHANGED endVars
  PROVE  outcome' \in [Writers -> Outcomes] /\ culprit' \in [Writers -> 0 .. N]
<1>1. outcome \in [Writers -> Outcomes] /\ culprit \in [Writers -> 0 .. N]
  BY DEF BatchTypeOK, Outcomes
<1>. QED
  BY <1>1 DEF Fail, endVars

LEMMA CoordinatorStep ==
  ASSUME BatchAssumption, BatchInv, NEW w \in Writers, CoordinatorNext(w)
  PROVE  BatchTypeOK' /\ PermitsAreExact' /\ WriterInv(w)'
<1>0. /\ BatchTypeOK /\ PermitsAreExact /\ WriterInv(w)
      /\ JobsAreInWave(w) /\ PermitIsForWave(w) /\ StopHasCause(w) /\ SkipHasCause(w)
  BY DEF BatchInv, WriterInv
<1>. USE DEF Goto, Fail, waveVars, jobVars, endVars
<1>1. CASE Return(w)
  <2>1. BatchTypeOK' /\ PermitsAreExact'
    BY <1>0, <1>1 DEF Return, BatchTypeOK, PermitsAreExact
  <2>2. WriterInv(w)'
    BY <1>0, <1>1, NotRunning DEF Return, BatchTypeOK, JobsAreInWave, PermitIsForWave
  <2>. QED
    BY <2>1, <2>2
<1>2. CASE Check(w)
  <2>1. PICK seen \in BOOLEAN :
          /\ Observe(w, seen)
          /\ IF seen THEN Fail(w, "cancelled", 0)
             ELSE IF TooMuch(w) THEN Fail(w, "limit", first[w])
             ELSE Goto(w, "acquire") /\ UNCHANGED endVars
    BY <1>2 DEF Check
  <2>2. first[w] \in 1 .. N
    BY <1>0, <1>2 DEF Check, BatchTypeOK, BatchAssumption
  <2>3. BatchTypeOK'
    <3>1. outcome' \in [Writers -> Outcomes] /\ culprit' \in [Writers -> 0 .. N]
      <4>1. 0 \in 0 .. N /\ first[w] \in 0 .. N /\ {"cancelled", "limit"} \subseteq Outcomes
        BY <2>2 DEF Outcomes, BatchAssumption
      <4>2. \/ Fail(w, "cancelled", 0) \/ Fail(w, "limit", first[w])
            \/ UNCHANGED endVars
        BY <2>1
      <4>. QED
        BY <1>0, <4>1, <4>2, EndType
    <3>2. pc' \in [Writers -> {"wave", "acquire", "run", "release", "done"}]
      BY <1>0, <2>1 DEF BatchTypeOK
    <3>3. latch' \in [Writers -> BOOLEAN]
      BY <1>0, <2>1 DEF Observe, BatchTypeOK
    <3>4. /\ used' = used /\ plan' = plan /\ faulty' = faulty /\ first' = first
          /\ permit' = permit /\ job' = job /\ stopped' = stopped
      BY <1>2 DEF Check
    <3>. QED
      BY <1>0, <3>1, <3>2, <3>3, <3>4 DEF BatchTypeOK, Outcomes
  <2>4. PermitsAreExact'
    BY <1>0, <1>2 DEF Check, PermitsAreExact
  <2>5. WriterInv(w)'
    BY <1>0, <1>2, <2>1, <2>2, NotRunning
       DEF Check, BatchTypeOK, Observe, JobsAreInWave, PermitIsForWave, WriterInv
  <2>. QED
    BY <2>3, <2>4, <2>5
<1>3. CASE Acquire(w)
  <2>1. /\ first[w] <= N /\ permit[w] = 0 /\ pc[w] = "acquire"
        /\ \A m \in Members : job[w][m] \notin {"queued", "mapping"}
    BY <1>0, <1>3 DEF Acquire, PermitIsForWave, JobsAreInWave
  <2>2. /\ plan' = plan /\ first' = first /\ faulty' = faulty /\ latch' = latch
        /\ outcome' = outcome /\ culprit' = culprit
    BY <1>3 DEF Acquire
  <2>3. Wave(w)' = Wave(w) /\ Reserved(w)' = Reserved(w)
    BY <2>2, SameWave
  <2>4. Reserved(w) \in Nat /\ Wave(w) \in SUBSET Members
    BY <1>0, <2>1, ReservedCovers, WaveShape
  <2>5. CASE HasRoom(w)
    <3>1. /\ used' = used + Reserved(w) /\ permit' = [permit EXCEPT ![w] = Reserved(w)]
          /\ pc' = [pc EXCEPT ![w] = "run"] /\ stopped' = [stopped EXCEPT ![w] = FALSE]
          /\ job' = [job EXCEPT ![w] =
               [m \in Members |-> IF m \in Wave(w) THEN "queued" ELSE job[w][m]]]
      BY <1>3, <2>5 DEF Acquire
    <3>2. used' \in 0 .. Limit /\ Reserved(w) \in 0 .. Limit
      BY SMTT(60), <1>0, <2>4, <2>5, <3>1 DEF HasRoom, BatchTypeOK, BatchAssumption
    <3>3. permit' \in [Writers -> 0 .. Limit] /\ permit'[w] = Reserved(w)
          /\ \A v \in Writers \ {w} : permit'[v] = permit[v]
      BY <1>0, <3>1, <3>2 DEF BatchTypeOK
    <3>4. used' = used - permit[w] + permit'[w]
      BY <1>0, <2>1, <2>4, <3>1, <3>3 DEF BatchTypeOK, BatchAssumption
    <3>5. PermitsAreExact'
      BY <1>0, <3>3, <3>4, PermitStep
    <3>6. job'[w] \in [Members -> JobStates]
          /\ \A m \in Members : job'[w][m] = IF m \in Wave(w) THEN "queued" ELSE job[w][m]
      BY <1>0, <3>1 DEF BatchTypeOK, JobStates
    <3>7. BatchTypeOK'
      BY <1>0, <2>2, <3>1, <3>2, <3>3, <3>6 DEF BatchTypeOK, JobStates
    <3>8. JobsAreInWave(w)'
      BY <1>0, <2>1, <2>3, <3>1, <3>6 DEF JobsAreInWave, BatchTypeOK
    <3>9. PermitIsForWave(w)'
      BY <1>0, <2>1, <2>2, <2>3, <3>1, <3>3 DEF PermitIsForWave, BatchTypeOK
    <3>10. \A state \in JobStates \ {"queued"} : InState(w, state)' = {}
      BY <2>3, <2>4, <3>6 DEF InState
    <3>11. StopHasCause(w)' /\ SkipHasCause(w)'
      BY <1>0, <3>1, <3>10 DEF StopHasCause, SkipHasCause, BatchTypeOK, JobStates
    <3>. QED
      BY <1>0, <2>2, <3>5, <3>7, <3>8, <3>9, <3>11 DEF WriterInv
  <2>6. CASE ~HasRoom(w)
    <3>1. /\ used' = used /\ permit' = permit /\ job' = job
          /\ pc' = [pc EXCEPT ![w] = "wave"] /\ stopped' = [stopped EXCEPT ![w] = FALSE]
      BY <1>3, <2>6 DEF Acquire
    <3>2. BatchTypeOK' /\ PermitsAreExact'
      BY <1>0, <2>2, <3>1 DEF BatchTypeOK, PermitsAreExact
    <3>3. WriterInv(w)'
      BY <1>0, <2>1, <2>2, <3>1, NotRunning DEF BatchTypeOK, WriterInv
    <3>. QED
      BY <3>2, <3>3
  <2>. QED
    BY <2>5, <2>6
<1>4. CASE Unwind(w)
  <2>1. BatchTypeOK' /\ PermitsAreExact'
    BY <1>0, <1>4 DEF Unwind, BatchTypeOK, PermitsAreExact, BatchAssumption
  <2>2. WriterInv(w)'
    BY <1>0, <1>4, AfterJoin, NotRunning DEF Unwind, BatchTypeOK
  <2>. QED
    BY <2>1, <2>2
<1>5. CASE ReportFailure(w)
  <2>1. /\ Failure(w) \in Members /\ job[w][Failure(w)] \in {"failed", "cancelled"}
        /\ job[w][Failure(w)] = "cancelled" => latch[w]
    BY <1>0, <1>5, FailureIsOfWave, AfterJoin DEF ReportFailure, StopHasCause
  <2>2. BatchTypeOK'
    BY SMTT(60), <1>0, <1>5, <2>1 DEF ReportFailure, BatchTypeOK, Members, BatchAssumption
  <2>3. PermitsAreExact'
    BY <1>0, <1>5 DEF ReportFailure, PermitsAreExact
  <2>4. WriterInv(w)'
    BY <1>0, <1>5, <2>1, AfterJoin, NotRunning DEF ReportFailure, BatchTypeOK
  <2>. QED
    BY <2>2, <2>3, <2>4
<1>6. CASE Collect(w)
  <2>1. PICK seen \in BOOLEAN :
          /\ ObserveBatch(w, seen)
          /\ IF seen THEN Fail(w, "cancelled", 0)
             ELSE IF InState(w, "skipped") # {} THEN Fail(w, "unfinished", 0)
             ELSE Goto(w, "release") /\ UNCHANGED endVars
    BY <1>6 DEF Collect
  <2>2. /\ Joined(w) /\ ~Panicked(w)
        /\ InState(w, "failed") = {} /\ InState(w, "cancelled") = {}
    BY <1>6, FailureIsOfWave DEF Collect
  <2>3. first[w] <= N /\ pc[w] = "run" /\ \A m \in Members : job[w][m] \notin {"queued", "mapping"}
    BY <2>2, AfterJoin
  <2>4. latch' \in [Writers -> BOOLEAN] /\ (seen => latch'[w])
    BY <1>0, <2>1, <2>2, <2>3 DEF ObserveBatch, Observe, StopHasCause, BatchTypeOK
  <2>5. ~seen => InState(w, "skipped") = {}
    BY <1>0, <2>1, <2>2, <2>3 DEF ObserveBatch, Observe, StopHasCause, SkipHasCause
  <2>6. /\ used' = used /\ plan' = plan /\ faulty' = faulty /\ first' = first
        /\ permit' = permit /\ job' = job /\ stopped' = stopped
        /\ pc' = [pc EXCEPT ![w] = "release"]
    BY <1>6, <2>1 DEF Collect
  <2>7. BatchTypeOK' /\ PermitsAreExact'
    <3>1. outcome' \in [Writers -> Outcomes] /\ culprit' \in [Writers -> 0 .. N]
      <4>1. 0 \in 0 .. N /\ {"cancelled", "unfinished"} \subseteq Outcomes
        BY DEF Outcomes, BatchAssumption
      <4>2. \/ Fail(w, "cancelled", 0) \/ Fail(w, "unfinished", 0)
            \/ UNCHANGED endVars
        BY <2>1
      <4>. QED
        BY <1>0, <4>1, <4>2, EndType
    <3>2. pc' \in [Writers -> {"wave", "acquire", "run", "release", "done"}]
      BY <1>0, <2>6 DEF BatchTypeOK
    <3>3. BatchTypeOK'
      BY <1>0, <2>4, <2>6, <3>1, <3>2 DEF BatchTypeOK, Outcomes
    <3>. QED
      BY <1>0, <2>6, <3>3 DEF PermitsAreExact
  <2>8. outcome'[w] = IF seen THEN "cancelled" ELSE outcome[w]
    BY <1>0, <2>1, <2>5 DEF BatchTypeOK
  <2>9. seen \/ latch[w] => latch'[w]
    BY <1>0, <2>1, <2>4 DEF ObserveBatch, Observe, BatchTypeOK
  <2>10. WriterInv(w)'
    BY <1>0, <2>3, <2>6, <2>8, <2>9, NotRunning DEF BatchTypeOK, WriterInv
  <2>. QED
    BY <2>7, <2>10
<1>7. CASE Release(w)
  <2>1. first[w] <= N /\ pc[w] = "release" /\ \A m \in Members : job[w][m] \notin {"queued", "mapping"}
    BY <1>0, <1>7 DEF Release, PermitIsForWave, JobsAreInWave
  <2>2. WaveEnd(w) + 1 \in 1 .. N + 1
    <3>1. first[w] \in 1 .. N /\ N \in Nat
      BY <1>0, <2>1 DEF BatchTypeOK, BatchAssumption
    <3>2. WaveEnd(w) \in first[w] .. N
      BY <1>0, <2>1, WaveShape
    <3>. QED
      BY <3>1, <3>2
  <2>3. permit' \in [Writers -> 0 .. Limit] /\ permit'[w] = 0
        /\ \A v \in Writers \ {w} : permit'[v] = permit[v]
    BY <1>0, <1>7 DEF Release, BatchTypeOK, BatchAssumption
  <2>4. used' = used - permit[w] + permit'[w]
    BY <1>0, <1>7, <2>3 DEF Release, GivenBack, BatchTypeOK, BatchAssumption
  <2>5. PermitsAreExact' /\ used' \in Nat
    BY <1>0, <2>3, <2>4, PermitStep
  <2>6. used' \in 0 .. Limit
    BY <1>0, <2>3, <2>4, <2>5 DEF BatchTypeOK, BatchAssumption
  <2>7. first' \in [Writers -> 1 .. N + 1]
    BY ZenonT(60), <1>0, <1>7, <2>2 DEF Release, BatchTypeOK
  <2>8. BatchTypeOK'
    BY ZenonT(60), <1>0, <1>7, <2>3, <2>6, <2>7 DEF Release, BatchTypeOK
  <2>9. /\ pc'[w] \in {"wave", "done"} /\ job' = job
        /\ outcome' = outcome /\ latch' = latch
    BY <1>0, <1>7 DEF Release, BatchTypeOK
  <2>10. WriterInv(w)'
    BY <1>0, <2>1, <2>3, <2>9, NotRunning DEF WriterInv
  <2>. QED
    BY <2>5, <2>8, <2>10
<1>. QED
  BY <1>1, <1>2, <1>3, <1>4, <1>5, <1>6, <1>7 DEF CoordinatorNext
----------------------------------------------------------------------------
(* Theorems.                                                               *)

LEMMA BatchInitial ==
  ASSUME BatchAssumption, BatchInit
  PROVE  BatchInv
<1>1. N \in Nat /\ Limit \in Nat /\ 1 \in 1 .. N + 1 /\ 0 \in 0 .. N /\ 0 \in 0 .. Limit
  BY DEF BatchAssumption
<1>2. BatchTypeOK
  BY <1>1 DEF BatchInit, BatchTypeOK
<1>3. PermitsAreExact
  <2>1. IsFiniteSet(Writers) /\ permit \in [Writers -> 0 .. Limit] /\ \A w \in Writers : permit[w] = 0
    BY <1>2 DEF BatchAssumption, BatchInit, BatchTypeOK
  <2>2. Total(permit, Writers, Limit) = 0
    BY <1>1, <2>1, TotalZero
  <2>. QED
    BY <2>2 DEF PermitsAreExact, BatchInit
<1>4. \A w \in Writers : WriterInv(w)
  BY DEF BatchInit, WriterInv, JobsAreInWave, PermitIsForWave, StopHasCause, SkipHasCause
<1>. QED
  BY <1>2, <1>3, <1>4 DEF BatchInv

\* Whichever call moves, it keeps its own part of the invariant and the others'.
LEMMA BatchStep ==
  ASSUME BatchAssumption, BatchInv, NEW w \in Writers,
         CoordinatorNext(w) \/ \E m \in Members : JobNext(w, m)
  PROVE  BatchInv'
<1>1. BatchTypeOK
  BY DEF BatchInv
<1>2. BatchTypeOK' /\ PermitsAreExact' /\ WriterInv(w)'
  <2>1. CASE CoordinatorNext(w)
    BY <2>1, CoordinatorStep
  <2>2. ASSUME NEW m \in Members, JobNext(w, m)
        PROVE  BatchTypeOK' /\ PermitsAreExact' /\ WriterInv(w)'
    <3>1. PICK t \in JobStates : JobMoves(w, m, t)
      BY <1>1, <2>2, JobActionsMove
    <3>. QED
      BY <3>1, JobStep
  <2>. QED
    BY <2>1, <2>2
<1>3. ASSUME NEW v \in Writers \ {w} PROVE WriterInv(v)'
  BY <1>1, OneCallMoves, UnmovedKeeps DEF BatchInv
<1>. QED
  BY <1>2, <1>3 DEF BatchInv

LEMMA BatchNextKeeps ==
  ASSUME BatchAssumption, BatchInv, [BatchNext]_batchVars
  PROVE  BatchInv'
<1>1. CASE UNCHANGED batchVars
  <2>1. \A v \in Writers : Unmoved(v)
    BY <1>1 DEF Unmoved, batchVars, waveVars, jobVars, endVars
  <2>2. \A v \in Writers : WriterInv(v)'
    BY <1>1, <2>1, UnmovedKeeps DEF BatchInv, batchVars
  <2>. QED
    BY <1>1, <2>2 DEF BatchInv, BatchTypeOK, PermitsAreExact, batchVars, waveVars, jobVars, endVars
<1>2. ASSUME NEW w \in Writers, CoordinatorNext(w) \/ \E m \in Members : JobNext(w, m)
      PROVE  BatchInv'
  BY <1>2, BatchStep
<1>. QED
  BY <1>1, <1>2 DEF BatchNext, Ended

\* Liveness aside, a behaviour starts in BatchInit and takes steps of BatchNext.
LEMMA BatchSafety == BatchSpec => BatchInit /\ [][BatchNext]_batchVars
BY PTL DEF BatchSpec

\* The invariant holds of every behaviour of the writer calls.
THEOREM BatchInvariant ==
  ASSUME BatchAssumption
  PROVE  BatchSpec => []BatchInv
<1>1. BatchInit => BatchInv
  BY BatchInitial
<1>2. BatchInv /\ [BatchNext]_batchVars => BatchInv'
  BY BatchNextKeeps
<1>. QED
  BY <1>1, <1>2, BatchSafety, PTL

\* Shared memory is exact: whatever fails, is cancelled or panics, the budget's
\* counter is what the permits hold, never more than the limit (PermitsAreExact).
THEOREM BatchCorrect ==
  ASSUME BatchAssumption
  PROVE  BatchSpec => [](BatchTypeOK /\ PermitsAreExact)
<1>1. BatchInv => BatchTypeOK /\ PermitsAreExact
  BY DEF BatchInv
<1>. QED
  BY <1>1, BatchInvariant, PTL

\* The jobs of every wave work within the permit of their call although they
\* never ask for memory: the wave was sized for all of them (map_batch).
THEOREM JobsFit ==
  ASSUME BatchAssumption
  PROVE  BatchSpec => []JobsFitInMemory
<1>1. BatchInv => JobsFitInMemory
  <2>. SUFFICES ASSUME BatchInv, NEW w \in Writers
                PROVE  Workspaces(w, Running(w)) <= permit[w]
    BY DEF JobsFitInMemory
  <2>1. BatchTypeOK /\ JobsAreInWave(w) /\ PermitIsForWave(w) /\ permit[w] \in Nat
    BY DEF BatchInv, WriterInv, BatchTypeOK, BatchAssumption
  <2>2. CASE Running(w) = {}
    <3>1. Workspaces(w, {}) = 0
      BY FS_EmptySet DEF Workspaces, Total, Units
    <3>. QED
      BY <2>1, <2>2, <3>1
  <2>3. CASE Running(w) # {}
    <3>1. pc[w] = "run" /\ Running(w) \in SUBSET Wave(w)
      BY <2>1, <2>3 DEF Running, JobsAreInWave
    <3>2. first[w] <= N /\ permit[w] = Reserved(w)
      BY <2>1, <3>1 DEF PermitIsForWave
    <3>3. Wave(w) \in SUBSET Members
      BY <2>1, <3>2, WaveShape
    <3>4. /\ Workspaces(w, Wave(w)) \in Nat
          /\ Workspaces(w, Running(w)) <= Workspaces(w, Wave(w))
          /\ Workspaces(w, Running(w)) \in Nat
      BY <3>1, <3>3, WorkspacesGrow
    <3>5. Reserved(w) \in Nat /\ Workspaces(w, Wave(w)) <= Reserved(w)
      BY <2>1, <3>2, ReservedCovers
    <3>. QED
      BY <3>2, <3>4, <3>5
  <2>. QED
    BY <2>2, <2>3
<1>. QED
  BY <1>1, BatchInvariant, PTL

\* A wave that stopped half-way accounts for every member, and reports a
\* cancellation only to a caller that asked for it.
THEOREM OutcomesStayHonest ==
  ASSUME BatchAssumption
  PROVE  BatchSpec => []OutcomesAreHonest
<1>1. BatchInv => OutcomesAreHonest
  BY DEF BatchInv, WriterInv, OutcomesAreHonest, AllJobsCompleted, OnlyTheCallerCancels
<1>. QED
  BY <1>1, BatchInvariant, PTL

\* The budget implements the abstract quota (ImplementsQuota): a wave takes all
\* it needs in one acquisition that fits, and gives it back in one release.
THEOREM BatchImplementsQuota ==
  ASSUME BatchAssumption
  PROVE  BatchSpec => ImplementsQuota
<1>1. BatchInit => WriterBudget!Init
  BY DEF BatchInit, WriterBudget!Init
<1>2. ASSUME BatchInv, BatchInv', [BatchNext]_batchVars
      PROVE  [WriterBudget!Next]_permit
  <2>. SUFFICES ASSUME permit' # permit PROVE WriterBudget!Next
    OBVIOUS
  <2>1. /\ permit \in [Writers -> 0 .. Limit] /\ permit' \in [Writers -> 0 .. Limit]
        /\ used \in 0 .. Limit /\ used' \in 0 .. Limit /\ Limit \in Nat /\ IsFiniteSet(Writers)
        /\ used = Total(permit, Writers, Limit) /\ used' = Total(permit', Writers, Limit)
    BY <1>2 DEF BatchInv, BatchTypeOK, PermitsAreExact, BatchAssumption
  <2>2. PICK w \in Writers : CoordinatorNext(w) \/ \E m \in Members : JobNext(w, m)
    BY <1>2 DEF BatchNext, Ended, batchVars, waveVars
  <2>3. \A v \in Writers \ {w} : permit'[v] = permit[v]
    BY <1>2, <2>2, OneCallMoves DEF BatchInv, Unmoved
  <2>4. permit' = [permit EXCEPT ![w] = permit'[w]] /\ permit'[w] # permit[w]
    BY <2>1, <2>3
  <2>5. used' = used - permit[w] + permit'[w]
    <3>0. IsFiniteSet(Writers) /\ Limit \in Nat /\ permit \in [Writers -> 0 .. Limit]
      BY <2>1
    <3>1. ASSUME NEW g \in [Writers -> 0 .. Limit], \A v \in Writers \ {w} : g[v] = permit[v]
          PROVE  Total(g, Writers, Limit) = Total(permit, Writers, Limit) - permit[w] + g[w]
      BY <3>0, <3>1, TotalUpdate
    <3>. QED
      BY <2>1, <2>3, <3>1
  <2>6. permit[w] \in 0 .. Limit /\ permit'[w] \in 0 .. Limit
    BY <2>1
  <2>7. CASE permit'[w] > permit[w]
    <3>. DEFINE n == permit'[w] - permit[w]
    <3>1. n \in 1 .. Limit /\ used + n <= Limit /\ permit[w] + n = permit'[w]
      BY SMTT(60), <2>1, <2>5, <2>6, <2>7
    <3>2. WriterBudget!Sum(permit) = used
      <4>1. WriterBudget!Units(permit, Writers, Limit) = Units(permit, Writers, Limit)
        BY DEF WriterBudget!Units, Units
      <4>2. \A T : WriterBudget!Cardinality(T) = Cardinality(T)
        BY DEF WriterBudget!Cardinality, Cardinality
      <4>. QED
        BY <2>1, <4>1, <4>2 DEF WriterBudget!Sum, WriterBudget!Total, Total
    <3>3. WriterBudget!Acquire(w, n)
      BY <2>4, <3>1, <3>2 DEF WriterBudget!Acquire
    <3>. QED
      BY <3>1, <3>3 DEF WriterBudget!Next
  <2>8. CASE permit'[w] < permit[w]
    <3>. DEFINE n == permit[w] - permit'[w]
    <3>1. n \in 1 .. Limit /\ n <= permit[w] /\ permit[w] - n = permit'[w]
      BY <2>1, <2>6, <2>8
    <3>2. WriterBudget!Release(w, n)
      BY <2>4, <3>1 DEF WriterBudget!Release
    <3>. QED
      BY <3>1, <3>2 DEF WriterBudget!Next
  <2>. QED
    BY <2>4, <2>6, <2>7, <2>8
<1>. QED
  BY <1>1, <1>2, BatchInvariant, BatchSafety, PTL DEF ImplementsQuota, WriterBudget!Spec
=============================================================================
