--------------------------- MODULE ExtractionProofs ---------------------------
(***************************************************************************)
(* Extraction along its three paths, for every number of members, every    *)
(* limit and every job: the windowed coordinator over the ledger of its    *)
(* workers, the parallel prefix of a solid archive, and the members one    *)
(* after the other.  Each has an invariant of its own; they share nothing  *)
(* but the module.                                                         *)
(***************************************************************************)
EXTENDS Extraction, WorkspaceLedgerProofs, SequenceTheorems

PcStates == {"admit", "alloc", "fill", "reserve", "run", "publish", "drop", "done"}
WorkerStates == {"idle", "queued", "abandoned", "started", "mapping", "retiring", "joined"}

ExtractTypeOK ==
  /\ hint \in [1 .. N -> Nat]
  /\ pc \in PcStates
  /\ first \in 1 .. N + 1 /\ room \in 0 .. Window
  /\ batch \in Seq(1 .. N) /\ Len(batch) <= room /\ first + Len(batch) <= N + 1
  /\ required \in Nat /\ extra \in Nat
  /\ worker \in [Scopes -> WorkerStates]
  /\ result \in [Scopes -> {"none", "ok"} \cup Errors]
  /\ stopped \in BOOLEAN /\ published \in 0 .. N
  /\ outcome \in {"running", "ok", "sink"} \cup Errors

\* What the worker of a slot has of the ledger at each stage.
WorkerOf(s) ==
  /\ worker[s] = "idle" => phase[s] = "none"
  /\ worker[s] \in {"queued", "abandoned"} => phase[s] = "admitted"
  /\ worker[s] \in {"started", "mapping"} => phase[s] = "started"
  /\ worker[s] = "retiring" => phase[s] \in {"admitted", "started"}
  /\ worker[s] = "joined" => phase[s] \in {"none", "retired"}
  /\ handles[s] <= 1
  /\ worker[s] \notin {"started", "mapping"} => handles[s] = 0
  /\ worker[s] = "mapping" => handles[s] = 1
  /\ owner[OutputOf(s)] \in {None, s}
  /\ worker[s] \notin {"mapping", "retiring", "joined"} =>
       owner[OutputOf(s)] = None /\ result[s] = "none"

\* Which stages the coordinator's own stage allows.
StageOf(s) ==
  /\ s \notin Slots => worker[s] = "idle"
  /\ pc \in {"admit", "alloc", "fill", "done"} => worker[s] = "idle"
  /\ pc = "reserve" => worker[s] \in {"idle", "queued"}
  /\ pc = "run" /\ s \in Slots => worker[s] # "idle"
  /\ pc = "publish" /\ s \in Slots => worker[s] = "joined"
  /\ pc = "drop" /\ s \in Slots => worker[s] \in {"joined", "abandoned"}

WorkersInv == \A s \in Scopes : WorkerOf(s) /\ StageOf(s)

\* The slot buffer is there for the whole batch and goes last.
SlotsInv ==
  /\ pc \in {"admit", "done"} => owner[SlotsCharge] = None
  /\ pc \notin {"admit", "done", "drop"} => owner[SlotsCharge] = Global
  /\ pc = "drop" => owner[SlotsCharge] \in {None, Global}
  /\ pc = "drop" /\ owner[SlotsCharge] = None =>
       \A s \in Scopes : owner[OutputOf(s)] = None /\ worker[s] # "abandoned"
  /\ pc = "alloc" => bytes[SlotsCharge] = 0

\* How far publication has come.
ProgressInv ==
  /\ pc \notin {"drop", "done"} => outcome = "running"
  /\ pc = "done" => outcome # "running"
  /\ outcome = "ok" => pc = "done"
  /\ pc \in {"admit", "alloc", "fill", "reserve", "run"} => published = first - 1
  /\ pc = "publish" => first - 1 <= published /\ published < first + Len(batch)
  /\ pc = "drop" /\ outcome = "running" => published = first + Len(batch) - 1
  /\ pc = "admit" => batch = <<>>

\* What the members of the batch come to by their hints.
Demand ==
  [s \in Scopes |-> IF s \in Slots THEN hint[batch[s]] + ReservationBytes ELSE 0]

\* What admission has established of the free part of the limit.
AdmissionInv ==
  /\ pc \in {"alloc", "fill"} => room >= 1 /\ first <= N
  /\ pc = "alloc" => room * FirstCost(first) <= Limit - used
  /\ pc = "fill" =>
       /\ required <= Limit - used
       /\ Demand \in [Scopes -> 0 .. Limit]
       /\ required = Total(Demand, Scopes, Limit + 1)
       /\ Len(batch) = 0 => required = 0 /\ hint[first] + ReservationBytes <= Limit - used
  /\ pc = "reserve" => Promise \in [Scopes -> 0 .. Limit] /\ Fits(Promised)

\* A slot without a good result always has a failed one beside it.
ResultsInv ==
  /\ pc = "reserve" => ~stopped
  /\ pc = "run" =>
       /\ stopped => \E t \in Slots : result[t] \in {"limit", "decode"}
       /\ \A s \in Slots : worker[s] \in {"retiring", "joined"} /\ result[s] = "none" => stopped
       /\ \A s \in Slots : worker[s] = "abandoned" => \E t \in Slots : result[t] = "panic"
  /\ BatchIsWhole

ExtractInv ==
  /\ LedgerInv /\ ExtractTypeOK /\ WorkersInv /\ SlotsInv
  /\ ProgressInv /\ AdmissionInv /\ ResultsInv

----------------------------------------------------------------------------
(* What the scopes and charges of a batch are.                             *)

LEMMA Names ==
  /\ N \in Nat /\ Window \in Nat \ {0} /\ Overhead \in Nat \ {0} /\ MaxNeed \in Nat
  /\ Limit \in Nat /\ ReservationBytes \in Nat \ {0} /\ MaxHandles \in Nat \ {0}
  /\ Scopes = 1 .. Window /\ IsFiniteSet(Scopes) /\ IsFiniteSet(Charges)
  /\ Global # None /\ Global \notin Scopes /\ None \notin Scopes
  /\ SlotsCharge \in Charges
  /\ \A s \in Scopes : OutputOf(s) \in Charges /\ OutputOf(s) # SlotsCharge
  /\ \A s, t \in Scopes : OutputOf(s) = OutputOf(t) => s = t
  /\ \A c \in Charges : c # SlotsCharge => \E s \in Scopes : c = OutputOf(s)
<1>1. /\ N \in Nat /\ Window \in Nat \ {0} /\ Overhead \in Nat \ {0} /\ MaxNeed \in Nat
      /\ Limit \in Nat /\ ReservationBytes \in Nat \ {0} /\ MaxHandles \in Nat \ {0}
      /\ Scopes = 1 .. Window /\ IsFiniteSet(Scopes) /\ IsFiniteSet(Charges)
      /\ Global # None /\ Global \notin Scopes /\ None \notin Scopes
  BY LedgerAssumption, ExtractAssumption DEF LedgerAssumption, ExtractAssumption
<1>2. Charges = {0} \cup (Window + 1 .. 2 * Window)
  BY ExtractAssumption DEF ExtractAssumption
<1>3. SlotsCharge \in Charges /\ SlotsCharge = 0
  BY <1>2 DEF SlotsCharge
<1>4. \A s \in Scopes : OutputOf(s) \in Charges /\ OutputOf(s) # SlotsCharge
  BY <1>1, <1>2, <1>3 DEF OutputOf
<1>5. \A s, t \in Scopes : OutputOf(s) = OutputOf(t) => s = t
  BY <1>1 DEF OutputOf
<1>6. \A c \in Charges : c # SlotsCharge => \E s \in Scopes : c = OutputOf(s)
  <2>1. ASSUME NEW c \in Window + 1 .. 2 * Window PROVE \E s \in Scopes : c = OutputOf(s)
    <3>1. c - Window \in Scopes /\ c = Window + (c - Window)
      BY <1>1, <2>1
    <3>. QED
      BY <3>1 DEF OutputOf
  <2>. QED
    BY <1>2, <1>3, <2>1
<1>. QED
  BY <1>1, <1>3, <1>4, <1>5, <1>6

LEMMA SlotsAreScopes ==
  ASSUME ExtractTypeOK
  PROVE  /\ Slots \subseteq Scopes /\ Len(batch) \in Nat
         /\ \A s \in Slots : batch[s] \in 1 .. N
<1>1. batch \in Seq(1 .. N) /\ Len(batch) <= room /\ room \in 0 .. Window
  BY DEF ExtractTypeOK
<1>2. Len(batch) \in Nat
  BY <1>1, LenProperties
<1>3. \A s \in 1 .. Len(batch) : batch[s] \in 1 .. N
  BY <1>1, ElementOfSeq
<1>4. 1 .. Len(batch) \subseteq Scopes
  BY <1>1, <1>2, Names
<1>. QED
  BY <1>2, <1>3, <1>4 DEF Slots

\* A charge of a scope is the output of its slot.
LEMMA OnlyTheOutput ==
  ASSUME WorkersInv, SlotsInv, pc \in PcStates, NEW s \in Scopes
  PROVE  Dependents(s) \subseteq {OutputOf(s)}
<1>1. owner[SlotsCharge] \notin Scopes
  BY Names DEF SlotsInv
<1>2. \A t \in Scopes : owner[OutputOf(t)] \in {None, t}
  BY DEF WorkersInv, WorkerOf
<1>. QED
  BY <1>1, <1>2, Names DEF Dependents

----------------------------------------------------------------------------
(* Steps of the coordinator that leave the ledger as it is.                *)

LEMMA QuietLedger ==
  ASSUME LedgerInv, UNCHANGED ledgerVars
  PROVE  LedgerInv'
BY LedgerAssumption, LedgerStep

\* The worker of a slot keeps what it has.
LEMMA QuietWorker ==
  ASSUME NEW s \in Scopes, WorkerOf(s), UNCHANGED <<ledgerVars, worker, result>>
  PROVE  WorkerOf(s)'
BY DEF WorkerOf, ledgerVars

\* Complete and Refuse: the call returns between two batches.
LEMMA ReturnStep ==
  ASSUME ExtractInv, Complete \/ Refuse
  PROVE  ExtractInv'
<1>1. /\ pc = "admit" /\ pc' = "done" /\ outcome' \in {"ok", "limit"}
      /\ UNCHANGED ledgerVars
      /\ UNCHANGED <<worker, result, stopped, hint, first, room, batch, required, extra, published>>
  BY DEF Complete, Refuse, workerVars
<1>2. LedgerInv'
  BY <1>1, QuietLedger DEF ExtractInv
<1>3. ExtractTypeOK'
  BY <1>1 DEF ExtractInv, ExtractTypeOK, PcStates, Errors
<1>4. WorkersInv'
  <2>1. \A s \in Scopes : WorkerOf(s)'
    BY <1>1, QuietWorker DEF ExtractInv, WorkersInv
  <2>2. \A s \in Scopes : StageOf(s)'
    BY <1>1 DEF ExtractInv, WorkersInv, StageOf, Slots
  <2>. QED
    BY <2>1, <2>2 DEF WorkersInv
<1>5. SlotsInv' /\ ProgressInv' /\ AdmissionInv' /\ ResultsInv'
  BY <1>1 DEF ExtractInv, SlotsInv, ProgressInv, AdmissionInv, ResultsInv, ledgerVars, BatchIsWhole
<1>. QED
  BY <1>2, <1>3, <1>4, <1>5 DEF ExtractInv

LEMMA AdmitStep ==
  ASSUME ExtractInv, Admit
  PROVE  ExtractInv'
<1>. DEFINE m == first + Len(batch)
<1>1. /\ pc = "fill" /\ UNCHANGED ledgerVars
      /\ batch' = Append(batch, m) /\ required' = required + hint[m] + ReservationBytes
      /\ Len(batch) < room /\ m <= N /\ required + hint[m] + ReservationBytes <= Limit - used
      /\ UNCHANGED <<worker, result, stopped, hint, pc, first, room, extra, published, outcome>>
  BY DEF Admit, Admissible, FitsAfterHint, workerVars
<1>. HIDE DEF m
<1>2. LedgerInv'
  BY <1>1, QuietLedger DEF ExtractInv
<1>3. /\ m \in 1 .. N /\ hint[m] \in Nat /\ Len(batch) \in Nat
      /\ batch \in Seq(1 .. N)
  BY SMTT(60), <1>1, SlotsAreScopes, Names DEF ExtractInv, ExtractTypeOK, m
<1>4. /\ batch' \in Seq(1 .. N) /\ Len(batch') = Len(batch) + 1
      /\ batch'[Len(batch) + 1] = m
      /\ \A s \in Slots : batch'[s] = batch[s]
  BY <1>1, <1>3, AppendProperties DEF Slots
<1>5. ExtractTypeOK'
  <2>1. Len(batch') <= room /\ first + Len(batch') <= N + 1 /\ required' \in Nat
    BY SMTT(60), <1>1, <1>3, <1>4, Names DEF ExtractInv, ExtractTypeOK, m
  <2>. QED
    BY <1>1, <1>4, <2>1 DEF ExtractInv, ExtractTypeOK
<1>6. WorkersInv'
  <2>1. \A s \in Scopes : WorkerOf(s)'
    BY <1>1, QuietWorker DEF ExtractInv, WorkersInv
  <2>2. \A s \in Scopes : StageOf(s)'
    BY <1>1 DEF ExtractInv, WorkersInv, StageOf
  <2>. QED
    BY <2>1, <2>2 DEF WorkersInv
<1>7. SlotsInv' /\ ProgressInv' /\ ResultsInv'
  <2>1. SlotsInv'
    BY <1>1 DEF ExtractInv, SlotsInv, ledgerVars
  <2>2. ProgressInv'
    BY <1>1 DEF ExtractInv, ProgressInv
  <2>3. ResultsInv'
    BY <1>1 DEF ResultsInv, BatchIsWhole
  <2>. QED
    BY <2>1, <2>2, <2>3
<1>8. AdmissionInv'
  <2>. DEFINE k == Len(batch) + 1
              p == hint[m] + ReservationBytes
  <2>1. k \in Scopes /\ Slots' = Slots \cup {k} /\ k \notin Slots /\ Slots \subseteq Scopes
    <3>1. Slots \subseteq Scopes /\ room <= Window /\ room \in Nat
      BY SlotsAreScopes, Names DEF ExtractInv, ExtractTypeOK
    <3>2. k \in Scopes /\ k \notin Slots
      BY <1>1, <1>3, <3>1, Names DEF Slots
    <3>3. Slots' = Slots \cup {k}
      BY <1>3, <1>4 DEF Slots
    <3>. QED
      BY <3>1, <3>2, <3>3
  <2>2. /\ used \in 0 .. Limit /\ required \in Nat
        /\ \A s \in Slots : batch[s] \in 1 .. N /\ hint[batch[s]] \in Nat
    BY SlotsAreScopes DEF ExtractInv, ExtractTypeOK, LedgerInv, LedgerTypeOK
  <2>3. required = Total(Demand, Scopes, Limit + 1) /\ required <= Limit - used
    BY <1>1 DEF ExtractInv, AdmissionInv
  <2>4. p \in 0 .. Limit + 1
    BY SMTT(60), <1>1, <1>3, <2>2, Names
  <2>5. Demand[k] = 0 /\ Demand'[k] = p /\ \A s \in Scopes \ {k} : Demand'[s] = Demand[s]
    BY <1>1, <1>3, <1>4, <2>1 DEF Demand
  <2>6. Demand \in [Scopes -> 0 .. Limit] /\ Demand' \in [Scopes -> 0 .. Limit]
    <3>1. Demand \in [Scopes -> 0 .. Limit]
      BY <1>1 DEF ExtractInv, AdmissionInv
    <3>2. p \in 0 .. Limit
      BY SMTT(60), <1>1, <1>3, <2>2, Names
    <3>3. DOMAIN Demand' = Scopes /\ Demand' = [s \in Scopes |-> Demand'[s]]
      BY DEF Demand
    <3>. QED
      BY <2>1, <2>5, <3>1, <3>2, <3>3
  <2>7. required' = Total(Demand', Scopes, Limit + 1)
    <3>1. Demand \in [Scopes -> 0 .. Limit + 1] /\ Demand' \in [Scopes -> 0 .. Limit + 1]
      BY <2>6, Names
    <3>2. k \in Scopes /\ (\A s \in Scopes \ {k} : Demand'[s] = Demand[s])
      BY <2>1, <2>5
    <3>3. IsFiniteSet(Scopes) /\ Limit + 1 \in Nat
      BY Names
    <3>4. Total(Demand', Scopes, Limit + 1) = Total(Demand, Scopes, Limit + 1) - Demand[k] + Demand'[k]
      <4>. HIDE DEF k, p
      <4>. QED
        BY <3>1, <3>2, <3>3, TotalUpdate
    <3>. QED
      BY SMTT(60), <1>1, <1>3, <2>2, <2>3, <2>4, <2>5, <3>4, Names
  <2>8. required' <= Limit - used'
    BY <1>1 DEF ledgerVars
  <2>9. Len(batch') # 0
    BY <1>3, <1>4
  <2>10. room' >= 1 /\ first' <= N /\ pc' = "fill"
    BY <1>1 DEF ExtractInv, AdmissionInv
  <2>. QED
    BY <2>6, <2>7, <2>8, <2>9, <2>10 DEF AdmissionInv
<1>. QED
  BY <1>2, <1>5, <1>6, <1>7, <1>8 DEF ExtractInv

----------------------------------------------------------------------------
(* Steps of the coordinator that commit memory.                            *)

\* What is counted for each of the slots that a division allows fits in all.
LEMMA DivisionFits ==
  ASSUME NEW r \in Nat, NEW n \in Nat \ {0}, NEW free \in Nat, r <= free \div n
  PROVE  r * n <= free
<1>1. free \div n \in Nat /\ (free \div n) * n <= free
  OBVIOUS
<1>2. r * n <= (free \div n) * n
  BY <1>1
<1>. QED
  <2>. DEFINE q == free \div n
  <2>1. q * n \in Nat /\ r * n \in Nat
    BY <1>1
  <2>. QED
    BY <1>1, <1>2, <2>1

\* One share of what fits several times fits beside a part of all the shares.
LEMMA OneShareFits ==
  ASSUME NEW r \in Nat, r >= 1, NEW a \in Nat, NEW b \in Nat, NEW free \in Nat,
         r * (a + b) <= free
  PROVE  r * b \in Nat /\ a <= free - r * b
<1>1. r * (a + b) = r * a + r * b /\ r * a \in Nat /\ r * b \in Nat
  OBVIOUS
<1>2. r * a >= a
  <2>1. PICK q \in Nat : r = q + 1
    <3>1. r - 1 \in Nat /\ r = (r - 1) + 1
      OBVIOUS
    <3>. QED
      BY <3>1
  <2>2. q * a \in Nat /\ (q + 1) * a = q * a + a
    OBVIOUS
  <2>. QED
    BY <2>1, <2>2
<1>. QED
  BY <1>1, <1>2

LEMMA OpenBatchStep ==
  ASSUME ExtractInv, OpenBatch
  PROVE  ExtractInv'
<1>. DEFINE fit == (Limit - used) \div FirstCost(first)
<1>1. /\ pc = "admit" /\ first <= N /\ Fits(FirstCost(first)) /\ pc' = "alloc"
      /\ NewCharge(SlotsCharge, Global)
      /\ room' = IF fit < Window THEN fit ELSE Window
      /\ UNCHANGED <<worker, result, stopped, hint, first, batch, required, extra, published, outcome>>
  BY DEF OpenBatch, workerVars
<1>2. /\ owner[SlotsCharge] = None /\ owner' = [owner EXCEPT ![SlotsCharge] = Global]
      /\ UNCHANGED <<used, phase, capacity, scopeUsed, handles, bytes>>
  BY <1>1 DEF NewCharge, scopeVars
<1>3. LedgerInv'
  BY <1>1, LedgerAssumption, LedgerStep, Names DEF ExtractInv, LedgerNext
<1>4. /\ FirstCost(first) \in Nat \ {0} /\ Limit - used \in Nat /\ FirstCost(first) <= Limit - used
      /\ Window \in Nat \ {0}
  <2>1. first \in 1 .. N /\ hint[first] \in Nat /\ used \in 0 .. Limit
    BY <1>1, Names DEF ExtractInv, ExtractTypeOK, LedgerInv, LedgerTypeOK
  <2>2. Overhead \in Nat \ {0} /\ ReservationBytes \in Nat \ {0} /\ Limit \in Nat /\ Window \in Nat \ {0}
    BY Names
  <2>3. FirstCost(first) <= Limit - used
    BY <1>1 DEF Fits
  <2>4. FirstCost(first) \in Nat \ {0}
    BY <2>1, <2>2 DEF FirstCost
  <2>. QED
    BY <2>1, <2>2, <2>3, <2>4
<1>5. room' \in Nat /\ room' >= 1 /\ room' <= Window /\ room' * FirstCost(first) <= Limit - used
  <2>1. fit \in Nat /\ fit >= 1
    BY <1>4
  <2>. HIDE DEF fit
  <2>2. room' \in Nat /\ room' >= 1 /\ room' <= Window /\ room' <= fit
    BY <1>1, <1>4, <2>1
  <2>3. room' * FirstCost(first) <= Limit - used
    BY <1>4, <2>2, DivisionFits DEF fit
  <2>. QED
    BY <2>2, <2>3
<1>6. ExtractTypeOK'
  <2>1. Len(batch) = 0
    BY <1>1 DEF ExtractInv, ProgressInv
  <2>. QED
    BY <1>1, <1>5, <2>1, Names DEF ExtractInv, ExtractTypeOK, PcStates
<1>7. WorkersInv'
  <2>1. ASSUME NEW s \in Scopes PROVE WorkerOf(s)' /\ StageOf(s)'
    <3>1. WorkerOf(s) /\ StageOf(s) /\ owner'[OutputOf(s)] = owner[OutputOf(s)]
      BY <1>2, Names DEF ExtractInv, WorkersInv
    <3>2. WorkerOf(s)'
      BY <1>1, <1>2, <3>1 DEF WorkerOf, OutputOf
    <3>3. StageOf(s)'
      BY <1>1, <3>1 DEF StageOf, Slots
    <3>. QED
      BY <3>2, <3>3
  <2>. QED
    BY <2>1 DEF WorkersInv
<1>8. SlotsInv' /\ ProgressInv' /\ ResultsInv'
  <2>1. SlotsInv'
    <3>1. bytes[SlotsCharge] = 0 /\ owner'[SlotsCharge] = Global
      BY <1>2, Names DEF ExtractInv, LedgerInv, LedgerTypeOK, NoOrphanScope
    <3>. QED
      BY <1>1, <1>2, <3>1 DEF SlotsInv
  <2>2. ProgressInv'
    BY <1>1 DEF ExtractInv, ProgressInv
  <2>3. ResultsInv'
    BY <1>1 DEF ResultsInv, BatchIsWhole
  <2>. QED
    BY <2>1, <2>2, <2>3
<1>9. AdmissionInv'
  BY <1>1, <1>2, <1>5 DEF AdmissionInv, FirstCost
<1>. QED
  BY <1>3, <1>6, <1>7, <1>8, <1>9 DEF ExtractInv

LEMMA AllocateSlotsStep ==
  ASSUME ExtractInv, AllocateSlots
  PROVE  ExtractInv'
<1>. DEFINE n == room * Overhead
<1>1. /\ pc = "alloc" /\ pc' = "fill" /\ batch' = <<>> /\ required' = 0
      /\ GrowGlobal(SlotsCharge, n)
      /\ UNCHANGED <<worker, result, stopped, hint, first, room, extra, published, outcome>>
  BY DEF AllocateSlots, workerVars
<1>2. room >= 1 /\ first \in 1 .. N /\ room * FirstCost(first) <= Limit - used /\ bytes[SlotsCharge] = 0
  BY <1>1 DEF ExtractInv, ExtractTypeOK, AdmissionInv, SlotsInv
<1>3. /\ room \in Nat /\ Overhead \in Nat /\ ReservationBytes \in Nat /\ used \in 0 .. Limit
      /\ Limit \in Nat /\ hint[first] \in Nat /\ Limit - used \in Nat
  BY <1>2, Names DEF ExtractInv, ExtractTypeOK, LedgerInv, LedgerTypeOK
<1>4. n \in Nat /\ hint[first] + ReservationBytes <= (Limit - used) - n
  <2>1. room * ((hint[first] + ReservationBytes) + Overhead) <= Limit - used
    <3>1. FirstCost(first) = (hint[first] + ReservationBytes) + Overhead
      BY <1>3 DEF FirstCost
    <3>. QED
      BY <1>2, <3>1
  <2>2. hint[first] + ReservationBytes \in Nat
    BY <1>3
  <2>. QED
    BY <1>2, <1>3, <2>1, <2>2, OneShareFits
<1>. HIDE DEF n
<1>5. n \in 0 .. Limit
  BY <1>3, <1>4
<1>6. /\ used' = used + n /\ UNCHANGED <<phase, capacity, scopeUsed, handles, owner>>
  BY <1>1, <1>2, <1>3, <1>4 DEF GrowGlobal, scopeVars
<1>7. LedgerInv'
  <2>1. \E c \in Charges : \E k \in 0 .. Limit : GrowGlobal(c, k)
    BY <1>1, <1>5, Names
  <2>2. LedgerNext
    BY <2>1 DEF LedgerNext
  <2>. QED
    BY <2>2, LedgerAssumption, LedgerStep DEF ExtractInv
<1>8. Len(batch') = 0 /\ batch' \in Seq(1 .. N) /\ Slots' = {}
  <2>1. Len(batch') = 0 /\ batch' \in Seq(1 .. N)
    BY <1>1, EmptySeq
  <2>. QED
    BY <2>1 DEF Slots
<1>9. ExtractTypeOK'
  BY <1>1, <1>2, <1>8, Names DEF ExtractInv, ExtractTypeOK, PcStates
<1>10. WorkersInv'
  <2>1. ASSUME NEW s \in Scopes PROVE WorkerOf(s)' /\ StageOf(s)'
    <3>1. WorkerOf(s) /\ worker[s] = "idle"
      BY <1>1 DEF ExtractInv, WorkersInv, StageOf
    <3>2. WorkerOf(s)'
      BY <1>1, <1>6, <3>1 DEF WorkerOf, OutputOf
    <3>3. StageOf(s)'
      BY <1>1, <3>1 DEF StageOf
    <3>. QED
      BY <3>2, <3>3
  <2>. QED
    BY <2>1 DEF WorkersInv
<1>11. SlotsInv' /\ ProgressInv' /\ ResultsInv'
  <2>1. SlotsInv'
    BY <1>1, <1>6 DEF ExtractInv, SlotsInv
  <2>2. ProgressInv'
    BY <1>1 DEF ExtractInv, ProgressInv
  <2>3. ResultsInv'
    BY <1>1 DEF ResultsInv, BatchIsWhole
  <2>. QED
    BY <2>1, <2>2, <2>3
<1>12. AdmissionInv'
  <2>1. Demand' = [s \in Scopes |-> 0]
    BY <1>8 DEF Demand
  <2>2. Demand' \in [Scopes -> 0 .. Limit + 1] /\ Demand' \in [Scopes -> 0 .. Limit]
        /\ \A s \in Scopes : Demand'[s] = 0
    BY <2>1, <1>3
  <2>3. Total(Demand', Scopes, Limit + 1) = 0
    <3>1. IsFiniteSet(Scopes) /\ Limit + 1 \in Nat
      BY Names
    <3>. QED
      BY <2>2, <3>1, TotalZero
  <2>4. hint[first] + ReservationBytes <= Limit - used' /\ 0 <= Limit - used'
    BY <1>3, <1>4, <1>6
  <2>. QED
    BY <1>1, <1>2, <2>2, <2>3, <2>4 DEF AdmissionInv
<1>. QED
  BY <1>7, <1>9, <1>10, <1>11, <1>12 DEF ExtractInv

\* What closing a batch leaves of the free part covers every promise it makes.
LEMMA CloseBatchStep ==
  ASSUME ExtractInv, CloseBatch
  PROVE  ExtractInv'
<1>. DEFINE free == Limit - used
            spare == free - required
            k == Len(batch)
<1>1. /\ pc = "fill" /\ pc' = "reserve" /\ ~Admissible(first + k)
      /\ extra' = ShareSpare /\ stopped' = FALSE /\ UNCHANGED ledgerVars
      /\ UNCHANGED <<worker, result, hint, first, room, batch, required, published, outcome>>
  BY DEF CloseBatch
<1>2. /\ room >= 1 /\ first <= N /\ required <= free
      /\ Demand \in [Scopes -> 0 .. Limit]
      /\ required = Total(Demand, Scopes, Limit + 1)
      /\ Len(batch) = 0 => required = 0 /\ hint[first] + ReservationBytes <= free
  BY <1>1 DEF ExtractInv, AdmissionInv
<1>3. /\ first \in 1 .. N /\ hint[first] \in Nat /\ k \in Nat /\ room \in Nat /\ used \in 0 .. Limit
      /\ required \in Nat /\ Limit \in Nat /\ ReservationBytes \in Nat /\ free \in Nat /\ free <= Limit
  <2>1. Limit \in Nat /\ ReservationBytes \in Nat /\ N \in Nat
    BY Names
  <2>2. used \in 0 .. Limit
    BY DEF ExtractInv, LedgerInv, LedgerTypeOK
  <2>3. first \in 1 .. N /\ hint[first] \in Nat /\ room \in Nat /\ required \in Nat
    BY <1>2, <2>1 DEF ExtractInv, ExtractTypeOK
  <2>4. k \in Nat
    BY SlotsAreScopes DEF ExtractInv
  <2>. QED
    BY <2>1, <2>2, <2>3, <2>4
<1>4. k \in Nat \ {0} /\ spare \in Nat
  <2>1. k # 0
    <3>1. SUFFICES ASSUME k = 0 PROVE Admissible(first + k)
      BY <1>1
    <3>2. first + k = first /\ required + hint[first] + ReservationBytes <= Limit - used
      BY <1>2, <1>3, <3>1
    <3>. QED
      BY <1>2, <1>3, <3>1, <3>2 DEF Admissible, FitsAfterHint
  <2>. QED
    BY <1>2, <1>3, <2>1
<1>5. extra' \in Nat /\ k * extra' <= spare /\ extra' <= spare
  <2>1. extra' = spare \div k
    BY <1>1 DEF ShareSpare
  <2>. HIDE DEF spare, k
  <2>. QED
    BY <1>4, <2>1
<1>6. LedgerInv'
  BY <1>1, QuietLedger DEF ExtractInv
<1>7. ExtractTypeOK'
  BY <1>1, <1>5 DEF ExtractInv, ExtractTypeOK, PcStates
<1>8. WorkersInv'
  <2>1. \A s \in Scopes : WorkerOf(s)'
    BY <1>1, QuietWorker DEF ExtractInv, WorkersInv
  <2>2. \A s \in Scopes : StageOf(s)'
    BY <1>1 DEF ExtractInv, WorkersInv, StageOf, Slots
  <2>. QED
    BY <2>1, <2>2 DEF WorkersInv
<1>9. SlotsInv' /\ ProgressInv' /\ ResultsInv'
  <2>1. SlotsInv'
    BY <1>1 DEF ExtractInv, SlotsInv, ledgerVars
  <2>2. ProgressInv'
    BY <1>1 DEF ExtractInv, ProgressInv
  <2>3. ResultsInv'
    BY <1>1 DEF ResultsInv, BatchIsWhole
  <2>. QED
    BY <2>1, <2>2, <2>3
<1>10. Promise' \in [Scopes -> 0 .. Limit] /\ Total(Promise', Scopes, Limit + 1) <= free
  <2>1. Slots' = Slots /\ Slots \in SUBSET Scopes /\ Cardinality(Slots) = k
    <3>1. Slots' = Slots /\ Slots = 1 .. k
      BY <1>1 DEF Slots
    <3>2. Slots \in SUBSET Scopes
      BY SlotsAreScopes DEF ExtractInv
    <3>3. Cardinality(1 .. k) = k
      <4>. HIDE DEF k
      <4>. QED
        BY <1>3, FS_Interval
    <3>. QED
      BY <3>1, <3>2, <3>3
  <2>2. \A s \in Scopes : phase'[s] = "none"
    BY <1>1 DEF ExtractInv, WorkersInv, WorkerOf, StageOf, ledgerVars
  <2>3. \A s \in Slots : hint[batch[s]] \in Nat
    BY SlotsAreScopes DEF ExtractInv, ExtractTypeOK
  <2>4. \A s \in Slots : Promise'[s] = Demand[s] + extra'
    BY <1>1, <1>3, <1>5, <2>1, <2>2, <2>3 DEF Promise, Demand
  <2>5. \A s \in Scopes \ Slots : Promise'[s] = Demand[s]
    BY <2>1 DEF Promise, Demand
  <2>6. Demand \in [Scopes -> 0 .. Limit + 1] /\ IsFiniteSet(Scopes) /\ Limit + 1 \in Nat
    BY <1>2, <1>3, Names
  <2>7. \A s \in Scopes : Demand[s] <= required
    BY <1>2, <2>6, TotalMember
  <2>8. \A s \in Scopes : Promise'[s] \in 0 .. Limit
    BY SMTT(60), <1>2, <1>3, <1>4, <1>5, <2>1, <2>4, <2>5, <2>7
  <2>9. DOMAIN Promise' = Scopes /\ Promise' = [s \in Scopes |-> Promise'[s]]
    BY DEF Promise
  <2>10. Promise' \in [Scopes -> 0 .. Limit]
    BY <2>8, <2>9
  <2>11. Promise' \in [Scopes -> 0 .. Limit + 1]
    BY <1>3, <2>10
  <2>12. Total(Promise', Scopes, Limit + 1) = Total(Demand, Scopes, Limit + 1) + Cardinality(Slots) * extra'
    <3>. HIDE DEF free, spare, k
    <3>. QED
      BY SMTT(60), <1>5, <2>1, <2>4, <2>5, <2>6, <2>11, TotalShare
  <2>13. required + k * extra' <= free
    <3>1. k * extra' \in Nat
      BY <1>4, <1>5
    <3>. QED
      BY <1>3, <1>4, <1>5, <3>1
  <2>. QED
    BY <1>2, <2>1, <2>10, <2>12, <2>13
<1>11. AdmissionInv'
  BY <1>1, <1>10 DEF AdmissionInv, Fits, Promised, ledgerVars
<1>. QED
  BY <1>6, <1>7, <1>8, <1>9, <1>11 DEF ExtractInv

\* A reservation takes exactly what was promised to its slot.
LEMMA ReserveSlotStep ==
  ASSUME ExtractInv, ReserveSlot
  PROVE  ExtractInv'
<1>1. PICK s \in Slots : s = NextSlot /\ phase[s] = "none"
  <2>. DEFINE T == {t \in Slots : phase[t] = "none"}
  <2>1. T \in SUBSET Nat /\ T # {}
    BY DEF ReserveSlot, Slots
  <2>2. Min(T) \in T /\ \A t \in T : Min(T) <= t
    BY <2>1, MinExists
  <2>3. PICK s \in T : \A t \in T : s <= t
    BY <2>2
  <2>4. \A t \in Slots : t < s => phase[t] # "none"
    BY <2>1, <2>3
  <2>5. \E x \in Slots : phase[x] = "none" /\ \A t \in Slots : t < x => phase[t] # "none"
    BY <2>3, <2>4
  <2>. QED
    BY <2>5 DEF NextSlot
<1>. DEFINE cap == hint[batch[s]] + extra
<1>2. /\ pc = "reserve" /\ Reserve(s, cap)
      /\ worker' = [worker EXCEPT ![s] = "queued"]
      /\ UNCHANGED <<result, stopped, hint, pc, first, room, batch, required, extra, published, outcome>>
  BY <1>1 DEF ReserveSlot, coordVars
<1>3. /\ s \in Scopes /\ cap \in Nat /\ used \in 0 .. Limit /\ Slots \subseteq Scopes
      /\ Limit \in Nat /\ ReservationBytes \in Nat
  <2>1. Slots \subseteq Scopes /\ batch[s] \in 1 .. N
    BY <1>1, SlotsAreScopes DEF ExtractInv
  <2>2. hint[batch[s]] \in Nat /\ extra \in Nat
    BY <2>1 DEF ExtractInv, ExtractTypeOK
  <2>3. used \in 0 .. Limit
    BY DEF ExtractInv, LedgerInv, LedgerTypeOK
  <2>. QED
    BY <1>1, <2>1, <2>2, <2>3, Names
<1>. HIDE DEF cap
<1>4. /\ phase[s] = "none" /\ cap + ReservationBytes <= Limit - used
      /\ used' = used + cap + ReservationBytes
      /\ phase' = [phase EXCEPT ![s] = "admitted"]
      /\ UNCHANGED <<scopeUsed, handles, owner, bytes>>
  BY <1>2 DEF Reserve, Fits, chargeVars
<1>5. LedgerInv'
  <2>1. cap \in 0 .. Limit
    BY <1>3, <1>4
  <2>2. LedgerNext
    BY <1>2, <1>3, <2>1 DEF LedgerNext
  <2>. QED
    BY <2>2, LedgerAssumption, LedgerStep DEF ExtractInv
<1>6. ExtractTypeOK'
  BY <1>2, <1>3 DEF ExtractInv, ExtractTypeOK, WorkerStates
<1>7. phase \in [Scopes -> Phases] /\ worker \in [Scopes -> WorkerStates]
  BY DEF ExtractInv, ExtractTypeOK, LedgerInv, LedgerTypeOK
<1>8. WorkersInv'
  <2>1. ASSUME NEW t \in Scopes PROVE WorkerOf(t)' /\ StageOf(t)'
    <3>1. WorkerOf(t) /\ StageOf(t)
      BY DEF ExtractInv, WorkersInv
    <3>2. CASE t = s
      <4>1. worker[s] = "idle" /\ worker'[s] = "queued" /\ phase'[s] = "admitted"
        BY <1>1, <1>2, <1>3, <1>4, <1>7, <3>1, <3>2 DEF WorkerOf, StageOf
      <4>2. WorkerOf(t)'
        BY <1>2, <1>4, <3>1, <3>2, <4>1 DEF WorkerOf, OutputOf
      <4>3. StageOf(t)'
        BY <1>1, <1>2, <3>1, <3>2, <4>1 DEF StageOf, Slots
      <4>. QED
        BY <4>2, <4>3
    <3>3. CASE t # s
      <4>1. worker'[t] = worker[t] /\ phase'[t] = phase[t]
        BY <1>2, <1>4, <1>7, <3>3
      <4>2. WorkerOf(t)'
        BY <1>2, <1>4, <3>1, <4>1 DEF WorkerOf, OutputOf
      <4>3. StageOf(t)'
        BY <1>2, <3>1, <4>1 DEF StageOf, Slots
      <4>. QED
        BY <4>2, <4>3
    <3>. QED
      BY <3>2, <3>3
  <2>. QED
    BY <2>1 DEF WorkersInv
<1>9. SlotsInv' /\ ProgressInv' /\ ResultsInv'
  <2>1. SlotsInv'
    BY <1>2, <1>4 DEF ExtractInv, SlotsInv
  <2>2. ProgressInv'
    BY <1>2 DEF ExtractInv, ProgressInv
  <2>3. ResultsInv'
    BY <1>2 DEF ExtractInv, ResultsInv, BatchIsWhole
  <2>. QED
    BY <2>1, <2>2, <2>3
<1>10. AdmissionInv'
  <2>1. Promise \in [Scopes -> 0 .. Limit] /\ Total(Promise, Scopes, Limit + 1) <= Limit - used
    BY <1>2 DEF ExtractInv, AdmissionInv, Fits, Promised
  <2>2. Promise[s] = cap + ReservationBytes
    BY <1>1, <1>3 DEF Promise, cap
  <2>3. Slots' = Slots
    BY <1>2 DEF Slots
  <2>4. Promise'[s] = 0
    BY <1>3, <1>4, <1>7 DEF Promise
  <2>5. \A t \in Scopes \ {s} : Promise'[t] = Promise[t]
    BY <1>2, <1>4, <1>7, <2>3 DEF Promise
  <2>6. Promise' \in [Scopes -> 0 .. Limit]
    <3>1. DOMAIN Promise' = Scopes /\ Promise' = [t \in Scopes |-> Promise'[t]]
      BY DEF Promise
    <3>. QED
      BY <1>3, <2>1, <2>4, <2>5, <3>1
  <2>7. Promise \in [Scopes -> 0 .. Limit + 1] /\ Promise' \in [Scopes -> 0 .. Limit + 1]
    BY <1>3, <2>1, <2>6
  <2>8. IsFiniteSet(Scopes) /\ Limit + 1 \in Nat
    BY Names
  <2>9. Total(Promise', Scopes, Limit + 1) = Total(Promise, Scopes, Limit + 1) - Promise[s] + Promise'[s]
    BY <1>3, <2>5, <2>7, <2>8, TotalUpdate
  <2>10. Total(Promise, Scopes, Limit + 1) \in Nat
    BY <2>8, TotalFinite
  <2>11. Total(Promise', Scopes, Limit + 1) <= Limit - used'
    BY <1>3, <1>4, <2>1, <2>2, <2>4, <2>9, <2>10
  <2>. QED
    BY <1>2, <2>6, <2>11 DEF AdmissionInv, Fits, Promised
<1>. QED
  BY <1>5, <1>6, <1>8, <1>9, <1>10 DEF ExtractInv

LEMMA DispatchStep ==
  ASSUME ExtractInv, Dispatch
  PROVE  ExtractInv'
<1>1. /\ pc = "reserve" /\ pc' = "run" /\ (\A s \in Slots : phase[s] # "none") /\ UNCHANGED ledgerVars
      /\ UNCHANGED <<worker, result, stopped, hint, first, room, batch, required, extra, published, outcome>>
  BY DEF Dispatch, workerVars
<1>2. LedgerInv'
  BY <1>1, QuietLedger DEF ExtractInv
<1>3. ExtractTypeOK'
  BY <1>1 DEF ExtractInv, ExtractTypeOK, PcStates
<1>4. WorkersInv'
  <2>1. \A s \in Scopes : WorkerOf(s)'
    BY <1>1, QuietWorker DEF ExtractInv, WorkersInv
  <2>2. \A s \in Scopes : StageOf(s)'
    BY <1>1 DEF ExtractInv, WorkersInv, WorkerOf, StageOf, Slots
  <2>. QED
    BY <2>1, <2>2 DEF WorkersInv
<1>5. SlotsInv'
  BY <1>1 DEF ExtractInv, SlotsInv, ledgerVars
<1>6. ProgressInv' /\ AdmissionInv'
  BY <1>1 DEF ExtractInv, ProgressInv, AdmissionInv
<1>7. ResultsInv'
  <2>1. \A s \in Slots : worker[s] \in {"idle", "queued"}
    BY <1>1, SlotsAreScopes DEF ExtractInv, WorkersInv, StageOf
  <2>2. ~stopped /\ Slots' = Slots
    BY <1>1 DEF ExtractInv, ResultsInv, Slots
  <2>3. \A s \in Slots : worker'[s] \in {"idle", "queued"}
    BY <1>1, <2>1
  <2>. QED
    BY <1>1, <2>2, <2>3 DEF ResultsInv, BatchIsWhole
<1>. QED
  BY <1>2, <1>3, <1>4, <1>5, <1>6, <1>7 DEF ExtractInv

----------------------------------------------------------------------------
(* Steps of the workers.                                                   *)

\* A ledger operation keeps the ledger's invariant.
LEMMA LedgerMoves ==
  ASSUME LedgerInv, NEW s \in Scopes,
         \/ Start(s) \/ CloneHandle(s) \/ DropHandle(s) \/ Retire(s)
         \/ NewCharge(OutputOf(s), s) \/ DropCharge(OutputOf(s))
         \/ \E n \in 0 .. Limit : GrowScoped(OutputOf(s), n) \/ ShrinkScoped(OutputOf(s), n)
  PROVE  LedgerInv'
<1>1. OutputOf(s) \in Charges
  BY Names
<1>2. LedgerNext
  BY <1>1 DEF LedgerNext
<1>. QED
  BY <1>2, LedgerAssumption, LedgerStep

\* What a step of one worker may change without breaking what the others and the
\* coordinator rely on.
LEMMA OneWorker ==
  ASSUME ExtractInv, NEW s \in Slots, UNCHANGED coordVars, LedgerInv',
         pc = "run" \/ (pc = "drop" /\ worker'[s] # "abandoned"),
         worker' \in [Scopes -> WorkerStates],
         result' \in [Scopes -> {"none", "ok"} \cup Errors], stopped' \in BOOLEAN,
         WorkerOf(s)', StageOf(s)',
         \A t \in Scopes \ {s} :
           /\ worker'[t] = worker[t] /\ result'[t] = result[t]
           /\ phase'[t] = phase[t] /\ handles'[t] = handles[t]
           /\ owner'[OutputOf(t)] = owner[OutputOf(t)],
         owner'[SlotsCharge] = owner[SlotsCharge],
         pc = "drop" => owner'[OutputOf(s)] = owner[OutputOf(s)],
         result[s] \in Errors => result'[s] = result[s],
         stopped => stopped',
         pc = "run" =>
           /\ stopped' => stopped \/ result'[s] \in {"limit", "decode"}
           /\ worker'[s] \in {"retiring", "joined"} /\ result'[s] = "none" => stopped'
           /\ worker'[s] = "abandoned" => \E t \in Slots : result'[t] = "panic"
  PROVE  ExtractInv'
<1>1. /\ UNCHANGED <<hint, pc, first, room, batch, required, extra, published, outcome>>
      /\ Slots' = Slots /\ Slots \subseteq Scopes /\ s \in Scopes
  BY SlotsAreScopes DEF coordVars, Slots, ExtractInv
<1>2. ExtractTypeOK'
  BY <1>1 DEF ExtractInv, ExtractTypeOK
<1>3. WorkersInv'
  <2>1. ASSUME NEW t \in Scopes \ {s} PROVE WorkerOf(t)' /\ StageOf(t)'
    <3>1. WorkerOf(t) /\ StageOf(t)
      BY DEF ExtractInv, WorkersInv
    <3>2. WorkerOf(t)'
      BY <3>1 DEF WorkerOf, OutputOf
    <3>3. StageOf(t)'
      BY <1>1, <3>1 DEF StageOf
    <3>. QED
      BY <3>2, <3>3
  <2>. QED
    BY <2>1 DEF WorkersInv
<1>4. SlotsInv'
  <2>1. pc = "drop" /\ owner'[SlotsCharge] = None =>
          \A t \in Scopes : owner'[OutputOf(t)] = None /\ worker'[t] # "abandoned"
    BY <1>1 DEF ExtractInv, SlotsInv
  <2>2. pc = "alloc" => bytes'[SlotsCharge] = 0
    OBVIOUS
  <2>. QED
    BY <1>1, <2>1, <2>2 DEF ExtractInv, SlotsInv, OutputOf, SlotsCharge
<1>5. ProgressInv'
  BY <1>1 DEF ExtractInv, ProgressInv
<1>6. AdmissionInv'
  BY <1>1 DEF AdmissionInv
<1>7. ResultsInv'
  <2>1. ASSUME pc = "run" PROVE ResultsInv'
    <3>1. \A t \in Slots : result[t] \in Errors => result'[t] = result[t]
      BY <1>1
    <3>2. stopped' => \E t \in Slots : result'[t] \in {"limit", "decode"}
      <4>1. ASSUME stopped PROVE \E t \in Slots : result'[t] \in {"limit", "decode"}
        <5>1. PICK t \in Slots : result[t] \in {"limit", "decode"}
          BY <2>1, <4>1 DEF ExtractInv, ResultsInv
        <5>. QED
          BY <3>1, <5>1 DEF Errors
      <4>. QED
        BY <2>1, <4>1
    <3>3. ASSUME NEW t \in Slots, worker'[t] \in {"retiring", "joined"}, result'[t] = "none" PROVE stopped'
      <4>1. CASE t = s
        BY <2>1, <3>3, <4>1
      <4>2. CASE t # s
        BY <1>1, <2>1, <3>3, <4>2 DEF ExtractInv, ResultsInv
      <4>. QED
        BY <4>1, <4>2
    <3>4. ASSUME NEW t \in Slots, worker'[t] = "abandoned" PROVE \E u \in Slots : result'[u] = "panic"
      <4>1. CASE t = s
        BY <2>1, <3>4, <4>1
      <4>2. CASE t # s
        <5>1. PICK u \in Slots : result[u] = "panic"
          BY <1>1, <2>1, <3>4, <4>2 DEF ExtractInv, ResultsInv
        <5>. QED
          BY <3>1, <5>1 DEF Errors
      <4>. QED
        BY <4>1, <4>2
    <3>. QED
      BY <1>1, <2>1, <3>2, <3>3, <3>4 DEF ResultsInv, BatchIsWhole
  <2>2. ASSUME pc = "drop" PROVE ResultsInv'
    BY <1>1, <2>2 DEF ResultsInv, BatchIsWhole
  <2>. QED
    BY <2>1, <2>2
<1>. QED
  BY <1>2, <1>3, <1>4, <1>5, <1>6, <1>7 DEF ExtractInv

\* A busy worker belongs to a slot of a batch that runs.
LEMMA BusyWorker ==
  ASSUME ExtractInv, NEW s \in Scopes, worker[s] \notin {"idle", "queued", "joined", "abandoned"}
  PROVE  s \in Slots /\ pc = "run"
BY DEF ExtractInv, ExtractTypeOK, PcStates, WorkersInv, StageOf

LEMMA SkipWorkStep ==
  ASSUME ExtractInv, NEW s \in Scopes, SkipWork(s)
  PROVE  ExtractInv'
<1>1. /\ pc = "run" /\ worker[s] = "queued" /\ stopped
      /\ worker' = [worker EXCEPT ![s] = "retiring"]
      /\ UNCHANGED ledgerVars /\ UNCHANGED coordVars /\ UNCHANGED <<result, stopped>>
  BY DEF SkipWork
<1>2. WorkerOf(s) /\ StageOf(s) /\ s \in Slots
  BY <1>1 DEF ExtractInv, WorkersInv, StageOf
<1>3. worker \in [Scopes -> WorkerStates] /\ result \in [Scopes -> {"none", "ok"} \cup Errors]
      /\ stopped \in BOOLEAN
  BY DEF ExtractInv, ExtractTypeOK
<1>4. worker' \in [Scopes -> WorkerStates] /\ worker'[s] = "retiring"
      /\ \A t \in Scopes \ {s} : worker'[t] = worker[t]
  BY <1>1, <1>3 DEF WorkerStates
<1>5. WorkerOf(s)'
  BY <1>1, <1>2, <1>4 DEF WorkerOf, ledgerVars, OutputOf
<1>6. StageOf(s)'
  BY <1>1, <1>2, <1>4 DEF StageOf, coordVars, Slots
<1>7. LedgerInv'
  BY <1>1, QuietLedger DEF ExtractInv
<1>. QED
  BY <1>1, <1>2, <1>3, <1>4, <1>5, <1>6, <1>7, OneWorker DEF ledgerVars

LEMMA AbandonStep ==
  ASSUME ExtractInv, NEW s \in Scopes, Abandon(s)
  PROVE  ExtractInv'
<1>1. /\ pc = "run" /\ worker[s] = "queued"
      /\ \E t \in Slots : result[t] = "panic"
      /\ worker' = [worker EXCEPT ![s] = "abandoned"]
      /\ UNCHANGED ledgerVars /\ UNCHANGED coordVars /\ UNCHANGED <<result, stopped>>
  BY DEF Abandon
<1>2. WorkerOf(s) /\ StageOf(s) /\ s \in Slots
  BY <1>1 DEF ExtractInv, WorkersInv, StageOf
<1>3. worker \in [Scopes -> WorkerStates] /\ result \in [Scopes -> {"none", "ok"} \cup Errors]
      /\ stopped \in BOOLEAN
  BY DEF ExtractInv, ExtractTypeOK
<1>4. worker' \in [Scopes -> WorkerStates] /\ worker'[s] = "abandoned"
      /\ \A t \in Scopes \ {s} : worker'[t] = worker[t]
  BY <1>1, <1>3 DEF WorkerStates
<1>5. WorkerOf(s)'
  BY <1>1, <1>2, <1>4 DEF WorkerOf, ledgerVars, OutputOf
<1>6. StageOf(s)'
  BY <1>1, <1>2, <1>4 DEF StageOf, coordVars, Slots
<1>7. LedgerInv'
  BY <1>1, QuietLedger DEF ExtractInv
<1>8. \E t \in Slots : result'[t] = "panic"
  BY <1>1
<1>. QED
  BY <1>1, <1>2, <1>3, <1>4, <1>5, <1>6, <1>7, <1>8, OneWorker DEF ledgerVars

LEMMA BeginWorkStep ==
  ASSUME ExtractInv, NEW s \in Scopes, BeginWork(s)
  PROVE  ExtractInv'
<1>1. /\ pc = "run" /\ worker[s] = "queued" /\ Start(s)
      /\ worker' = [worker EXCEPT ![s] = "started"]
      /\ UNCHANGED coordVars /\ UNCHANGED <<result, stopped>>
  BY DEF BeginWork
<1>2. WorkerOf(s) /\ StageOf(s) /\ s \in Slots
  BY <1>1 DEF ExtractInv, WorkersInv, StageOf
<1>3. worker \in [Scopes -> WorkerStates] /\ result \in [Scopes -> {"none", "ok"} \cup Errors]
      /\ stopped \in BOOLEAN
  BY DEF ExtractInv, ExtractTypeOK
<1>30. /\ phase \in [Scopes -> Phases] /\ handles \in [Scopes -> 0 .. MaxHandles]
       /\ owner \in [Charges -> Scopes \cup {Global, None}]
  BY DEF ExtractInv, LedgerInv, LedgerTypeOK
<1>4. worker' \in [Scopes -> WorkerStates] /\ worker'[s] = "started"
      /\ \A t \in Scopes \ {s} : worker'[t] = worker[t]
  BY <1>1, <1>3 DEF WorkerStates
<1>40. /\ phase' = [phase EXCEPT ![s] = "started"] /\ UNCHANGED <<handles, owner>>
  BY <1>1 DEF Start, chargeVars
<1>5. WorkerOf(s)'
  BY <1>1, <1>2, <1>4, <1>30, <1>40 DEF WorkerOf, OutputOf
<1>6. StageOf(s)'
  BY <1>1, <1>2, <1>4 DEF StageOf, coordVars, Slots
<1>7. LedgerInv'
  BY <1>1, LedgerMoves DEF ExtractInv
<1>8. \A t \in Scopes \ {s} : phase'[t] = phase[t]
  BY <1>30, <1>40
<1>. QED
  BY <1>1, <1>2, <1>3, <1>4, <1>40, <1>5, <1>6, <1>7, <1>8, OneWorker

LEMMA EnterMapStep ==
  ASSUME ExtractInv, NEW s \in Scopes, EnterMap(s)
  PROVE  ExtractInv'
<1>1. /\ worker[s] = "started" /\ UNCHANGED coordVars /\ UNCHANGED <<result, stopped>>
      /\ IF handles[s] = 0 THEN CloneHandle(s) /\ UNCHANGED worker
                            ELSE NewCharge(OutputOf(s), s) /\ worker' = [worker EXCEPT ![s] = "mapping"]
  BY DEF EnterMap
<1>2. WorkerOf(s) /\ StageOf(s) /\ s \in Slots /\ pc = "run"
  BY <1>1, BusyWorker DEF ExtractInv, WorkersInv
<1>3. worker \in [Scopes -> WorkerStates] /\ result \in [Scopes -> {"none", "ok"} \cup Errors]
      /\ stopped \in BOOLEAN
  BY DEF ExtractInv, ExtractTypeOK
<1>30. /\ phase \in [Scopes -> Phases] /\ handles \in [Scopes -> 0 .. MaxHandles]
       /\ owner \in [Charges -> Scopes \cup {Global, None}]
  BY DEF ExtractInv, LedgerInv, LedgerTypeOK
<1>31. OutputOf(s) \in Charges /\ OutputOf(s) # SlotsCharge /\ \A t \in Scopes \ {s} : OutputOf(t) \in Charges /\ OutputOf(t) # OutputOf(s)
  BY Names
<1>4. CASE handles[s] = 0
  <2>1. /\ handles' = [handles EXCEPT ![s] = @ + 1] /\ UNCHANGED <<phase, owner, worker>> /\ CloneHandle(s)
    BY <1>1, <1>4 DEF CloneHandle, chargeVars
  <2>2. handles'[s] = 1 /\ \A t \in Scopes \ {s} : handles'[t] = handles[t]
    BY <1>30, <1>4, <2>1
  <2>3. WorkerOf(s)'
    BY <1>1, <1>2, <2>1, <2>2 DEF WorkerOf, OutputOf
  <2>4. StageOf(s)'
    BY <1>1, <1>2, <2>1 DEF StageOf, coordVars, Slots
  <2>5. LedgerInv'
    BY <2>1, LedgerMoves DEF ExtractInv
  <2>. QED
    BY <1>1, <1>2, <1>3, <2>1, <2>2, <2>3, <2>4, <2>5, OneWorker
<1>5. CASE handles[s] # 0
  <2>1. /\ owner' = [owner EXCEPT ![OutputOf(s)] = s] /\ UNCHANGED <<phase, handles>>
        /\ worker' = [worker EXCEPT ![s] = "mapping"] /\ NewCharge(OutputOf(s), s)
    BY <1>1, <1>5 DEF NewCharge, scopeVars
  <2>2. owner'[OutputOf(s)] = s /\ owner'[SlotsCharge] = owner[SlotsCharge]
        /\ \A t \in Scopes \ {s} : owner'[OutputOf(t)] = owner[OutputOf(t)]
    BY <1>30, <1>31, <2>1, Names
  <2>3. worker' \in [Scopes -> WorkerStates] /\ worker'[s] = "mapping"
        /\ \A t \in Scopes \ {s} : worker'[t] = worker[t]
    BY <1>3, <2>1 DEF WorkerStates
  <2>4. handles[s] = 1
    BY <1>2, <1>5, <1>30, Names DEF WorkerOf
  <2>5. WorkerOf(s)'
    BY <1>1, <1>2, <2>1, <2>2, <2>3, <2>4 DEF WorkerOf, OutputOf
  <2>6. StageOf(s)'
    BY <1>1, <1>2, <2>3 DEF StageOf, coordVars, Slots
  <2>7. LedgerInv'
    BY <2>1, LedgerMoves DEF ExtractInv
  <2>. QED
    BY <1>1, <1>2, <1>3, <2>1, <2>2, <2>3, <2>5, <2>6, <2>7, OneWorker
<1>. QED
  BY <1>4, <1>5

LEMMA AllocateStep ==
  ASSUME ExtractInv, NEW s \in Scopes, NEW n \in 0 .. MaxNeed, Allocate(s, n)
  PROVE  ExtractInv'
<1>1. /\ worker[s] = "mapping" /\ result[s] = "none" /\ UNCHANGED coordVars /\ UNCHANGED <<worker, stopped>>
      /\ \E r \in {"ok", "limit"} : result' = [result EXCEPT ![s] = r]
      /\ UNCHANGED ledgerVars \/ (~(n > Room(s)) /\ GrowScoped(OutputOf(s), n))
  <2>1. /\ worker[s] = "mapping" /\ result[s] = "none" /\ UNCHANGED coordVars /\ UNCHANGED <<worker, stopped>>
    BY DEF Allocate
  <2>2. CASE n > Room(s)
    BY <2>2 DEF Allocate
  <2>3. CASE ~(n > Room(s)) /\ n = 0
    BY <2>3 DEF Allocate
  <2>4. CASE ~(n > Room(s)) /\ n # 0
    BY <2>4 DEF Allocate
  <2>. QED
    BY <2>1, <2>2, <2>3, <2>4
<1>2. WorkerOf(s) /\ StageOf(s) /\ s \in Slots /\ pc = "run"
  BY <1>1, BusyWorker DEF ExtractInv, WorkersInv
<1>3. worker \in [Scopes -> WorkerStates] /\ result \in [Scopes -> {"none", "ok"} \cup Errors]
      /\ stopped \in BOOLEAN
  BY DEF ExtractInv, ExtractTypeOK
<1>30. /\ phase \in [Scopes -> Phases] /\ handles \in [Scopes -> 0 .. MaxHandles]
       /\ owner \in [Charges -> Scopes \cup {Global, None}]
  BY DEF ExtractInv, LedgerInv, LedgerTypeOK
<1>4. UNCHANGED <<phase, handles, owner>>
  BY <1>1 DEF ledgerVars, GrowScoped
<1>5. /\ result' \in [Scopes -> {"none", "ok"} \cup Errors] /\ result'[s] # "none"
      /\ \A t \in Scopes \ {s} : result'[t] = result[t]
  BY <1>1, <1>3 DEF Errors
<1>6. WorkerOf(s)'
  BY <1>1, <1>2, <1>4 DEF WorkerOf, OutputOf
<1>7. StageOf(s)'
  BY <1>1, <1>2 DEF StageOf, coordVars, Slots
<1>8. LedgerInv'
  <2>1. ASSUME ~(n > Room(s)), GrowScoped(OutputOf(s), n) PROVE LedgerInv'
    <3>0. capacity[s] \in 0 .. Limit /\ scopeUsed[s] \in 0 .. Limit /\ Limit \in Nat
      BY Names DEF ExtractInv, LedgerInv, LedgerTypeOK
    <3>1. Room(s) <= Limit
      BY <3>0 DEF Room
    <3>2. Room(s) \in Int /\ n \in Nat /\ Limit \in Nat
      BY <3>0 DEF Room
    <3>3. n \in 0 .. Limit
      BY <2>1, <3>1, <3>2
    <3>. QED
      BY <2>1, <3>3, LedgerMoves DEF ExtractInv
  <2>. QED
    BY <1>1, <2>1, QuietLedger DEF ExtractInv
<1>9. result[s] \notin Errors
  BY <1>1 DEF Errors
<1>. QED
  BY <1>1, <1>2, <1>3, <1>4, <1>5, <1>6, <1>7, <1>8, <1>9, OneWorker

LEMMA SpoilStep ==
  ASSUME ExtractInv, NEW s \in Scopes, NEW e \in {"decode", "panic"}, Spoil(s, e)
  PROVE  ExtractInv'
<1>1. /\ worker[s] = "mapping" /\ result[s] = "ok" /\ result' = [result EXCEPT ![s] = e]
      /\ UNCHANGED ledgerVars /\ UNCHANGED coordVars /\ UNCHANGED <<worker, stopped>>
  BY DEF Spoil
<1>2. WorkerOf(s) /\ StageOf(s) /\ s \in Slots /\ pc = "run"
  BY <1>1, BusyWorker DEF ExtractInv, WorkersInv
<1>3. worker \in [Scopes -> WorkerStates] /\ result \in [Scopes -> {"none", "ok"} \cup Errors]
      /\ stopped \in BOOLEAN
  BY DEF ExtractInv, ExtractTypeOK
<1>5. /\ result' \in [Scopes -> {"none", "ok"} \cup Errors] /\ result'[s] # "none"
      /\ \A t \in Scopes \ {s} : result'[t] = result[t]
  BY <1>1, <1>3 DEF Errors
<1>6. WorkerOf(s)'
  BY <1>1, <1>2 DEF WorkerOf, OutputOf, ledgerVars
<1>7. StageOf(s)'
  BY <1>1, <1>2 DEF StageOf, coordVars, Slots
<1>8. LedgerInv'
  BY <1>1, QuietLedger DEF ExtractInv
<1>9. result[s] \notin Errors
  BY <1>1 DEF Errors
<1>. QED
  BY <1>1, <1>2, <1>3, <1>5, <1>6, <1>7, <1>8, <1>9, OneWorker DEF ledgerVars

\* What dropping the output of a slot changes: the charge ends, and with it
\* perhaps the record of a retired scope.
LEMMA OutputGoes ==
  ASSUME ExtractInv, NEW s \in Scopes,
         owner[OutputOf(s)] # None,
         IF bytes[OutputOf(s)] > 0 THEN ShrinkScoped(OutputOf(s), 0) ELSE DropCharge(OutputOf(s))
  PROVE  /\ LedgerInv' /\ UNCHANGED handles
         /\ owner[OutputOf(s)] = s /\ owner'[OutputOf(s)] \in {None, s}
         /\ phase'[s] = phase[s] \/ (phase[s] = "retired" /\ phase'[s] = "none")
         /\ \A t \in Scopes \ {s} : phase'[t] = phase[t] /\ owner'[OutputOf(t)] = owner[OutputOf(t)]
         /\ owner'[SlotsCharge] = owner[SlotsCharge]
<1>1. owner[OutputOf(s)] = s
  BY DEF ExtractInv, WorkersInv, WorkerOf
<1>30. /\ phase \in [Scopes -> Phases] /\ handles \in [Scopes -> 0 .. MaxHandles]
       /\ owner \in [Charges -> Scopes \cup {Global, None}]
  BY DEF ExtractInv, LedgerInv, LedgerTypeOK
<1>31. OutputOf(s) \in Charges /\ OutputOf(s) # SlotsCharge /\ \A t \in Scopes \ {s} : OutputOf(t) \in Charges /\ OutputOf(t) # OutputOf(s)
  BY Names
<1>2. CASE bytes[OutputOf(s)] > 0
  <2>1. ShrinkScoped(OutputOf(s), 0) /\ UNCHANGED <<phase, handles, owner>>
    BY <1>2 DEF ShrinkScoped
  <2>2. LedgerInv'
    <3>1. 0 \in 0 .. Limit
      BY Names
    <3>. QED
      BY <2>1, <3>1, LedgerMoves DEF ExtractInv
  <2>. QED
    BY <1>1, <2>1, <2>2
<1>3. CASE ~(bytes[OutputOf(s)] > 0)
  <2>1. /\ DropCharge(OutputOf(s)) /\ owner' = [owner EXCEPT ![OutputOf(s)] = None] /\ UNCHANGED handles
        /\ \E last \in BOOLEAN : FreeIf(s, last) /\ (last => phase[s] = "retired")
    BY <1>1, <1>3 DEF DropCharge
  <2>2. LedgerInv'
    BY <2>1, LedgerMoves DEF ExtractInv
  <2>3. /\ phase'[s] = phase[s] \/ (phase[s] = "retired" /\ phase'[s] = "none")
        /\ \A t \in Scopes \ {s} : phase'[t] = phase[t]
    BY <1>30, <2>1 DEF FreeIf
  <2>4. /\ owner'[OutputOf(s)] = None /\ owner'[SlotsCharge] = owner[SlotsCharge]
        /\ \A t \in Scopes \ {s} : owner'[OutputOf(t)] = owner[OutputOf(t)]
    BY <1>30, <1>31, <2>1, Names
  <2>. QED
    BY <1>1, <2>1, <2>2, <2>3, <2>4
<1>. QED
  BY <1>2, <1>3

LEMMA DropFailedStep ==
  ASSUME ExtractInv, NEW s \in Scopes, DropFailed(s)
  PROVE  ExtractInv'
<1>1. /\ worker[s] = "mapping" /\ result[s] \in Errors /\ owner[OutputOf(s)] # None
      /\ IF bytes[OutputOf(s)] > 0 THEN ShrinkScoped(OutputOf(s), 0) ELSE DropCharge(OutputOf(s))
      /\ UNCHANGED coordVars /\ UNCHANGED <<worker, result, stopped>>
  BY DEF DropFailed, workerVars
<1>2. WorkerOf(s) /\ StageOf(s) /\ s \in Slots /\ pc = "run"
  BY <1>1, BusyWorker DEF ExtractInv, WorkersInv
<1>3. worker \in [Scopes -> WorkerStates] /\ result \in [Scopes -> {"none", "ok"} \cup Errors]
      /\ stopped \in BOOLEAN
  BY DEF ExtractInv, ExtractTypeOK
<1>4. /\ LedgerInv' /\ UNCHANGED handles /\ owner'[OutputOf(s)] \in {None, s}
      /\ phase'[s] = phase[s] \/ (phase[s] = "retired" /\ phase'[s] = "none")
      /\ \A t \in Scopes \ {s} : phase'[t] = phase[t] /\ owner'[OutputOf(t)] = owner[OutputOf(t)]
      /\ owner'[SlotsCharge] = owner[SlotsCharge]
  BY <1>1, OutputGoes
<1>5. phase'[s] = "started"
  BY <1>1, <1>2, <1>4 DEF WorkerOf
<1>6. WorkerOf(s)'
  BY <1>1, <1>2, <1>4, <1>5 DEF WorkerOf, OutputOf
<1>7. StageOf(s)'
  BY <1>1, <1>2 DEF StageOf, coordVars, Slots
<1>. QED
  BY <1>1, <1>2, <1>3, <1>4, <1>6, <1>7, OneWorker

LEMMA LeaveMapStep ==
  ASSUME ExtractInv, NEW s \in Scopes, LeaveMap(s)
  PROVE  ExtractInv'
<1>1. /\ worker[s] = "mapping" /\ result[s] \in {"ok"} \cup Errors /\ DropHandle(s)
      /\ worker' = [worker EXCEPT ![s] = "retiring"]
      /\ stopped' = (stopped \/ result[s] \in {"limit", "decode"})
      /\ UNCHANGED coordVars /\ UNCHANGED result
  BY DEF LeaveMap, StopAfter
<1>2. WorkerOf(s) /\ StageOf(s) /\ s \in Slots /\ pc = "run"
  BY <1>1, BusyWorker DEF ExtractInv, WorkersInv
<1>3. worker \in [Scopes -> WorkerStates] /\ result \in [Scopes -> {"none", "ok"} \cup Errors]
      /\ stopped \in BOOLEAN
  BY DEF ExtractInv, ExtractTypeOK
<1>30. /\ phase \in [Scopes -> Phases] /\ handles \in [Scopes -> 0 .. MaxHandles]
       /\ owner \in [Charges -> Scopes \cup {Global, None}]
  BY DEF ExtractInv, LedgerInv, LedgerTypeOK
<1>4. /\ phase[s] = "started" /\ handles[s] = 1
  BY <1>1, <1>2 DEF WorkerOf
<1>5. /\ handles' = [handles EXCEPT ![s] = @ - 1] /\ UNCHANGED <<phase, owner>>
  BY <1>1, <1>4 DEF DropHandle, FreeIf, chargeVars
<1>6. handles'[s] = 0 /\ \A t \in Scopes \ {s} : handles'[t] = handles[t]
  BY <1>30, <1>4, <1>5
<1>7. worker' \in [Scopes -> WorkerStates] /\ worker'[s] = "retiring"
      /\ \A t \in Scopes \ {s} : worker'[t] = worker[t]
  BY <1>1, <1>3 DEF WorkerStates
<1>8. WorkerOf(s)'
  BY <1>1, <1>2, <1>4, <1>5, <1>6, <1>7 DEF WorkerOf, OutputOf
<1>9. StageOf(s)'
  BY <1>1, <1>2, <1>7 DEF StageOf, coordVars, Slots
<1>10. LedgerInv'
  BY <1>1, LedgerMoves DEF ExtractInv
<1>11. stopped' \in BOOLEAN /\ result[s] # "none"
  BY <1>1, <1>3 DEF Errors
<1>. QED
  BY <1>1, <1>2, <1>3, <1>5, <1>6, <1>7, <1>8, <1>9, <1>10, <1>11, OneWorker

LEMMA RetireWorkStep ==
  ASSUME ExtractInv, NEW s \in Scopes, RetireWork(s)
  PROVE  ExtractInv'
<1>1. /\ worker[s] = "retiring" \/ (worker[s] = "abandoned" /\ pc = "drop")
      /\ Retire(s)
      /\ worker' = [worker EXCEPT ![s] = "joined"]
      /\ UNCHANGED coordVars /\ UNCHANGED <<result, stopped>>
  BY DEF RetireWork
<1>2. WorkerOf(s) /\ StageOf(s) /\ s \in Slots /\ pc \in {"run", "drop"}
  BY <1>1, BusyWorker DEF ExtractInv, WorkersInv, StageOf
<1>3. worker \in [Scopes -> WorkerStates] /\ result \in [Scopes -> {"none", "ok"} \cup Errors]
      /\ stopped \in BOOLEAN
  BY DEF ExtractInv, ExtractTypeOK
<1>30. /\ phase \in [Scopes -> Phases] /\ handles \in [Scopes -> 0 .. MaxHandles]
       /\ owner \in [Charges -> Scopes \cup {Global, None}]
  BY DEF ExtractInv, LedgerInv, LedgerTypeOK
<1>4. /\ phase'[s] \in {"none", "retired"} /\ UNCHANGED <<handles, owner>>
      /\ \A t \in Scopes \ {s} : phase'[t] = phase[t]
  BY <1>1, <1>30 DEF Retire, chargeVars
<1>7. worker' \in [Scopes -> WorkerStates] /\ worker'[s] = "joined"
      /\ \A t \in Scopes \ {s} : worker'[t] = worker[t]
  BY <1>1, <1>3 DEF WorkerStates
<1>8. WorkerOf(s)'
  BY <1>1, <1>2, <1>4, <1>7 DEF WorkerOf, OutputOf
<1>9. StageOf(s)'
  BY <1>1, <1>2, <1>7 DEF StageOf, coordVars, Slots
<1>10. LedgerInv'
  BY <1>1, LedgerMoves DEF ExtractInv
<1>11. pc = "run" /\ result[s] = "none" => stopped
  BY <1>1, <1>2 DEF ExtractInv, ResultsInv
<1>. QED
  BY <1>1, <1>2, <1>3, <1>4, <1>7, <1>8, <1>9, <1>10, <1>11, OneWorker

----------------------------------------------------------------------------
(* Steps of the coordinator after the join.                                *)

\* The error that is reported is one of the batch.
LEMMA FirstErrorIsReal ==
  ASSUME ExtractInv, Failed # {}
  PROVE  FirstError \in Errors
<1>1. CASE \E s \in Slots : result[s] = "panic"
  BY <1>1 DEF FirstError, Errors
<1>2. CASE ~\E s \in Slots : result[s] = "panic"
  <2>1. Failed \in SUBSET Nat /\ Failed # {}
    BY DEF Failed, Slots
  <2>2. \E s \in Failed : \A t \in Failed : s <= t
    <3>1. Min(Failed) \in Failed /\ \A t \in Failed : Min(Failed) <= t
      BY <2>1, MinExists
    <3>. QED
      BY <3>1
  <2>3. (CHOOSE s \in Failed : \A t \in Failed : s <= t) \in Failed
    BY <2>2
  <2>. QED
    BY <1>2, <2>3 DEF FirstError, Failed
<1>. QED
  BY <1>1, <1>2

LEMMA JoinStep ==
  ASSUME ExtractInv, Join
  PROVE  ExtractInv'
<1>1. /\ pc = "run" /\ (\A s \in Slots : worker[s] \in {"joined", "abandoned"})
      /\ IF Failed = {} THEN pc' = "publish" /\ UNCHANGED outcome ELSE pc' = "drop" /\ outcome' = FirstError
      /\ UNCHANGED ledgerVars
      /\ UNCHANGED <<worker, result, stopped, hint, first, room, batch, required, extra, published>>
  BY DEF Join, workerVars
<1>2. LedgerInv'
  BY <1>1, QuietLedger DEF ExtractInv
<1>3. /\ Slots' = Slots /\ pc' \in {"publish", "drop"} /\ (pc' = "publish" <=> Failed = {})
      /\ pc' = "publish" => outcome' = "running"
      /\ pc' = "drop" => outcome' \in Errors
  BY <1>1, FirstErrorIsReal DEF Slots, ExtractInv, ProgressInv
<1>4. ExtractTypeOK'
  <2>1. outcome' \in {"running"} \cup Errors
    BY <1>3
  <2>. QED
    BY <1>1, <1>3, <2>1 DEF ExtractInv, ExtractTypeOK, PcStates
<1>5. ASSUME pc' = "publish", NEW s \in Slots PROVE worker[s] = "joined" /\ result[s] = "ok"
  <2>1. Failed = {}
    BY <1>3, <1>5
  <2>2. \A t \in Slots : result[t] \notin Errors
    BY <2>1 DEF Failed
  <2>3. worker[s] # "abandoned"
    BY <1>1, <2>2 DEF ExtractInv, ResultsInv, Errors
  <2>4. worker[s] = "joined"
    BY <1>1, <2>3
  <2>5. ~stopped
    BY <1>1, <2>2 DEF ExtractInv, ResultsInv, Errors
  <2>6. result[s] # "none"
    BY <1>1, <2>4, <2>5 DEF ExtractInv, ResultsInv
  <2>7. result[s] \in {"none", "ok"} \cup Errors
    BY SlotsAreScopes DEF ExtractInv, ExtractTypeOK
  <2>. QED
    BY <2>2, <2>4, <2>6, <2>7
<1>6. WorkersInv'
  <2>1. \A s \in Scopes : WorkerOf(s)'
    BY <1>1, QuietWorker DEF ExtractInv, WorkersInv
  <2>2. \A s \in Scopes : StageOf(s)'
    BY <1>1, <1>3, <1>5 DEF ExtractInv, WorkersInv, StageOf
  <2>. QED
    BY <2>1, <2>2 DEF WorkersInv
<1>7. SlotsInv'
  <2>1. owner[SlotsCharge] = Global /\ UNCHANGED owner
    BY <1>1 DEF ExtractInv, SlotsInv, ledgerVars
  <2>. QED
    BY <1>3, <2>1, Names DEF SlotsInv
<1>8. ProgressInv'
  <2>1. published = first - 1 /\ first \in Nat /\ Len(batch) \in Nat
    BY <1>1, SlotsAreScopes, Names DEF ExtractInv, ProgressInv, ExtractTypeOK
  <2>2. pc' = "publish" => first' - 1 <= published' /\ published' < first' + Len(batch')
    BY <1>1, <2>1
  <2>. QED
    BY <1>3, <2>2 DEF ProgressInv, Errors
<1>9. AdmissionInv' /\ ResultsInv'
  BY <1>1, <1>3, <1>5 DEF AdmissionInv, ResultsInv, BatchIsWhole
<1>. QED
  BY <1>2, <1>4, <1>6, <1>7, <1>8, <1>9 DEF ExtractInv

LEMMA PublishOkStep ==
  ASSUME ExtractInv, PublishOk
  PROVE  ExtractInv' /\ published' = published + 1 /\ published < N
<1>1. /\ pc = "publish" /\ PublishSlot \in Slots /\ published' = published + 1
      /\ result' = [result EXCEPT ![PublishSlot] = "none"]
      /\ UNCHANGED ledgerVars
      /\ UNCHANGED <<hint, pc, first, room, batch, required, extra, outcome, worker, stopped>>
  BY DEF PublishOk
<1>2. LedgerInv'
  BY <1>1, QuietLedger DEF ExtractInv
<1>3. /\ published \in Nat /\ first \in Nat /\ Len(batch) \in Nat /\ N \in Nat
      /\ first - 1 <= published /\ first + Len(batch) <= N + 1
      /\ result \in [Scopes -> {"none", "ok"} \cup Errors]
      /\ Slots' = Slots /\ Slots \subseteq Scopes
  <2>1. N \in Nat /\ Slots' = Slots
    BY <1>1, Names DEF Slots
  <2>2. Len(batch) \in Nat /\ Slots \subseteq Scopes
    BY SlotsAreScopes DEF ExtractInv
  <2>3. published \in Nat /\ first \in Nat /\ first + Len(batch) <= N + 1
        /\ result \in [Scopes -> {"none", "ok"} \cup Errors]
    BY <2>1 DEF ExtractInv, ExtractTypeOK
  <2>4. first - 1 <= published
    BY <1>1 DEF ExtractInv, ProgressInv
  <2>. QED
    BY <2>1, <2>2, <2>3, <2>4
<1>4. published + 2 - first <= Len(batch)
  BY <1>1 DEF PublishSlot, Slots
<1>5. published < N /\ published' < first + Len(batch) /\ first - 1 <= published' /\ published' \in 0 .. N
  BY <1>1, <1>3, <1>4
<1>6. /\ result' \in [Scopes -> {"none", "ok"} \cup Errors] /\ PublishSlot' = PublishSlot + 1
      /\ \A s \in Scopes : s # PublishSlot => result'[s] = result[s]
      /\ result'[PublishSlot] = "none"
  BY <1>1, <1>3 DEF PublishSlot
<1>7. ExtractTypeOK'
  BY <1>1, <1>5, <1>6 DEF ExtractInv, ExtractTypeOK
<1>8. WorkersInv'
  <2>1. ASSUME NEW s \in Scopes PROVE WorkerOf(s)' /\ StageOf(s)'
    <3>1. WorkerOf(s) /\ StageOf(s)
      BY DEF ExtractInv, WorkersInv
    <3>2. result'[s] \in {result[s], "none"}
      BY <1>6
    <3>3. WorkerOf(s)'
      BY <1>1, <3>1, <3>2 DEF WorkerOf, OutputOf, ledgerVars
    <3>4. StageOf(s)'
      BY <1>1, <1>3, <3>1 DEF StageOf
    <3>. QED
      BY <3>3, <3>4
  <2>. QED
    BY <2>1 DEF WorkersInv
<1>9. SlotsInv'
  BY <1>1 DEF ExtractInv, SlotsInv, ledgerVars
<1>10. ProgressInv'
  BY <1>1, <1>5 DEF ExtractInv, ProgressInv
<1>11. AdmissionInv'
  BY <1>1 DEF AdmissionInv
<1>12. ResultsInv'
  <2>1. ASSUME NEW s \in Slots, s >= PublishSlot + 1 PROVE result'[s] = "ok"
    <3>1. s \in Nat /\ PublishSlot \in Nat
      BY <1>1 DEF Slots
    <3>2. s >= PublishSlot /\ s # PublishSlot
      BY <2>1, <3>1
    <3>3. result[s] = "ok"
      BY <1>1, <3>2 DEF ExtractInv, ResultsInv, BatchIsWhole
    <3>. QED
      BY <1>3, <1>6, <3>2, <3>3
  <2>2. BatchIsWhole'
    BY <1>3, <1>6, <2>1 DEF BatchIsWhole
  <2>. QED
    BY <1>1, <2>2 DEF ResultsInv
<1>. QED
  BY <1>1, <1>2, <1>5, <1>7, <1>8, <1>9, <1>10, <1>11, <1>12 DEF ExtractInv

\* Publication ends, with the last output or with an error of the sink.
LEMMA PublishEndStep ==
  ASSUME ExtractInv, PublishError \/ EndPublish
  PROVE  ExtractInv'
<1>1. /\ pc = "publish" /\ pc' = "drop" /\ outcome' \in {"sink", outcome}
      /\ outcome' = outcome => PublishSlot \notin Slots
      /\ UNCHANGED ledgerVars
      /\ UNCHANGED <<worker, result, stopped, hint, first, room, batch, required, extra, published>>
  <2>1. outcome = "running"
    BY DEF PublishError, EndPublish, ExtractInv, ProgressInv
  <2>. QED
    BY <2>1 DEF PublishError, EndPublish, workerVars
<1>2. LedgerInv'
  BY <1>1, QuietLedger DEF ExtractInv
<1>3. ExtractTypeOK'
  BY <1>1 DEF ExtractInv, ExtractTypeOK, PcStates
<1>4. WorkersInv'
  <2>1. \A s \in Scopes : WorkerOf(s)'
    BY <1>1, QuietWorker DEF ExtractInv, WorkersInv
  <2>2. \A s \in Scopes : StageOf(s)'
    BY <1>1 DEF ExtractInv, WorkersInv, StageOf, Slots
  <2>. QED
    BY <2>1, <2>2 DEF WorkersInv
<1>5. SlotsInv'
  <2>1. owner[SlotsCharge] = Global /\ UNCHANGED owner
    BY <1>1 DEF ExtractInv, SlotsInv, ledgerVars
  <2>. QED
    BY <1>1, <2>1, Names DEF SlotsInv
<1>6. ProgressInv'
  <2>1. outcome = "running" /\ first - 1 <= published /\ published < first + Len(batch)
    BY <1>1 DEF ExtractInv, ProgressInv
  <2>2. published \in Nat /\ first \in Nat /\ Len(batch) \in Nat
    BY <1>1, SlotsAreScopes, Names DEF ExtractInv, ExtractTypeOK
  <2>3. outcome' = "running" => published = first + Len(batch) - 1
    BY <1>1, <2>1, <2>2 DEF PublishSlot, Slots
  <2>. QED
    BY <1>1, <2>1, <2>3 DEF ProgressInv
<1>7. AdmissionInv' /\ ResultsInv'
  BY <1>1 DEF AdmissionInv, ResultsInv, BatchIsWhole
<1>. QED
  BY <1>2, <1>3, <1>4, <1>5, <1>6, <1>7 DEF ExtractInv

LEMMA DropOutputStep ==
  ASSUME ExtractInv, NEW s \in Scopes, DropOutput(s)
  PROVE  ExtractInv'
<1>1. /\ s \in Slots /\ owner[OutputOf(s)] # None /\ pc \in {"drop", "publish"}
      /\ IF bytes[OutputOf(s)] > 0 THEN ShrinkScoped(OutputOf(s), 0) ELSE DropCharge(OutputOf(s))
      /\ UNCHANGED <<hint, pc, first, room, batch, required, extra, published, outcome>>
      /\ UNCHANGED <<worker, result, stopped>>
  BY DEF DropOutput, Droppable, coordVars, workerVars
<1>2. /\ LedgerInv' /\ UNCHANGED handles /\ owner[OutputOf(s)] = s /\ owner'[OutputOf(s)] \in {None, s}
      /\ phase'[s] = phase[s] \/ (phase[s] = "retired" /\ phase'[s] = "none")
      /\ \A t \in Scopes \ {s} : phase'[t] = phase[t] /\ owner'[OutputOf(t)] = owner[OutputOf(t)]
      /\ owner'[SlotsCharge] = owner[SlotsCharge]
  BY <1>1, OutputGoes
<1>3. ExtractTypeOK'
  BY <1>1 DEF ExtractInv, ExtractTypeOK
<1>4. WorkersInv'
  <2>1. ASSUME NEW t \in Scopes PROVE WorkerOf(t)' /\ StageOf(t)'
    <3>1. WorkerOf(t) /\ StageOf(t)
      BY DEF ExtractInv, WorkersInv
    <3>2. StageOf(t)'
      BY <1>1, <3>1 DEF StageOf, Slots
    <3>3. CASE t = s
      <4>1. worker[s] = "joined"
        BY <1>1, <1>2, <3>1, <3>3, Names DEF WorkerOf, StageOf
      <4>2. WorkerOf(t)'
        BY <1>1, <1>2, <3>1, <3>3, <4>1 DEF WorkerOf, OutputOf
      <4>. QED
        BY <3>2, <4>2
    <3>4. CASE t # s
      <4>1. WorkerOf(t)'
        BY <1>1, <1>2, <3>1, <3>4 DEF WorkerOf, OutputOf
      <4>. QED
        BY <3>2, <4>1
    <3>. QED
      BY <3>3, <3>4
  <2>. QED
    BY <2>1 DEF WorkersInv
<1>5. SlotsInv'
  <2>1. owner[SlotsCharge] # None
    BY <1>1, Names DEF ExtractInv, SlotsInv
  <2>2. owner[SlotsCharge] = Global
    BY <1>1, <2>1 DEF ExtractInv, SlotsInv
  <2>. QED
    BY <1>1, <1>2, <2>2, Names DEF SlotsInv, SlotsCharge
<1>6. ProgressInv'
  BY <1>1 DEF ExtractInv, ProgressInv
<1>7. AdmissionInv'
  BY <1>1 DEF AdmissionInv
<1>8. ResultsInv'
  <2>1. BatchIsWhole'
    BY <1>1 DEF ExtractInv, ResultsInv, BatchIsWhole, PublishSlot, Slots
  <2>. QED
    BY <1>1, <2>1 DEF ResultsInv
<1>. QED
  BY <1>2, <1>3, <1>4, <1>5, <1>6, <1>7, <1>8 DEF ExtractInv

LEMMA DropSlotsStep ==
  ASSUME ExtractInv, DropSlots
  PROVE  ExtractInv'
<1>1. /\ pc = "drop" /\ (\A s \in Slots : owner[OutputOf(s)] = None /\ worker[s] # "abandoned")
      /\ owner[SlotsCharge] # None
      /\ IF bytes[SlotsCharge] > 0 THEN ShrinkGlobal(SlotsCharge, 0) ELSE DropCharge(SlotsCharge)
      /\ UNCHANGED <<hint, pc, first, room, batch, required, extra, published, outcome>>
      /\ UNCHANGED <<worker, result, stopped>>
  BY DEF DropSlots, coordVars, workerVars
<1>2. owner[SlotsCharge] = Global /\ Global \notin Scopes /\ SlotsCharge \in Charges /\ 0 \in 0 .. Limit
  BY <1>1, Names DEF ExtractInv, SlotsInv
<1>3. owner \in [Charges -> Scopes \cup {Global, None}]
  BY DEF ExtractInv, LedgerInv, LedgerTypeOK
<1>4. UNCHANGED <<phase, handles>> /\ owner' \in {owner, [owner EXCEPT ![SlotsCharge] = None]}
  BY <1>1, <1>2 DEF ShrinkGlobal, DropCharge, scopeVars
<1>5. LedgerInv'
  <2>1. LedgerNext
    BY <1>1, <1>2 DEF LedgerNext
  <2>. QED
    BY <2>1, LedgerAssumption, LedgerStep DEF ExtractInv
<1>6. /\ \A s \in Scopes : owner'[OutputOf(s)] = owner[OutputOf(s)]
      /\ owner'[SlotsCharge] \in {None, Global}
  BY <1>2, <1>3, <1>4, Names
<1>7. ExtractTypeOK'
  BY <1>1 DEF ExtractInv, ExtractTypeOK
<1>8. WorkersInv'
  <2>1. ASSUME NEW t \in Scopes PROVE WorkerOf(t)' /\ StageOf(t)'
    <3>1. WorkerOf(t) /\ StageOf(t)
      BY DEF ExtractInv, WorkersInv
    <3>2. StageOf(t)'
      BY <1>1, <3>1 DEF StageOf, Slots
    <3>3. WorkerOf(t)'
      BY <1>1, <1>4, <1>6, <3>1 DEF WorkerOf, OutputOf
    <3>. QED
      BY <3>2, <3>3
  <2>. QED
    BY <2>1 DEF WorkersInv
<1>9. SlotsInv'
  <2>1. ASSUME NEW s \in Scopes PROVE owner'[OutputOf(s)] = None /\ worker'[s] # "abandoned"
    <3>1. WorkerOf(s) /\ StageOf(s)
      BY DEF ExtractInv, WorkersInv
    <3>2. CASE s \in Slots
      BY <1>1, <1>6, <3>2
    <3>3. CASE s \notin Slots
      BY <1>1, <1>6, <3>1, <3>3 DEF WorkerOf, StageOf
    <3>. QED
      BY <3>2, <3>3
  <2>. QED
    BY <1>1, <1>6, <2>1 DEF SlotsInv, OutputOf, SlotsCharge
<1>10. ProgressInv'
  BY <1>1 DEF ExtractInv, ProgressInv
<1>11. AdmissionInv' /\ ResultsInv'
  BY <1>1 DEF AdmissionInv, ResultsInv, BatchIsWhole
<1>. QED
  BY <1>5, <1>7, <1>8, <1>9, <1>10, <1>11 DEF ExtractInv

\* Nothing reaches a scope any more once its worker and its output are gone.
LEMMA ScopesAreFreed ==
  ASSUME ExtractInv, NEW s \in Scopes, owner[OutputOf(s)] = None, worker[s] \in {"idle", "joined"}
  PROVE  phase[s] = "none"
<1>1. WorkerOf(s) /\ phase[s] \in {"none", "retired"} /\ handles[s] = 0
  BY DEF ExtractInv, WorkersInv, WorkerOf
<1>2. Dependents(s) = {}
  <2>1. Dependents(s) \subseteq {OutputOf(s)}
    BY OnlyTheOutput DEF ExtractInv, ExtractTypeOK
  <2>2. OutputOf(s) \notin Dependents(s)
    BY Names DEF Dependents
  <2>. QED
    BY <2>1, <2>2
<1>3. Live(s) => Reachable(s)
  BY DEF ExtractInv, LedgerInv, NoOrphanScope
<1>. QED
  BY <1>1, <1>2, <1>3 DEF Live, Reachable, Reserved

LEMMA EndBatchStep ==
  ASSUME ExtractInv, EndBatch
  PROVE  ExtractInv'
<1>1. /\ pc = "drop" /\ owner[SlotsCharge] = None
      /\ worker' = [s \in Scopes |-> "idle"] /\ result' = [s \in Scopes |-> "none"]
      /\ IF outcome = "running" THEN pc' = "admit" /\ first' = first + Len(batch)
                                ELSE pc' = "done" /\ UNCHANGED first
      /\ batch' = <<>>
      /\ UNCHANGED ledgerVars
      /\ UNCHANGED <<hint, room, required, extra, stopped, published, outcome>>
  BY DEF EndBatch
<1>2. LedgerInv'
  BY <1>1, QuietLedger DEF ExtractInv
<1>3. Len(batch') = 0 /\ batch' \in Seq(1 .. N) /\ Slots' = {}
  <2>1. Len(batch') = 0 /\ batch' \in Seq(1 .. N)
    BY <1>1, EmptySeq
  <2>. QED
    BY <2>1 DEF Slots
<1>4. /\ first \in 1 .. N + 1 /\ Len(batch) \in Nat /\ first + Len(batch) <= N + 1 /\ N \in Nat
      /\ room \in Nat /\ published \in Nat
  BY SlotsAreScopes, Names DEF ExtractInv, ExtractTypeOK
<1>5. first' \in 1 .. N + 1
  <2>1. first' = first \/ first' = first + Len(batch)
    BY <1>1
  <2>. QED
    BY <1>4, <2>1
<1>6. ExtractTypeOK'
  <2>1. Len(batch') <= room' /\ first' + Len(batch') <= N + 1
    <3>1. room' = room /\ Len(batch') = 0
      BY <1>1, <1>3
    <3>2. room >= 0
      BY <1>4
    <3>3. N \in Nat
      BY <1>4
    <3>4. \A f \in 1 .. N + 1 : f + 0 <= N + 1
      BY <3>3
    <3>5. first' + 0 <= N + 1
      BY <1>5, <3>4
    <3>. QED
      BY <3>1, <3>2, <3>5
  <2>2. worker' \in [Scopes -> WorkerStates] /\ result' \in [Scopes -> {"none", "ok"} \cup Errors]
    BY <1>1 DEF WorkerStates
  <2>. QED
    BY <1>1, <1>3, <1>5, <2>1, <2>2 DEF ExtractInv, ExtractTypeOK, PcStates
<1>7. WorkersInv'
  <2>1. ASSUME NEW s \in Scopes PROVE WorkerOf(s)' /\ StageOf(s)'
    <3>1. WorkerOf(s) /\ StageOf(s) /\ owner[OutputOf(s)] = None /\ worker[s] # "abandoned"
      BY <1>1 DEF ExtractInv, WorkersInv, SlotsInv
    <3>2. worker[s] \in {"idle", "joined"}
      BY <1>1, <3>1 DEF StageOf
    <3>3. phase[s] = "none" /\ handles[s] = 0
      BY <3>1, <3>2, ScopesAreFreed DEF WorkerOf
    <3>4. worker'[s] = "idle" /\ result'[s] = "none"
      BY <1>1
    <3>5. WorkerOf(s)'
      BY <1>1, <3>1, <3>3, <3>4 DEF WorkerOf, OutputOf, ledgerVars
    <3>6. StageOf(s)'
      BY <1>1, <1>3, <3>4 DEF StageOf
    <3>. QED
      BY <3>5, <3>6
  <2>. QED
    BY <2>1 DEF WorkersInv
<1>8. SlotsInv'
  BY <1>1 DEF SlotsInv, ledgerVars
<1>9. ProgressInv'
  <2>1. pc' = "admit" => published = first' - 1
    <3>1. outcome = "running" => published = first + Len(batch) - 1
      BY <1>1 DEF ExtractInv, ProgressInv
    <3>. QED
      BY <1>1, <1>4, <3>1
  <2>2. outcome # "ok"
    BY <1>1 DEF ExtractInv, ProgressInv
  <2>. QED
    BY <1>1, <2>1, <2>2 DEF ProgressInv
<1>10. AdmissionInv' /\ ResultsInv'
  BY <1>1 DEF AdmissionInv, ResultsInv, BatchIsWhole
<1>. QED
  BY <1>2, <1>6, <1>7, <1>8, <1>9, <1>10 DEF ExtractInv

----------------------------------------------------------------------------
(* Every step of the extraction.                                           *)

LEMMA ExtractBegins == ExtractInit => ExtractInv
<1>. SUFFICES ASSUME ExtractInit PROVE ExtractInv
  OBVIOUS
<1>1. /\ LedgerInit /\ hint \in Hints /\ pc = "admit" /\ first = 1 /\ room = 0 /\ batch = <<>>
      /\ required = 0 /\ extra = 0 /\ worker = [s \in Scopes |-> "idle"]
      /\ result = [s \in Scopes |-> "none"] /\ stopped = FALSE /\ published = 0 /\ outcome = "running"
  BY DEF ExtractInit
<1>2. LedgerInv
  BY <1>1, LedgerAssumption, LedgerInitInv
<1>3. /\ phase = [s \in Scopes |-> "none"] /\ handles = [s \in Scopes |-> 0]
      /\ owner = [c \in Charges |-> None]
  BY <1>1 DEF LedgerInit
<1>4. Len(batch) = 0 /\ batch \in Seq(1 .. N) /\ Slots = {}
  <2>1. Len(batch) = 0 /\ batch \in Seq(1 .. N)
    BY <1>1, EmptySeq
  <2>. QED
    BY <2>1 DEF Slots
<1>5. hint \in [1 .. N -> Nat]
  BY <1>1, ExtractAssumption DEF ExtractAssumption
<1>6. ExtractTypeOK
  <2>1. first \in 1 .. N + 1 /\ room \in 0 .. Window /\ published \in 0 .. N
    BY <1>1, Names
  <2>2. \A k : k = 0 => k <= room /\ first + k <= N + 1
    BY <1>1, Names
  <2>3. Len(batch) <= room /\ first + Len(batch) <= N + 1
    BY <1>4, <2>2
  <2>. QED
    BY <1>1, <1>4, <1>5, <2>1, <2>3 DEF ExtractTypeOK, PcStates, WorkerStates
<1>7. WorkersInv
  <2>1. ASSUME NEW s \in Scopes PROVE WorkerOf(s) /\ StageOf(s)
    <3>1. owner[OutputOf(s)] = None /\ phase[s] = "none" /\ handles[s] = 0
          /\ worker[s] = "idle" /\ result[s] = "none"
      BY <1>1, <1>3, Names
    <3>. QED
      BY <1>1, <1>4, <3>1 DEF WorkerOf, StageOf
  <2>. QED
    BY <2>1 DEF WorkersInv
<1>8. SlotsInv
  BY <1>1, <1>3, Names DEF SlotsInv
<1>9. ProgressInv /\ AdmissionInv /\ ResultsInv
  BY <1>1 DEF ProgressInv, AdmissionInv, ResultsInv, BatchIsWhole
<1>. QED
  BY <1>2, <1>6, <1>7, <1>8, <1>9 DEF ExtractInv

LEMMA ExtractStutters ==
  ASSUME ExtractInv, UNCHANGED extractVars
  PROVE  ExtractInv'
<1>1. UNCHANGED ledgerVars
      /\ UNCHANGED <<hint, pc, first, room, batch, required, extra, published, outcome>>
      /\ UNCHANGED <<worker, result, stopped>>
  BY DEF extractVars, coordVars, workerVars
<1>2. LedgerInv'
  BY <1>1, QuietLedger DEF ExtractInv
<1>3. ExtractTypeOK'
  BY <1>1 DEF ExtractInv, ExtractTypeOK
<1>4. WorkersInv'
  <2>1. \A s \in Scopes : WorkerOf(s)'
    BY <1>1, QuietWorker DEF ExtractInv, WorkersInv
  <2>2. \A s \in Scopes : StageOf(s)'
    BY <1>1 DEF ExtractInv, WorkersInv, StageOf, Slots
  <2>. QED
    BY <2>1, <2>2 DEF WorkersInv
<1>5. SlotsInv'
  BY <1>1 DEF ExtractInv, SlotsInv, ledgerVars
<1>6. ProgressInv'
  BY <1>1 DEF ExtractInv, ProgressInv
<1>7. AdmissionInv'
  <2>1. Demand' = Demand /\ Promise' = Promise /\ used' = used
    BY <1>1 DEF Demand, Promise, Slots, ledgerVars
  <2>. QED
    BY <1>1, <2>1 DEF ExtractInv, AdmissionInv, Fits, Promised, FirstCost
<1>8. ResultsInv'
  BY <1>1 DEF ExtractInv, ResultsInv, BatchIsWhole, Slots, PublishSlot
<1>. QED
  BY <1>2, <1>3, <1>4, <1>5, <1>6, <1>7, <1>8 DEF ExtractInv

\* Every step of the coordinator and of the workers keeps the invariant.
LEMMA ExtractStep == ExtractInv /\ [ExtractNext]_extractVars => ExtractInv'
<1>. SUFFICES ASSUME ExtractInv, [ExtractNext]_extractVars PROVE ExtractInv'
  OBVIOUS
<1>1. CASE CoordinatorNext
  BY <1>1, ReturnStep, OpenBatchStep, AllocateSlotsStep, AdmitStep, CloseBatchStep,
     ReserveSlotStep, DispatchStep, JoinStep, PublishOkStep, PublishEndStep,
     DropOutputStep, DropSlotsStep, EndBatchStep DEF CoordinatorNext
<1>2. ASSUME NEW s \in Scopes, WorkerNext(s) PROVE ExtractInv'
  BY <1>2, SkipWorkStep, BeginWorkStep, EnterMapStep, AllocateStep, SpoilStep,
     DropFailedStep, LeaveMapStep, RetireWorkStep, AbandonStep DEF WorkerNext
<1>3. CASE UNCHANGED extractVars
  BY <1>3, ExtractStutters
<1>. QED
  BY <1>1, <1>2, <1>3 DEF ExtractNext, Finished

----------------------------------------------------------------------------
(* The batches of map_prefix.                                              *)

DecodeStates == {"none", Waits, "decoding", "verified", "damaged", "cancelled"}
CallStages == {"enter", "next", "fill", "map", "publish", "opened", "written", "returned"}
Answers == {"none", "sequential", "complete", "cancelled", "damaged", "callback", "sink"}

PrefixTypeOK ==
  /\ task \in Tasks
  /\ taken \in 0 .. Count /\ given \in 0 .. taken /\ left \in 0 .. Memory
  /\ lot \in SUBSET (1 .. Count)
  /\ decode \in [1 .. Count -> DecodeStates]
  /\ phaseOf \in CallStages /\ stopToken \in BOOLEAN /\ returned \in Answers

\* The batch is what was taken and the caller has not received, with what it has
\* received of it.
LotInv ==
  /\ phaseOf = "enter" => taken = 0 /\ lot = {}
  /\ phaseOf = "next" => given = taken
  /\ phaseOf \in {"fill", "map", "publish", "opened", "written"} =>
       \A m \in 1 .. Count : m \in lot /\ m > given <=> given < m /\ m <= taken
  /\ phaseOf = "opened" => given + 1 \in lot /\ decode[given + 1] = "verified"

\* What a worker says of its member is true.
DecodeInv ==
  /\ \A m \in 1 .. Count :
       /\ m > taken <=> decode[m] = "none"
       /\ m <= given => decode[m] = "verified"
       /\ decode[m] = "damaged" => m \in task.damaged
       /\ decode[m] = "verified" => m \notin task.damaged
       /\ decode[m] = "cancelled" => stopToken
       /\ decode[m] = "decoding" => phaseOf = "map"
       /\ phaseOf \in {"publish", "opened", "written"} /\ m \in lot => decode[m] # Waits

\* What is in memory has been counted.
MemoryInv ==
  task.family = "rar50" =>
    /\ phaseOf \notin {"enter", "returned"} \/ lot # {} => \A m \in 1 .. Count : task.sizes[m] <= Memory
    /\ Total(Retained, 1 .. Count, Memory + 1) <= Memory
    /\ phaseOf = "fill" => Total(Retained, 1 .. Count, Memory + 1) + left <= Memory

AnswerInv ==
  /\ returned = "none" <=> phaseOf # "returned"
  /\ returned = "damaged" => given + 1 \in task.damaged
  /\ returned = "complete" => given = Count
  /\ returned = "cancelled" => stopToken

PrefixInv == PrefixTypeOK /\ LotInv /\ DecodeInv /\ MemoryInv /\ AnswerInv

----------------------------------------------------------------------------
LEMMA TaskFacts ==
  ASSUME PrefixTypeOK
  PROVE  /\ Count \in Nat /\ Memory \in Nat /\ IsFiniteSet(1 .. Count)
         /\ \A m \in 1 .. Count : task.sizes[m] \in Nat
         /\ task.damaged \subseteq {m \in 1 .. Count : task.sizes[m] > 0}
<1>1. task \in Tasks /\ Memory \in Nat
  BY TasksAssumption DEF PrefixTypeOK, TasksAssumption
<1>2. task.sizes \in Seq(Nat) /\ task.damaged \subseteq {m \in DOMAIN task.sizes : task.sizes[m] > 0}
  BY <1>1, TasksAssumption DEF TasksAssumption
<1>3. Count \in Nat /\ DOMAIN task.sizes = 1 .. Count
  BY <1>2, LenProperties DEF Count
<1>4. \A m \in 1 .. Count : task.sizes[m] \in Nat
  BY <1>2, <1>3, ElementOfSeq DEF Count
<1>5. IsFiniteSet(1 .. Count)
  BY <1>3, FS_Interval
<1>. QED
  BY <1>1, <1>2, <1>3, <1>4, <1>5

\* With nothing in the batch nothing is in memory.
LEMMA NothingRetained ==
  ASSUME Count \in Nat, Memory \in Nat, IsFiniteSet(1 .. Count), NEW f,
         f = [m \in 1 .. Count |-> 0]
  PROVE  Total(f, 1 .. Count, Memory + 1) = 0
<1>1. f \in [1 .. Count -> 0 .. Memory + 1] /\ \A m \in 1 .. Count : f[m] = 0
  OBVIOUS
<1>2. Memory + 1 \in Nat
  OBVIOUS
<1>. HIDE DEF Count
<1>. QED
  BY <1>1, <1>2, TotalZero

\* Steps that leave the members as they are.
LEMMA QuietMembers ==
  ASSUME PrefixInv, UNCHANGED <<task, lot, decode, given>>
  PROVE  Count' = Count /\ Retained' = Retained
BY DEF Retained, Count

LEMMA StopOrEnterStep ==
  ASSUME PrefixInv, CancelTask \/ StopHere \/ Enter \/ FinishCall \/ StartLot \/ JoinLot \/ NextOutput
  PROVE  PrefixInv'
<1>1. UNCHANGED <<task, lotVars, decode, given>> /\ UNCHANGED <<taken, lot, left>>
  BY DEF CancelTask, StopHere, Enter, FinishCall, StartLot, JoinLot, NextOutput, lotVars
<1>2. Count' = Count /\ Retained' = Retained
  BY <1>1, QuietMembers
<1>3. PrefixTypeOK'
  BY <1>1, <1>2 DEF PrefixInv, PrefixTypeOK, CancelTask, StopHere, Enter, FinishCall, StartLot,
     JoinLot, NextOutput, GiveBack, CallStages, Answers
<1>4. LotInv'
  BY <1>1, <1>2 DEF PrefixInv, PrefixTypeOK, LotInv, CancelTask, StopHere, Enter, FinishCall, StartLot,
     JoinLot, NextOutput, GiveBack
<1>5. DecodeInv'
  <2>1. CASE JoinLot
    <3>1. \A m \in 1 .. Count : m \in lot => decode[m] \notin {Waits, "decoding"}
      BY <2>1 DEF JoinLot, Unfinished
    <3>2. ASSUME NEW m \in 1 .. Count PROVE decode[m] # "decoding"
      <4>1. CASE m > taken \/ m <= given
        BY <4>1 DEF PrefixInv, DecodeInv
      <4>2. CASE ~(m > taken \/ m <= given)
        <5>1. taken \in Nat /\ given \in Nat /\ m \in Nat
          BY TaskFacts DEF PrefixInv, PrefixTypeOK
        <5>2. m \in lot
          BY <2>1, <4>2, <5>1 DEF JoinLot, PrefixInv, LotInv
        <5>. QED
          BY <3>1, <5>2
      <4>. QED
        BY <4>1, <4>2
    <3>. QED
      BY <1>1, <1>2, <2>1, <3>1, <3>2 DEF PrefixInv, DecodeInv, JoinLot
  <2>2. ASSUME CancelTask \/ Enter \/ StartLot \/ NextOutput PROVE DecodeInv'
    BY <1>1, <1>2, <2>2 DEF PrefixInv, DecodeInv, CancelTask, Enter, StartLot, NextOutput, GiveBack
  <2>3. ASSUME StopHere \/ FinishCall PROVE DecodeInv'
    BY <1>1, <1>2, <2>3 DEF PrefixInv, DecodeInv, StopHere, FinishCall, GiveBack
  <2>. QED
    BY <2>1, <2>2, <2>3
<1>6. MemoryInv'
  <2>1. CASE Enter
    BY <1>1, <1>2, <2>1 DEF PrefixInv, MemoryInv, LotInv, Enter, GiveBack, Buffers
  <2>2. ASSUME CancelTask \/ StartLot \/ JoinLot \/ NextOutput PROVE MemoryInv'
    BY <1>1, <1>2, <2>2 DEF PrefixInv, MemoryInv, CancelTask, StartLot, JoinLot, NextOutput
  <2>3. ASSUME StopHere \/ FinishCall PROVE MemoryInv'
    BY <1>1, <1>2, <2>3 DEF PrefixInv, MemoryInv, StopHere, FinishCall, GiveBack
  <2>. QED
    BY <2>1, <2>2, <2>3
<1>7. AnswerInv'
  BY <1>1, <1>2 DEF PrefixInv, PrefixTypeOK, LotInv, AnswerInv, CancelTask, StopHere, Enter, FinishCall, StartLot,
     JoinLot, NextOutput, GiveBack
<1>. QED
  BY <1>3, <1>4, <1>5, <1>6, <1>7 DEF PrefixInv

LEMMA BeginLotStep ==
  ASSUME PrefixInv, BeginLot
  PROVE  PrefixInv'
<1>1. /\ phaseOf = "next" /\ phaseOf' = "fill" /\ lot' = {} /\ left' = Memory
      /\ UNCHANGED <<task, taken, decode, given, stopToken, returned>>
  BY DEF BeginLot
<1>2. /\ Count \in Nat /\ Memory \in Nat /\ IsFiniteSet(1 .. Count) /\ Count' = Count
      /\ given = taken /\ taken \in 0 .. Count
  BY <1>1, TaskFacts DEF PrefixInv, Count, LotInv, PrefixTypeOK
<1>3. PrefixTypeOK'
  BY <1>1, <1>2 DEF PrefixInv, PrefixTypeOK, CallStages
<1>4. LotInv'
  BY <1>1, <1>2 DEF LotInv
<1>5. DecodeInv'
  BY <1>1, <1>2 DEF PrefixInv, DecodeInv
<1>6. Total(Retained', 1 .. Count, Memory + 1) = 0
  <2>1. Retained' = [m \in 1 .. Count |-> 0]
    BY <1>1, <1>2 DEF Retained
  <2>. QED
    BY <1>2, <2>1, NothingRetained
<1>7. returned = "none" /\ returned' = "none"
  BY <1>1 DEF PrefixInv, AnswerInv
<1>8. MemoryInv'
  BY <1>1, <1>2, <1>6, <1>7 DEF PrefixInv, MemoryInv
<1>9. AnswerInv'
  BY <1>1, <1>7 DEF AnswerInv
<1>. QED
  BY <1>3, <1>4, <1>5, <1>8, <1>9 DEF PrefixInv

LEMMA RetainedType ==
  ASSUME PrefixInv, task.family = "rar50"
  PROVE  Retained \in [1 .. Count -> 0 .. Memory + 1]
<1>1. ASSUME NEW m \in lot PROVE task.sizes[m] \in 0 .. Memory
  <2>1. m \in 1 .. Count /\ task.sizes[m] \in Nat /\ Memory \in Nat
    BY TaskFacts DEF PrefixInv, PrefixTypeOK
  <2>3. task.sizes[m] <= Memory
    BY <1>1, <2>1 DEF PrefixInv, MemoryInv
  <2>. QED
    BY <2>1, <2>3
<1>2. Memory \in Nat
  BY TaskFacts DEF PrefixInv
<1>. QED
  BY <1>1, <1>2 DEF Retained

LEMMA TakeStep ==
  ASSUME PrefixInv, TakeIntoLot
  PROVE  PrefixInv'
<1>. DEFINE k == taken + 1
            size == task.sizes[k]
<1>1. /\ phaseOf = "fill" /\ Joins(k) /\ lot' = lot \cup {k} /\ taken' = k
      /\ left' = IF size <= left THEN left - size ELSE 0
      /\ decode' = [decode EXCEPT ![k] = Waits]
      /\ UNCHANGED <<task, given, phaseOf, stopToken, returned>>
  BY DEF TakeIntoLot
<1>2. /\ Count \in Nat /\ Memory \in Nat /\ IsFiniteSet(1 .. Count) /\ Count' = Count
      /\ taken \in Nat /\ given \in 0 .. taken /\ left \in 0 .. Memory
      /\ lot \in SUBSET (1 .. Count) /\ decode \in [1 .. Count -> DecodeStates]
  BY <1>1, TaskFacts DEF PrefixInv, Count, PrefixTypeOK
<1>3. k \in 1 .. Count /\ size \in Nat /\ k > given /\ k \notin lot /\ decode[k] = "none"
  <2>1. k \in 1 .. Count /\ k > taken /\ k > given
    BY <1>1, <1>2 DEF Joins
  <2>2. k \notin lot
    BY <1>1, <1>2, <2>1 DEF PrefixInv, LotInv
  <2>. QED
    BY <2>1, <2>2, TaskFacts DEF PrefixInv, DecodeInv
<1>4. left' \in 0 .. Memory
  BY SMTT(60), <1>1, <1>2, <1>3
<1>5. PrefixTypeOK'
  <2>1. taken' \in 0 .. Count' /\ given' \in 0 .. taken' /\ lot' \in SUBSET (1 .. Count')
    BY <1>1, <1>2, <1>3
  <2>2. decode' \in [1 .. Count' -> DecodeStates]
    BY <1>1, <1>2 DEF DecodeStates
  <2>. QED
    BY <1>1, <1>4, <2>1, <2>2 DEF PrefixInv, PrefixTypeOK
<1>6. LotInv'
  <2>1. ASSUME NEW m \in 1 .. Count PROVE m \in lot' /\ m > given <=> given < m /\ m <= k
    <3>1. m \in lot /\ m > given <=> given < m /\ m <= taken
      BY <1>1 DEF PrefixInv, LotInv
    <3>. QED
      BY <1>1, <1>2, <1>3, <3>1
  <2>. QED
    BY <1>1, <1>2, <2>1 DEF LotInv
<1>7. DecodeInv'
  <2>. HIDE DEF k, size
  <2>1. \A m \in 1 .. Count : decode'[m] = IF m = k THEN Waits ELSE decode[m]
    BY <1>1, <1>2
  <2>2. \A m \in 1 .. Count : m # k => (m > k <=> m > taken)
    BY <1>2 DEF k
  <2>3. ~(k <= given) /\ ~(k > k)
    BY <1>2, <1>3
  <2>. QED
    BY <1>1, <1>2, <2>1, <2>2, <2>3 DEF PrefixInv, DecodeInv, Waits
<1>8. MemoryInv'
  <2>1. SUFFICES ASSUME task.family = "rar50"
                 PROVE  /\ \A m \in 1 .. Count : task.sizes[m] <= Memory
                        /\ Total(Retained', 1 .. Count, Memory + 1) + left' <= Memory
    <3>1. returned = "none"
      BY <1>1 DEF PrefixInv, AnswerInv
    <3>2. Total(Retained', 1 .. Count, Memory + 1) \in Nat
      <4>1. IsFiniteSet(1 .. Count) /\ Memory + 1 \in Nat
        BY <1>2
      <4>. HIDE DEF Count
      <4>. QED
        BY <4>1, TotalFinite
    <3>. QED
      BY <1>1, <1>2, <1>4, <2>1, <3>1, <3>2 DEF MemoryInv
  <2>2. /\ \A m \in 1 .. Count : task.sizes[m] <= Memory
        /\ Total(Retained, 1 .. Count, Memory + 1) + left <= Memory
    BY <1>1, <2>1 DEF PrefixInv, MemoryInv, AnswerInv
  <2>3. size <= left /\ left' = left - size
    BY <1>1, <2>1 DEF Joins
  <2>4. Retained \in [1 .. Count -> 0 .. Memory + 1]
    BY <2>1, RetainedType
  <2>5. Retained[k] = 0 /\ Retained'[k] = size
    BY <1>1, <1>2, <1>3 DEF Retained, Waits
  <2>6. \A m \in 1 .. Count : m # k => Retained'[m] = Retained[m]
    BY <1>1, <1>2, <1>3 DEF Retained
  <2>7. Retained' \in [1 .. Count -> 0 .. Memory + 1]
    <3>1. Retained' = [m \in 1 .. Count |-> Retained'[m]]
      BY <1>2 DEF Retained
    <3>2. size \in 0 .. Memory + 1
      BY <1>2, <1>3, <2>2
    <3>. HIDE DEF k, size
    <3>3. ASSUME NEW m \in 1 .. Count PROVE Retained'[m] \in 0 .. Memory + 1
      BY <2>4, <2>5, <2>6, <3>2
    <3>. QED
      BY <3>1, <3>3
  <2>8. Total(Retained', 1 .. Count, Memory + 1) = Total(Retained, 1 .. Count, Memory + 1) - Retained[k] + Retained'[k]
    <3>1. \A m \in (1 .. Count) \ {k} : Retained'[m] = Retained[m]
      BY <2>6
    <3>2. Memory + 1 \in Nat /\ k \in 1 .. Count
      BY <1>2, <1>3
    <3>3. IsFiniteSet(1 .. Count)
      BY <1>2
    <3>. DEFINE S == 1 .. Count
    <3>. HIDE DEF k, size, S
    <3>4. Total(Retained', S, Memory + 1) = Total(Retained, S, Memory + 1) - Retained[k] + Retained'[k]
      <4>1. IsFiniteSet(S) /\ k \in S /\ Memory + 1 \in Nat
        BY <3>2, <3>3 DEF S
      <4>2. Retained \in [S -> 0 .. Memory + 1] /\ Retained' \in [S -> 0 .. Memory + 1]
        BY <2>4, <2>7 DEF S
      <4>3. \A m \in S \ {k} : Retained'[m] = Retained[m]
        BY <3>1 DEF S
      <4>. QED
        BY <4>1, <4>2, <4>3, TotalUpdate
    <3>. QED
      BY <3>4 DEF S
  <2>9. Total(Retained, 1 .. Count, Memory + 1) \in Nat
    BY <1>2, TotalFinite
  <2>10. Total(Retained', 1 .. Count, Memory + 1) + left' <= Memory
    <3>. HIDE DEF k, size
    <3>. QED
      BY <1>2, <1>3, <2>2, <2>3, <2>5, <2>8, <2>9
  <2>. QED
    BY <2>2, <2>10
<1>9. AnswerInv'
  BY <1>1, <1>2 DEF PrefixInv, AnswerInv
<1>. QED
  BY <1>5, <1>6, <1>7, <1>8, <1>9 DEF PrefixInv

\* A worker changes what is said of its own member, which stays in memory.
LEMMA DecoderStep ==
  ASSUME PrefixInv, NEW k \in 1 .. Count, DecoderNext(k)
  PROVE  PrefixInv'
<1>1. /\ UNCHANGED <<task, taken, lot, left, given, phaseOf, stopToken, returned>>
      /\ phaseOf = "map" /\ decode[k] \in {Waits, "decoding"}
      /\ \E d \in {"decoding", "verified", "damaged", "cancelled"} :
           /\ decode' = [decode EXCEPT ![k] = d]
           /\ d = "damaged" => k \in task.damaged
           /\ d = "verified" => k \notin task.damaged
           /\ d = "cancelled" => stopToken
  <2>1. CASE BeginMember(k)
    <3>1. task.sizes[k] = 0 => k \notin task.damaged
      BY TaskFacts DEF PrefixInv
    <3>. QED
      BY <2>1, <3>1 DEF BeginMember, lotVars
  <2>2. CASE EndMember(k)
    <3>1. phaseOf = "map"
      BY <2>2 DEF EndMember, PrefixInv, DecodeInv
    <3>. QED
      BY <2>2, <3>1 DEF EndMember, lotVars
  <2>. QED
    BY <2>1, <2>2 DEF DecoderNext
<1>2. PICK d \in {"decoding", "verified", "damaged", "cancelled"} :
           /\ decode' = [decode EXCEPT ![k] = d]
           /\ d = "damaged" => k \in task.damaged
           /\ d = "verified" => k \notin task.damaged
           /\ d = "cancelled" => stopToken
  BY <1>1
<1>3. /\ Count' = Count /\ decode \in [1 .. Count -> DecodeStates]
      /\ \A m \in 1 .. Count : decode'[m] = IF m = k THEN d ELSE decode[m]
  BY <1>1, <1>2 DEF Count, PrefixInv, PrefixTypeOK
<1>4. PrefixTypeOK'
  BY <1>1, <1>2, <1>3 DEF PrefixInv, PrefixTypeOK, DecodeStates
<1>5. LotInv'
  BY <1>1, <1>3 DEF PrefixInv, LotInv
<1>6. DecodeInv'
  <2>1. ~(k > taken) /\ ~(k <= given)
    BY <1>1 DEF PrefixInv, DecodeInv, Waits
  <2>. QED
    BY <1>1, <1>2, <1>3, <2>1 DEF PrefixInv, DecodeInv
<1>7. Retained' = Retained
  <2>1. \A m \in 1 .. Count : decode'[m] # "none" <=> decode[m] # "none"
    BY <1>1, <1>2, <1>3 DEF Waits
  <2>. QED
    BY <1>1, <1>3, <2>1 DEF Retained
<1>8. MemoryInv'
  BY <1>1, <1>3, <1>7 DEF PrefixInv, MemoryInv
<1>9. AnswerInv'
  BY <1>1, <1>3 DEF PrefixInv, AnswerInv
<1>. QED
  BY <1>4, <1>5, <1>6, <1>8, <1>9 DEF PrefixInv

\* The caller receives the next member of the batch, or none.
LEMMA OutputStep ==
  ASSUME PrefixInv, OpenMember \/ WriteMember \/ EndLot
  PROVE  PrefixInv'
<1>1. /\ UNCHANGED <<task, taken, lot, left, decode, stopToken>> /\ Count' = Count
      /\ returned = "none" /\ phaseOf \in {"publish", "opened"}
  BY DEF OpenMember, WriteMember, EndLot, GiveBack, lotVars, PrefixInv, AnswerInv, Count
<1>2. /\ Count \in Nat /\ Memory \in Nat /\ IsFiniteSet(1 .. Count)
      /\ taken \in 0 .. Count /\ given \in 0 .. taken /\ lot \in SUBSET (1 .. Count)
      /\ decode \in [1 .. Count -> DecodeStates]
  BY <1>1, TaskFacts DEF PrefixInv, PrefixTypeOK
<1>3. CASE given' = given + 1
  <2>. DEFINE k == given + 1
  <2>1. k \in lot /\ decode[k] = "verified" /\ phaseOf' = "written" /\ returned' = "none"
    BY <1>1, <1>2, <1>3 DEF OpenMember, WriteMember, EndLot, GiveBack, PrefixInv, LotInv, More
  <2>2. k \in 1 .. Count /\ k <= taken
    BY <1>1, <1>2, <2>1 DEF PrefixInv, LotInv
  <2>3. PrefixTypeOK'
    BY <1>1, <1>2, <1>3, <2>1, <2>2 DEF PrefixInv, PrefixTypeOK, CallStages
  <2>4. LotInv'
    <3>1. ASSUME NEW m \in 1 .. Count PROVE m \in lot /\ m > k <=> k < m /\ m <= taken
      <4>1. m \in lot /\ m > given <=> given < m /\ m <= taken
        BY <1>1 DEF PrefixInv, LotInv
      <4>. QED
        BY <1>2, <4>1
    <3>. QED
      BY <1>1, <1>3, <2>1, <3>1 DEF LotInv
  <2>5. DecodeInv'
    <3>1. \A m \in 1 .. Count : m <= k => m <= given \/ m = k
      BY <1>2
    <3>. HIDE DEF k
    <3>2. given' = k
      BY <1>3 DEF k
    <3>. QED
      BY <1>1, <2>1, <3>1, <3>2 DEF PrefixInv, DecodeInv
  <2>6. MemoryInv'
    <3>1. SUFFICES ASSUME task.family = "rar50"
                   PROVE  /\ lot # {} => \A m \in 1 .. Count : task.sizes[m] <= Memory
                          /\ phaseOf' \notin {"enter", "returned"} => \A m \in 1 .. Count : task.sizes[m] <= Memory
                          /\ Total(Retained', 1 .. Count, Memory + 1) <= Memory
      BY <1>1, <2>1, <3>1 DEF MemoryInv
    <3>2. /\ \A m \in 1 .. Count : task.sizes[m] <= Memory
          /\ Total(Retained, 1 .. Count, Memory + 1) <= Memory
      BY <1>1, <3>1 DEF PrefixInv, MemoryInv
    <3>3. Total(Retained', 1 .. Count, Memory + 1) <= Total(Retained, 1 .. Count, Memory + 1)
      <4>1. Retained \in [1 .. Count -> 0 .. Memory + 1]
        BY <3>1, RetainedType
      <4>2. Retained'[k] = 0 /\ \A m \in (1 .. Count) \ {k} : Retained'[m] = Retained[m]
        <5>1. \A m \in (1 .. Count) \ {k} : m > given <=> m > k
          BY <1>2
        <5>2. ~(k > k)
          BY <1>2
        <5>. QED
          BY <1>1, <1>3, <2>2, <5>1, <5>2 DEF Retained
      <4>3. Retained' = [m \in 1 .. Count |-> Retained'[m]]
        BY <1>1 DEF Retained
      <4>. HIDE DEF k
      <4>4. Retained' \in [1 .. Count -> 0 .. Memory + 1]
        <5>1. ASSUME NEW m \in 1 .. Count PROVE Retained'[m] \in 0 .. Memory + 1
          BY <1>2, <4>1, <4>2
        <5>. QED
          BY <4>3, <5>1
      <4>5. Memory + 1 \in Nat
        BY <1>2
      <4>6. Total(Retained', 1 .. Count, Memory + 1) = Total(Retained, 1 .. Count, Memory + 1) - Retained[k] + Retained'[k]
        <5>. DEFINE S == 1 .. Count
        <5>1. IsFiniteSet(S) /\ k \in S
          BY <1>2, <2>2
        <5>2. Retained \in [S -> 0 .. Memory + 1] /\ Retained' \in [S -> 0 .. Memory + 1]
          BY <4>1, <4>4
        <5>3. \A m \in S \ {k} : Retained'[m] = Retained[m]
          BY <4>2
        <5>. HIDE DEF S
        <5>4. Total(Retained', S, Memory + 1) = Total(Retained, S, Memory + 1) - Retained[k] + Retained'[k]
          BY <4>5, <5>1, <5>2, <5>3, TotalUpdate
        <5>. QED
          BY <5>4 DEF S
      <4>7. Total(Retained, 1 .. Count, Memory + 1) \in Nat /\ Retained[k] \in Nat
        BY <1>2, <2>2, <4>1, <4>5, TotalFinite
      <4>. QED
        BY <4>2, <4>6, <4>7
    <3>4. Total(Retained', 1 .. Count, Memory + 1) \in Nat /\ Total(Retained, 1 .. Count, Memory + 1) \in Nat
      BY <1>2, TotalFinite
    <3>. QED
      BY <1>2, <3>2, <3>3, <3>4
  <2>7. AnswerInv'
    BY <1>1, <2>1 DEF AnswerInv
  <2>. QED
    BY <2>3, <2>4, <2>5, <2>6, <2>7 DEF PrefixInv
<1>4. CASE given' = given
  <2>1. Count' = Count /\ Retained' = Retained
    BY <1>1, <1>4, QuietMembers
  <2>2. \/ phaseOf' \in {"opened"} /\ returned' = "none" /\ More
        \/ phaseOf' = "next" /\ returned' = "none" /\ given + 1 \notin lot
        \/ phaseOf' = "returned" /\ returned' \in {"callback", "sink"}
        \/ phaseOf' = "returned" /\ returned' = decode[given + 1] /\ given + 1 \in lot /\ phaseOf = "publish" /\ ~More
    <3>1. ~(given = given + 1)
      BY <1>2
    <3>. QED
      BY <1>1, <1>4, <3>1 DEF OpenMember, WriteMember, EndLot, GiveBack
  <2>3. ASSUME phaseOf' = "returned", returned' = decode[given + 1], given + 1 \in lot, phaseOf = "publish", ~More
        PROVE  returned' \in {"damaged", "cancelled"}
    <3>1. given + 1 \in 1 .. Count /\ given + 1 <= taken
      BY <1>2, <2>3 DEF PrefixInv, LotInv
    <3>2. decode[given + 1] \in DecodeStates /\ decode[given + 1] \notin {"none", "decoding", Waits, "verified"}
      BY <1>2, <2>3, <3>1 DEF PrefixInv, DecodeInv, More
    <3>. QED
      BY <2>3, <3>2 DEF DecodeStates
  <2>4. PrefixTypeOK'
    BY <1>1, <1>2, <1>4, <2>2, <2>3 DEF PrefixInv, PrefixTypeOK, CallStages, Answers
  <2>5. LotInv'
    <3>1. ASSUME given + 1 \notin lot PROVE given = taken
      <4>1. given < taken => given + 1 \in 1 .. Count /\ given < given + 1 /\ given + 1 <= taken
        BY <1>2
      <4>2. given < taken => given + 1 \in lot
        BY <1>1, <4>1 DEF PrefixInv, LotInv
      <4>. QED
        BY <1>2, <3>1, <4>2
    <3>. QED
      BY <1>1, <1>4, <2>2, <3>1 DEF PrefixInv, LotInv, More
  <2>6. DecodeInv'
    BY <1>1, <1>4, <2>2 DEF PrefixInv, DecodeInv
  <2>7. MemoryInv'
    BY <1>1, <2>1, <2>2 DEF PrefixInv, MemoryInv
  <2>8. AnswerInv'
    <3>1. ASSUME returned' = decode[given + 1], given + 1 \in lot
          PROVE  /\ returned' = "damaged" => given + 1 \in task.damaged
                 /\ returned' = "cancelled" => stopToken
      BY <1>2, <3>1 DEF PrefixInv, DecodeInv
    <3>. QED
      BY <1>1, <1>4, <2>2, <2>3, <3>1 DEF AnswerInv
  <2>. QED
    BY <2>4, <2>5, <2>6, <2>7, <2>8 DEF PrefixInv
<1>5. given' \in {given, given + 1}
  BY DEF OpenMember, WriteMember, EndLot
<1>. QED
  BY <1>3, <1>4, <1>5

LEMMA PrefixBegins == PrefixInit => PrefixInv
<1>. SUFFICES ASSUME PrefixInit PROVE PrefixInv
  OBVIOUS
<1>1. /\ task \in Tasks /\ taken = 0 /\ lot = {} /\ left = 0 /\ given = 0
      /\ decode = [m \in 1 .. Count |-> "none"]
      /\ phaseOf = "enter" /\ stopToken = FALSE /\ returned = "none"
  BY DEF PrefixInit
<1>2. Count \in Nat /\ Memory \in Nat
  <2>1. task.sizes \in Seq(Nat) /\ Memory \in Nat
    BY <1>1, TasksAssumption DEF TasksAssumption
  <2>. QED
    BY <2>1, LenProperties DEF Count
<1>3. PrefixTypeOK
  <2>1. taken \in 0 .. Count /\ given \in 0 .. taken /\ left \in 0 .. Memory
    BY <1>1, <1>2
  <2>2. decode \in [1 .. Count -> DecodeStates]
    BY <1>1 DEF DecodeStates
  <2>. QED
    BY <1>1, <2>1, <2>2 DEF PrefixTypeOK, CallStages, Answers
<1>4. LotInv /\ AnswerInv
  BY <1>1 DEF LotInv, AnswerInv
<1>5. DecodeInv
  <2>1. \A m \in 1 .. Count : m > 0 /\ ~(m <= 0)
    BY <1>2
  <2>. QED
    BY <1>1, <2>1 DEF DecodeInv, Waits
<1>6. MemoryInv
  <2>1. Retained = [m \in 1 .. Count |-> 0]
    BY <1>1 DEF Retained
  <2>2. IsFiniteSet(1 .. Count)
    BY <1>2, FS_Interval
  <2>3. Total(Retained, 1 .. Count, Memory + 1) = 0
    BY <1>2, <2>1, <2>2, NothingRetained
  <2>. QED
    BY <1>1, <1>2, <2>3 DEF MemoryInv
<1>. QED
  BY <1>3, <1>4, <1>5, <1>6 DEF PrefixInv

\* Every step of the calling thread, its workers and the token keeps the invariant.
LEMMA PrefixStep == PrefixInv /\ [PrefixNext]_prefixVars => PrefixInv'
<1>. SUFFICES ASSUME PrefixInv, [PrefixNext]_prefixVars PROVE PrefixInv'
  OBVIOUS
<1>1. CASE CancelTask \/ CallerNext
  BY <1>1, StopOrEnterStep, BeginLotStep, TakeStep, OutputStep DEF CallerNext
<1>2. ASSUME NEW m \in 1 .. Count, DecoderNext(m) PROVE PrefixInv'
  BY <1>2, DecoderStep
<1>3. CASE UNCHANGED prefixVars
  <2>1. UNCHANGED <<task, taken, lot, left, decode, given, phaseOf, stopToken, returned>>
    BY <1>3 DEF prefixVars, lotVars
  <2>2. Count' = Count /\ Retained' = Retained
    BY <2>1, QuietMembers
  <2>. QED
    BY <2>1, <2>2 DEF PrefixInv, PrefixTypeOK, LotInv, DecodeInv, MemoryInv, AnswerInv
<1>. QED
  BY <1>1, <1>2, <1>3 DEF PrefixNext, PrefixDone

\* The invariant says what the caller is promised.
LEMMA PrefixIsPromised ==
  ASSUME PrefixInv
  PROVE  PrefixIsDelivered
<1>1. /\ Count \in Nat /\ given \in 0 .. Count /\ task.damaged \subseteq 1 .. Count
  BY TaskFacts DEF PrefixInv, PrefixTypeOK
<1>2. \A m \in task.damaged : given < m
  <2>1. \A m \in 1 .. Count : m <= given => m \notin task.damaged
    BY DEF PrefixInv, DecodeInv
  <2>. QED
    BY <1>1, <2>1
<1>3. returned = "damaged" => given + 1 = Min(task.damaged)
  <2>. SUFFICES ASSUME given + 1 \in task.damaged PROVE given + 1 = Min(task.damaged)
    BY DEF PrefixInv, AnswerInv
  <2>1. task.damaged \in SUBSET Nat /\ task.damaged # {}
    BY <1>1
  <2>2. Min(task.damaged) \in task.damaged /\ \A y \in task.damaged : Min(task.damaged) <= y
    BY <2>1, MinExists
  <2>3. Min(task.damaged) \in Nat /\ Min(task.damaged) <= given + 1 /\ given < Min(task.damaged)
    BY <1>2, <2>1, <2>2
  <2>. QED
    BY <1>1, <2>3
<1>4. returned = "complete" => given = Count /\ task.damaged = {}
  BY <1>1, <1>2 DEF PrefixInv, AnswerInv
<1>5. returned = "cancelled" => stopToken
  BY DEF PrefixInv, AnswerInv
<1>. QED
  BY <1>2, <1>3, <1>4, <1>5 DEF PrefixIsDelivered, PrefixInv, MemoryInv

----------------------------------------------------------------------------
(* One member after the other.                                             *)

Stages == {"next", "select", "selected", "join", "admit", "open", "opened", "write", "returned",
           "link", "failed", "handler", "handled", "done"}
Failures == {"none", "limit", "refused", "callback", "sink", "cancelled", "damaged"}
Troubles == {"observed", "codec", "sink", "exceeded"}
Fates == {"untouched", "done", "skipped", "failed"}

\* The current member has not been touched yet, or its decoder is at work.
Before  == {"select", "selected", "join", "admit", "open", "opened"}
Running == {"write", "returned", "link"}

MemberTypeOK ==
  /\ job \in Jobs /\ at \in 0 .. Len(job.entries) /\ stage \in Stages /\ token \in BOOLEAN
  /\ stage \notin {"next", "done"} => at # 0
  /\ answer \in Failures \cup {"complete", "stopped"} /\ (answer = "none" <=> stage # "done")
  /\ failure \in Failures /\ (stage \in {"failed", "handler", "handled"} => failure # "none")
  /\ pending \in Seq(Entries) /\ parts \in Seq(Entries)
  /\ history \in SUBSET Entries /\ decoded \in Nat /\ ready \in BOOLEAN
  /\ spent \in Nat /\ accepted \in [Entries -> Nat] /\ trouble \in SUBSET Troubles
  /\ seen \in [Entries -> SUBSET Entries] /\ made \in [Entries -> Seq(Entries)]
  /\ fate \in [Entries -> Fates] /\ spoiled \in SUBSET Entries

\* Entries that the loop has not come to, and the current one before its decoder
\* runs, are as they were at first.
UntouchedInv ==
  \A i \in Entries :
    /\ i > at \/ (i = at /\ stage \in Before) => accepted[i] = 0 /\ i \notin spoiled
    /\ i > at \/ (i = at /\ stage \notin {"next", "done"}) => fate[i] = "untouched"

BudgetInv ==
  /\ \A i \in Entries : WithinMember(accepted[i])
  /\ job.totalLimit # NoLimit =>
       /\ spent = Total(accepted, Entries, NoLimit + 1) /\ spent <= job.totalLimit
       /\ \A i \in Entries : accepted[i] <= spent

\* What the error of the current member says did happen to it.
Happened(f) ==
  /\ f = "damaged" => at \in spoiled
  /\ f = "sink" => "sink" \in trouble
  /\ f = "cancelled" => token /\ (job.handler \/ trouble \subseteq {"observed"})
  /\ f = "limit" =>
       \/ Now.kind = "huge"
       \/ ~WithinMember(Now.size) \/ ~WithinMember(accepted[at] + 1)
       \/ ~WithinTotal(Now.size) \/ ~WithinTotal(1)

\* What the guarded writer and the decoder may leave of one member.
Outcomes == {{}, {"observed"}, {"codec"}, {"sink", "codec"}, {"exceeded", "codec"}}

BlameInv ==
  /\ stage = "write" => trouble = {} /\ at \notin spoiled
  /\ stage = "link" => trouble = {}
  /\ stage = "returned" =>
       /\ trouble \in Outcomes
       /\ trouble = {} => at \notin spoiled
       /\ trouble = {"codec"} => at \in spoiled
       /\ trouble = {"observed"} => token
       /\ "exceeded" \in trouble => ~WithinMember(accepted[at] + 1) \/ ~WithinTotal(1)
  /\ ~job.handler /\ stage \in Before \cup {"next"} => trouble = {}
  /\ stage \in {"handler", "handled"} => job.handler
  /\ stage \in {"failed", "handler", "handled"} => Happened(failure)
  /\ stage = "done" => Happened(answer)

\* q are consecutive entries up to e: a first part and its continuations.
Run(q, e) ==
  /\ Len(q) >= 1 /\ Len(q) <= e
  /\ \A n \in 1 .. Len(q) : q[n] = e - Len(q) + n
  /\ ~E(q[1]).before
  /\ \A n \in 2 .. Len(q) :
       /\ E(q[n - 1]).after /\ E(q[n]).before
       /\ E(q[n]).name = E(q[1]).name /\ E(q[n]).kind = E(q[1]).kind

\* What is read as one member is one member, and what waits for its continuation
\* is the beginning of one.
PartsInv ==
  /\ pending # <<>> =>
       /\ job.volumes /\ stage \in {"next", "join", "failed", "done"}
       /\ E(pending[1]).kind # "directory"
       /\ stage = "next" => Run(pending, at) /\ E(at).after
       /\ stage = "join" => Run(pending, at - 1) /\ E(at - 1).after
  /\ stage = "join" => job.volumes
  /\ stage \in {"select", "selected"} => job.selector
  /\ stage \notin {"next", "done"} /\ (~job.volumes \/ stage = "join") => parts = <<at>>
  /\ stage \in {"open", "opened"} \cup Running \/ (stage = "admit" /\ job.volumes) =>
       /\ Run(parts, at) /\ ~Now.after
       /\ ~HasOutput(Now) => parts = <<at>>
  /\ stage \in Running => HasOutput(Now) /\ made[at] = parts

\* Every entry the loop is past is accounted for, or waits with the current member.
Accounted(i) ==
  \/ fate[i] \in {"done", "skipped"} \/ (fate[i] = "failed" /\ job.handler)
  \/ \E f \in Entries : fate[f] = "done" /\ \E n \in DOMAIN made[f] : made[f][n] = i
Awaits(i) ==
  \/ \E n \in DOMAIN pending : pending[n] = i
  \/ stage \notin {"next", "done"} /\ \E n \in DOMAIN parts : parts[n] = i
AccountInv ==
  /\ stage # "done" =>
       \A i \in Entries : i < at \/ (i = at /\ stage = "next") => Accounted(i) \/ Awaits(i)
  /\ answer = "complete" => \A i \in Entries : Accounted(i)

\* What was extracted is whole, and what is about to be is on the way there.
WholeInv ==
  /\ \A i \in Entries :
       HasOutput(E(i)) /\ fate[i] = "done" =>
         Contiguous(i) /\ accepted[i] = E(i).size /\ i \notin spoiled
  /\ stage = "write" /\ InMemory /\ ~ready => accepted[at] = 0
  /\ (stage = "returned" /\ trouble = {}) \/ stage = "link" => accepted[at] = Now.size /\ at \notin spoiled
  /\ \A i \in spoiled :
       job.family = "rar50" /\ Compressed(E(i)) /\ E(i).size <= Buffered => accepted[i] = 0

\* The loop is past member i, or as good as past it.
Past(i) == i < at \/ (i = at /\ stage \in {"next", "link"})
Coded == {i \in CompressedMembers : Past(i)}

\* Members whose output the decoder has kept: a copy is kept when its member proved good.
Kept == {i \in CompressedMembers : Past(i) \/ (i = at /\ ~OnCopy /\ stage \in {"write", "returned"})}

\* A member is decoded with the history its encoder had.
SeenInv ==
  \A i \in CompressedMembers :
    fate[i] = "done" \/ (i = at /\ stage \in Running) =>
      seen[i] = Chain(i) /\ \A j \in seen[i] : fate[j] = "done"

\* In an archive with solid members the decoder follows the archive's own chain.
HistoryInv ==
  /\ stage \in {"handler", "handled"} => ~AnySolid
  /\ AnySolid /\ stage \notin {"failed", "done"} =>
       /\ \A i \in CompressedMembers : i < at \/ (i = at /\ stage = "next") => fate[i] = "done"
       /\ history = {j \in Kept : \A k \in Kept : k > j => ~StartsAfresh(k)}
       /\ job.family \in {"rar13", "rar15"} => (decoded = 0 => Coded = {})
       /\ job.family = "rar15" =>
            /\ decoded # 0 => \E i \in Coded : \A k \in Coded : k <= i
            /\ \A i \in Kept : (\A k \in Kept : k <= i) => codec = E(i).old

LEMMA JobFacts ==
  ASSUME job \in Jobs
  PROVE  /\ Len(job.entries) \in Nat /\ Entries = 1 .. Len(job.entries) /\ IsFiniteSet(Entries)
         /\ \A i \in Entries : E(i) \in Entry
         /\ job.family \in {"rar13", "rar15", "rar50"}
         /\ {job.solid, job.volumes, job.selector, job.handler, job.links} \subseteq BOOLEAN
         /\ job.handler => job.selector
         /\ job.selector => ~job.volumes /\ ~job.links
         /\ NoLimit \in Nat /\ job.memberLimit \in 0 .. NoLimit /\ job.totalLimit \in 0 .. NoLimit
         /\ job.volumes => \A i \in Entries : E(i).kind = "redirection" => ~Split(E(i))
<1>1. /\ job.family \in {"rar13", "rar15", "rar50"} /\ job.entries \in Seq(Entry)
      /\ {job.solid, job.volumes, job.selector, job.handler, job.links} \subseteq BOOLEAN
      /\ job.handler => job.selector
      /\ job.selector => ~job.volumes /\ ~job.links
      /\ NoLimit \in Nat /\ job.memberLimit \in 0 .. NoLimit /\ job.totalLimit \in 0 .. NoLimit
  BY JobsAssumption DEF JobsAssumption
<1>2. job.volumes => \A i \in Entries : E(i).kind = "redirection" => ~Split(E(i))
  BY JobsAssumption DEF JobsAssumption, Entries, E, Split
<1>3. Len(job.entries) \in Nat /\ Entries = 1 .. Len(job.entries)
  BY <1>1, LenProperties DEF Entries
<1>4. \A i \in Entries : E(i) \in Entry
  BY <1>1, <1>3, ElementOfSeq DEF E
<1>5. IsFiniteSet(Entries)
  BY <1>3, FS_Interval
<1>. QED
  BY <1>1, <1>2, <1>3, <1>4, <1>5

\* Steps of the loop that touch no member.
LoopStep ==
  \/ Cancel \/ Interrupt \/ NextEntry \/ EndOfEntries \/ Select \/ TakeMember \/ JoinVolumes
  \/ AdmitMember \/ AdmitDirectory \/ OpenOutput \/ FailRun \/ GiveUp \/ AskHandler \/ Handler

\* Steps that settle what becomes of the current entry.
FateStep ==
  \/ SkipMember \/ Redirect \/ OpenedDirectory \/ FinishRun \/ EmitLink \/ Handled

RunStep ==
  \/ BeginDecoding \/ Observe \/ FindDamage \/ VerifyInMemory \/ WriteByte \/ WriteRefused \/ AllWritten

LEMMA MemberSteps ==
  ASSUME [MemberNext]_memberVars
  PROVE  LoopStep \/ FateStep \/ RunStep \/ UNCHANGED memberVars
BY DEF MemberNext, LoopStep, FateStep, RunStep, MemberDone

LEMMA LoopKeeps ==
  ASSUME LoopStep
  PROVE  UNCHANGED <<job, history, codec, decoded, ready, spent, accepted, trouble, seen, made,
                     fate, spoiled>>
BY DEF LoopStep, Cancel, Interrupt, NextEntry, EndOfEntries, Select, TakeMember, JoinVolumes,
   AdmitMember, AdmitDirectory, OpenOutput, FailRun, GiveUp, AskHandler, Handler,
   OnlyLoop, callVars, sessionVars, budgetVars, recordVars

LEMMA FateKeeps ==
  ASSUME FateStep
  PROVE  UNCHANGED <<job, token, at, pending, parts, ready, spent, accepted, trouble, seen, made,
                     spoiled, decision>>
BY DEF FateStep, SkipMember, Redirect, OpenedDirectory, FinishRun, EmitLink, Handled,
   callVars, readVars, sessionVars, budgetVars, recordVars

LEMMA RunKeeps ==
  ASSUME RunStep
  PROVE  UNCHANGED <<job, token, at, pending, parts, decision, failure, answer, decoded, fate>>
BY DEF RunStep, BeginDecoding, Observe, FindDamage, VerifyInMemory, WriteByte, WriteRefused, AllWritten,
   callVars, loopVars, readVars, sessionVars, recordVars

LEMMA StutterKeeps ==
  ASSUME UNCHANGED memberVars
  PROVE  UNCHANGED <<job, token, at, stage, decision, failure, answer, pending, parts, history, codec,
                     decoded, ready, spent, accepted, trouble, seen, made, fate, spoiled>>
BY DEF memberVars, callVars, loopVars, readVars, sessionVars, budgetVars, recordVars

LEMMA JobStays ==
  ASSUME [MemberNext]_memberVars
  PROVE  job' = job /\ Entries' = Entries
<1>1. job' = job
  BY MemberSteps, LoopKeeps, FateKeeps, RunKeeps, StutterKeeps
<1>. QED
  BY <1>1 DEF Entries

----------------------------------------------------------------------------
(* The loop.                                                               *)

LEMMA LoopTypes ==
  ASSUME MemberTypeOK, LoopStep
  PROVE  MemberTypeOK'
<1>1. /\ Len(job.entries) \in Nat /\ Entries = 1 .. Len(job.entries) /\ job' = job /\ Entries' = Entries
  BY JobFacts, LoopKeeps DEF MemberTypeOK, Entries
<1>2. /\ (history \in SUBSET Entries /\ decoded \in Nat /\ ready \in BOOLEAN)'
      /\ (spent \in Nat /\ accepted \in [Entries -> Nat] /\ trouble \in SUBSET Troubles)'
      /\ (seen \in [Entries -> SUBSET Entries] /\ made \in [Entries -> Seq(Entries)])'
      /\ (fate \in [Entries -> Fates] /\ spoiled \in SUBSET Entries)'
  BY <1>1, LoopKeeps DEF MemberTypeOK, Troubles, Fates
<1>3. CASE NextEntry
  <2>1. at' = at + 1 /\ at' \in Entries
    BY <1>1, <1>3 DEF NextEntry, AtEnd, MemberTypeOK
  <2>2. parts' \in Seq(Entries) /\ pending' \in Seq(Entries)
    BY <1>3, <2>1 DEF NextEntry, MemberTypeOK
  <2>3. (stage \in Stages /\ token \in BOOLEAN /\ failure \in Failures)'
        /\ stage' \notin {"failed", "handler", "handled"}
    BY <1>3 DEF NextEntry, MemberTypeOK, Stages, Failures, callVars
  <2>4. (answer \in Failures \cup {"complete", "stopped"} /\ (answer = "none" <=> stage # "done"))'
    BY <1>3 DEF NextEntry, MemberTypeOK, AtEnd
  <2>. QED
    BY <1>1, <1>2, <2>1, <2>2, <2>3, <2>4 DEF MemberTypeOK
<1>4. CASE JoinVolumes
  <2>1. at \in Entries /\ at' = at /\ token' = token /\ answer' = answer
    BY <1>1, <1>4 DEF JoinVolumes, MemberTypeOK, callVars
  <2>2. parts' \in Seq(Entries) /\ pending' \in Seq(Entries)
    <3>1. <<at>> \in Seq(Entries) /\ <<>> \in Seq(Entries) /\ Append(pending, at) \in Seq(Entries)
      BY <2>1, AppendProperties, EmptySeq DEF MemberTypeOK
    <3>2. /\ pending' \in {pending, <<at>>, <<>>, Append(pending, at)}
          /\ parts' \in {parts, Append(pending, at)}
      BY <1>4 DEF JoinVolumes, readVars
    <3>. QED
      BY <1>1, <3>1, <3>2 DEF MemberTypeOK
  <2>3. /\ (stage \in Stages /\ failure \in Failures)' /\ stage' # "done" /\ stage # "done"
        /\ stage' \in {"failed", "handler", "handled"} => failure' # "none"
    BY <1>4 DEF JoinVolumes, MemberTypeOK, Stages, Failures, Fail
  <2>. QED
    BY <1>1, <1>2, <2>1, <2>2, <2>3 DEF MemberTypeOK
<1>5. CASE ~NextEntry /\ ~JoinVolumes
  <2>1. UNCHANGED <<at, pending, parts>>
    BY <1>5 DEF LoopStep, Cancel, Interrupt, EndOfEntries, Select, TakeMember, AdmitMember, AdmitDirectory,
       OpenOutput, FailRun, GiveUp, AskHandler, Handler, OnlyLoop, readVars, loopVars
  <2>2. (token \in BOOLEAN)'
    BY <1>5 DEF MemberTypeOK, LoopStep, Cancel, Interrupt, EndOfEntries, Select, TakeMember, AdmitMember,
       AdmitDirectory, OpenOutput, FailRun, GiveUp, AskHandler, Handler, OnlyLoop, callVars
  <2>3. /\ (stage \in Stages /\ failure \in Failures)' /\ (stage' \notin {"next", "done"} => at # 0)
        /\ stage' \in {"failed", "handler", "handled"} => failure' # "none"
    BY <1>5 DEF MemberTypeOK, LoopStep, Cancel, Interrupt, EndOfEntries, Select, TakeMember, AdmitMember,
       AdmitDirectory, OpenOutput, FailRun, GiveUp, AskHandler, Handler, OnlyLoop, loopVars, Return, Fail,
       Stages, Failures, RunResult
  <2>4. (answer \in Failures \cup {"complete", "stopped"} /\ (answer = "none" <=> stage # "done"))'
    <3>1. CASE GiveUp \/ Handler
      BY <3>1 DEF MemberTypeOK, GiveUp, Handler, Failures, Return
    <3>2. CASE ~GiveUp /\ ~Handler
      BY <1>5, <3>2 DEF MemberTypeOK, LoopStep, Cancel, Interrupt, EndOfEntries, Select, TakeMember, AdmitMember,
       AdmitDirectory, OpenOutput, FailRun, AskHandler, OnlyLoop, loopVars, Return, Fail, Failures
    <3>. QED
      BY <3>1, <3>2
  <2>. QED
    BY <1>1, <1>2, <2>1, <2>2, <2>3, <2>4 DEF MemberTypeOK
<1>. QED
  BY <1>3, <1>4, <1>5

LEMMA FateTypes ==
  ASSUME MemberTypeOK, FateStep
  PROVE  MemberTypeOK'
<1>1. /\ Len(job.entries) \in Nat /\ Entries = 1 .. Len(job.entries) /\ job' = job /\ Entries' = Entries
  BY JobFacts, FateKeeps DEF MemberTypeOK, Entries
<1>2. at \in Entries /\ stage \notin {"next", "done"}
  BY <1>1 DEF MemberTypeOK, FateStep, SkipMember, Redirect, OpenedDirectory, FinishRun, EmitLink, Handled
<1>3. /\ (at \in 0 .. Len(job.entries) /\ token \in BOOLEAN)'
      /\ (pending \in Seq(Entries) /\ parts \in Seq(Entries) /\ ready \in BOOLEAN)'
      /\ (spent \in Nat /\ accepted \in [Entries -> Nat] /\ trouble \in SUBSET Troubles)'
      /\ (seen \in [Entries -> SUBSET Entries] /\ made \in [Entries -> Seq(Entries)])'
      /\ (spoiled \in SUBSET Entries)'
  BY <1>1, FateKeeps DEF MemberTypeOK, Troubles
<1>4. (fate \in [Entries -> Fates])'
  BY <1>1, <1>2 DEF MemberTypeOK, Fates, FateStep, SkipMember, Redirect, OpenedDirectory, FinishRun, EmitLink, Handled
<1>5. (decoded \in Nat)'
  BY <1>1 DEF MemberTypeOK, FateStep, SkipMember, Redirect, OpenedDirectory, FinishRun, EmitLink, Handled, sessionVars
<1>6. (history \in SUBSET Entries)'
  <2>1. CASE FinishRun
    BY <1>1, <1>2, <2>1 DEF MemberTypeOK, FinishRun
  <2>2. CASE ~FinishRun
    BY <1>1, <2>2 DEF MemberTypeOK, FateStep, SkipMember, Redirect, OpenedDirectory, EmitLink, Handled, sessionVars
  <2>. QED
    BY <2>1, <2>2
<1>7. /\ (stage \in Stages /\ failure \in Failures)' /\ (stage' \notin {"next", "done"} => at # 0)
      /\ stage' \in {"failed", "handler", "handled"} => failure' # "none"
  BY <1>2 DEF MemberTypeOK, FateStep, SkipMember, Redirect, OpenedDirectory, FinishRun, EmitLink, Handled,
     Return, Fail, Stages, Failures
<1>8. (answer \in Failures \cup {"complete", "stopped"} /\ (answer = "none" <=> stage # "done"))'
  BY <1>2 DEF MemberTypeOK, FateStep, SkipMember, Redirect, OpenedDirectory, FinishRun, EmitLink, Handled,
     Return, Fail, Stages, Failures
<1>9. at' = at
  BY FateKeeps
<1>. QED
  BY <1>1, <1>3, <1>4, <1>5, <1>6, <1>7, <1>8, <1>9 DEF MemberTypeOK

LEMMA RunTypes ==
  ASSUME MemberTypeOK, RunStep
  PROVE  MemberTypeOK'
<1>1. /\ Len(job.entries) \in Nat /\ Entries = 1 .. Len(job.entries) /\ job' = job /\ Entries' = Entries
  BY JobFacts, RunKeeps DEF MemberTypeOK, Entries
<1>2. at \in Entries /\ stage \in {"opened", "write"}
  BY <1>1 DEF MemberTypeOK, RunStep, BeginDecoding, Observe, FindDamage, VerifyInMemory, WriteByte, Writing,
     WriteRefused, AllWritten
<1>3. /\ (at \in 0 .. Len(job.entries) /\ token \in BOOLEAN)' /\ at' = at
      /\ (pending \in Seq(Entries) /\ parts \in Seq(Entries))'
      /\ (fate \in [Entries -> Fates] /\ decoded \in Nat)'
      /\ (answer \in Failures \cup {"complete", "stopped"} /\ failure \in Failures)'
      /\ answer' = answer
  BY <1>1, RunKeeps DEF MemberTypeOK, Fates, Failures
<1>4. stage' \in {"write", "returned"}
  BY <1>2 DEF MemberTypeOK, RunStep, BeginDecoding, Observe, FindDamage, VerifyInMemory, WriteByte, Writing,
     WriteRefused, AllWritten, loopVars
<1>5. (ready \in BOOLEAN)'
  BY <1>1 DEF MemberTypeOK, RunStep, BeginDecoding, Observe, FindDamage, VerifyInMemory, WriteByte, Writing,
     WriteRefused, AllWritten, sessionVars
<1>6. (trouble \in SUBSET Troubles)'
  <2>1. trouble' \in {trouble, {}, {"codec"}} \/ \E t \in SUBSET Troubles : trouble' = trouble \cup t
    BY DEF RunStep, BeginDecoding, Observe, FindDamage, VerifyInMemory, WriteByte, Writing,
       WriteRefused, AllWritten, budgetVars, Troubles, Remember
  <2>. QED
    BY <2>1 DEF MemberTypeOK, Troubles
<1>7. (spoiled \in SUBSET Entries)'
  <2>1. spoiled' \in {spoiled, spoiled \cup {at}}
    BY DEF RunStep, BeginDecoding, Observe, FindDamage, VerifyInMemory, WriteByte, Writing,
       WriteRefused, AllWritten, recordVars
  <2>. QED
    BY <1>1, <1>2, <2>1 DEF MemberTypeOK
<1>8. (spent \in Nat /\ accepted \in [Entries -> Nat])'
  BY <1>1, <1>2 DEF MemberTypeOK, RunStep, BeginDecoding, Observe, FindDamage, VerifyInMemory, WriteByte, Writing,
     WriteRefused, AllWritten, budgetVars
<1>9. /\ (history \in SUBSET Entries)'
      /\ (seen \in [Entries -> SUBSET Entries] /\ made \in [Entries -> Seq(Entries)])'
  <2>1. CASE BeginDecoding
    <3>. DEFINE context == IF KeepsSolid THEN history ELSE {}
    <3>1. context \in SUBSET Entries
      BY DEF MemberTypeOK
    <3>2. /\ seen' \in {seen, [seen EXCEPT ![at] = context]}
          /\ history' \in {history, context \cup {at}}
          /\ made' = [made EXCEPT ![at] = parts]
      BY <2>1 DEF BeginDecoding
    <3>. HIDE DEF context
    <3>. QED
      BY <1>1, <1>2, <3>1, <3>2 DEF MemberTypeOK
  <2>2. CASE ~BeginDecoding
    BY <1>1, <2>2 DEF MemberTypeOK, RunStep, Observe, FindDamage, VerifyInMemory, WriteByte, WriteRefused,
       AllWritten, sessionVars, recordVars
  <2>. QED
    BY <2>1, <2>2
<1>. QED
  BY <1>1, <1>2, <1>3, <1>4, <1>5, <1>6, <1>7, <1>8, <1>9 DEF MemberTypeOK, Stages

LEMMA MemberTypes ==
  ASSUME MemberTypeOK, [MemberNext]_memberVars
  PROVE  MemberTypeOK'
<1>1. CASE UNCHANGED memberVars
  BY <1>1, StutterKeeps, JobStays DEF MemberTypeOK
<1>. QED
  BY <1>1, MemberSteps, LoopTypes, FateTypes, RunTypes

----------------------------------------------------------------------------
(* What is behind the loop and what is ahead of it.                        *)

\* How the place in the loop moves.
LEMMA LoopMoves ==
  ASSUME MemberTypeOK, LoopStep
  PROVE  \/ /\ at' = at /\ (stage' \in Before => stage \in Before) /\ (stage' \in Running => stage' = stage)
            /\ stage \in {"next", "done"} => stage' \in {"next", "done"}
         \/ at' = at + 1 /\ stage' \in {"select", "join", "admit"} /\ stage = "next" /\ at < Len(job.entries)
<1>1. CASE NextEntry
  BY <1>1, JobFacts DEF NextEntry, AtEnd, MemberTypeOK
<1>2. CASE JoinVolumes
  BY <1>2 DEF JoinVolumes, Before, Running, Fail
<1>3. CASE ~NextEntry /\ ~JoinVolumes
  BY <1>3 DEF LoopStep, Cancel, Interrupt, EndOfEntries, Select, TakeMember, AdmitMember, AdmitDirectory,
     OpenOutput, FailRun, GiveUp, AskHandler, Handler, OnlyLoop, loopVars, Before, Running, Return, Fail
<1>. QED
  BY <1>1, <1>2, <1>3

LEMMA FateMoves ==
  ASSUME FateStep
  PROVE  /\ stage \notin {"next", "done", "failed", "write"} /\ stage' \in {"next", "link", "failed", "done"}
         /\ stage' = "link" => stage = "returned"
         /\ stage' \in {"link", "failed"} => UNCHANGED fate
BY DEF FateStep, SkipMember, Redirect, OpenedDirectory, FinishRun, EmitLink, Handled, Return, Fail

LEMMA RunMoves ==
  ASSUME RunStep
  PROVE  /\ stage \in {"opened", "write"} /\ stage' \in {"write", "returned"}
         /\ stage = "opened" => BeginDecoding
BY DEF RunStep, BeginDecoding, Observe, FindDamage, VerifyInMemory, WriteByte, Writing,
     WriteRefused, AllWritten, loopVars

LEMMA MemberTouches ==
  ASSUME MemberTypeOK, UntouchedInv, [MemberNext]_memberVars
  PROVE  UntouchedInv'
<1>1. /\ Len(job.entries) \in Nat /\ Entries = 1 .. Len(job.entries) /\ job' = job /\ Entries' = Entries
      /\ at \in Nat
  BY JobFacts, JobStays DEF MemberTypeOK
<1>2. CASE LoopStep
  BY <1>1, <1>2, LoopKeeps, LoopMoves DEF UntouchedInv, Before, Running
<1>3. CASE FateStep
  <2>1. \A i \in Entries : i # at => fate'[i] = fate[i]
    BY <1>1, <1>3 DEF MemberTypeOK, FateStep, SkipMember, Redirect, OpenedDirectory, FinishRun, EmitLink, Handled
  <2>. QED
    BY <1>1, <1>3, <2>1, FateKeeps, FateMoves DEF UntouchedInv, Before, Running
<1>4. CASE RunStep
  <2>1. at' = at /\ fate' = fate /\ stage \in {"opened", "write"} /\ stage' \in {"write", "returned"}
    BY <1>4, RunKeeps, RunMoves
  <2>2. \A i \in Entries : i # at => accepted'[i] = accepted[i] /\ (i \in spoiled' => i \in spoiled)
    BY <1>1, <1>4 DEF MemberTypeOK, RunStep, BeginDecoding, Observe, FindDamage, VerifyInMemory, WriteByte, WriteRefused,
       AllWritten, budgetVars, recordVars
  <2>. QED
    BY <1>1, <2>1, <2>2 DEF UntouchedInv, Before, Running
<1>5. CASE UNCHANGED memberVars
  BY <1>1, <1>5, StutterKeeps DEF UntouchedInv
<1>. QED
  BY <1>2, <1>3, <1>4, <1>5, MemberSteps

----------------------------------------------------------------------------
(* The output budget.                                                      *)

LEMMA MemberBudget ==
  ASSUME MemberTypeOK, BudgetInv, [MemberNext]_memberVars
  PROVE  BudgetInv'
<1>1. /\ Len(job.entries) \in Nat /\ Entries = 1 .. Len(job.entries) /\ IsFiniteSet(Entries)
      /\ job' = job /\ Entries' = Entries
      /\ NoLimit \in Nat /\ job.memberLimit \in 0 .. NoLimit /\ job.totalLimit \in 0 .. NoLimit
  BY JobFacts, JobStays DEF MemberTypeOK
<1>2. CASE WriteByte
  <2>1. /\ at \in Entries /\ WithinMember(accepted[at] + 1) /\ WithinTotal(1)
        /\ accepted' = [accepted EXCEPT ![at] = @ + 1]
        /\ spent' = IF job.totalLimit = NoLimit THEN spent ELSE spent + 1
    BY <1>1, <1>2 DEF WriteByte, Writing, MemberTypeOK
  <2>2. accepted \in [Entries -> Nat] /\ spent \in Nat
    BY DEF MemberTypeOK
  <2>3. \A i \in Entries : WithinMember(accepted[i])'
    <3>. SUFFICES ASSUME NEW i \in Entries PROVE WithinMember(accepted[i])'
      BY <1>1
    <3>1. CASE i = at
      BY <1>1, <2>1, <2>2, <3>1 DEF WithinMember
    <3>2. CASE i # at
      BY <1>1, <2>1, <2>2, <3>2 DEF WithinMember, BudgetInv
    <3>. QED
      BY <3>1, <3>2
  <2>4. ASSUME job.totalLimit # NoLimit
        PROVE  /\ spent' = Total(accepted', Entries, NoLimit + 1) /\ spent' <= job.totalLimit
               /\ \A i \in Entries : accepted'[i] <= spent'
    <3>1. /\ spent' = spent + 1 /\ spent' <= job.totalLimit /\ spent' <= NoLimit
          /\ spent = Total(accepted, Entries, NoLimit + 1)
          /\ \A i \in Entries : accepted[i] <= spent
      BY <1>1, <2>1, <2>2, <2>4 DEF WithinTotal, BudgetInv
    <3>2. \A i \in Entries : accepted'[i] = (IF i = at THEN accepted[i] + 1 ELSE accepted[i])
      BY <2>1, <2>2
    <3>3. \A i \in Entries : accepted'[i] <= spent' /\ accepted'[i] \in Nat /\ accepted[i] \in Nat
      BY <2>2, <3>1, <3>2
    <3>4. accepted \in [Entries -> 0 .. NoLimit + 1] /\ accepted' \in [Entries -> 0 .. NoLimit + 1]
      <4>1. accepted' = [i \in Entries |-> accepted'[i]]
        BY <2>1, <2>2
      <4>2. \A i \in Entries : accepted'[i] \in 0 .. NoLimit + 1 /\ accepted[i] \in 0 .. NoLimit + 1
        BY <1>1, <2>2, <3>1, <3>3
      <4>. QED
        BY <2>2, <4>1, <4>2
    <3>5. Total(accepted', Entries, NoLimit + 1) = Total(accepted, Entries, NoLimit + 1) - accepted[at] + accepted'[at]
      <4>1. \A i \in Entries \ {at} : accepted'[i] = accepted[i]
        BY <3>2
      <4>. DEFINE M == NoLimit + 1
      <4>2. M \in Nat /\ IsFiniteSet(Entries) /\ at \in Entries
        BY <1>1, <2>1
      <4>3. accepted \in [Entries -> 0 .. M] /\ accepted' \in [Entries -> 0 .. M]
        BY <3>4
      <4>. HIDE DEF M
      <4>4. Total(accepted', Entries, M) = Total(accepted, Entries, M) - accepted[at] + accepted'[at]
        BY <4>1, <4>2, <4>3, TotalUpdate
      <4>. QED
        BY <4>4 DEF M
    <3>6. accepted'[at] = accepted[at] + 1 /\ accepted[at] \in Nat
      BY <2>1, <2>2
    <3>. QED
      BY <2>2, <3>1, <3>3, <3>5, <3>6
  <2>. QED
    BY <1>1, <2>3, <2>4 DEF BudgetInv
<1>3. CASE ~WriteByte
  <2>1. UNCHANGED <<accepted, spent>>
    <3>1. CASE RunStep
      BY <1>3, <3>1 DEF RunStep, BeginDecoding, Observe, FindDamage, VerifyInMemory, WriteRefused,
         AllWritten, budgetVars
    <3>. QED
      BY <3>1, MemberSteps, LoopKeeps, FateKeeps, StutterKeeps
  <2>. QED
    BY <1>1, <2>1 DEF BudgetInv, WithinMember
<1>. QED
  BY <1>2, <1>3

----------------------------------------------------------------------------
(* Which error a call reports.                                             *)

\* The error that run makes of a member's trouble is one that happened.
LEMMA ResultIsReal ==
  ASSUME BlameInv, stage = "returned"
  PROVE  Happened(RunResult) /\ (RunResult = "ok" => trouble = {})
<1>1. trouble \in Outcomes
  BY DEF BlameInv
<1>2. RunResult = "damaged" => at \in spoiled
  BY <1>1 DEF RunResult, BlameInv, Outcomes
<1>3. RunResult = "sink" => "sink" \in trouble
  BY DEF RunResult
<1>4. RunResult = "cancelled" => token /\ trouble \subseteq {"observed"}
  BY <1>1 DEF RunResult, BlameInv, Outcomes
<1>5. RunResult = "limit" => ~WithinMember(accepted[at] + 1) \/ ~WithinTotal(1)
  BY DEF RunResult, BlameInv
<1>6. RunResult = "ok" => trouble = {}
  BY <1>1 DEF RunResult, Outcomes
<1>. QED
  BY <1>2, <1>3, <1>4, <1>5, <1>6 DEF Happened

LEMMA LoopBlames ==
  ASSUME MemberTypeOK, BlameInv, LoopStep
  PROVE  BlameInv'
<1>1. UNCHANGED <<job, spent, accepted, trouble, spoiled>>
  BY LoopKeeps
<1>2. \A n : WithinMember(n)' = WithinMember(n) /\ WithinTotal(n)' = WithinTotal(n)
  BY <1>1 DEF WithinMember, WithinTotal
<1>3. CASE NextEntry
  <2>1. stage = "next" /\ stage' \in {"select", "join", "admit"}
    BY <1>3 DEF NextEntry, AtEnd
  <2>. QED
    BY <1>1, <2>1 DEF BlameInv, Before
<1>4. CASE ~NextEntry
  <2>1. at' = at /\ (token => token')
    BY <1>4 DEF LoopStep, Cancel, Interrupt, EndOfEntries, Select, TakeMember, JoinVolumes, AdmitMember, AdmitDirectory,
       OpenOutput, FailRun, GiveUp, AskHandler, Handler, OnlyLoop, callVars, loopVars
  <2>2. /\ stage' \in Before \cup {"next"} => stage \in Before \cup {"next"}
        /\ stage' \in Running => stage' = stage
        /\ stage' \in {"handler", "handled"} => stage' = stage \/ AskHandler \/ Handler
    BY <1>4 DEF LoopStep, Cancel, Interrupt, EndOfEntries, Select, TakeMember, JoinVolumes, AdmitMember, AdmitDirectory,
       OpenOutput, FailRun, GiveUp, AskHandler, Handler, OnlyLoop, loopVars, Before, Running, Return, Fail
  <2>3. stage' \in {"handler", "handled"} => job.handler
    BY <2>2 DEF BlameInv, AskHandler, Handler, Asks
  <2>4. ASSUME stage' \in {"failed", "handler", "handled"} PROVE Happened(failure)'
    <3>1. CASE stage' = stage \/ AskHandler \/ Handler
      <4>1. failure' = failure /\ stage \in {"failed", "handler", "handled"}
        BY <1>4, <2>4, <3>1 DEF LoopStep, Cancel, Interrupt, EndOfEntries, Select, TakeMember, JoinVolumes, AdmitMember,
           AdmitDirectory, OpenOutput, FailRun, GiveUp, AskHandler, Handler, loopVars, Return, Fail
      <4>2. Happened(failure)
        BY <4>1 DEF BlameInv
      <4>. QED
        BY <1>1, <1>2, <2>1, <4>1, <4>2 DEF Happened, Now, E
    <3>2. CASE FailRun
      <4>1. stage = "returned" /\ failure' = RunResult
        BY <3>2 DEF FailRun, Fail
      <4>2. Happened(RunResult)
        BY <4>1, ResultIsReal
      <4>. QED
        BY <1>1, <1>2, <2>1, <4>1, <4>2 DEF Happened, Now, E
    <3>3. CASE JoinVolumes
      <4>1. (failure' = "limit" /\ Now.kind = "huge") \/ failure' = "refused"
        BY <2>4, <3>3 DEF JoinVolumes, Fail
      <4>. QED
        BY <1>1, <2>1, <4>1 DEF Happened, Now, E
    <3>4. CASE AdmitMember
      <4>1. \/ failure' = "limit" /\ (Now.kind = "huge" \/ ~WithinMember(Now.size) \/ ~WithinTotal(Now.size))
            \/ failure' = "refused"
        BY <2>4, <3>4 DEF AdmitMember, Fail
      <4>. QED
        BY <1>1, <1>2, <2>1, <4>1 DEF Happened, Now, E
    <3>5. CASE AdmitDirectory \/ OpenOutput
      <4>1. failure' \in {"refused", "callback"}
        BY <2>4, <3>5 DEF AdmitDirectory, OpenOutput, Fail
      <4>. QED
        BY <4>1 DEF Happened
    <3>. QED
      BY <1>4, <2>4, <3>1, <3>2, <3>3, <3>4, <3>5 DEF LoopStep, Cancel, Interrupt, EndOfEntries, Select, TakeMember,
         GiveUp, Return, loopVars
  <2>5. ASSUME stage' = "done" PROVE Happened(answer)'
    <3>1. CASE Interrupt
      <4>1. token /\ answer' = "cancelled" /\ stage \in Before \cup {"next", "link", "handler", "handled"}
        BY <3>1 DEF Interrupt, Return, Checked, Before, AtEnd
      <4>2. job.handler \/ trouble = {}
        BY <4>1 DEF BlameInv
      <4>. QED
        BY <1>1, <2>1, <4>1, <4>2 DEF Happened
    <3>2. CASE answer' = failure /\ stage \in {"failed", "handler"}
      <4>1. Happened(failure)
        BY <3>2 DEF BlameInv
      <4>. QED
        BY <1>1, <1>2, <2>1, <3>2, <4>1 DEF Happened, Now, E
    <3>3. CASE answer' \in {"none", "callback", "stopped", "refused", "complete"}
      BY <3>3 DEF Happened
    <3>4. CASE Cancel
      BY <2>5, <3>4 DEF Cancel, MemberTypeOK, loopVars
    <3>. QED
      BY <1>4, <2>5, <3>1, <3>2, <3>3, <3>4 DEF LoopStep, EndOfEntries, Select, TakeMember, JoinVolumes, AdmitMember,
         AdmitDirectory, OpenOutput, FailRun, GiveUp, AskHandler, Handler, Return, Fail
  <2>6. /\ stage' = "write" => stage = "write"
        /\ stage' = "link" => stage = "link"
        /\ stage' = "returned" => stage = "returned"
    BY <2>2 DEF Running
  <2>. QED
    BY <1>1, <1>2, <2>1, <2>2, <2>3, <2>4, <2>5, <2>6 DEF BlameInv
<1>. QED
  BY <1>3, <1>4

LEMMA FateBlames ==
  ASSUME MemberTypeOK, BlameInv, FateStep
  PROVE  BlameInv'
<1>1. /\ UNCHANGED <<job, token, at, spent, accepted, trouble, spoiled>>
      /\ stage' \in {"next", "link", "failed", "done"} /\ (stage' = "link" => stage = "returned")
  BY FateKeeps, FateMoves
<1>2. \A n : WithinMember(n)' = WithinMember(n) /\ WithinTotal(n)' = WithinTotal(n)
  BY <1>1 DEF WithinMember, WithinTotal
<1>3. FinishRun => trouble = {}
  BY ResultIsReal DEF FinishRun
<1>4. stage' = "link" => trouble = {}
  BY <1>3 DEF FateStep, SkipMember, Redirect, OpenedDirectory, EmitLink, Handled, Return, Fail
<1>5. ~job.handler /\ stage' = "next" => trouble = {}
  BY <1>3 DEF BlameInv, Before, FateStep, SkipMember, Redirect, OpenedDirectory, EmitLink, Handled
<1>6. stage' = "failed" => failure' \in {"refused", "callback"}
  BY <1>1 DEF FateStep, SkipMember, Redirect, OpenedDirectory, FinishRun, EmitLink, Handled, Return, Fail
<1>7. stage' = "done" => answer' = "refused" \/ (answer' = failure /\ stage = "handled")
  BY <1>1 DEF FateStep, SkipMember, Redirect, OpenedDirectory, FinishRun, EmitLink, Handled, Return, Fail
<1>8. stage' = "failed" => Happened(failure)'
  BY <1>6 DEF Happened
<1>9. ASSUME stage' = "done" PROVE Happened(answer)'
  <2>1. CASE answer' = "refused"
    BY <2>1 DEF Happened
  <2>2. CASE answer' = failure /\ stage = "handled"
    <3>1. Happened(failure)
      BY <2>2 DEF BlameInv
    <3>. QED
      BY <1>1, <1>2, <2>2, <3>1 DEF Happened, Now, E
  <2>. QED
    BY <1>7, <1>9, <2>1, <2>2
<1>. QED
  BY <1>1, <1>4, <1>5, <1>8, <1>9 DEF BlameInv, Before

LEMMA RunBlames ==
  ASSUME MemberTypeOK, UntouchedInv, BlameInv, RunStep
  PROVE  BlameInv'
<1>1. UNCHANGED <<job, token, at>> /\ stage \in {"opened", "write"} /\ stage' \in {"write", "returned"} /\ at \in Entries
  BY RunKeeps, RunMoves, JobFacts DEF MemberTypeOK
<1>2. CASE BeginDecoding
  <2>1. at \notin spoiled
    BY <1>1, <1>2 DEF BeginDecoding, UntouchedInv, Before
  <2>2. \/ stage' = "returned" /\ trouble' = {"codec"} /\ at \in spoiled'
        \/ stage' = "write" /\ trouble' = {} /\ at \notin spoiled'
    BY <1>2, <2>1 DEF BeginDecoding
  <2>. QED
    BY <1>1, <2>2 DEF BlameInv, Before, Outcomes
<1>3. CASE ~BeginDecoding
  <2>1. stage = "write" /\ trouble = {} /\ at \notin spoiled
    BY <1>1, <1>3, RunMoves DEF BlameInv
  <2>2. CASE Observe
    <3>1. token /\ trouble' = {"observed"} /\ stage' = "returned"
      BY <2>1, <2>2 DEF Observe, Remember
    <3>. QED
      BY <1>1, <3>1 DEF BlameInv, Before, Outcomes
  <2>3. CASE FindDamage
    <3>1. trouble' = {"codec"} /\ at \in spoiled' /\ stage' = "returned"
      BY <2>1, <2>3 DEF FindDamage, Remember
    <3>. QED
      BY <1>1, <3>1 DEF BlameInv, Before, Outcomes
  <2>4. CASE VerifyInMemory \/ WriteByte
    <3>1. trouble' = {} /\ spoiled' = spoiled /\ stage' = "write"
      BY <2>1, <2>4 DEF VerifyInMemory, WriteByte, budgetVars, recordVars, loopVars
    <3>. QED
      BY <1>1, <2>1, <3>1 DEF BlameInv, Before
  <2>5. CASE WriteRefused
    <3>1. /\ stage' = "returned" /\ UNCHANGED <<spent, accepted>>
          /\ \/ trouble' = {"sink", "codec"}
             \/ trouble' = {"exceeded", "codec"} /\ ~(WithinMember(accepted[at] + 1) /\ WithinTotal(1))
      BY <2>1, <2>5 DEF WriteRefused
    <3>. QED
      BY <1>1, <3>1 DEF BlameInv, Before, Outcomes, WithinMember, WithinTotal
  <2>6. CASE AllWritten
    <3>1. /\ stage' = "returned"
          /\ \/ trouble' = {} /\ at \notin spoiled'
             \/ trouble' = {"codec"} /\ at \in spoiled'
      BY <2>1, <2>6 DEF AllWritten, Remember
    <3>. QED
      BY <1>1, <3>1 DEF BlameInv, Before, Outcomes
  <2>. QED
    BY <1>3, <2>2, <2>3, <2>4, <2>5, <2>6 DEF RunStep
<1>. QED
  BY <1>2, <1>3

LEMMA MemberBlames ==
  ASSUME MemberTypeOK, UntouchedInv, BlameInv, [MemberNext]_memberVars
  PROVE  BlameInv'
<1>1. CASE UNCHANGED memberVars
  <2>1. UNCHANGED <<job, token, at, stage, failure, answer, spent, accepted, trouble, spoiled>>
    BY <1>1, StutterKeeps
  <2>2. \A n : WithinMember(n)' = WithinMember(n) /\ WithinTotal(n)' = WithinTotal(n)
    BY <2>1 DEF WithinMember, WithinTotal
  <2>3. Now' = Now
    BY <2>1 DEF Now, E
  <2>. QED
    BY <2>1, <2>2, <2>3 DEF BlameInv, Happened
<1>. QED
  BY <1>1, MemberSteps, LoopBlames, FateBlames, RunBlames

----------------------------------------------------------------------------
(* What a member is assembled from.                                        *)

LEMMA RunOfOne ==
  ASSUME NEW e \in Nat, e # 0, ~E(e).before
  PROVE  Run(<<e>>, e)
<1>1. Len(<<e>>) = 1 /\ <<e>>[1] = e
  OBVIOUS
<1>. QED
  BY <1>1 DEF Run

LEMMA RunGrows ==
  ASSUME job \in Jobs, NEW q \in Seq(Entries), NEW e \in Entries, Run(q, e - 1), E(e - 1).after, E(e).before,
         E(e).name = E(q[1]).name, E(e).kind = E(q[1]).kind
  PROVE  Run(Append(q, e), e)
<1>1. Len(job.entries) \in Nat /\ Entries = 1 .. Len(job.entries)
  BY JobFacts
<1>. DEFINE r == Append(q, e)
<1>2. /\ Len(r) = Len(q) + 1 /\ r[Len(q) + 1] = e /\ \A n \in 1 .. Len(q) : r[n] = q[n]
      /\ Len(q) \in Nat /\ Len(q) >= 1 /\ Len(q) <= e - 1 /\ e \in Nat
  BY <1>1, AppendProperties, LenProperties DEF Run
<1>. HIDE DEF r
<1>3. \A n \in 1 .. Len(r) : r[n] = e - Len(r) + n
  <2>. SUFFICES ASSUME NEW n \in 1 .. Len(r) PROVE r[n] = e - Len(r) + n
    OBVIOUS
  <2>1. CASE n = Len(q) + 1
    BY <1>2, <2>1
  <2>2. CASE n \in 1 .. Len(q)
    <3>1. q[n] = e - 1 - Len(q) + n
      BY <2>2 DEF Run
    <3>. QED
      BY <1>2, <2>2, <3>1
  <2>. QED
    BY <1>2, <2>1, <2>2
<1>4. r[1] = q[1] /\ ~E(r[1]).before
  BY <1>2 DEF Run
<1>5. ASSUME NEW n \in 2 .. Len(r)
      PROVE  /\ E(r[n - 1]).after /\ E(r[n]).before
             /\ E(r[n]).name = E(r[1]).name /\ E(r[n]).kind = E(r[1]).kind
  <2>1. CASE n = Len(q) + 1
    <3>1. r[n] = e /\ r[n - 1] = e - 1
      BY <1>2, <1>3, <2>1
    <3>. QED
      BY <1>4, <3>1
  <2>2. CASE n \in 2 .. Len(q)
    <3>1. r[n] = q[n] /\ r[n - 1] = q[n - 1]
      BY <1>2, <2>2
    <3>. QED
      BY <1>4, <2>2, <3>1 DEF Run
  <2>. QED
    BY <1>2, <2>1, <2>2
<1>. QED
  BY SMTT(60), <1>2, <1>3, <1>4, <1>5 DEF Run, r

\* A first part that is accepted is no directory.
LEMMA SplitFiles ==
  ASSUME job \in Jobs, job.volumes, at \in Entries, Split(Now), ~SplitDirectory
  PROVE  Now.kind # "directory"
<1>1. job.family = "rar13" /\ Now.kind = "directory" => ~Split(Now)
  BY JobsAssumption DEF JobsAssumption, Entries, Now, E, Split
<1>. QED
  BY <1>1 DEF SplitDirectory

LEMMA LoopParts ==
  ASSUME MemberTypeOK, PartsInv, LoopStep
  PROVE  PartsInv'
<1>1. /\ job' = job /\ made' = made /\ at \in Nat
      /\ Len(job.entries) \in Nat /\ Entries = 1 .. Len(job.entries)
      /\ \A e : E(e)' = E(e)
      /\ \A q, e : Run(q, e)' = Run(q, e)
  BY LoopKeeps, JobFacts DEF MemberTypeOK, E, Run
<1>2. CASE NextEntry
  <2>1. /\ stage = "next" /\ at' = at + 1 /\ parts' = <<at + 1>> /\ pending' = pending
        /\ stage' = IF job.selector THEN "select" ELSE IF job.volumes THEN "join" ELSE "admit"
    BY <1>2 DEF NextEntry, AtEnd
  <2>2. (job.selector => ~job.volumes) /\ at' - 1 = at
    BY <1>1, <2>1, JobFacts DEF MemberTypeOK
  <2>. QED
    BY <1>1, <2>1, <2>2 DEF PartsInv, Running
<1>3. CASE JoinVolumes
  <2>1. /\ stage = "join" /\ at' = at /\ job.volumes /\ at \in Entries /\ parts = <<at>>
        /\ stage' \in {"failed", "admit", "next"} /\ Now' = Now
    BY <1>1, <1>3 DEF JoinVolumes, Fail, PartsInv, MemberTypeOK, Now, E
  <2>2. CASE stage' = "failed"
    BY <1>1, <1>3, <2>1, <2>2 DEF PartsInv, Running, JoinVolumes, readVars
  <2>3. CASE stage' = "admit" /\ ~Split(Now) /\ pending = <<>>
    <3>1. UNCHANGED <<pending, parts>>
      BY <1>3, <2>3 DEF JoinVolumes, Split, Fail, readVars
    <3>2. Run(<<at>>, at) /\ ~Now.after
      BY <1>1, <2>1, <2>3, RunOfOne DEF Split, Now
    <3>. QED
      BY <1>1, <2>1, <2>3, <3>1, <3>2 DEF PartsInv, Running
  <2>4. CASE stage' = "next" /\ pending = <<>>
    <3>1. pending' = <<at>> /\ ~Now.before /\ Now.after
      BY <1>3, <2>4 DEF JoinVolumes, Fail
    <3>2. Run(<<at>>, at) /\ Now.kind # "directory"
      <4>1. ~SplitDirectory /\ Split(Now) /\ job \in Jobs
        BY <1>3, <2>4, <3>1 DEF JoinVolumes, Fail, Split, MemberTypeOK
      <4>. QED
        BY <1>1, <2>1, <3>1, <4>1, RunOfOne, SplitFiles DEF Now
    <3>3. pending'[1] = at
      BY <3>1
    <3>. QED
      BY <1>1, <2>1, <2>4, <3>1, <3>2, <3>3 DEF PartsInv, Running, Now
  <2>5. CASE stage' \in {"admit", "next"} /\ pending # <<>>
    <3>1. /\ Now.before /\ Continues(Now, E(pending[1]))
          /\ \/ stage' = "next" /\ pending' = Append(pending, at) /\ Now.after
             \/ stage' = "admit" /\ parts' = Append(pending, at) /\ pending' = <<>> /\ ~Now.after
      BY <1>3, <2>5 DEF JoinVolumes, Fail
    <3>2. Run(Append(pending, at), at) /\ Append(pending, at)[1] = pending[1]
      <4>1. pending \in Seq(Entries) /\ Run(pending, at - 1) /\ E(at - 1).after
        BY <2>1, <2>5 DEF PartsInv, MemberTypeOK
      <4>2. /\ E(at).before /\ E(at).name = E(pending[1]).name /\ E(at).kind = E(pending[1]).kind
            /\ job \in Jobs /\ at \in Entries
        BY <2>1, <3>1 DEF Continues, Now, MemberTypeOK
      <4>3. Run(Append(pending, at), at)
        BY <4>1, <4>2, RunGrows
      <4>4. 1 \in 1 .. Len(pending)
        BY <4>1, LenProperties DEF Run
      <4>. QED
        BY <4>1, <4>2, <4>3, <4>4, AppendProperties
    <3>3. HasOutput(Now)
      <4>1. Now.kind # "redirection"
        BY <2>1, <3>1, JobFacts DEF Split, Now, MemberTypeOK
      <4>2. Now.kind # "directory"
        BY <2>5, <3>1 DEF PartsInv, Continues
      <4>. QED
        BY <4>1, <4>2 DEF HasOutput
    <3>. QED
      BY <1>1, <2>1, <2>5, <3>1, <3>2, <3>3 DEF PartsInv, Running, Now, HasOutput
  <2>. QED
    BY <1>3, <2>1, <2>2, <2>3, <2>4, <2>5 DEF JoinVolumes, Fail
<1>4. CASE AdmitMember \/ AdmitDirectory
  <2>1. /\ stage = "admit" /\ UNCHANGED <<at, pending, parts>> /\ at \in Entries
        /\ stage' \in {"failed", "open", "opened"} /\ Now' = Now
    BY <1>1, <1>4 DEF AdmitMember, AdmitDirectory, OnlyLoop, readVars, Fail, MemberTypeOK, Now, E
  <2>2. stage' # "failed" /\ ~job.volumes => ~Split(Now)
    BY <1>4 DEF AdmitMember, AdmitDirectory, Fail, Split
  <2>3. stage' # "failed" /\ ~job.volumes => Run(parts, at) /\ ~Now.after /\ parts = <<at>>
    BY <1>1, <2>1, <2>2, RunOfOne DEF PartsInv, Split, Now
  <2>. QED
    BY <1>1, <2>1, <2>3 DEF PartsInv, Running, HasOutput
<1>5. CASE ~NextEntry /\ ~JoinVolumes /\ ~AdmitMember /\ ~AdmitDirectory
  <2>1. UNCHANGED <<at, pending, parts>> /\ Now' = Now
    BY <1>1, <1>5 DEF LoopStep, Cancel, Interrupt, EndOfEntries, Select, TakeMember,
       OpenOutput, FailRun, GiveUp, AskHandler, Handler, OnlyLoop, readVars, loopVars, Now, E
  <2>2. \/ stage' = stage \/ stage' \in {"failed", "handler", "handled", "done"} \/ Select \/ TakeMember \/ OpenOutput
    BY <1>5 DEF LoopStep, Cancel, Interrupt, EndOfEntries, FailRun, GiveUp, AskHandler, Handler, loopVars, Return, Fail
  <2>3. stage' = "handler" \/ stage' = "handled" => stage \notin {"next", "done", "join"}
    BY <1>5 DEF LoopStep, Cancel, Interrupt, EndOfEntries, Select, TakeMember, OpenOutput, FailRun, GiveUp,
       AskHandler, Handler, loopVars, Return, Fail
  <2>4. stage' = "failed" => stage \notin {"next", "done", "join"} \/ stage' = stage
    BY <1>5 DEF LoopStep, Cancel, Interrupt, EndOfEntries, Select, TakeMember, OpenOutput, FailRun, GiveUp,
       AskHandler, Handler, loopVars, Return, Fail
  <2>5. CASE stage' = stage
    BY <1>1, <2>1, <2>5 DEF PartsInv, HasOutput
  <2>6. CASE stage' # stage /\ stage' \in {"failed", "handler", "handled", "done"}
    <3>1. stage' # "done" => stage \notin {"next", "done", "join"}
      BY <2>3, <2>4, <2>6
    <3>2. pending # <<>> => stage' = "done"
      <4>1. job.handler => ~job.volumes
        BY JobFacts DEF MemberTypeOK
      <4>2. stage' \in {"handler", "handled"} => job.handler \/ stage = "handler"
        BY <1>5, <2>6 DEF LoopStep, Cancel, Interrupt, EndOfEntries, Select, TakeMember, OpenOutput,
           FailRun, GiveUp, AskHandler, Asks, Handler, loopVars, Return, Fail
      <4>. QED
        BY <3>1, <2>6, <4>1, <4>2 DEF PartsInv
    <3>. QED
      BY <1>1, <2>1, <2>6, <3>1, <3>2 DEF PartsInv, Running
  <2>7. CASE stage' # stage /\ stage' \notin {"failed", "handler", "handled", "done"}
    <3>1. \/ stage = "select" /\ stage' = "selected"
          \/ stage = "selected" /\ stage' = "admit"
          \/ stage = "open" /\ stage' = "opened"
      BY <2>2, <2>7 DEF Select, TakeMember, OpenOutput, Return, Fail
    <3>2. job.selector => ~job.volumes
      BY JobFacts DEF MemberTypeOK
    <3>. QED
      BY <1>1, <2>1, <3>1, <3>2 DEF PartsInv, Running, HasOutput
  <2>. QED
    BY <2>5, <2>6, <2>7
<1>. QED
  BY <1>2, <1>3, <1>4, <1>5

LEMMA MemberParts ==
  ASSUME MemberTypeOK, PartsInv, [MemberNext]_memberVars
  PROVE  PartsInv'
<1>1. /\ job' = job /\ at \in Nat
      /\ Len(job.entries) \in Nat /\ Entries = 1 .. Len(job.entries)
      /\ \A e : E(e)' = E(e)
      /\ \A q, e : Run(q, e)' = Run(q, e)
  BY JobStays, JobFacts DEF MemberTypeOK, E, Run
<1>2. CASE FateStep
  <2>1. /\ UNCHANGED <<at, pending, parts, made>> /\ Now' = Now
        /\ stage \notin {"next", "done", "failed", "write"} /\ stage' \in {"next", "link", "failed", "done"}
        /\ stage' = "link" => stage = "returned"
    BY <1>1, <1>2, FateKeeps, FateMoves DEF Now
  <2>2. pending # <<>> => stage = "join"
    BY <2>1 DEF PartsInv
  <2>3. stage # "join"
    BY <1>2 DEF FateStep, SkipMember, Redirect, OpenedDirectory, FinishRun, EmitLink, Handled
  <2>. QED
    BY <1>1, <2>1, <2>2, <2>3 DEF PartsInv, Running, HasOutput
<1>3. CASE RunStep
  <2>1. /\ UNCHANGED <<at, pending, parts>> /\ Now' = Now /\ at \in Entries
        /\ stage \in {"opened", "write"} /\ stage' \in {"write", "returned"}
    BY <1>1, <1>3, RunKeeps, RunMoves DEF Now, MemberTypeOK
  <2>2. HasOutput(Now) /\ made'[at] = parts
    <3>1. CASE BeginDecoding
      BY <2>1, <3>1 DEF BeginDecoding, MemberTypeOK
    <3>2. CASE ~BeginDecoding
      <4>1. made' = made
        BY <1>3, <3>2 DEF RunStep, Observe, FindDamage, VerifyInMemory, WriteByte, WriteRefused, AllWritten,
           recordVars
      <4>2. stage = "write"
        BY <1>3, <3>2, RunMoves
      <4>. QED
        BY <4>1, <4>2 DEF PartsInv, Running
    <3>. QED
      BY <3>1, <3>2
  <2>. QED
    BY <1>1, <2>1, <2>2 DEF PartsInv, Running, HasOutput
<1>4. CASE UNCHANGED memberVars
  <2>1. UNCHANGED <<at, stage, pending, parts, made>> /\ Now' = Now
    BY <1>1, <1>4, StutterKeeps DEF Now
  <2>. QED
    BY <1>1, <2>1 DEF PartsInv, HasOutput
<1>. QED
  BY <1>2, <1>3, <1>4, MemberSteps, LoopParts

\* An entry that is accounted for stays so.
LEMMA AccountedStays ==
  ASSUME MemberTypeOK, UntouchedInv, [MemberNext]_memberVars, NEW i \in Entries, Accounted(i)
  PROVE  Accounted(i)'
<1>1. /\ job' = job /\ Entries' = Entries
      /\ Len(job.entries) \in Nat /\ Entries = 1 .. Len(job.entries)
  BY JobStays, JobFacts DEF MemberTypeOK
<1>2. \A f \in Entries : fate[f] # "untouched" => fate'[f] = fate[f] /\ made'[f] = made[f]
  <2>1. CASE FateStep
    <3>1. \A f \in Entries : f # at => fate'[f] = fate[f]
      BY <1>1, <2>1 DEF MemberTypeOK, FateStep, SkipMember, Redirect, OpenedDirectory, FinishRun, EmitLink, Handled
    <3>2. stage \notin {"next", "done"}
      BY <2>1, FateMoves
    <3>3. made' = made
      BY <2>1, FateKeeps
    <3>. QED
      BY <1>1, <3>1, <3>2, <3>3 DEF UntouchedInv, MemberTypeOK
  <2>2. CASE RunStep
    <3>1. fate' = fate /\ at' = at
      BY <2>2, RunKeeps
    <3>2. \A f \in Entries : f # at => made'[f] = made[f]
      BY <2>2 DEF MemberTypeOK, RunStep, BeginDecoding, Observe, FindDamage, VerifyInMemory, WriteByte, WriteRefused,
         AllWritten, recordVars
    <3>3. fate[at] = "untouched" \/ at \notin Entries
      BY <2>2, RunMoves DEF UntouchedInv
    <3>. QED
      BY <3>1, <3>2, <3>3
  <2>. QED
    BY <2>1, <2>2, MemberSteps, LoopKeeps, StutterKeeps
<1>3. CASE fate[i] \in {"done", "skipped", "failed"}
  BY <1>1, <1>2, <1>3 DEF Accounted
<1>4. CASE \E f \in Entries : fate[f] = "done" /\ \E n \in DOMAIN made[f] : made[f][n] = i
  <2>1. PICK f \in Entries : fate[f] = "done" /\ \E n \in DOMAIN made[f] : made[f][n] = i
    BY <1>4
  <2>2. fate'[f] = "done" /\ made'[f] = made[f]
    BY <1>2, <2>1
  <2>. QED
    BY <1>1, <2>1, <2>2 DEF Accounted
<1>. QED
  BY <1>3, <1>4 DEF Accounted

LEMMA LoopAccounts ==
  ASSUME MemberTypeOK, UntouchedInv, PartsInv, AccountInv, LoopStep
  PROVE  AccountInv'
<1>1. /\ job' = job /\ Entries' = Entries /\ at \in Nat
      /\ Len(job.entries) \in Nat /\ Entries = 1 .. Len(job.entries)
  BY LoopKeeps, JobFacts DEF MemberTypeOK, Entries
<1>2. \A i \in Entries : Accounted(i) => Accounted(i)'
  BY AccountedStays DEF MemberNext, LoopStep
<1>3. CASE NextEntry
  <2>1. /\ stage = "next" /\ at' = at + 1 /\ pending' = pending /\ answer' = answer
        /\ stage' \in {"select", "join", "admit"} /\ answer = "none"
    BY <1>3 DEF NextEntry, AtEnd, MemberTypeOK
  <2>2. ASSUME NEW i \in Entries, i < at' PROVE Accounted(i)' \/ Awaits(i)'
    <3>1. Accounted(i) \/ Awaits(i)
      BY <1>1, <2>1, <2>2 DEF AccountInv
    <3>. QED
      BY <1>2, <2>1, <3>1 DEF Awaits
  <2>. QED
    BY <1>1, <2>1, <2>2 DEF AccountInv
<1>4. CASE JoinVolumes
  <2>1. /\ stage = "join" /\ at' = at /\ at \in Entries /\ parts = <<at>> /\ answer' = answer /\ answer = "none"
        /\ stage' \in {"failed", "admit", "next"} /\ pending \in Seq(Entries)
    BY <1>1, <1>4 DEF JoinVolumes, Fail, PartsInv, MemberTypeOK
  <2>2. \/ stage' = "failed" /\ UNCHANGED <<pending, parts>>
        \/ stage' = "admit" /\ UNCHANGED <<pending, parts>>
        \/ stage' = "next" /\ pending' = <<at>> /\ pending = <<>>
        \/ stage' = "next" /\ pending' = Append(pending, at)
        \/ stage' = "admit" /\ parts' = Append(pending, at)
    BY <1>4 DEF JoinVolumes, Fail, readVars
  <2>3. DOMAIN <<at>> = {1} /\ <<at>>[1] = at
    OBVIOUS
  <2>4. ASSUME NEW i \in Entries, \E n \in DOMAIN pending : pending[n] = i
        PROVE  \E n \in DOMAIN Append(pending, at) : Append(pending, at)[n] = i
    <3>1. PICK n \in DOMAIN pending : pending[n] = i
      BY <2>4
    <3>2. n \in 1 .. Len(pending) /\ n \in 1 .. Len(pending) + 1
      BY <2>1, <3>1, LenProperties
    <3>3. DOMAIN Append(pending, at) = 1 .. Len(pending) + 1 /\ Append(pending, at)[n] = i
      BY <2>1, <3>1, <3>2, AppendProperties, LenProperties
    <3>. QED
      BY <3>2, <3>3
  <2>5. \E n \in DOMAIN Append(pending, at) : Append(pending, at)[n] = at
    <3>1. /\ DOMAIN Append(pending, at) = 1 .. Len(pending) + 1 /\ Append(pending, at)[Len(pending) + 1] = at
          /\ Len(pending) \in Nat
      BY <2>1, AppendProperties, LenProperties
    <3>. QED
      BY <3>1
  <2>6. ASSUME NEW i \in Entries, i < at PROVE Accounted(i)' \/ Awaits(i)'
    <3>1. Accounted(i) \/ \E n \in DOMAIN pending : pending[n] = i
      BY <1>1, <2>1, <2>3, <2>6 DEF AccountInv, Awaits
    <3>2. CASE Accounted(i)
      BY <1>2, <3>2
    <3>3. CASE \E n \in DOMAIN pending : pending[n] = i
      <4>1. \E n \in DOMAIN Append(pending, at) : Append(pending, at)[n] = i
        BY <2>4, <3>3
      <4>2. pending # <<>>
        BY <3>3
      <4>3. CASE pending' = pending \/ pending' = Append(pending, at)
        BY <3>3, <4>1, <4>3 DEF Awaits
      <4>4. CASE stage' = "admit" /\ parts' = Append(pending, at)
        BY <4>1, <4>4 DEF Awaits
      <4>. QED
        BY <2>2, <4>2, <4>3, <4>4
    <3>. QED
      BY <3>1, <3>2, <3>3
  <2>7. stage' = "next" => Awaits(at)'
    <3>1. \E n \in DOMAIN <<at>> : <<at>>[n] = at
      BY <2>3
    <3>2. ASSUME stage' = "next" PROVE \E n \in DOMAIN pending' : pending'[n] = at
      <4>1. CASE pending' = <<at>>
        BY <3>1, <4>1
      <4>2. CASE pending' = Append(pending, at)
        BY <2>5, <4>2
      <4>. QED
        BY <2>2, <3>2, <4>1, <4>2
    <3>. QED
      BY <2>1, <3>2 DEF Awaits
  <2>. QED
    BY <1>1, <2>1, <2>6, <2>7 DEF AccountInv
<1>5. CASE ~NextEntry /\ ~JoinVolumes
  <2>1. UNCHANGED <<at, pending, parts>>
    BY <1>5 DEF LoopStep, Cancel, Interrupt, EndOfEntries, Select, TakeMember, AdmitMember, AdmitDirectory,
       OpenOutput, FailRun, GiveUp, AskHandler, Handler, OnlyLoop, readVars, loopVars
  <2>2. stage' # "done" => (stage = "next" <=> stage' = "next") /\ stage # "done"
    BY <1>5 DEF LoopStep, Cancel, Interrupt, EndOfEntries, Select, TakeMember, AdmitMember, AdmitDirectory,
       OpenOutput, FailRun, GiveUp, AskHandler, Handler, OnlyLoop, loopVars, Return, Fail, MemberTypeOK
  <2>3. stage' # "done" => \A i \in Entries : Awaits(i) => Awaits(i)'
    BY <2>1, <2>2 DEF Awaits
  <2>4. answer' = "complete" => EndOfEntries \/ answer = "complete"
    BY <1>5 DEF LoopStep, Cancel, Interrupt, Select, TakeMember, AdmitMember, AdmitDirectory,
       OpenOutput, FailRun, GiveUp, AskHandler, Handler, OnlyLoop, loopVars, Return, Fail, MemberTypeOK, Failures
  <2>5. EndOfEntries /\ answer' = "complete" => \A i \in Entries : Accounted(i)
    <3>. SUFFICES ASSUME EndOfEntries, answer' = "complete", NEW i \in Entries PROVE Accounted(i)
      OBVIOUS
    <3>1. stage = "next" /\ at = Len(job.entries) /\ pending = <<>>
      BY DEF EndOfEntries, AtEnd, Return
    <3>2. Accounted(i) \/ Awaits(i)
      BY <1>1, <3>1 DEF AccountInv
    <3>3. DOMAIN <<>> = {}
      OBVIOUS
    <3>. QED
      BY <3>1, <3>2, <3>3 DEF Awaits
  <2>. QED
    BY <1>1, <1>2, <2>1, <2>2, <2>3, <2>4, <2>5 DEF AccountInv
<1>. QED
  BY <1>3, <1>4, <1>5

LEMMA FateAccounts ==
  ASSUME MemberTypeOK, UntouchedInv, PartsInv, AccountInv, BlameInv, FateStep
  PROVE  AccountInv'
<1>1. /\ job' = job /\ Entries' = Entries /\ at \in Entries
      /\ Len(job.entries) \in Nat /\ Entries = 1 .. Len(job.entries)
      /\ UNCHANGED <<at, pending, parts, made>>
      /\ stage \notin {"next", "done", "failed", "write"} /\ stage' \in {"next", "link", "failed", "done"}
  BY FateKeeps, FateMoves, JobFacts DEF MemberTypeOK, Entries
<1>2. \A i \in Entries : Accounted(i) => Accounted(i)'
  BY AccountedStays DEF MemberNext, FateStep
<1>3. pending = <<>>
  BY <1>1 DEF PartsInv, FateStep, SkipMember, Redirect, OpenedDirectory, FinishRun, EmitLink, Handled
<1>4. answer' # "complete"
  BY <1>1 DEF MemberTypeOK, Failures, FateStep, SkipMember, Redirect, OpenedDirectory, FinishRun, EmitLink, Handled,
     Return
<1>5. CASE stage' \in {"link", "failed"}
  <2>1. \A i \in Entries : Awaits(i) => Awaits(i)'
    BY <1>1, <1>5 DEF Awaits
  <2>. QED
    BY <1>1, <1>2, <1>4, <1>5, <2>1 DEF AccountInv
<1>6. CASE stage' = "next"
  <2>1. parts = <<at>> \/ (made[at] = parts /\ fate'[at] = "done")
    <3>1. job.selector => ~job.volumes /\ (job.handler => job.selector)
      BY JobFacts DEF MemberTypeOK
    <3>2. CASE SkipMember
      BY <3>1, <3>2 DEF SkipMember, PartsInv
    <3>3. CASE Redirect \/ OpenedDirectory
      BY <3>3 DEF Redirect, OpenedDirectory, PartsInv, HasOutput
    <3>4. CASE FinishRun \/ EmitLink
      BY <1>1, <1>6, <3>4 DEF FinishRun, EmitLink, PartsInv, Running, MemberTypeOK, Fail
    <3>5. CASE Handled
      BY <3>5, JobFacts DEF Handled, BlameInv, PartsInv, MemberTypeOK
    <3>. QED
      BY <3>2, <3>3, <3>4, <3>5 DEF FateStep
  <2>2. Accounted(at)'
    <3>1. fate'[at] \in {"done", "skipped"} \/ (fate'[at] = "failed" /\ job.handler)
      BY <1>1, <1>6 DEF FateStep, SkipMember, Redirect, OpenedDirectory, FinishRun, EmitLink, Handled, MemberTypeOK,
         Return, Fail, BlameInv
    <3>. QED
      BY <1>1, <3>1 DEF Accounted
  <2>3. ASSUME NEW i \in Entries, i < at PROVE Accounted(i)'
    <3>1. Accounted(i) \/ Awaits(i)
      BY <1>1, <2>3 DEF AccountInv
    <3>2. DOMAIN <<>> = {}
      OBVIOUS
    <3>3. DOMAIN <<at>> = {1} /\ <<at>>[1] = at
      OBVIOUS
    <3>4. CASE Accounted(i)
      BY <1>2, <3>4
    <3>5. CASE \E n \in DOMAIN parts : parts[n] = i
      BY <1>1, <2>1, <2>3, <3>3, <3>5 DEF Accounted
    <3>. QED
      BY <1>3, <3>1, <3>2, <3>4, <3>5 DEF Awaits
  <2>. QED
    BY <1>1, <1>4, <2>2, <2>3 DEF AccountInv
<1>7. CASE stage' = "done"
  BY <1>4, <1>7 DEF AccountInv
<1>. QED
  BY <1>1, <1>5, <1>6, <1>7

LEMMA MemberAccounts ==
  ASSUME MemberTypeOK, UntouchedInv, PartsInv, AccountInv, BlameInv, [MemberNext]_memberVars
  PROVE  AccountInv'
<1>1. /\ job' = job /\ Entries' = Entries
  BY JobStays
<1>2. \A i \in Entries : Accounted(i) => Accounted(i)'
  BY AccountedStays
<1>3. CASE RunStep \/ UNCHANGED memberVars
  <2>1. /\ UNCHANGED <<at, pending, parts, answer>>
        /\ stage' = stage \/ (stage \notin {"next", "done"} /\ stage' \notin {"next", "done"})
    BY <1>3, RunKeeps, RunMoves, StutterKeeps
  <2>2. \A i \in Entries : Awaits(i) => Awaits(i)'
    BY <2>1 DEF Awaits
  <2>. QED
    BY <1>1, <1>2, <2>1, <2>2 DEF AccountInv
<1>. QED
  BY <1>3, MemberSteps, LoopAccounts, FateAccounts

----------------------------------------------------------------------------
(* What counts as extracted is whole.                                      *)

LEMMA RunIsContiguous ==
  ASSUME job \in Jobs, NEW i \in Entries, made[i] \in Seq(Entries), Run(made[i], i)
  PROVE  Contiguous(i)
<1>1. Len(job.entries) \in Nat /\ Entries = 1 .. Len(job.entries)
  BY JobFacts
<1>. DEFINE q == made[i]
<1>2. Len(q) \in Nat /\ DOMAIN q = 1 .. Len(q) /\ q \in [1 .. Len(q) -> Entries]
  BY LenProperties
<1>3. Len(q) >= 1 /\ \A n \in 1 .. Len(q) : q[n] = i - Len(q) + n
  BY DEF Run
<1>4. q = [n \in 1 .. Len(q) |-> i - Len(q) + n]
  BY <1>2, <1>3
<1>5. q[Len(q)] = i
  <2>. HIDE DEF q
  <2>1. Len(q) \in 1 .. Len(q) /\ i \in Nat
    BY <1>1, <1>2, <1>3
  <2>2. q[Len(q)] = i - Len(q) + Len(q)
    BY <1>3, <2>1
  <2>. QED
    BY <1>2, <2>1, <2>2
<1>6. E(i).name = E(q[1]).name /\ E(i).kind = E(q[1]).kind
  <2>1. CASE Len(q) = 1
    <3>1. q[1] = i
      BY <1>5, <2>1
    <3>. HIDE DEF q
    <3>. QED
      BY <3>1
  <2>2. CASE Len(q) # 1
    <3>1. Len(q) \in 2 .. Len(q)
      <4>. HIDE DEF q
      <4>. QED
        BY <1>2, <1>3, <2>2
    <3>. QED
      BY <1>5, <3>1 DEF Run
  <2>. QED
    BY <2>1, <2>2
<1>7. \A n \in 2 .. Len(q) :
        /\ E(q[n - 1]).after /\ E(q[n]).before
        /\ E(q[n]).name = E(i).name /\ E(q[n]).kind = E(i).kind
  BY <1>6 DEF Run
<1>8. ~E(q[1]).before
  BY DEF Run
<1>. QED
  BY <1>4, <1>7, <1>8 DEF Contiguous

\* Nothing of a member that counts as extracted changes any more.
LEMMA DoneStays ==
  ASSUME MemberTypeOK, UntouchedInv, [MemberNext]_memberVars, NEW i \in Entries, fate[i] # "untouched"
  PROVE  made'[i] = made[i] /\ accepted'[i] = accepted[i] /\ seen'[i] = seen[i] /\ (i \in spoiled' => i \in spoiled)
<1>1. CASE RunStep
  <2>1. i # at
    BY <1>1, RunMoves DEF UntouchedInv
  <2>. QED
    BY <1>1, <2>1 DEF MemberTypeOK, RunStep, BeginDecoding, Observe, FindDamage, VerifyInMemory, WriteByte, WriteRefused,
       AllWritten, recordVars, budgetVars
<1>. QED
  BY <1>1, MemberSteps, LoopKeeps, FateKeeps, StutterKeeps

LEMMA FateWhole ==
  ASSUME MemberTypeOK, UntouchedInv, BlameInv, PartsInv, WholeInv, FateStep
  PROVE  WholeInv'
<1>1. /\ UNCHANGED <<job, at, parts, ready, accepted, trouble, made, spoiled>> /\ at \in Entries /\ Entries' = Entries
      /\ stage' \in {"next", "link", "failed", "done"} /\ stage \notin {"next", "done", "failed", "write"}
      /\ \A e : E(e)' = E(e)
  BY FateKeeps, FateMoves, JobFacts DEF MemberTypeOK, Entries, E
<1>2. \A i : Contiguous(i)' = Contiguous(i)
  BY <1>1 DEF Contiguous
<1>3. ASSUME FinishRun \/ EmitLink
      PROVE  HasOutput(Now) /\ Contiguous(at) /\ accepted[at] = Now.size /\ at \notin spoiled
  <2>1. (stage = "returned" /\ trouble = {}) \/ stage = "link"
    BY <1>3, ResultIsReal DEF FinishRun, EmitLink
  <2>2. Run(parts, at) /\ made[at] = parts /\ parts \in Seq(Entries) /\ HasOutput(Now)
    BY <2>1 DEF PartsInv, Running, MemberTypeOK
  <2>3. Contiguous(at)
    BY <1>1, <2>2, RunIsContiguous DEF MemberTypeOK
  <2>. QED
    BY <2>1, <2>2, <2>3 DEF WholeInv
<1>4. ASSUME NEW i \in Entries, HasOutput(E(i)), fate'[i] = "done"
      PROVE  Contiguous(i) /\ accepted[i] = E(i).size /\ i \notin spoiled
  <2>1. CASE fate[i] = "done"
    BY <1>4, <2>1 DEF WholeInv
  <2>2. CASE fate[i] # "done"
    <3>1. i = at /\ (FinishRun \/ EmitLink)
      BY <1>1, <1>4, <2>2 DEF FateStep, SkipMember, Redirect, OpenedDirectory, FinishRun, EmitLink, Handled, HasOutput,
         Now, MemberTypeOK
    <3>. QED
      BY <1>3, <3>1 DEF Now
  <2>. QED
    BY <2>1, <2>2
<1>5. stage' = "link" => accepted[at] = Now.size /\ at \notin spoiled
  BY <1>3 DEF FateStep, SkipMember, Redirect, OpenedDirectory, Handled, Return, Fail
<1>6. \A i \in spoiled :
        job.family = "rar50" /\ Compressed(E(i)) /\ E(i).size <= Buffered => accepted[i] = 0
  BY DEF WholeInv
<1>. QED
  BY <1>1, <1>2, <1>4, <1>5, <1>6 DEF WholeInv, HasOutput, Compressed, Now

LEMMA RunWhole ==
  ASSUME MemberTypeOK, UntouchedInv, BlameInv, PartsInv, WholeInv, RunStep
  PROVE  WholeInv'
<1>1. /\ UNCHANGED <<job, at, parts, fate>> /\ at \in Entries /\ Entries' = Entries
      /\ stage \in {"opened", "write"} /\ stage' \in {"write", "returned"}
      /\ \A e : E(e)' = E(e)
  BY RunKeeps, RunMoves, JobFacts DEF MemberTypeOK, Entries, E
<1>2. ASSUME NEW i \in Entries, HasOutput(E(i)), fate[i] = "done"
      PROVE  Contiguous(i)' /\ accepted'[i] = E(i).size /\ i \notin spoiled'
  <2>1. made'[i] = made[i] /\ accepted'[i] = accepted[i] /\ (i \in spoiled' => i \in spoiled)
    BY <1>2, DoneStays DEF MemberNext, RunStep
  <2>. QED
    BY <1>1, <1>2, <2>1 DEF WholeInv, Contiguous
<1>3. ASSUME stage' = "write", InMemory, ~ready' PROVE accepted'[at] = 0
  <2>1. CASE BeginDecoding
    BY <1>1, <2>1 DEF BeginDecoding, UntouchedInv, Before
  <2>2. CASE ~BeginDecoding
    <3>1. accepted' = accepted /\ ~ready
      BY <1>3, <2>2 DEF RunStep, Observe, FindDamage, VerifyInMemory, WriteByte, Writing, WriteRefused,
         AllWritten, sessionVars, budgetVars
    <3>2. stage = "write"
      BY <2>2, RunMoves
    <3>. QED
      BY <1>3, <3>1, <3>2 DEF WholeInv
  <2>. QED
    BY <2>1, <2>2
<1>4. ASSUME stage' = "returned", trouble' = {}
      PROVE  accepted'[at] = Now.size /\ at \notin spoiled'
  <2>1. AllWritten /\ ~MisSized
    BY <1>4 DEF RunStep, BeginDecoding, Observe, FindDamage, VerifyInMemory, WriteByte, Writing, WriteRefused,
       AllWritten, Remember, loopVars
  <2>2. accepted' = accepted /\ spoiled' = spoiled /\ accepted[at] = Produced /\ at \notin spoiled
    BY <2>1 DEF AllWritten, BlameInv
  <2>3. Produced = Now.size
    BY <2>1 DEF Produced, MisSized, CopiesAll
  <2>. QED
    BY <2>2, <2>3
<1>5. ASSUME NEW i \in spoiled', job.family = "rar50", Compressed(E(i)), E(i).size <= Buffered
      PROVE  accepted'[i] = 0
  <2>1. CASE i \in spoiled
    <3>1. accepted[i] = 0 /\ i \in Entries
      BY <1>5, <2>1 DEF WholeInv, MemberTypeOK
    <3>2. WriteByte => i # at
      BY <2>1 DEF WriteByte, Writing, BlameInv
    <3>. QED
      BY <3>1, <3>2 DEF RunStep, BeginDecoding, Observe, FindDamage, VerifyInMemory, WriteByte, WriteRefused,
         AllWritten, budgetVars, MemberTypeOK
  <2>2. CASE i \notin spoiled
    <3>1. i = at /\ accepted' = accepted /\ (MisSized \/ FindDamage)
      BY <1>5, <2>2 DEF RunStep, BeginDecoding, Observe, FindDamage, VerifyInMemory, WriteByte, WriteRefused,
         AllWritten, budgetVars, recordVars
    <3>2. ~MisSized /\ InMemory
      BY <1>5, <3>1 DEF MisSized, Compressed, Now, InMemory
    <3>. QED
      BY <3>1, <3>2 DEF FindDamage, WholeInv
  <2>. QED
    BY <2>1, <2>2
<1>6. stage' # "link" /\ Now' = Now /\ InMemory' = InMemory
  BY <1>1 DEF Now, InMemory, Compressed
<1>. QED
  BY <1>1, <1>2, <1>3, <1>4, <1>5, <1>6 DEF WholeInv, HasOutput, Compressed

LEMMA MemberWhole ==
  ASSUME MemberTypeOK, UntouchedInv, BlameInv, PartsInv, WholeInv, [MemberNext]_memberVars
  PROVE  WholeInv'
<1>1. CASE LoopStep \/ UNCHANGED memberVars
  <2>1. /\ UNCHANGED <<job, ready, accepted, trouble, made, fate, spoiled>> /\ Entries' = Entries
        /\ \A e : E(e)' = E(e)
    BY <1>1, LoopKeeps, StutterKeeps DEF E, Entries
  <2>2. \A i : Contiguous(i)' = Contiguous(i)
    BY <2>1 DEF Contiguous
  <2>3. stage' \in Running => at' = at /\ stage' = stage
    BY <1>1, LoopMoves, StutterKeeps DEF Running
  <2>4. at' = at => Now' = Now /\ InMemory' = InMemory
    BY <2>1 DEF Now, InMemory, Compressed
  <2>. QED
    BY <2>1, <2>2, <2>3, <2>4 DEF WholeInv, HasOutput, Compressed, Running
<1>. QED
  BY <1>1, MemberSteps, FateWhole, RunWhole

----------------------------------------------------------------------------
(* The history a member is decoded with.                                   *)

\* The chains are the archive's: no step changes them.
LEMMA ChainsStay ==
  ASSUME job' = job
  PROVE  /\ CompressedMembers' = CompressedMembers /\ AnySolid' = AnySolid
         /\ \A i : StartsAfresh(i)' = StartsAfresh(i)
         /\ \A i : Chain(i)' = Chain(i)
         /\ \A i : E(i)' = E(i)
<1>1. Entries' = Entries /\ \A i : E(i)' = E(i)
  BY DEF Entries, E
<1>2. CompressedMembers' = CompressedMembers
  BY <1>1 DEF CompressedMembers, Members, HasOutput, Compressed
<1>3. \A i : SwitchesCodec(i)' = SwitchesCodec(i)
  BY <1>1, <1>2 DEF SwitchesCodec
<1>4. \A i : StartsAfresh(i)' = StartsAfresh(i)
  BY <1>1, <1>3 DEF StartsAfresh
<1>5. \A i : Chain(i)' = Chain(i)
  BY <1>2, <1>4 DEF Chain
<1>6. AnySolid' = AnySolid
  BY <1>1 DEF AnySolid
<1>. QED
  BY <1>1, <1>2, <1>4, <1>5, <1>6

\* A member and what it goes back to is what the next one goes back to.
LEMMA ChainGrows ==
  ASSUME job \in Jobs, NEW i \in CompressedMembers
  PROVE  Chain(i) \cup {i} =
           LET K == {j \in CompressedMembers : j <= i}
           IN {j \in K : \A k \in K : k > j => ~StartsAfresh(k)}
<1>1. \A j \in CompressedMembers : j \in Nat
  BY JobFacts DEF CompressedMembers, Members
<1>. QED
  BY <1>1 DEF Chain

\* What the decoder is given is the member's chain, whichever branch it takes.
LEMMA ContextIsChain ==
  ASSUME MemberTypeOK, HistoryInv, stage = "opened", at \in CompressedMembers
  PROVE  /\ (IF KeepsSolid THEN history ELSE {}) = Chain(at)
         /\ \A j \in Chain(at) : fate[j] = "done"
<1>1. /\ \A j \in CompressedMembers : j \in Nat /\ j \in Entries
      /\ at \in Entries /\ E(at) \in Entry /\ job.solid \in BOOLEAN
      /\ job.family \in {"rar13", "rar15", "rar50"}
  BY JobFacts DEF CompressedMembers, Members, MemberTypeOK
<1>2. Now = E(at)
  BY DEF Now
<1>3. Kept = {j \in CompressedMembers : j < at} /\ Coded = Kept
  BY <1>1 DEF Kept, Coded, Past
<1>4. CASE StartsAfresh(at)
  <2>1. Chain(at) = {}
    BY <1>1, <1>4 DEF Chain
  <2>2. ~KeepsSolid
    <3>1. CASE job.family = "rar13"
      BY <1>4, <3>1 DEF StartsAfresh, KeepsSolid
    <3>2. CASE job.family = "rar15"
      <4>1. CASE SwitchesCodec(at) /\ job.solid
        <5>1. PICK p \in CompressedMembers : /\ p < at /\ E(p).old # E(at).old
                                             /\ \A k \in CompressedMembers : k <= p \/ k >= at
          BY <4>1 DEF SwitchesCodec
        <5>2. p \in Kept /\ \A k \in Kept : k <= p
          BY <1>1, <1>3, <5>1
        <5>3. codec = E(p).old
          BY <3>2, <4>1, <5>2 DEF HistoryInv, AnySolid
        <5>. QED
          BY <1>2, <3>2, <5>1, <5>3 DEF KeepsSolid
      <4>. QED
        BY <1>2, <1>4, <3>2, <4>1 DEF StartsAfresh, KeepsSolid
    <3>3. CASE job.family = "rar50"
      BY <1>2, <1>4, <3>3 DEF StartsAfresh, KeepsSolid
    <3>. QED
      BY <1>1, <3>1, <3>2, <3>3
  <2>. QED
    BY <2>1, <2>2
<1>5. CASE ~StartsAfresh(at)
  <2>1. AnySolid
    BY <1>1, <1>5 DEF StartsAfresh, AnySolid
  <2>2. /\ history = {j \in Kept : \A k \in Kept : k > j => ~StartsAfresh(k)}
        /\ \A j \in CompressedMembers : j < at => fate[j] = "done"
    BY <2>1 DEF HistoryInv
  <2>3. history = Chain(at)
    BY <1>1, <1>3, <1>5, <2>2 DEF Chain
  <2>4. KeepsSolid \/ Kept = {}
    <3>1. CASE job.family = "rar13"
      BY <1>3, <1>5, <2>1, <3>1 DEF StartsAfresh, KeepsSolid, HistoryInv
    <3>2. CASE job.family = "rar15"
      <4>1. job.solid /\ (E(at).old \/ E(at).solid) /\ ~SwitchesCodec(at)
        BY <1>5, <3>2 DEF StartsAfresh
      <4>2. CASE decoded # 0
        <5>1. PICK p \in Coded : \A k \in Coded : k <= p
          BY <2>1, <3>2, <4>2 DEF HistoryInv
        <5>2. p \in CompressedMembers /\ p < at /\ codec = E(p).old
          BY <1>3, <2>1, <3>2, <5>1 DEF HistoryInv
        <5>3. \A k \in CompressedMembers : k <= p \/ k >= at
          BY <1>1, <1>3, <5>1
        <5>4. E(p).old = E(at).old
          BY <4>1, <5>2, <5>3 DEF SwitchesCodec
        <5>. QED
          BY <1>2, <3>2, <4>1, <4>2, <5>2, <5>4 DEF KeepsSolid
      <4>3. CASE decoded = 0
        BY <1>3, <2>1, <3>2, <4>3 DEF HistoryInv
      <4>. QED
        BY <4>2, <4>3
    <3>3. CASE job.family = "rar50"
      BY <1>2, <1>5, <3>3 DEF StartsAfresh, KeepsSolid
    <3>. QED
      BY <1>1, <3>1, <3>2, <3>3
  <2>5. Kept = {} => history = {}
    BY <2>2
  <2>6. \A j \in Chain(at) : fate[j] = "done"
    BY <2>2 DEF Chain
  <2>. QED
    BY <2>3, <2>4, <2>5, <2>6
<1>. QED
  BY <1>4, <1>5 DEF Chain

LEMMA LoopHistory ==
  ASSUME MemberTypeOK, SeenInv, HistoryInv, LoopStep
  PROVE  SeenInv' /\ HistoryInv'
<1>1. /\ UNCHANGED <<job, history, codec, decoded, seen, fate>>
      /\ CompressedMembers' = CompressedMembers /\ AnySolid' = AnySolid
      /\ \A i : StartsAfresh(i)' = StartsAfresh(i)
      /\ \A i : Chain(i)' = Chain(i)
      /\ \A i : E(i)' = E(i)
  BY LoopKeeps, ChainsStay
<1>2. /\ \A j \in CompressedMembers : j \in Nat /\ ~E(j).after
      /\ at \in Nat
  BY JobFacts DEF CompressedMembers, Members, MemberTypeOK
<1>3. SeenInv'
  BY <1>1, LoopMoves DEF SeenInv, Running
<1>4. stage' \in {"handler", "handled"} => ~AnySolid
  BY DEF HistoryInv, LoopStep, Cancel, Interrupt, NextEntry, EndOfEntries, Select, TakeMember, JoinVolumes,
     AdmitMember, AdmitDirectory, OpenOutput, FailRun, GiveUp, AskHandler, Asks, Handler, OnlyLoop, loopVars, Return, Fail
<1>5. stage' \notin {"failed", "done"} => stage \notin {"failed", "done"} \/ stage' = "handler"
  BY DEF MemberTypeOK, LoopStep, Cancel, Interrupt, NextEntry, EndOfEntries, Select, TakeMember, JoinVolumes,
     AdmitMember, AdmitDirectory, OpenOutput, FailRun, GiveUp, AskHandler, Handler, OnlyLoop, loopVars, Return, Fail
<1>6. ASSUME AnySolid, stage' \notin {"failed", "done", "handler", "handled"}
      PROVE  \A i \in CompressedMembers :
               /\ Past(i)' <=> Past(i)
               /\ (i = at /\ ~OnCopy /\ stage \in {"write", "returned"})' <=> (i = at /\ ~OnCopy /\ stage \in {"write", "returned"})
               /\ (i < at \/ (i = at /\ stage = "next"))' => (i < at \/ (i = at /\ stage = "next"))
  <2>1. CASE at' = at + 1
    BY <1>2, <2>1, LoopMoves DEF Past
  <2>2. CASE at' = at /\ stage' = stage
    <3>1. OnCopy' = OnCopy
      BY <1>1, <2>2 DEF OnCopy, Compressed, Now
    <3>. QED
      BY <2>2, <3>1 DEF Past
  <2>3. CASE at' = at /\ stage' # stage
    <3>1. stage' \notin Running
      BY <1>2, <2>3, LoopMoves
    <3>2. stage \notin Running
      BY <1>6, <2>3 DEF Running, LoopStep, Cancel, Interrupt, NextEntry, EndOfEntries, Select, TakeMember, JoinVolumes,
         AdmitMember, AdmitDirectory, OpenOutput, FailRun, GiveUp, AskHandler, Handler, OnlyLoop, loopVars, Return, Fail
    <3>3. stage' = "next" => at \notin CompressedMembers
      <4>1. stage' = "next" => JoinVolumes /\ Now.after
        BY <2>3 DEF LoopStep, Cancel, Interrupt, NextEntry, EndOfEntries, Select, TakeMember, JoinVolumes,
           AdmitMember, AdmitDirectory, OpenOutput, FailRun, GiveUp, AskHandler, Handler, OnlyLoop, loopVars, Return, Fail
      <4>. QED
        BY <1>2, <4>1 DEF Now
    <3>4. stage # "next"
      BY <1>2, <1>6, <2>3, LoopMoves
    <3>. QED
      BY <2>3, <3>1, <3>2, <3>3, <3>4 DEF Past, Running
  <2>. QED
    BY <2>1, <2>2, <2>3, LoopMoves
<1>7. ASSUME AnySolid, stage' \notin {"failed", "done", "handler", "handled"}
      PROVE  Kept' = Kept /\ Coded' = Coded
  BY <1>1, <1>6, <1>7 DEF Kept, Coded
<1>. QED
  BY <1>1, <1>3, <1>4, <1>5, <1>6, <1>7 DEF HistoryInv

LEMMA FateHistory ==
  ASSUME MemberTypeOK, UntouchedInv, PartsInv, BlameInv, SeenInv, HistoryInv, FateStep
  PROVE  SeenInv' /\ HistoryInv'
<1>1. /\ UNCHANGED <<job, at, seen>> /\ at \in Entries
      /\ stage \notin {"next", "done", "failed", "write"} /\ stage' \in {"next", "link", "failed", "done"}
      /\ stage' = "link" => stage = "returned"
      /\ stage' \in {"link", "failed"} => UNCHANGED fate
      /\ CompressedMembers' = CompressedMembers /\ AnySolid' = AnySolid
      /\ \A i : StartsAfresh(i)' = StartsAfresh(i)
      /\ \A i : Chain(i)' = Chain(i)
      /\ \A i : E(i)' = E(i)
  BY FateKeeps, FateMoves, ChainsStay, JobFacts DEF MemberTypeOK
<1>2. /\ \A j \in CompressedMembers : j \in Nat /\ j \in Entries /\ ~E(j).after /\ HasOutput(E(j)) /\ Compressed(E(j))
      /\ at \in Nat /\ Now = E(at) /\ Now' = Now /\ OnCopy' = OnCopy
  BY <1>1, JobFacts DEF CompressedMembers, Members, MemberTypeOK, Now, OnCopy, Compressed
<1>3. \A i \in Entries : fate[i] = "done" => fate'[i] = "done"
  BY <1>1 DEF UntouchedInv, MemberTypeOK, FateStep, SkipMember, Redirect, OpenedDirectory, FinishRun, EmitLink, Handled
<1>4. SeenInv'
  <2>. SUFFICES ASSUME NEW i \in CompressedMembers, fate'[i] = "done" \/ (i = at /\ stage' \in Running)
                PROVE  seen[i] = Chain(i) /\ \A j \in seen[i] : fate'[j] = "done"
    BY <1>1 DEF SeenInv
  <2>1. fate[i] = "done" \/ (i = at /\ stage \in Running)
    <3>1. CASE FinishRun \/ EmitLink
      BY <1>1, <1>2, <3>1 DEF Running, MemberTypeOK, FinishRun, EmitLink
    <3>2. CASE Redirect \/ OpenedDirectory
      <4>1. i # at
        BY <1>2, <3>2 DEF HasOutput, Redirect, OpenedDirectory
      <4>. QED
        BY <1>1, <1>2, <3>2, <4>1 DEF MemberTypeOK, Redirect, OpenedDirectory, Running
    <3>3. CASE SkipMember \/ Handled
      BY <1>1, <1>2, <3>3 DEF MemberTypeOK, SkipMember, Handled, Running, Return
    <3>. QED
      BY <3>1, <3>2, <3>3 DEF FateStep
  <2>2. seen[i] = Chain(i) /\ \A j \in seen[i] : fate[j] = "done"
    BY <2>1 DEF SeenInv
  <2>3. \A j \in Chain(i) : j \in Entries
    BY <1>2 DEF Chain
  <2>. QED
    BY <1>3, <2>2, <2>3
<1>5. ASSUME AnySolid, stage' \in {"next", "link"}
      PROVE  /\ \A i \in CompressedMembers : i < at \/ (i = at /\ stage' = "next") => fate'[i] = "done"
             /\ history' = {j \in Kept' : \A k \in Kept' : k > j => ~StartsAfresh(k)}
             /\ job.family \in {"rar13", "rar15"} => (decoded' = 0 => Coded' = {})
             /\ job.family = "rar15" =>
                  /\ decoded' # 0 => \E i \in Coded' : \A k \in Coded' : k <= i
                  /\ \A i \in Kept' : (\A k \in Kept' : k <= i) => codec' = E(i).old
  <2>1. /\ \A i \in CompressedMembers : i < at => fate[i] = "done"
        /\ history = {j \in Kept : \A k \in Kept : k > j => ~StartsAfresh(k)}
        /\ job.family \in {"rar13", "rar15"} => (decoded = 0 => Coded = {})
        /\ job.family = "rar15" =>
             /\ decoded # 0 => \E i \in Coded : \A k \in Coded : k <= i
             /\ \A i \in Kept : (\A k \in Kept : k <= i) => codec = E(i).old
        /\ decoded \in Nat
    BY <1>1, <1>5 DEF HistoryInv, MemberTypeOK
  <2>2. Coded' = {i \in CompressedMembers : i <= at} /\ Kept' = Coded'
    BY <1>1, <1>2, <1>5 DEF Coded, Kept, Past
  <2>3. CASE ~FinishRun
    <3>1. codec' = codec /\ history' = history /\ (decoded' = decoded \/ (decoded' # 0 /\ job.family = "rar13"))
      BY <1>5, <2>1, <2>3 DEF HistoryInv, FateStep, SkipMember, Redirect, OpenedDirectory, EmitLink, Handled, sessionVars
    <3>2. CASE at \in CompressedMembers
      <4>1. EmitLink
        BY <1>2, <1>5, <2>3, <3>2 DEF HistoryInv, FateStep, SkipMember, MaySkip, Redirect, OpenedDirectory, Handled,
           HasOutput, Return
      <4>2. stage = "link" /\ stage' = "next" /\ fate'[at] = "done"
        BY <1>1, <1>5, <4>1 DEF EmitLink, Fail, MemberTypeOK
      <4>3. Coded' = Coded /\ Kept' = Kept
        BY <1>2, <2>2, <4>2 DEF Coded, Kept, Past
      <4>. QED
        BY <1>2, <1>3, <2>1, <3>1, <4>2, <4>3
    <3>3. CASE at \notin CompressedMembers
      <4>1. Coded' = Coded /\ Kept' = Kept
        BY <1>2, <2>2, <3>3 DEF Coded, Kept, Past
      <4>. QED
        BY <1>2, <1>3, <2>1, <3>1, <3>3, <4>1
    <3>. QED
      BY <3>2, <3>3
  <2>4. CASE FinishRun
    <3>1. /\ stage = "returned" /\ codec' = codec /\ decoded' = (IF Counts THEN decoded + 1 ELSE decoded)
          /\ history' = IF OnCopy THEN seen[at] \cup {at} ELSE history
          /\ stage' = "next" => fate'[at] = "done"
      BY <1>1, <2>4 DEF FinishRun, MemberTypeOK
    <3>2. Coded = {i \in CompressedMembers : i < at}
      BY <1>2, <3>1 DEF Coded, Past
    <3>3. \A i \in CompressedMembers : i < at \/ (i = at /\ stage' = "next") => fate'[i] = "done"
      BY <1>2, <1>3, <2>1, <3>1
    <3>4. HasOutput(Now) /\ ~Now.after
      BY <3>1 DEF PartsInv, Running
    <3>5. Compressed(Now) <=> at \in CompressedMembers
      BY <1>1, <1>2, <3>4 DEF CompressedMembers, Members
    <3>6. CASE at \in CompressedMembers
      <4>1. history' = {j \in Kept' : \A k \in Kept' : k > j => ~StartsAfresh(k)}
        <5>1. CASE OnCopy
          <6>1. seen[at] = Chain(at)
            BY <3>1, <3>6 DEF SeenInv, Running
          <6>. QED
            BY <2>2, <3>1, <3>6, <5>1, <6>1, ChainGrows DEF MemberTypeOK
        <5>2. CASE ~OnCopy
          <6>1. Kept = {i \in CompressedMembers : i <= at}
            BY <1>2, <3>1, <5>2 DEF Kept, Past
          <6>. QED
            BY <2>1, <2>2, <3>1, <5>2, <6>1
        <5>. QED
          BY <5>1, <5>2
      <4>2. job.family \in {"rar13", "rar15"} => decoded' # 0
        BY <2>1, <3>1, <3>5, <3>6 DEF Counts
      <4>3. at \in Coded' /\ \A k \in Coded' : k <= at
        BY <1>2, <2>2, <3>6
      <4>4. job.family = "rar15" => Kept' = Kept
        BY <1>2, <2>2, <3>1 DEF Kept, Past, OnCopy
      <4>. QED
        BY <2>1, <3>1, <3>3, <4>1, <4>2, <4>3, <4>4
    <3>7. CASE at \notin CompressedMembers
      <4>1. Coded' = Coded /\ Kept' = Kept
        BY <1>2, <2>2, <3>2, <3>7 DEF Kept, Past
      <4>2. ~OnCopy /\ history' = history
        BY <3>1, <3>5, <3>7 DEF OnCopy
      <4>3. decoded' = decoded \/ (decoded' # 0 /\ job.family = "rar13")
        BY <2>1, <3>1, <3>5, <3>7 DEF Counts
      <4>. QED
        BY <2>1, <3>1, <3>3, <4>1, <4>2, <4>3
    <3>. QED
      BY <3>6, <3>7
  <2>. QED
    BY <2>3, <2>4
<1>. QED
  BY <1>1, <1>4, <1>5 DEF HistoryInv

LEMMA RunHistory ==
  ASSUME MemberTypeOK, UntouchedInv, PartsInv, SeenInv, HistoryInv, RunStep
  PROVE  SeenInv' /\ HistoryInv'
<1>1. /\ UNCHANGED <<job, at, fate, decoded, parts>> /\ at \in Entries
      /\ stage \in {"opened", "write"} /\ stage' \in {"write", "returned"}
      /\ CompressedMembers' = CompressedMembers /\ AnySolid' = AnySolid
      /\ \A i : StartsAfresh(i)' = StartsAfresh(i)
      /\ \A i : Chain(i)' = Chain(i)
      /\ \A i : E(i)' = E(i)
  BY RunKeeps, RunMoves, ChainsStay, JobFacts DEF MemberTypeOK
<1>2. /\ \A j \in CompressedMembers : j \in Nat /\ j \in Entries
      /\ at \in Nat /\ Now = E(at) /\ Now' = Now /\ OnCopy' = OnCopy
  BY <1>1, JobFacts DEF CompressedMembers, Members, MemberTypeOK, Now, OnCopy, Compressed
<1>3. Coded' = Coded
  BY <1>1, <1>2 DEF Coded, Past
<1>4. CASE ~BeginDecoding
  <2>1. UNCHANGED <<history, codec, seen>> /\ stage = "write"
    BY <1>4, RunMoves DEF RunStep, Observe, FindDamage, VerifyInMemory, WriteByte, WriteRefused, AllWritten, sessionVars,
       recordVars
  <2>2. Kept' = Kept
    BY <1>1, <1>2, <2>1 DEF Kept, Past
  <2>. QED
    BY <1>1, <1>3, <2>1, <2>2 DEF SeenInv, HistoryInv, Running
<1>5. CASE BeginDecoding
  <2>. DEFINE context == IF KeepsSolid THEN history ELSE {}
  <2>1. /\ stage = "opened" /\ HasOutput(Now)
        /\ Compressed(Now) => /\ seen' = [seen EXCEPT ![at] = context]
                              /\ history' = IF OnCopy THEN history ELSE context \cup {at}
                              /\ codec' = Now.old
        /\ ~Compressed(Now) => UNCHANGED <<seen, history, codec>>
    BY <1>5 DEF BeginDecoding
  <2>2. ~Now.after /\ (Compressed(Now) <=> at \in CompressedMembers)
    BY <1>1, <1>2, <2>1 DEF PartsInv, Running, CompressedMembers, Members
  <2>3. Kept = {i \in CompressedMembers : i < at}
    BY <1>2, <2>1 DEF Kept, Past
  <2>4. CASE at \notin CompressedMembers
    <3>1. UNCHANGED <<seen, history, codec>>
      BY <2>1, <2>2, <2>4
    <3>2. Kept' = Kept
      BY <1>1, <1>2, <2>3, <2>4 DEF Kept, Past
    <3>. QED
      BY <1>1, <1>3, <2>1, <2>4, <3>1, <3>2 DEF SeenInv, HistoryInv, Running
  <2>5. CASE at \in CompressedMembers
    <3>1. context = Chain(at) /\ \A j \in Chain(at) : fate[j] = "done"
      BY <2>1, <2>5, ContextIsChain
    <3>. HIDE DEF context
    <3>2. /\ seen'[at] = Chain(at) /\ \A i \in Entries : i # at => seen'[i] = seen[i]
          /\ history' = (IF OnCopy THEN history ELSE Chain(at) \cup {at})
          /\ codec' = E(at).old
      BY <1>1, <1>2, <2>1, <2>2, <2>5, <3>1 DEF MemberTypeOK
    <3>3. SeenInv'
      <4>. SUFFICES ASSUME NEW i \in CompressedMembers, fate[i] = "done" \/ (i = at /\ stage' \in Running)
                    PROVE  seen'[i] = Chain(i) /\ \A j \in seen'[i] : fate[j] = "done"
        BY <1>1 DEF SeenInv
      <4>1. CASE i = at
        BY <3>1, <3>2, <4>1
      <4>2. CASE i # at
        <5>1. seen'[i] = seen[i]
          BY <1>2, <3>2, <4>2
        <5>2. fate[i] = "done"
          BY <4>2
        <5>. QED
          BY <5>1, <5>2 DEF SeenInv
      <4>. QED
        BY <4>1, <4>2
    <3>4. ASSUME AnySolid PROVE history' = {j \in Kept' : \A k \in Kept' : k > j => ~StartsAfresh(k)}
      <4>1. CASE OnCopy
        <5>1. Kept' = Kept
          BY <1>1, <1>2, <2>3, <4>1 DEF Kept, Past
        <5>. QED
          BY <2>1, <3>2, <3>4, <4>1, <5>1 DEF HistoryInv
      <4>2. CASE ~OnCopy
        <5>1. Kept' = {i \in CompressedMembers : i <= at}
          BY <1>1, <1>2, <4>2 DEF Kept, Past
        <5>. QED
          BY <2>5, <3>2, <4>2, <5>1, ChainGrows DEF MemberTypeOK
      <4>. QED
        BY <4>1, <4>2
    <3>5. ASSUME job.family = "rar15", NEW i \in Kept', \A k \in Kept' : k <= i
          PROVE  codec' = E(i).old
      <4>1. Kept' = {k \in CompressedMembers : k <= at}
        BY <1>1, <1>2, <3>5 DEF Kept, Past, OnCopy
      <4>2. i = at
        BY <1>2, <2>5, <3>5, <4>1
      <4>. QED
        BY <3>2, <4>2
    <3>. QED
      BY <1>1, <1>3, <2>1, <3>3, <3>4, <3>5 DEF HistoryInv
  <2>. QED
    BY <2>4, <2>5
<1>. QED
  BY <1>4, <1>5

LEMMA MemberHistory ==
  ASSUME MemberTypeOK, UntouchedInv, PartsInv, BlameInv, SeenInv, HistoryInv, [MemberNext]_memberVars
  PROVE  SeenInv' /\ HistoryInv'
<1>1. CASE UNCHANGED memberVars
  <2>1. /\ UNCHANGED <<job, at, stage, history, codec, decoded, seen, fate>>
        /\ CompressedMembers' = CompressedMembers /\ AnySolid' = AnySolid
        /\ \A i : StartsAfresh(i)' = StartsAfresh(i)
        /\ \A i : Chain(i)' = Chain(i)
        /\ \A i : E(i)' = E(i)
    BY <1>1, StutterKeeps, ChainsStay
  <2>2. Kept' = Kept /\ Coded' = Coded
    BY <2>1 DEF Kept, Coded, Past, OnCopy, Compressed, Now
  <2>. QED
    BY <2>1, <2>2 DEF SeenInv, HistoryInv
<1>. QED
  BY <1>1, MemberSteps, LoopHistory, FateHistory, RunHistory

----------------------------------------------------------------------------
(* The whole of it.                                                        *)

MemberInv ==
  /\ MemberTypeOK /\ UntouchedInv /\ BudgetInv /\ BlameInv /\ PartsInv /\ AccountInv /\ WholeInv
  /\ SeenInv /\ HistoryInv

LEMMA MemberBegins == MemberInit => MemberInv
<1>. SUFFICES ASSUME MemberInit PROVE MemberInv
  OBVIOUS
<1>1. /\ job \in Jobs /\ token = FALSE
      /\ at = 0 /\ stage = "next" /\ decision = "none" /\ failure = "none" /\ answer = "none"
      /\ pending = <<>> /\ parts = <<>>
      /\ history = {} /\ codec = "none" /\ decoded = 0 /\ ready = FALSE
      /\ spent = 0 /\ accepted = [i \in Entries |-> 0] /\ trouble = {}
      /\ seen = [i \in Entries |-> {}] /\ made = [i \in Entries |-> <<>>]
      /\ fate = [i \in Entries |-> "untouched"] /\ spoiled = {}
  BY DEF MemberInit
<1>2. /\ Len(job.entries) \in Nat /\ Entries = 1 .. Len(job.entries) /\ IsFiniteSet(Entries)
      /\ NoLimit \in Nat /\ job.memberLimit \in 0 .. NoLimit /\ job.totalLimit \in 0 .. NoLimit
  BY <1>1, JobFacts
<1>3. MemberTypeOK
  <2>1. pending \in Seq(Entries) /\ parts \in Seq(Entries) /\ made \in [Entries -> Seq(Entries)]
    BY <1>1, EmptySeq
  <2>2. /\ accepted \in [Entries -> Nat] /\ seen \in [Entries -> SUBSET Entries]
        /\ fate \in [Entries -> Fates] /\ trouble \in SUBSET Troubles
    BY <1>1 DEF Fates
  <2>3. at \in 0 .. Len(job.entries)
    BY <1>1, <1>2
  <2>4. /\ stage \in Stages /\ token \in BOOLEAN
        /\ answer \in Failures \cup {"complete", "stopped"} /\ failure \in Failures
    BY <1>1 DEF Stages, Failures
  <2>5. /\ history \in SUBSET Entries /\ decoded \in Nat /\ ready \in BOOLEAN /\ spent \in Nat
        /\ spoiled \in SUBSET Entries
    BY <1>1
  <2>. QED
    BY <1>1, <2>1, <2>2, <2>3, <2>4, <2>5 DEF MemberTypeOK
<1>4. UntouchedInv
  BY <1>1 DEF UntouchedInv
<1>5. BudgetInv
  <2>1. \A i \in Entries : WithinMember(accepted[i])
    BY <1>1, <1>2 DEF WithinMember
  <2>2. Total(accepted, Entries, NoLimit + 1) = 0
    <3>. DEFINE M == NoLimit + 1
    <3>1. M \in Nat /\ accepted \in [Entries -> 0 .. M] /\ \A i \in Entries : accepted[i] = 0
      BY <1>1, <1>2
    <3>. HIDE DEF M
    <3>2. Total(accepted, Entries, M) = 0
      BY <1>2, <3>1, TotalZero
    <3>. QED
      BY <3>2 DEF M
  <2>. QED
    BY <1>1, <1>2, <2>1, <2>2 DEF BudgetInv
<1>6. BlameInv
  BY <1>1 DEF BlameInv, Before
<1>7. PartsInv
  BY <1>1 DEF PartsInv, Running
<1>8. AccountInv
  BY <1>1, <1>2 DEF AccountInv
<1>9. WholeInv
  BY <1>1 DEF WholeInv
<1>10. SeenInv /\ HistoryInv
  <2>1. \A j \in CompressedMembers : j \in Entries /\ j \in Nat /\ j > 0
    BY <1>2 DEF CompressedMembers, Members
  <2>2. Coded = {} /\ Kept = {}
    BY <1>1, <2>1 DEF Coded, Kept, Past
  <2>. QED
    BY <1>1, <2>1, <2>2 DEF SeenInv, HistoryInv, Running
<1>. QED
  BY <1>3, <1>4, <1>5, <1>6, <1>7, <1>8, <1>9, <1>10 DEF MemberInv

LEMMA MemberStep == MemberInv /\ [MemberNext]_memberVars => MemberInv'
BY MemberTypes, MemberTouches, MemberBudget, MemberBlames, MemberParts, MemberAccounts, MemberWhole, MemberHistory
   DEF MemberInv

\* What the four properties say is in the invariant.
LEMMA MemberIsPromised ==
  ASSUME MemberInv
  PROVE  OutputIsBounded /\ BlameIsReal /\ MembersAreWhole /\ HistoryIsChain
<1>1. OutputIsBounded
  BY DEF MemberInv, BudgetInv, OutputIsBounded
<1>2. BlameIsReal
  BY DEF MemberInv, MemberTypeOK, BlameInv, Happened, BlameIsReal
<1>3. MembersAreWhole
  BY DEF MemberInv, WholeInv, AccountInv, Accounted, MembersAreWhole
<1>4. HistoryIsChain
  BY DEF MemberInv, SeenInv, HistoryIsChain
<1>. QED
  BY <1>1, <1>2, <1>3, <1>4

----------------------------------------------------------------------------
(* The call, on whatever path.                                             *)

\* A step of any path is a step of the windowed extraction or leaves it alone.
LEMMA PathsStep ==
  /\ ExtractionInit => ExtractInit
  /\ [ExtractionNext]_extractionVars => [ExtractNext]_extractVars
<1>1. ExtractionInit => ExtractInit
  BY DEF ExtractionInit
<1>2. [ExtractionNext]_extractionVars => [ExtractNext]_extractVars
  <2>1. ASSUME OnWindowed(ExtractNext) PROVE [ExtractNext]_extractVars
    BY <2>1 DEF OnWindowed
  <2>2. ASSUME OnBatches(PrefixNext) \/ OnMembers(MemberNext) PROVE UNCHANGED extractVars
    BY <2>2 DEF OnBatches, OnMembers
  <2>3. ASSUME UNCHANGED extractionVars PROVE UNCHANGED extractVars
    BY <2>3 DEF extractionVars
  <2>. QED
    BY <2>1, <2>2, <2>3 DEF ExtractionNext
<1>. QED
  BY <1>1, <1>2

LEMMA BatchesStep ==
  /\ ExtractionInit => PrefixInit
  /\ [ExtractionNext]_extractionVars => [PrefixNext]_prefixVars
<1>1. ExtractionInit => PrefixInit
  BY DEF ExtractionInit
<1>2. [ExtractionNext]_extractionVars => [PrefixNext]_prefixVars
  <2>1. ASSUME OnBatches(PrefixNext) PROVE [PrefixNext]_prefixVars
    BY <2>1 DEF OnBatches
  <2>2. ASSUME OnWindowed(ExtractNext) \/ OnMembers(MemberNext) PROVE UNCHANGED prefixVars
    BY <2>2 DEF OnWindowed, OnMembers
  <2>3. ASSUME UNCHANGED extractionVars PROVE UNCHANGED prefixVars
    BY <2>3 DEF extractionVars
  <2>. QED
    BY <2>1, <2>2, <2>3 DEF ExtractionNext
<1>. QED
  BY <1>1, <1>2

LEMMA MembersStep ==
  /\ ExtractionInit => MemberInit
  /\ [ExtractionNext]_extractionVars => [MemberNext]_memberVars
<1>1. ExtractionInit => MemberInit
  BY DEF ExtractionInit
<1>2. [ExtractionNext]_extractionVars => [MemberNext]_memberVars
  <2>1. ASSUME OnMembers(MemberNext) PROVE [MemberNext]_memberVars
    BY <2>1 DEF OnMembers
  <2>2. ASSUME OnWindowed(ExtractNext) \/ OnBatches(PrefixNext) PROVE UNCHANGED memberVars
    BY <2>2 DEF OnWindowed, OnBatches
  <2>3. ASSUME UNCHANGED extractionVars PROVE UNCHANGED memberVars
    BY <2>3 DEF extractionVars
  <2>. QED
    BY <2>1, <2>2, <2>3 DEF ExtractionNext
<1>. QED
  BY <1>1, <1>2

\* The coordinator, its workers and the ledger agree at every moment about who
\* holds what of the limit, whatever the paths of the call.
THEOREM ExtractionInvariant == ExtractionSpec => []ExtractInv
<1>1. ExtractionInit => ExtractInv
  BY PathsStep, ExtractBegins
<1>2. ExtractInv /\ [ExtractionNext]_extractionVars => ExtractInv'
  BY PathsStep, ExtractStep
<1>. QED
  BY <1>1, <1>2, PTL DEF ExtractionSpec

\* The debug assertion of plan_batch holds and no reservation of a closed batch is
\* refused, for every limit, window and choice of hints.
THEOREM AdmissionCorrect == ExtractionSpec => []AdmissionIsSound
<1>1. ExtractInv => AdmissionIsSound
  <2>. SUFFICES ASSUME ExtractInv PROVE AdmissionIsSound
    OBVIOUS
  <2>1. ASSUME pc = "fill", Len(batch) = 0 PROVE Admissible(first)
    <3>1. /\ room >= 1 /\ first <= N /\ required = 0
          /\ hint[first] + ReservationBytes <= Limit - used
      BY <2>1 DEF ExtractInv, AdmissionInv
    <3>2. room \in Nat /\ hint[first] \in Nat /\ ReservationBytes \in Nat
      BY <3>1, Names DEF ExtractInv, ExtractTypeOK
    <3>3. Len(batch) < room
      BY <2>1, <3>1, <3>2
    <3>4. required + hint[first] + ReservationBytes <= Limit - used
      BY <3>1, <3>2
    <3>. QED
      BY <3>1, <3>3, <3>4 DEF Admissible, FitsAfterHint
  <2>2. pc = "reserve" => Fits(Promised)
    BY DEF ExtractInv, AdmissionInv
  <2>. QED
    BY <2>1, <2>2 DEF AdmissionIsSound, NonEmptyBatch
<1>. QED
  BY <1>1, ExtractionInvariant, PTL

\* extract_windowed returns with the ledger as empty as it found it, on every path
\* out of it: the last member, a refusal, a failed or panicked worker, a sink that
\* fails.
THEOREM ExtractionDrains == ExtractionSpec => []DrainedAtEnd
<1>1. ExtractInv => DrainedAtEnd
  <2>. SUFFICES ASSUME ExtractInv, pc = "done"
                PROVE  used = 0 /\ (\A c \in Charges : owner[c] = None) /\ \A s \in Scopes : ~Live(s)
    BY DEF DrainedAtEnd
  <2>1. \A s \in Scopes : worker[s] = "idle" /\ owner[OutputOf(s)] = None /\ phase[s] = "none"
    BY DEF ExtractInv, WorkersInv, WorkerOf, StageOf
  <2>2. \A c \in Charges : owner[c] = None
    BY <2>1, Names DEF ExtractInv, SlotsInv
  <2>3. \A s \in Scopes : ~Live(s)
    BY <2>1 DEF Live
  <2>4. used = 0
    <3>1. IsFiniteSet(Holders) /\ Limit \in Nat
      BY Names, FS_Union DEF Holders
    <3>2. \A h \in Holders : Held[h] = 0
      BY <2>2, <2>3, Names DEF Held, Holders
    <3>3. Held = [h \in Holders |-> Held[h]]
      BY DEF Held
    <3>4. Held \in [Holders -> 0 .. Limit]
      BY <3>1, <3>2, <3>3
    <3>5. used = Total(Held, Holders, Limit)
      BY DEF ExtractInv, LedgerInv, Conservation
    <3>. QED
      BY <3>1, <3>2, <3>4, <3>5, TotalZero
  <2>. QED
    BY <2>2, <2>3, <2>4
<1>. QED
  BY <1>1, ExtractionInvariant, PTL

\* What publish sees is the abstract in-order delivery, and no slot without a good
\* result is ever there to be published.
THEOREM ExtractionDelivers == ExtractionSpec => ImplementsDelivery
<1>1. ExtractInv => BatchIsWhole
  BY DEF ExtractInv, ResultsInv
<1>2. ExtractionInit => Delivery!Init
  BY PathsStep DEF ExtractInit, Delivery!Init
<1>3. ExtractInv /\ [ExtractNext]_extractVars => [Delivery!Next]_<<published,
        IF outcome \in {"running", "ok"} THEN outcome ELSE "failed">>
  <2>. SUFFICES ASSUME ExtractInv, [ExtractNext]_extractVars
                PROVE  \/ Delivery!Next
                       \/ UNCHANGED <<published, IF outcome \in {"running", "ok"} THEN outcome ELSE "failed">>
    BY DEF Delivery!Next
  <2>1. CASE Complete
    <3>1. published = first - 1 /\ outcome = "running" /\ first > N /\ outcome' = "ok" /\ published' = published
      BY <2>1 DEF Complete, ExtractInv, ProgressInv
    <3>2. published = N
      BY <3>1, Names DEF ExtractInv, ExtractTypeOK
    <3>. QED
      BY <3>1, <3>2 DEF Delivery!Next, Delivery!Complete
  <2>2. CASE PublishOk
    <3>1. published' = published + 1 /\ published < N /\ outcome' = outcome /\ outcome = "running"
      BY <2>2, PublishOkStep DEF PublishOk, ExtractInv, ProgressInv
    <3>. QED
      BY <3>1 DEF Delivery!Next, Delivery!Deliver
  <2>3. CASE Refuse \/ Join \/ PublishError
    <3>1. published' = published /\ outcome = "running"
      BY <2>3 DEF Refuse, Join, PublishError, ExtractInv, ProgressInv
    <3>2. outcome' = outcome \/ outcome' \in {"limit", "sink"} \cup Errors
      <4>1. ASSUME Join PROVE outcome' = outcome \/ outcome' \in Errors
        BY <4>1, FirstErrorIsReal DEF Join
      <4>. QED
        BY <2>3, <4>1 DEF Refuse, PublishError
    <3>. QED
      BY <3>1, <3>2 DEF Delivery!Next, Delivery!Fail, Errors
  <2>4. ASSUME \/ OpenBatch \/ AllocateSlots \/ Admit \/ CloseBatch \/ ReserveSlot \/ Dispatch
               \/ (\E s \in Scopes : DropOutput(s)) \/ EndPublish \/ DropSlots \/ EndBatch
               \/ (\E s \in Scopes : WorkerNext(s)) \/ UNCHANGED extractVars
        PROVE  UNCHANGED <<published, outcome>>
    BY <2>4 DEF OpenBatch, AllocateSlots, Admit, CloseBatch, ReserveSlot, Dispatch, DropOutput,
       EndPublish, DropSlots, EndBatch, WorkerNext, SkipWork, BeginWork, EnterMap, Allocate, Spoil,
       DropFailed, LeaveMap, RetireWork, Abandon, coordVars, extractVars
  <2>. QED
    BY <2>1, <2>2, <2>3, <2>4 DEF ExtractNext, CoordinatorNext, Finished
<1>. QED
  BY <1>1, <1>2, <1>3, PathsStep, ExtractionInvariant, PTL
     DEF ExtractionSpec, ImplementsDelivery, Delivery!Spec, Delivery!deliveryVars

\* map_prefix and its callers deliver what they promise whatever the workers'
\* order: the caller receives a verified prefix, an error is the first one of the
\* archive, and a batch retains no more than the memory it was given.
THEOREM PrefixCorrect == ExtractionSpec => []PrefixIsDelivered
<1>1. ExtractionInit => PrefixInv
  BY BatchesStep, PrefixBegins
<1>2. PrefixInv /\ [ExtractionNext]_extractionVars => PrefixInv'
  BY BatchesStep, PrefixStep
<1>3. PrefixInv => PrefixIsDelivered
  BY PrefixIsPromised
<1>. QED
  BY <1>1, <1>2, <1>3, PTL DEF ExtractionSpec

\* The loop over the entries, the fragments that wait, the decoder's history and
\* the budget agree with each other after every step of a sequential extraction.
THEOREM MemberInvariant == ExtractionSpec => []MemberInv
<1>1. ExtractionInit => MemberInv
  BY MembersStep, MemberBegins
<1>2. MemberInv /\ [ExtractionNext]_extractionVars => MemberInv'
  BY MembersStep, MemberStep
<1>. QED
  BY <1>1, <1>2, PTL DEF ExtractionSpec

\* OutputBudget counts every byte that the sinks accept, of members that fail too,
\* and lets none pass beyond either limit.
THEOREM BudgetCorrect == ExtractionSpec => []OutputIsBounded
<1>1. MemberInv => OutputIsBounded
  BY MemberIsPromised
<1>. QED
  BY <1>1, MemberInvariant, PTL

\* The error that OutputBudget::run and finish_member make of a refused write, a
\* failed sink, a cancellation and damage is one that happened.
THEOREM BlameCorrect == ExtractionSpec => []BlameIsReal
<1>1. MemberInv => BlameIsReal
  BY MemberIsPromised
<1>. QED
  BY <1>1, MemberInvariant, PTL

\* What counts as extracted is assembled from its own parts, as long as declared and
\* undamaged, for every order of split and whole entries of a volume set.
THEOREM MembersCorrect == ExtractionSpec => []MembersAreWhole
<1>1. MemberInv => MembersAreWhole
  BY MemberIsPromised
<1>. QED
  BY <1>1, MemberInvariant, PTL

\* The decoder sessions of the three families decode every member with the history
\* its encoder had, through selections, failures passed over and split members.
THEOREM HistoryCorrect == ExtractionSpec => []HistoryIsChain
<1>1. MemberInv => HistoryIsChain
  BY MemberIsPromised
<1>. QED
  BY <1>1, MemberInvariant, PTL
=============================================================================
