---------------------------- MODULE RewriteProofs ----------------------------
(***************************************************************************)
(* A rewrite call, for any archive, any number of readers and every        *)
(* schedule: what the quota counts is what members answer for, files are   *)
(* no larger, a reader that was handed out keeps its file, and a call that *)
(* is over has staged what it says and cleaned up the rest.  And the       *)
(* writers that consume it, for any number of inputs and threads: a legacy *)
(* window fits the quota, and no source is given back too early.           *)
(***************************************************************************)
EXTENDS RewriteWriter, TotalsProofs

\* A reader in one of these states answers for the lease of its target.
HasLease(r) == reader[r] \in {"reading", "closing", "releasing"}

\* What the decoder has been charged for the member it is at.
InFlight == written + (IF decoder = "store" THEN 1 ELSE 0)

\* The decoder works on one member behind all it has verified.
DecoderInv ==
  /\ decoder \in {"start", "member", "publish", "wait"} => written = 0
  /\ decoder = "start" => current = 1
  /\ decoder \in {"member", "publish", "wait", "write", "store"} =>
       \A m \in Selected : size[m] <= Quota
  /\ decoder \in {"wait", "write", "store"} => current <= N /\ pending = 0
  /\ decoder = "publish" => pending # 0
  /\ decoder = "write" => written <= size[current]
  /\ decoder = "store" => written < size[current] /\ current \in Selected
  /\ current \in Selected => InFlight <= Quota
  /\ pending # 0 => pending < current /\ pending \notin published /\ size[pending] <= Quota
  /\ \A m \in published : m < current /\ size[m] <= Quota

\* A lease that is being dropped has no other holder; only published members
\* have leases.
LeaseInv ==
  /\ ready \subseteq published
  /\ \A r \in Readers : HasLease(r) => target[r] \in published
  /\ \A r \in Readers : reader[r] \in {"closing", "releasing"} =>
       /\ target[r] \notin ready
       /\ \A s \in Readers : HasLease(s) /\ target[s] = target[r] => s = r
  /\ \A r \in Readers : reader[r] \in {"blocking", "waiting", "woken"} => target[r] \in Selected

\* A file is whole while somebody may read it, and never more than is charged.
FileInv ==
  /\ \A m \in ready : file[m] = size[m]
  /\ \A r \in Readers : reader[r] = "reading" => file[target[r]] = size[target[r]]
  /\ \A r \in Readers : reader[r] \in {"closing", "releasing"} => file[target[r]] = 0
  /\ decoder \in {"member", "publish"} /\ pending # 0 => file[pending] = size[pending]
  /\ decoder \in {"write", "store"} /\ current \in Selected => file[current] = written
  /\ \A m \in 1 .. N : file[m] <= Charged[m]

Counted == used = Total(Charged, 1 .. N, Quota)

\* A step changes the charge of at most one member.
OneChargeMoves == \E m \in 1 .. N : \A k \in (1 .. N) \ {m} : Charged'[k] = Charged[k]

PipelineInv == PipelineTypeOK /\ DecoderInv /\ LeaseInv /\ FileInv /\ Counted
----------------------------------------------------------------------------
(* What members answer for.                                                *)

LEMMA Members ==
  /\ N \in Nat /\ Quota \in Nat /\ Selected \subseteq 1 .. N /\ MaxOpens \in Nat
  /\ IsFiniteSet(1 .. N) /\ LastSelected \in Selected /\ \A m \in Selected : m <= LastSelected
<1>1. N \in Nat /\ Quota \in Nat /\ Selected \subseteq 1 .. N /\ Selected # {} /\ MaxOpens \in Nat
  BY PipelineAssumption DEF PipelineAssumption
<1>2. Selected \in SUBSET Nat /\ \A m \in Selected : m <= N
  BY <1>1
<1>3. LastSelected \in Selected /\ \A m \in Selected : m <= LastSelected
  BY <1>1, <1>2, MaxExists DEF LastSelected
<1>4. IsFiniteSet(1 .. N)
  BY <1>1, FS_Interval
<1>. QED
  BY <1>1, <1>3, <1>4

\* What each member is charged is within the quota.
LEMMA ChargedType ==
  ASSUME PipelineTypeOK, DecoderInv, LeaseInv
  PROVE  Charged \in [1 .. N -> 0 .. Quota]
<1>1. size \in [1 .. N -> Nat]
  BY PipelineAssumption DEF PipelineAssumption, PipelineTypeOK
<1>2. ASSUME NEW m \in 1 .. N, Leased(m) \/ m = pending PROVE size[m] \in 0 .. Quota
  <2>1. m \in published \/ m = pending
    BY <1>2 DEF Leased, LeaseInv, HasLease
  <2>. QED
    BY SMTT(60), <1>1, <2>1, Members DEF DecoderInv
<1>3. ASSUME NEW m \in 1 .. N, m = current, m \in Selected
      PROVE  written + (IF decoder = "store" THEN 1 ELSE 0) \in 0 .. Quota
  BY <1>3, Members DEF DecoderInv, InFlight, PipelineTypeOK
<1>4. \A m \in 1 .. N : Charged[m] \in 0 .. Quota
  BY <1>2, <1>3, Members DEF Charged
<1>. QED
  BY <1>4 DEF Charged

\* A step that changes the charge of one member and moves the counter by the
\* same amount keeps the counter exact.
LEMMA CountedStep ==
  ASSUME PipelineTypeOK, DecoderInv, LeaseInv, Counted,
         Charged' \in [1 .. N -> 0 .. Quota], NEW m \in 1 .. N,
         \A k \in (1 .. N) \ {m} : Charged'[k] = Charged[k],
         used' = used - Charged[m] + Charged'[m]
  PROVE  Counted' /\ OneChargeMoves /\ used' \in Nat /\ Charged[m] <= used
<1>1. Charged \in [1 .. N -> 0 .. Quota] /\ IsFiniteSet(1 .. N) /\ Quota \in Nat
  BY ChargedType, Members
<1>2. ASSUME NEW g \in [1 .. N -> 0 .. Quota], \A k \in (1 .. N) \ {m} : g[k] = Charged[k]
      PROVE  Total(g, 1 .. N, Quota) = Total(Charged, 1 .. N, Quota) - Charged[m] + g[m]
  BY <1>1, <1>2, TotalUpdate
<1>3. Total(Charged', 1 .. N, Quota) = Total(Charged, 1 .. N, Quota) - Charged[m] + Charged'[m]
  BY <1>2
<1>4. ASSUME NEW g \in [1 .. N -> 0 .. Quota]
      PROVE  Total(g, 1 .. N, Quota) \in Nat /\ g[m] <= Total(g, 1 .. N, Quota)
  BY <1>1, TotalFinite, TotalMember
<1>5. Total(Charged', 1 .. N, Quota) \in Nat /\ Charged[m] <= Total(Charged, 1 .. N, Quota)
  BY <1>1, <1>4
<1>6. OneChargeMoves
  BY DEF OneChargeMoves
<1>. QED
  BY <1>3, <1>5, <1>6 DEF Counted

\* A step that changes no charge and not the counter.
LEMMA CountedKept ==
  ASSUME Counted, \A k \in 1 .. N : Charged'[k] = Charged[k], used' = used
  PROVE  Counted' /\ OneChargeMoves
<1>1. Charged' = Charged
  BY DEF Charged
<1>2. LastSelected \in 1 .. N
  BY Members
<1>. QED
  BY <1>1, <1>2 DEF Counted, OneChargeMoves
----------------------------------------------------------------------------
(* Steps that take no lease away.                                          *)

\* Reader s goes on as it was, goes on without a lease, or gets one that is in
\* the map.
KeepsLease(s) ==
  \/ reader'[s] = reader[s] /\ target'[s] = target[s]
  \/ /\ ~HasLease(s) /\ reader'[s] \in {"idle", "blocking", "waiting", "woken"}
     /\ reader'[s] # "idle" => target'[s] \in Selected
  \/ ~HasLease(s) /\ reader'[s] = "reading" /\ target'[s] \in ready

LEMMA LeasesKept ==
  ASSUME PipelineInv, ready' = ready, published' = published, size' = size,
         \A s \in Readers : KeepsLease(s),
         \A m \in 1 .. N : Leased(m) => file'[m] = file[m]
  PROVE  /\ LeaseInv' /\ \A m \in 1 .. N : Leased(m)' <=> Leased(m)
         /\ \A m \in ready' : file'[m] = size'[m]
         /\ \A r \in Readers : reader'[r] = "reading" => file'[target'[r]] = size'[target'[r]]
         /\ \A r \in Readers : reader'[r] \in {"closing", "releasing"} => file'[target'[r]] = 0
<1>. USE DEF HasLease, KeepsLease
<1>1. LeaseInv /\ FileInv /\ ready \subseteq 1 .. N /\ published \subseteq 1 .. N
  BY Members DEF PipelineInv, PipelineTypeOK
<1>2. ASSUME NEW r \in Readers, HasLease(r)'
      PROVE  /\ target'[r] \in published
             /\ \/ target'[r] = target[r] /\ reader'[r] = reader[r]
                \/ target'[r] \in ready /\ reader'[r] = "reading"
  BY <1>1, <1>2 DEF LeaseInv
<1>3. LeaseInv'
  <2>1. ASSUME NEW r \in Readers, reader'[r] \in {"closing", "releasing"}
        PROVE  /\ target'[r] \notin ready'
               /\ \A s \in Readers : HasLease(s)' /\ target'[s] = target'[r] => s = r
    <3>1. target'[r] = target[r] /\ reader'[r] = reader[r] /\ target[r] \notin ready
      BY <1>1, <1>2, <2>1 DEF LeaseInv
    <3>2. ASSUME NEW s \in Readers, HasLease(s)', target'[s] = target'[r] PROVE s = r
      <4>1. target'[s] = target[s] /\ reader'[s] = reader[s]
        BY <1>2, <3>1, <3>2
      <4>. QED
        BY <1>1, <2>1, <3>1, <3>2, <4>1 DEF LeaseInv
    <3>. QED
      BY <3>1, <3>2
  <2>2. \A r \in Readers : reader'[r] \in {"blocking", "waiting", "woken"} => target'[r] \in Selected
    BY <1>1 DEF LeaseInv
  <2>. QED
    BY <1>1, <1>2, <2>1, <2>2 DEF LeaseInv
<1>4. ASSUME NEW m \in 1 .. N PROVE Leased(m)' <=> Leased(m)
  <2>1. ASSUME Leased(m)' PROVE Leased(m)
    BY <1>2, <2>1 DEF Leased
  <2>2. ASSUME Leased(m) PROVE Leased(m)'
    BY <2>2 DEF Leased
  <2>. QED
    BY <2>1, <2>2
<1>5. \A m \in ready' : file'[m] = size'[m]
  BY <1>1 DEF FileInv, Leased
<1>6. ASSUME NEW r \in Readers, reader'[r] = "reading" PROVE file'[target'[r]] = size'[target'[r]]
  <2>1. target'[r] \in 1 .. N
    BY <1>1, <1>2, <1>6
  <2>2. CASE target'[r] \in ready
    BY <1>5, <2>2
  <2>3. CASE target'[r] = target[r] /\ reader'[r] = reader[r]
    BY <1>1, <1>6, <2>1, <2>3 DEF FileInv, Leased
  <2>. QED
    BY <1>2, <1>6, <2>2, <2>3
<1>7. ASSUME NEW r \in Readers, reader'[r] \in {"closing", "releasing"} PROVE file'[target'[r]] = 0
  <2>1. target'[r] = target[r] /\ reader'[r] = reader[r] /\ target'[r] \in 1 .. N
    BY <1>1, <1>2, <1>7
  <2>. QED
    BY <1>1, <1>7, <2>1 DEF FileInv, Leased
<1>. QED
  BY <1>3, <1>4, <1>5, <1>6, <1>7

\* Nothing happens to files, bytes and the decoder.
LEMMA QuietStep ==
  ASSUME PipelineInv, ready' = ready, published' = published, size' = size,
         UNCHANGED <<diskVars, decoderVars>>,
         \A s \in Readers : KeepsLease(s)
  PROVE  DecoderInv' /\ LeaseInv' /\ FileInv' /\ Counted' /\ OneChargeMoves
<1>. USE DEF diskVars, decoderVars
<1>1. /\ LeaseInv' /\ \A m \in 1 .. N : Leased(m)' <=> Leased(m)
      /\ \A m \in ready' : file'[m] = size'[m]
      /\ \A r \in Readers : reader'[r] = "reading" => file'[target'[r]] = size'[target'[r]]
      /\ \A r \in Readers : reader'[r] \in {"closing", "releasing"} => file'[target'[r]] = 0
  BY LeasesKept
<1>2. \A m \in 1 .. N : Charged'[m] = Charged[m]
  BY <1>1 DEF Charged
<1>3. DecoderInv'
  BY DEF PipelineInv, DecoderInv, InFlight
<1>4. FileInv'
  BY <1>1, <1>2 DEF PipelineInv, FileInv
<1>5. Counted' /\ OneChargeMoves
  BY <1>2, CountedKept DEF PipelineInv
<1>. QED
  BY <1>1, <1>3, <1>4, <1>5

ReaderStates == {"idle", "blocking", "waiting", "woken", "reading", "closing", "releasing"}

\* A notification wakes those that wait and touches nobody else.
LEMMA NotifiedFacts ==
  ASSUME PipelineTypeOK
  PROVE  /\ Notified \in [Readers -> ReaderStates]
         /\ \A s \in Readers : Notified[s] = IF reader[s] = "waiting" THEN "woken" ELSE reader[s]
BY DEF PipelineTypeOK, Notified, ReaderStates

\* It keeps every lease.
LEMMA NotifyKeeps ==
  ASSUME PipelineInv, reader' = Notified \/ reader' = reader, target' = target
  PROVE  \A s \in Readers : KeepsLease(s)
<1>1. \A s \in Readers : Notified[s] = IF reader[s] = "waiting" THEN "woken" ELSE reader[s]
  BY NotifiedFacts DEF PipelineInv
<1>. QED
  BY <1>1 DEF KeepsLease, HasLease, PipelineInv, LeaseInv
----------------------------------------------------------------------------
(* Steps of the readers.                                                   *)

\* The type of what a reader changes is the type of the state.
LEMMA ReaderType ==
  ASSUME PipelineTypeOK, UNCHANGED <<tokenVars, published, error, done, decoderVars, callerVars>>,
         requested' \in 0 .. N, ready' \subseteq Selected,
         used' \in 0 .. Quota, file' \in [1 .. N -> 0 .. Quota],
         reader' \in [Readers -> ReaderStates], target' \in [Readers -> {0} \cup Selected],
         opens' \in 0 .. MaxOpens
  PROVE  PipelineTypeOK'
BY DEF PipelineTypeOK, ReaderStates, tokenVars, decoderVars, callerVars

\* What a look at the state ends in.
LEMMA LookResult ==
  ASSUME NEW m \in Selected
  PROVE  /\ Look(m) \in {"idle", "reading", "blocking"}
         /\ Look(m) = "reading" => m \in ready
BY DEF Look

LEMMA OpenStep ==
  ASSUME PipelineInv, NEW r \in Readers, NEW m \in Selected, Open(r, m)
  PROVE  PipelineInv' /\ OneChargeMoves
<1>. USE DEF diskVars, decoderVars, tokenVars
<1>1. PipelineTypeOK /\ reader[r] = "idle" /\ m \in 1 .. N
  BY Members DEF PipelineInv, Open
<1>2. /\ Notified \in [Readers -> ReaderStates]
      /\ \A s \in Readers : Notified[s] = IF reader[s] = "waiting" THEN "woken" ELSE reader[s]
  BY <1>1, NotifiedFacts
<1>3. Look(m) \in {"idle", "reading", "blocking"} /\ (Look(m) = "reading" => m \in ready)
  BY LookResult
<1>4. /\ reader' \in [Readers -> ReaderStates] /\ reader'[r] = Look(m)
      /\ \A s \in Readers \ {r} : reader'[s] = Notified[s]
  BY <1>2, <1>3 DEF Open, ReaderStates
<1>5. /\ target' \in [Readers -> {0} \cup Selected]
      /\ target'[r] = IF Look(m) = "idle" THEN 0 ELSE m
      /\ \A s \in Readers \ {r} : target'[s] = target[s]
  BY <1>1 DEF Open, Aimed, PipelineTypeOK
<1>6. \A s \in Readers : KeepsLease(s)
  BY <1>1, <1>2, <1>3, <1>4, <1>5 DEF KeepsLease, HasLease, PipelineInv, LeaseInv
<1>7. requested' \in 0 .. N
  <2>1. requested \in 0 .. N /\ m \in 0 .. N /\ N \in Nat
    BY <1>1, Members DEF PipelineTypeOK
  <2>2. Max({requested, m}) \in {requested, m}
    BY <2>1, MaxExists
  <2>. QED
    BY <2>1, <2>2 DEF Open
<1>8. PipelineTypeOK'
  <2>1. opens' \in 0 .. MaxOpens
    BY <1>1, Members DEF Open, PipelineTypeOK
  <2>2. ready' \subseteq Selected /\ used' \in 0 .. Quota /\ file' \in [1 .. N -> 0 .. Quota]
    BY <1>1 DEF Open, PipelineTypeOK
  <2>. QED
    BY <1>1, <1>4, <1>5, <1>7, <2>1, <2>2, ReaderType DEF Open
<1>9. DecoderInv' /\ LeaseInv' /\ FileInv' /\ Counted' /\ OneChargeMoves
  BY <1>6, QuietStep DEF Open
<1>. QED
  BY <1>8, <1>9 DEF PipelineInv

LEMMA ProceedStep ==
  ASSUME PipelineInv, NEW r \in Readers, Sleep(r) \/ LookAgain(r)
  PROVE  PipelineInv' /\ OneChargeMoves
<1>. USE DEF diskVars, decoderVars, tokenVars, stateVars
<1>0. PipelineTypeOK
  BY DEF PipelineInv
<1>. DEFINE m == target[r]
<1>1. reader[r] \in {"blocking", "woken"} /\ m \in Selected
  BY DEF PipelineInv, LeaseInv, Sleep, LookAgain
<1>2. Look(m) \in {"idle", "reading", "blocking"} /\ (Look(m) = "reading" => m \in ready)
  BY <1>1, LookResult
<1>3. /\ reader' \in [Readers -> ReaderStates]
      /\ \/ reader'[r] = "waiting" /\ target'[r] = m
         \/ reader'[r] = Look(m) /\ target'[r] = IF Look(m) = "idle" THEN 0 ELSE m
      /\ \A s \in Readers \ {r} : reader'[s] = reader[s] /\ target'[s] = target[s]
      /\ target' \in [Readers -> {0} \cup Selected]
  <2>1. CASE Sleep(r)
    BY <1>0, <1>1, <2>1 DEF Sleep, PipelineTypeOK, ReaderStates
  <2>2. CASE LookAgain(r)
    BY <1>0, <1>1, <1>2, <2>2 DEF LookAgain, Aimed, PipelineTypeOK, ReaderStates
  <2>. QED
    BY <2>1, <2>2
<1>4. \A s \in Readers : KeepsLease(s)
  BY <1>1, <1>2, <1>3 DEF KeepsLease, HasLease
<1>5. UNCHANGED <<tokenVars, stateVars, diskVars, decoderVars, callerVars, opens>>
  BY DEF Sleep, LookAgain
<1>6. PipelineTypeOK'
  <2>1. /\ requested' \in 0 .. N /\ ready' \subseteq Selected /\ opens' \in 0 .. MaxOpens
        /\ used' \in 0 .. Quota /\ file' \in [1 .. N -> 0 .. Quota]
    BY <1>0, <1>5 DEF PipelineTypeOK
  <2>. QED
    BY <1>0, <1>3, <1>5, <2>1, ReaderType
<1>7. DecoderInv' /\ LeaseInv' /\ FileInv' /\ Counted' /\ OneChargeMoves
  BY <1>4, <1>5, QuietStep
<1>. QED
  BY <1>6, <1>7 DEF PipelineInv

\* The decoder is behind everything it has published.
LEMMA PublishedIsPast ==
  ASSUME PipelineInv, NEW m \in published
  PROVE  /\ m \in 1 .. N /\ m \in Selected /\ m # current /\ m # pending
         /\ size[m] \in 0 .. Quota /\ m # 0
<1>1. published \subseteq Selected /\ current \in 1 .. N + 1 /\ m < current
  BY DEF PipelineInv, PipelineTypeOK, DecoderInv
<1>2. size \in [1 .. N -> Nat]
  BY PipelineAssumption DEF PipelineAssumption, PipelineInv, PipelineTypeOK
<1>. QED
  BY <1>1, <1>2, Members DEF PipelineInv, DecoderInv

\* A member with a lease is charged its size; one with nothing, nothing.
LEMMA ChargedOf ==
  ASSUME NEW m \in 1 .. N
  PROVE  /\ Leased(m) => Charged[m] = size[m]
         /\ ~Leased(m) /\ m # pending /\ m # current => Charged[m] = 0
BY DEF Charged

\* A step that changes the file of a member with a lease, whose charge stays.
LEMMA UnlinkStep ==
  ASSUME PipelineInv, NEW m \in published,
         published' = published, size' = size, ready' \subseteq ready, used' = used,
         UNCHANGED decoderVars, file' = [file EXCEPT ![m] = 0],
         LeaseInv', \A k \in 1 .. N : Leased(k)' <=> Leased(k),
         m \notin ready',
         \A s \in Readers : reader'[s] = "reading" =>
           reader[s] = "reading" /\ target'[s] = target[s] /\ target[s] # m,
         \A s \in Readers : reader'[s] \in {"closing", "releasing"} =>
           target'[s] = m \/ (reader[s] = reader'[s] /\ target'[s] = target[s])
  PROVE  DecoderInv' /\ FileInv' /\ Counted' /\ OneChargeMoves
<1>. USE DEF decoderVars
<1>1. PipelineTypeOK /\ DecoderInv /\ LeaseInv /\ FileInv /\ Counted
  BY DEF PipelineInv
<1>2. m \in 1 .. N /\ m # current /\ m # pending
  BY PublishedIsPast
<1>3. file'[m] = 0 /\ \A k \in (1 .. N) \ {m} : file'[k] = file[k]
  BY <1>1, <1>2 DEF PipelineTypeOK
<1>4. \A k \in 1 .. N : Charged'[k] = Charged[k]
  BY DEF Charged
<1>5. Counted' /\ OneChargeMoves
  BY <1>1, <1>4, CountedKept
<1>6. DecoderInv'
  BY <1>1 DEF DecoderInv, InFlight
<1>7. \A k \in 1 .. N : file'[k] <= Charged'[k]
  <2>1. Charged[m] \in 0 .. Quota
    BY <1>1, <1>2, ChargedType
  <2>. QED
    BY <1>1, <1>2, <1>3, <1>4, <2>1, Members DEF FileInv
<1>8. \A k \in ready' : file'[k] = size'[k]
  <2>1. ready \subseteq 1 .. N
    BY <1>1, Members DEF PipelineTypeOK
  <2>. QED
    BY <1>1, <1>3, <2>1 DEF FileInv
<1>9. ASSUME NEW s \in Readers, reader'[s] = "reading" PROVE file'[target'[s]] = size'[target'[s]]
  <2>1. target[s] \in 1 .. N /\ target[s] # m
    BY <1>1, <1>9, PublishedIsPast DEF LeaseInv, HasLease
  <2>. QED
    BY <1>1, <1>3, <1>9, <2>1 DEF FileInv
<1>10. ASSUME NEW s \in Readers, reader'[s] \in {"closing", "releasing"} PROVE file'[target'[s]] = 0
  <2>1. CASE target'[s] = m
    BY <1>3, <2>1
  <2>2. CASE reader[s] = reader'[s] /\ target'[s] = target[s]
    <3>1. target[s] \in 1 .. N
      BY <1>1, <1>10, <2>2, PublishedIsPast DEF LeaseInv, HasLease
    <3>. QED
      BY <1>1, <1>3, <1>10, <2>2, <3>1 DEF FileInv
  <2>. QED
    BY <1>10, <2>1, <2>2
<1>11. /\ decoder' \in {"member", "publish"} /\ pending' # 0 => file'[pending'] = size'[pending']
       /\ decoder' \in {"write", "store"} /\ current' \in Selected => file'[current'] = written'
  <2>1. pending # 0 => pending \in 1 .. N
    BY <1>1, Members DEF PipelineTypeOK
  <2>. QED
    BY <1>1, <1>2, <1>3, <2>1, Members DEF FileInv
<1>. QED
  BY <1>5, <1>6, <1>7, <1>8, <1>9, <1>10, <1>11 DEF FileInv

LEMMA CloseStep ==
  ASSUME PipelineInv, NEW r \in Readers, Close(r)
  PROVE  PipelineInv' /\ OneChargeMoves
<1>. USE DEF tokenVars, stateVars, diskVars
<1>1. PipelineTypeOK /\ DecoderInv /\ LeaseInv /\ FileInv /\ Counted
  BY DEF PipelineInv
<1>2. PICK m \in published : m = target[r] /\ reader[r] = "reading"
  BY <1>1 DEF Close, LeaseInv, HasLease
<1>3. m \in 1 .. N /\ m \in Selected
  BY <1>2, PublishedIsPast
<1>4. UNCHANGED <<tokenVars, stateVars, decoderVars, callerVars, opens>>
  BY DEF Close
<1>5. CASE Holding(m) = {r} /\ m \notin ready
  <2>1. /\ file' = [file EXCEPT ![m] = 0] /\ used' = used
        /\ reader' = [reader EXCEPT ![r] = "closing"] /\ target' = target
    BY <1>2, <1>5 DEF Close, Unlink
  <2>2. reader'[r] = "closing" /\ \A s \in Readers \ {r} : reader'[s] = reader[s]
    BY <1>1, <2>1 DEF PipelineTypeOK
  <2>3. ASSUME NEW s \in Readers, HasLease(s), target[s] = m PROVE s = r
    <3>1. CASE reader[s] = "reading"
      BY <1>5, <2>3, <3>1 DEF Holding
    <3>2. CASE reader[s] \in {"closing", "releasing"}
      BY <1>1, <1>2, <2>3, <3>2 DEF LeaseInv, HasLease
    <3>. QED
      BY <2>3, <3>1, <3>2 DEF HasLease
  <2>4. \A s \in Readers : HasLease(s)' <=> HasLease(s)
    BY <1>2, <2>2 DEF HasLease
  <2>5. LeaseInv'
    <3>1. ASSUME NEW q \in Readers, reader'[q] \in {"closing", "releasing"}
          PROVE  target[q] \notin ready /\ \A s \in Readers : HasLease(s) /\ target[s] = target[q] => s = q
      <4>1. CASE q = r
        BY <1>2, <1>5, <2>3, <4>1
      <4>2. CASE q # r
        BY <1>1, <2>2, <3>1, <4>2 DEF LeaseInv
      <4>. QED
        BY <4>1, <4>2
    <3>2. \A q \in Readers : reader'[q] \in {"blocking", "waiting", "woken"} => target[q] \in Selected
      BY <1>1, <2>2 DEF LeaseInv
    <3>. QED
      BY <1>1, <1>4, <2>1, <2>4, <3>1, <3>2 DEF LeaseInv
  <2>6. \A k \in 1 .. N : Leased(k)' <=> Leased(k)
    BY <1>4, <2>1, <2>4 DEF Leased, HasLease
  <2>7. \A s \in Readers : reader'[s] = "reading" =>
          reader[s] = "reading" /\ target'[s] = target[s] /\ target[s] # m
    BY <2>1, <2>2, <2>3 DEF HasLease
  <2>8. DecoderInv' /\ FileInv' /\ Counted' /\ OneChargeMoves
    BY <1>2, <1>4, <1>5, <2>1, <2>2, <2>5, <2>6, <2>7, UnlinkStep
  <2>9. PipelineTypeOK'
    <3>1. reader' \in [Readers -> ReaderStates] /\ target' \in [Readers -> {0} \cup Selected]
      BY <1>1, <2>1 DEF PipelineTypeOK, ReaderStates
    <3>2. file' \in [1 .. N -> 0 .. Quota]
      <4>1. file \in [1 .. N -> 0 .. Quota] /\ 0 \in 0 .. Quota
        BY <1>1, Members DEF PipelineTypeOK
      <4>. QED
        BY <2>1, <4>1
    <3>3. /\ requested' \in 0 .. N /\ ready' \subseteq Selected /\ opens' \in 0 .. MaxOpens
          /\ used' \in 0 .. Quota
      BY <1>1, <1>4, <2>1 DEF PipelineTypeOK
    <3>. QED
      BY <1>1, <1>4, <3>1, <3>2, <3>3, ReaderType
  <2>. QED
    BY <2>5, <2>8, <2>9 DEF PipelineInv
<1>6. CASE ~(Holding(m) = {r} /\ m \notin ready)
  <2>1. /\ reader' = [reader EXCEPT ![r] = "idle"] /\ target' = [target EXCEPT ![r] = 0]
        /\ used' = used /\ file' = file
    BY <1>2, <1>6 DEF Close, Aimed
  <2>2. /\ reader'[r] = "idle" /\ target'[r] = 0
        /\ \A s \in Readers \ {r} : reader'[s] = reader[s] /\ target'[s] = target[s]
    BY <1>1, <2>1 DEF PipelineTypeOK
  <2>3. m \in ready \/ \E s \in Readers \ {r} : reader[s] = "reading" /\ target[s] = m
    BY <1>2, <1>6 DEF Holding
  <2>4. LeaseInv'
    BY <1>1, <1>4, <2>2 DEF LeaseInv, HasLease
  <2>5. ASSUME NEW k \in 1 .. N PROVE Leased(k)' <=> Leased(k)
    <3>1. CASE k = m
      <4>1. Leased(m)
        BY <1>2 DEF Leased
      <4>2. Leased(m)'
        BY <1>4, <2>2, <2>3 DEF Leased
      <4>. QED
        BY <3>1, <4>1, <4>2
    <3>2. CASE k # m
      <4>1. \A s \in Readers : target'[s] = k /\ HasLease(s)' <=> target[s] = k /\ HasLease(s)
        BY <1>2, <2>2, <3>2, Members DEF HasLease
      <4>. QED
        BY <1>4, <4>1 DEF Leased, HasLease
    <3>. QED
      BY <3>1, <3>2
  <2>6. \A k \in 1 .. N : Charged'[k] = Charged[k]
    BY <1>4, <2>5 DEF Charged, decoderVars
  <2>7. Counted' /\ OneChargeMoves
    BY <1>1, <2>1, <2>6, CountedKept
  <2>8. DecoderInv' /\ FileInv'
    BY <1>1, <1>4, <2>1, <2>2, <2>6 DEF DecoderInv, FileInv, InFlight, decoderVars
  <2>9. PipelineTypeOK'
    <3>1. reader' \in [Readers -> ReaderStates] /\ target' \in [Readers -> {0} \cup Selected]
      BY <1>1, <2>1 DEF PipelineTypeOK, ReaderStates
    <3>2. /\ requested' \in 0 .. N /\ ready' \subseteq Selected /\ opens' \in 0 .. MaxOpens
          /\ used' \in 0 .. Quota /\ file' \in [1 .. N -> 0 .. Quota]
      BY <1>1, <1>4, <2>1 DEF PipelineTypeOK
    <3>. QED
      BY <1>1, <1>4, <3>1, <3>2, ReaderType
  <2>. QED
    BY <2>4, <2>7, <2>8, <2>9 DEF PipelineInv
<1>. QED
  BY <1>5, <1>6

\* A lease leaves the map while a reader still holds it.
LEMMA SharedStep ==
  ASSUME PipelineInv, NEW m \in ready, Holding(m) # {}, ready' = ready \ {m},
         reader' = Notified \/ reader' = reader, target' = target,
         published' = published, size' = size, UNCHANGED <<diskVars, decoderVars>>
  PROVE  DecoderInv' /\ LeaseInv' /\ FileInv' /\ Counted' /\ OneChargeMoves
<1>. USE DEF diskVars, decoderVars
<1>1. PipelineTypeOK /\ DecoderInv /\ LeaseInv /\ FileInv /\ Counted
  BY DEF PipelineInv
<1>2. \A s \in Readers : Notified[s] = IF reader[s] = "waiting" THEN "woken" ELSE reader[s]
  BY <1>1, NotifiedFacts
<1>3. \A s \in Readers :
        /\ HasLease(s) \/ reader'[s] \in {"reading", "closing", "releasing"} => reader'[s] = reader[s]
        /\ reader'[s] \in {"blocking", "waiting", "woken"} => reader[s] \in {"blocking", "waiting", "woken"}
  BY <1>2 DEF HasLease
<1>4. LeaseInv'
  BY <1>1, <1>3 DEF LeaseInv, HasLease
<1>5. ASSUME NEW k \in 1 .. N PROVE Leased(k)' <=> Leased(k)
  <2>1. k = m => Leased(k) /\ Leased(k)'
    BY <1>3 DEF Leased, Holding, HasLease
  <2>2. k # m => (Leased(k)' <=> Leased(k))
    BY <1>3 DEF Leased, HasLease
  <2>. QED
    BY <2>1, <2>2
<1>6. \A k \in 1 .. N : Charged'[k] = Charged[k]
  BY <1>5 DEF Charged
<1>7. Counted' /\ OneChargeMoves
  BY <1>1, <1>6, CountedKept
<1>8. DecoderInv' /\ FileInv'
  BY <1>1, <1>3, <1>6 DEF DecoderInv, FileInv, InFlight, HasLease
<1>. QED
  BY <1>4, <1>7, <1>8

\* The last holder of m returns its bytes.
LEMMA RefundStep ==
  ASSUME PipelineInv, NEW m \in published, Leased(m),
         published' = published, size' = size, ready' \subseteq ready \ {m},
         UNCHANGED decoderVars, used' = used - size[m],
         file'[m] = 0, \A k \in (1 .. N) \ {m} : file'[k] = file[k],
         LeaseInv', ~Leased(m)', \A k \in (1 .. N) \ {m} : Leased(k)' <=> Leased(k),
         \A s \in Readers : HasLease(s)' =>
           reader'[s] = reader[s] /\ target'[s] = target[s] /\ target[s] # m
  PROVE  DecoderInv' /\ FileInv' /\ Counted' /\ OneChargeMoves /\ used' \in 0 .. Quota
<1>. USE DEF decoderVars
<1>1. PipelineTypeOK /\ DecoderInv /\ LeaseInv /\ FileInv /\ Counted
  BY DEF PipelineInv
<1>2. m \in 1 .. N /\ m # current /\ m # pending /\ size[m] \in 0 .. Quota
  BY PublishedIsPast
<1>3. Charged[m] = size[m] /\ Charged'[m] = 0 /\ \A k \in (1 .. N) \ {m} : Charged'[k] = Charged[k]
  BY <1>2 DEF Charged
<1>4. Charged \in [1 .. N -> 0 .. Quota]
  BY <1>1, ChargedType
<1>5. Charged' \in [1 .. N -> 0 .. Quota]
  <2>1. \A k \in 1 .. N : Charged'[k] \in 0 .. Quota
    BY <1>3, <1>4, Members
  <2>. QED
    BY <2>1 DEF Charged
<1>6. used' = used - Charged[m] + Charged'[m]
  BY <1>1, <1>2, <1>3, Members DEF PipelineTypeOK
<1>7. Counted' /\ OneChargeMoves /\ used' \in Nat
  BY <1>1, <1>2, <1>3, <1>5, <1>6, CountedStep
<1>8. used' \in 0 .. Quota
  BY <1>1, <1>2, <1>7, Members DEF PipelineTypeOK
<1>9. DecoderInv'
  BY <1>1 DEF DecoderInv, InFlight
<1>10. \A k \in 1 .. N : file'[k] <= Charged'[k]
  BY <1>1, <1>3 DEF FileInv
<1>11. \A k \in ready' : file'[k] = size'[k]
  <2>1. ready \subseteq 1 .. N
    BY <1>1, Members DEF PipelineTypeOK
  <2>. QED
    BY <1>1, <2>1 DEF FileInv
<1>12. ASSUME NEW s \in Readers, HasLease(s)'
       PROVE  reader'[s] = reader[s] /\ target'[s] = target[s] /\ file'[target[s]] = file[target[s]]
  <2>1. target[s] \in 1 .. N /\ target[s] # m
    BY <1>1, <1>12, PublishedIsPast DEF LeaseInv, HasLease
  <2>. QED
    BY <1>12, <2>1
<1>13. /\ \A s \in Readers : reader'[s] = "reading" => file'[target'[s]] = size'[target'[s]]
       /\ \A s \in Readers : reader'[s] \in {"closing", "releasing"} => file'[target'[s]] = 0
  BY <1>1, <1>12 DEF FileInv, HasLease
<1>14. /\ decoder' \in {"member", "publish"} /\ pending' # 0 => file'[pending'] = size'[pending']
       /\ decoder' \in {"write", "store"} /\ current' \in Selected => file'[current'] = written'
  <2>1. pending # 0 => pending \in 1 .. N
    BY <1>1, Members DEF PipelineTypeOK
  <2>. QED
    BY <1>1, <1>2, <2>1, Members DEF FileInv
<1>. QED
  BY <1>7, <1>8, <1>9, <1>10, <1>11, <1>13, <1>14 DEF FileInv

LEMMA ReleaseStep ==
  ASSUME PipelineInv, NEW r \in Readers, NEW m \in Selected, Release(r, m)
  PROVE  PipelineInv' /\ OneChargeMoves
<1>. USE DEF tokenVars, diskVars
<1>1. PipelineTypeOK /\ DecoderInv /\ LeaseInv /\ FileInv /\ Counted
  BY DEF PipelineInv
<1>2. /\ reader[r] = "idle" /\ m \in ready /\ m \in published /\ ready' = ready \ {m}
      /\ UNCHANGED <<tokenVars, requested, published, error, done, decoderVars, callerVars, opens>>
  BY <1>1 DEF Release, LeaseInv
<1>3. /\ requested' \in 0 .. N /\ ready' \subseteq Selected /\ opens' \in 0 .. MaxOpens
      /\ m \in 1 .. N
  BY <1>1, <1>2, Members DEF PipelineTypeOK
<1>4. CASE Holding(m) = {}
  <2>1. /\ file' = [file EXCEPT ![m] = 0] /\ used' = used
        /\ reader' = [reader EXCEPT ![r] = "releasing"] /\ target' = [target EXCEPT ![r] = m]
    BY <1>4 DEF Release, Unlink
  <2>2. /\ reader'[r] = "releasing" /\ target'[r] = m
        /\ \A s \in Readers \ {r} : reader'[s] = reader[s] /\ target'[s] = target[s]
    BY <1>1, <2>1 DEF PipelineTypeOK
  <2>3. \A s \in Readers : HasLease(s) => target[s] # m
    BY <1>1, <1>2, <1>4 DEF LeaseInv, HasLease, Holding
  <2>4. LeaseInv'
    <3>1. ASSUME NEW q \in Readers, reader'[q] \in {"closing", "releasing"}
          PROVE  /\ target'[q] \notin ready'
                 /\ \A s \in Readers : HasLease(s)' /\ target'[s] = target'[q] => s = q
      <4>1. CASE q = r
        BY <1>2, <2>2, <2>3, <4>1 DEF HasLease
      <4>2. CASE q # r
        BY <1>1, <1>2, <2>2, <2>3, <3>1, <4>2 DEF LeaseInv, HasLease
      <4>. QED
        BY <4>1, <4>2
    <3>. QED
      BY <1>1, <1>2, <2>2, <3>1 DEF LeaseInv, HasLease
  <2>5. ASSUME NEW k \in 1 .. N PROVE Leased(k)' <=> Leased(k)
    <3>1. k = m => Leased(k) /\ Leased(k)'
      BY <1>2, <2>2 DEF Leased
    <3>2. k # m => (Leased(k)' <=> Leased(k))
      BY <1>2, <2>2 DEF Leased
    <3>. QED
      BY <3>1, <3>2
  <2>6. /\ \A s \in Readers : reader'[s] = "reading" =>
             reader[s] = "reading" /\ target'[s] = target[s] /\ target[s] # m
        /\ \A s \in Readers : reader'[s] \in {"closing", "releasing"} =>
             target'[s] = m \/ (reader[s] = reader'[s] /\ target'[s] = target[s])
    BY <2>2, <2>3 DEF HasLease
  <2>7. DecoderInv' /\ FileInv' /\ Counted' /\ OneChargeMoves
    BY <1>2, <2>1, <2>4, <2>5, <2>6, UnlinkStep
  <2>8. PipelineTypeOK'
    <3>1. reader' \in [Readers -> ReaderStates] /\ target' \in [Readers -> {0} \cup Selected]
      BY <1>1, <2>1 DEF PipelineTypeOK, ReaderStates
    <3>2. file' \in [1 .. N -> 0 .. Quota] /\ used' \in 0 .. Quota
      <4>1. file \in [1 .. N -> 0 .. Quota] /\ 0 \in 0 .. Quota
        BY <1>1, Members DEF PipelineTypeOK
      <4>. QED
        BY <1>1, <2>1, <4>1 DEF PipelineTypeOK
    <3>. QED
      BY <1>1, <1>2, <1>3, <3>1, <3>2, ReaderType
  <2>. QED
    BY <2>4, <2>7, <2>8 DEF PipelineInv
<1>5. CASE Holding(m) # {}
  <2>1. reader' = Notified /\ UNCHANGED <<diskVars, target>>
    BY <1>5 DEF Release, NotifyAll
  <2>2. DecoderInv' /\ LeaseInv' /\ FileInv' /\ Counted' /\ OneChargeMoves
    BY <1>2, <1>5, <2>1, SharedStep
  <2>3. PipelineTypeOK'
    <3>1. reader' \in [Readers -> ReaderStates] /\ target' \in [Readers -> {0} \cup Selected]
      BY <1>1, <2>1, NotifiedFacts DEF PipelineTypeOK
    <3>2. file' \in [1 .. N -> 0 .. Quota] /\ used' \in 0 .. Quota
      BY <1>1, <2>1 DEF PipelineTypeOK
    <3>. QED
      BY <1>1, <1>2, <1>3, <3>1, <3>2, ReaderType
  <2>. QED
    BY <2>2, <2>3 DEF PipelineInv
<1>. QED
  BY <1>4, <1>5

LEMMA DropLeaseStep ==
  ASSUME PipelineInv, NEW r \in Readers, DropLease(r)
  PROVE  PipelineInv' /\ OneChargeMoves
<1>. USE DEF tokenVars, stateVars
<1>1. PipelineTypeOK /\ DecoderInv /\ LeaseInv /\ FileInv /\ Counted
  BY DEF PipelineInv
<1>2. PICK m \in published : /\ m = target[r] /\ reader[r] \in {"closing", "releasing"}
                             /\ m \notin ready /\ file[m] = 0
                             /\ \A s \in Readers : HasLease(s) /\ target[s] = m => s = r
  BY <1>1 DEF DropLease, LeaseInv, FileInv, HasLease
<1>3. /\ used' = used - size[m] /\ file' = file
      /\ UNCHANGED <<tokenVars, stateVars, decoderVars, callerVars, opens>>
      /\ reader' = [(IF reader[r] = "releasing" THEN Notified ELSE reader) EXCEPT ![r] = "idle"]
      /\ target' = [target EXCEPT ![r] = 0]
  BY <1>2 DEF DropLease, Refund, Aimed
<1>4. /\ Notified \in [Readers -> ReaderStates]
      /\ \A s \in Readers : Notified[s] = IF reader[s] = "waiting" THEN "woken" ELSE reader[s]
  BY <1>1, NotifiedFacts
<1>5. /\ reader' \in [Readers -> ReaderStates] /\ target' \in [Readers -> {0} \cup Selected]
      /\ reader'[r] = "idle" /\ target'[r] = 0
      /\ \A s \in Readers \ {r} : /\ reader'[s] = reader[s] \/ (reader[s] = "waiting" /\ reader'[s] = "woken")
                                  /\ target'[s] = target[s]
  BY <1>1, <1>3, <1>4 DEF PipelineTypeOK, ReaderStates
<1>6. \A s \in Readers : HasLease(s)' =>
        reader'[s] = reader[s] /\ target'[s] = target[s] /\ target[s] # m
  BY <1>2, <1>5 DEF HasLease
<1>7. LeaseInv'
  BY <1>1, <1>3, <1>5, <1>6 DEF LeaseInv, HasLease
<1>8. Leased(m) /\ ~Leased(m)'
  BY <1>2, <1>3, <1>5, <1>6 DEF Leased, HasLease
<1>9. ASSUME NEW k \in (1 .. N) \ {m} PROVE Leased(k)' <=> Leased(k)
  <2>1. ASSUME NEW s \in Readers
        PROVE  target'[s] = k /\ HasLease(s)' <=> target[s] = k /\ HasLease(s)
    BY <1>2, <1>5, <1>9, Members DEF HasLease
  <2>. QED
    BY <1>3, <2>1 DEF Leased, HasLease
<1>10. DecoderInv' /\ FileInv' /\ Counted' /\ OneChargeMoves /\ used' \in 0 .. Quota
  BY <1>2, <1>3, <1>6, <1>7, <1>8, <1>9, RefundStep
<1>11. PipelineTypeOK'
  <2>1. /\ requested' \in 0 .. N /\ ready' \subseteq Selected /\ opens' \in 0 .. MaxOpens
        /\ file' \in [1 .. N -> 0 .. Quota]
    BY <1>1, <1>3 DEF PipelineTypeOK
  <2>. QED
    BY <1>1, <1>3, <1>5, <1>10, <2>1, ReaderType
<1>. QED
  BY <1>7, <1>10, <1>11 DEF PipelineInv

LEMMA ReaderStep ==
  ASSUME PipelineInv, NEW r \in Readers, ReaderNext(r)
  PROVE  PipelineInv' /\ OneChargeMoves
BY OpenStep, ReleaseStep, CloseStep, ProceedStep, DropLeaseStep DEF ReaderNext, ReaderProceeds
----------------------------------------------------------------------------
(* Steps of the decoder.                                                   *)

DecoderStates == {"start", "member", "publish", "wait", "write", "store", "finish", "exited"}
Errors == {"none", "limit", "decode", "panic", "cancelled"}

\* The type of what a decoder changes is the type of the state.
LEMMA DecoderType ==
  ASSUME PipelineTypeOK, UNCHANGED <<tokenVars, requested, callerVars, target, opens>>,
         ready' \subseteq Selected, published' \subseteq Selected,
         error' \in Errors, done' \in BOOLEAN,
         used' \in 0 .. Quota, file' \in [1 .. N -> 0 .. Quota],
         decoder' \in DecoderStates, current' \in 1 .. N + 1, written' \in Nat,
         pending' \in {0} \cup Selected, failure' \in Errors,
         reader' = reader \/ reader' = Notified
  PROVE  PipelineTypeOK'
<1>1. reader' \in [Readers -> ReaderStates]
  BY NotifiedFacts DEF PipelineTypeOK, ReaderStates
<1>. QED
  BY <1>1 DEF PipelineTypeOK, ReaderStates, DecoderStates, Errors, tokenVars, callerVars

\* The member the decoder is at has no lease and is not waiting for publication.
LEMMA CurrentIsFree ==
  ASSUME PipelineInv
  PROVE  /\ ~Leased(current) /\ pending # current /\ current \notin published
         /\ \A m \in 1 .. N : Leased(m) => m \in published
<1>1. \A m : Leased(m) => m \in published
  BY DEF PipelineInv, LeaseInv, Leased, HasLease
<1>2. current \notin published /\ pending # current
  BY DEF PipelineInv, DecoderInv, PipelineTypeOK
<1>. QED
  BY <1>1, <1>2

\* What is to show of a decoder's step that leaves all leases alone.
LEMMA DecoderFrame ==
  ASSUME PipelineInv, ready' = ready, published' = published, size' = size,
         reader' = reader \/ reader' = Notified, target' = target,
         \A m \in published : file'[m] = file[m],
         DecoderInv', \A m \in 1 .. N : file'[m] <= Charged'[m],
         decoder' \in {"member", "publish"} /\ pending' # 0 => file'[pending'] = size[pending'],
         decoder' \in {"write", "store"} /\ current' \in Selected => file'[current'] = written'
  PROVE  LeaseInv' /\ FileInv'
<1>1. \A s \in Readers : KeepsLease(s)
  BY NotifyKeeps
<1>2. \A m \in 1 .. N : Leased(m) => file'[m] = file[m]
  BY CurrentIsFree
<1>3. /\ LeaseInv' /\ \A m \in ready' : file'[m] = size'[m]
      /\ \A r \in Readers : reader'[r] = "reading" => file'[target'[r]] = size'[target'[r]]
      /\ \A r \in Readers : reader'[r] \in {"closing", "releasing"} => file'[target'[r]] = 0
  BY <1>1, <1>2, LeasesKept
<1>. QED
  BY <1>3 DEF FileInv

LEMMA LeasedStays ==
  ASSUME PipelineInv, ready' = ready, reader' = reader \/ reader' = Notified, target' = target
  PROVE  \A m \in 1 .. N : Leased(m)' <=> Leased(m)
<1>1. \A s \in Readers : Notified[s] = IF reader[s] = "waiting" THEN "woken" ELSE reader[s]
  BY NotifiedFacts DEF PipelineInv
<1>. QED
  BY <1>1 DEF Leased

\* Steps of the decoder that move no bytes.
LEMMA PlainDecoderStep ==
  ASSUME PipelineInv, Start \/ MayPublish \/ Decide \/ Demanded \/ Finish
  PROVE  PipelineInv' /\ OneChargeMoves
<1>. USE DEF tokenVars, stateVars, diskVars, callerVars, readerVars
<1>1. PipelineTypeOK /\ DecoderInv /\ LeaseInv /\ FileInv /\ Counted
  BY DEF PipelineInv
<1>2. /\ ready' = ready /\ published' = published /\ size' = size /\ target' = target
      /\ UNCHANGED diskVars /\ UNCHANGED <<tokenVars, requested, callerVars, opens>>
      /\ written' = written /\ pending' = pending
      /\ reader' = reader \/ reader' = Notified
  BY DEF Start, MayPublish, Decide, Demanded, Finish, Stop, Skip, Need, NotifyAll
<1>3. size \in [1 .. N -> Nat] /\ N \in Nat /\ Quota \in Nat
  BY <1>1, PipelineAssumption DEF PipelineAssumption, PipelineTypeOK
<1>4. /\ ~Leased(current) /\ pending # current /\ current \notin published
  BY CurrentIsFree
<1>5. \A m \in 1 .. N : Leased(m)' <=> Leased(m)
  BY <1>2, LeasedStays
<1>6. /\ DecoderInv' /\ decoder # "store" /\ decoder' # "store"
      /\ current' = current \/ (written = 0 /\ current \notin Selected)
  <2>1. CASE Start
    BY <1>1, <1>2, <2>1, Members DEF Start, DecoderInv, InFlight, PipelineTypeOK
  <2>2. CASE MayPublish
    BY <1>1, <1>2, <2>2 DEF MayPublish, DecoderInv, InFlight
  <2>3. CASE Decide
    BY SMTT(60), <1>1, <1>2, <1>3, <2>3, Members DEF Decide, Stop, Skip, Need, DecoderInv, InFlight, PipelineTypeOK
  <2>4. CASE Demanded
    BY <1>1, <1>2, <1>3, <2>4 DEF Demanded, DecoderInv, InFlight, PipelineTypeOK
  <2>5. CASE Finish
    BY <1>1, <1>2, <2>5 DEF Finish, DecoderInv, InFlight
  <2>. QED
    BY <2>1, <2>2, <2>3, <2>4, <2>5
<1>7. \A m \in 1 .. N : Charged'[m] = Charged[m]
  BY <1>1, <1>2, <1>3, <1>5, <1>6 DEF Charged
<1>8. Counted' /\ OneChargeMoves
  BY <1>1, <1>2, <1>7, CountedKept
<1>9. decoder' \in {"member", "publish"} /\ pending' # 0 => file'[pending'] = size[pending']
  <2>1. decoder = "start" => pending = 0
    BY <1>1, Members DEF DecoderInv, PipelineTypeOK
  <2>2. decoder' \in {"member", "publish"} => decoder \in {"start", "member", "publish"}
    BY DEF Start, MayPublish, Decide, Demanded, Finish, Stop, Skip, Need
  <2>. QED
    BY <1>1, <1>2, <2>1, <2>2 DEF FileInv
<1>10. decoder' \in {"write", "store"} /\ current' \in Selected => file'[current'] = written'
  <2>1. SUFFICES ASSUME Demanded, current \in Selected PROVE file[current] = written
    BY <1>1, <1>2 DEF Start, MayPublish, Decide, Demanded, Finish, Stop, Skip, Need
  <2>2. current \in 1 .. N /\ written = 0 /\ decoder = "wait"
    BY <1>1, <2>1, Members DEF Demanded, DecoderInv
  <2>3. Charged[current] = 0
    BY <1>4, <2>1, <2>2 DEF Charged
  <2>. QED
    BY <1>1, <1>3, <2>2, <2>3 DEF FileInv, PipelineTypeOK
<1>11. LeaseInv' /\ FileInv'
  BY <1>1, <1>2, <1>6, <1>7, <1>9, <1>10, DecoderFrame DEF FileInv
<1>12. PipelineTypeOK'
  <2>1. decoder' \in DecoderStates
    BY DEF Start, MayPublish, Decide, Demanded, Finish, Stop, Skip, Need, DecoderStates
  <2>3. current' \in 1 .. N + 1
    <3>1. current \in 1 .. N + 1 /\ LastSelected \in 1 .. N
      BY <1>1, Members DEF PipelineTypeOK
    <3>2. current' = current \/ (current' = current + 1 /\ current <= LastSelected)
      BY DEF Start, MayPublish, Decide, Demanded, Finish, Stop, Skip, Need
    <3>. QED
      BY <1>3, <3>1, <3>2
  <2>2. error' \in Errors /\ done' \in BOOLEAN /\ failure' \in Errors
    BY <1>1 DEF Start, MayPublish, Decide, Demanded, Finish, PipelineTypeOK, Errors
  <2>. QED
    BY <1>1, <1>2, <2>1, <2>2, <2>3, DecoderType DEF PipelineTypeOK
<1>. QED
  BY <1>6, <1>8, <1>11, <1>12 DEF PipelineInv

LEMMA PublishStep ==
  ASSUME PipelineInv, Publish
  PROVE  PipelineInv' /\ OneChargeMoves
<1>. USE DEF tokenVars, diskVars, callerVars
<1>1. PipelineTypeOK /\ DecoderInv /\ LeaseInv /\ FileInv /\ Counted
  BY DEF PipelineInv
<1>2. /\ decoder = "publish" /\ decoder' = "member" /\ pending' = 0 /\ UNCHANGED diskVars
      /\ published' = published \cup {pending} /\ ready' = ready \cup {pending}
      /\ reader' = Notified /\ target' = target /\ current' = current /\ written' = written
      /\ UNCHANGED <<tokenVars, requested, error, done, failure, callerVars, opens>>
  BY DEF Publish, NotifyAll
<1>3. pending \in Selected /\ pending \in 1 .. N /\ pending < current /\ pending \notin published
  BY <1>1, <1>2, Members DEF DecoderInv, PipelineTypeOK
<1>4. \A s \in Readers : Notified[s] = IF reader[s] = "waiting" THEN "woken" ELSE reader[s]
  BY <1>1, NotifiedFacts
<1>5. LeaseInv'
  BY <1>1, <1>2, <1>3, <1>4 DEF LeaseInv, HasLease
<1>6. \A m \in 1 .. N : Leased(m)' <=> Leased(m) \/ m = pending
  BY <1>2, <1>4 DEF Leased
<1>7. \A m \in 1 .. N : Charged'[m] = Charged[m]
  BY <1>2, <1>6, Members DEF Charged
<1>8. Counted' /\ OneChargeMoves
  BY <1>1, <1>2, <1>7, CountedKept
<1>9. DecoderInv'
  BY <1>1, <1>2, <1>3 DEF DecoderInv, InFlight
<1>10. FileInv'
  BY <1>1, <1>2, <1>4, <1>7 DEF FileInv, DecoderInv
<1>11. PipelineTypeOK'
  <2>1. ready' \subseteq Selected /\ published' \subseteq Selected
    BY <1>1, <1>2, <1>3 DEF PipelineTypeOK
  <2>. QED
    BY <1>1, <1>2, <2>1, DecoderType DEF PipelineTypeOK, DecoderStates, Errors
<1>. QED
  BY <1>5, <1>8, <1>9, <1>10, <1>11 DEF PipelineInv

\* One byte of the current member: admitted, then written, until it is whole.
LEMMA ByteStep ==
  ASSUME PipelineInv, Reserve \/ Store \/ Verified
  PROVE  PipelineInv' /\ OneChargeMoves
<1>. USE DEF tokenVars, stateVars, diskVars, callerVars, readerVars
<1>1. PipelineTypeOK /\ DecoderInv /\ LeaseInv /\ FileInv /\ Counted
  BY DEF PipelineInv
<1>2. /\ ready' = ready /\ published' = published /\ size' = size /\ target' = target
      /\ reader' = reader /\ UNCHANGED <<tokenVars, requested, callerVars, opens>>
      /\ error' = error /\ done' = done /\ failure' = failure
  BY DEF Reserve, Store, Verified
<1>3. /\ size \in [1 .. N -> Nat] /\ N \in Nat /\ Quota \in Nat /\ written \in Nat
      /\ used \in 0 .. Quota /\ file \in [1 .. N -> 0 .. Quota]
  BY <1>1, PipelineAssumption DEF PipelineAssumption, PipelineTypeOK
<1>4. /\ ~Leased(current) /\ pending # current /\ current \notin published
      /\ current \in 1 .. N /\ pending = 0 /\ decoder \in {"write", "store"}
      /\ \A m \in Selected : size[m] <= Quota
  BY <1>1, CurrentIsFree DEF DecoderInv, PipelineTypeOK, Reserve, Store, Verified
<1>5. \A m \in 1 .. N : Leased(m)' <=> Leased(m)
  BY <1>2, LeasedStays
<1>6. CASE Reserve
  <2>1. /\ file' = file /\ current' = current /\ pending' = pending /\ decoder = "write"
        /\ written < size[current]
    BY <1>6 DEF Reserve
  <2>2. CASE current \notin Selected
    <3>1. written' = written + 1 /\ used' = used /\ decoder' = "write"
      BY <1>6, <2>1, <2>2 DEF Reserve
    <3>2. \A m \in 1 .. N : Charged'[m] = Charged[m]
      BY <1>2, <1>5, <2>1, <2>2 DEF Charged
    <3>3. DecoderInv'
      BY <1>1, <1>2, <1>3, <1>4, <2>1, <2>2, <3>1 DEF DecoderInv, InFlight
    <3>4. LeaseInv' /\ FileInv'
      BY <1>1, <1>2, <1>4, <2>1, <2>2, <3>1, <3>2, <3>3, DecoderFrame DEF FileInv
    <3>5. Counted' /\ OneChargeMoves
      BY <1>1, <3>1, <3>2, CountedKept
    <3>6. PipelineTypeOK'
      BY SMTT(60), <1>1, <1>2, <1>3, <2>1, <3>1, DecoderType DEF PipelineTypeOK, DecoderStates, Errors
    <3>. QED
      BY <3>3, <3>4, <3>5, <3>6 DEF PipelineInv
  <2>3. CASE current \in Selected
    <3>1. written' = written /\ used' = used + 1 /\ used + 1 <= Quota /\ decoder' = "store"
      BY <1>6, <2>3 DEF Reserve, AdmitBytes
    <3>2. /\ Charged[current] = written /\ Charged'[current] = written + 1
          /\ \A m \in (1 .. N) \ {current} : Charged'[m] = Charged[m]
      BY <1>2, <1>3, <1>4, <1>5, <2>1, <2>3, <3>1 DEF Charged
    <3>3. DecoderInv'
      BY <1>1, <1>2, <1>3, <1>4, <2>1, <2>3, <3>1 DEF DecoderInv, InFlight
    <3>4. \A m \in 1 .. N : file'[m] <= Charged'[m]
      BY <1>1, <1>3, <2>1, <3>2 DEF FileInv
    <3>5. LeaseInv' /\ FileInv'
      BY <1>1, <1>2, <1>4, <2>1, <3>1, <3>3, <3>4, DecoderFrame DEF FileInv
    <3>6. used' \in 0 .. Quota
      BY <1>3, <3>1
    <3>7. PipelineTypeOK'
      BY <1>1, <1>2, <1>3, <2>1, <3>1, <3>6, DecoderType DEF PipelineTypeOK, DecoderStates, Errors
    <3>8. Charged' \in [1 .. N -> 0 .. Quota]
      <4>1. Charged \in [1 .. N -> 0 .. Quota] /\ written + 1 \in 0 .. Quota
        BY <1>1, <1>3, <1>4, <2>1, <2>3, ChargedType
      <4>2. \A m \in 1 .. N : Charged'[m] \in 0 .. Quota
        BY <3>2, <4>1
      <4>. QED
        BY <4>2 DEF Charged
    <3>9. Counted' /\ OneChargeMoves
      <4>1. used' = used - Charged[current] + Charged'[current]
        BY <1>3, <3>1, <3>2
      <4>. QED
        BY <1>1, <1>4, <3>2, <3>8, <4>1, CountedStep
    <3>. QED
      BY <3>3, <3>5, <3>7, <3>9 DEF PipelineInv
  <2>. QED
    BY <2>2, <2>3
<1>7. CASE Store
  <2>1. /\ file' = [file EXCEPT ![current] = @ + 1] /\ written' = written + 1
        /\ decoder = "store" /\ decoder' = "write" /\ used' = used
        /\ current' = current /\ pending' = pending
    BY <1>7 DEF Store
  <2>2. written < size[current] /\ current \in Selected /\ file[current] = written
    BY <1>1, <2>1 DEF DecoderInv, FileInv
  <2>3. file'[current] = written + 1 /\ \A m \in (1 .. N) \ {current} : file'[m] = file[m]
    BY <1>3, <1>4, <2>1, <2>2
  <2>4. written + 1 \in 0 .. Quota
    BY <1>3, <1>4, <2>2
  <2>5. \A m \in 1 .. N : Charged'[m] = Charged[m]
    BY <1>2, <1>3, <1>5, <2>1 DEF Charged
  <2>6. Charged[current] = written + 1
    BY <1>4, <2>1, <2>2 DEF Charged
  <2>7. DecoderInv'
    BY <1>1, <1>2, <1>3, <1>4, <2>1, <2>2, <2>4 DEF DecoderInv, InFlight
  <2>8. \A m \in 1 .. N : file'[m] <= Charged'[m]
    BY <1>1, <1>4, <2>3, <2>4, <2>5, <2>6 DEF FileInv
  <2>9. \A m \in published : file'[m] = file[m]
    BY <1>1, <1>4, <2>3, Members DEF PipelineTypeOK
  <2>10. LeaseInv' /\ FileInv'
    BY <1>2, <1>4, <2>1, <2>3, <2>7, <2>8, <2>9, DecoderFrame
  <2>11. Counted' /\ OneChargeMoves
    BY <1>1, <2>1, <2>5, CountedKept
  <2>12. file' \in [1 .. N -> 0 .. Quota]
    BY <1>3, <1>4, <2>1, <2>2, <2>4
  <2>13. PipelineTypeOK'
    BY <1>1, <1>2, <1>3, <2>1, <2>12, DecoderType DEF PipelineTypeOK, DecoderStates, Errors
  <2>. QED
    BY <2>7, <2>10, <2>11, <2>13 DEF PipelineInv
<1>8. CASE Verified
  <2>1. /\ decoder = "write" /\ written = size[current] /\ UNCHANGED diskVars
        /\ pending' = IF current \in Selected THEN current ELSE 0
        /\ current' = current + 1 /\ written' = 0 /\ decoder' = "member"
    BY <1>8 DEF Verified
  <2>2. \A m \in published : m < current
    BY <1>1 DEF DecoderInv
  <2>3. ~Leased(current + 1)
    BY <1>1, <1>3, <1>4, <2>2, CurrentIsFree DEF Leased, LeaseInv, HasLease, PipelineTypeOK
  <2>4. ASSUME NEW m \in 1 .. N PROVE Charged'[m] = Charged[m]
    <3>1. CASE m = current
      BY <1>2, <1>3, <1>4, <1>5, <2>1, <3>1 DEF Charged
    <3>2. CASE m # current
      BY <1>2, <1>3, <1>4, <1>5, <2>1, <3>2 DEF Charged
    <3>. QED
      BY <3>1, <3>2
  <2>5. Counted' /\ OneChargeMoves
    BY <1>1, <2>1, <2>4, CountedKept
  <2>6. DecoderInv'
    <3>1. pending' # 0 => /\ pending' < current' /\ pending' \notin published'
                         /\ size'[pending'] <= Quota
      BY <1>2, <1>3, <1>4, <2>1
    <3>2. \A m \in published : m < current' /\ size'[m] <= Quota
      BY <1>1, <1>2, <1>3, <1>4, <2>1, <2>2, Members DEF DecoderInv, PipelineTypeOK
    <3>3. InFlight' = 0
      BY <2>1 DEF InFlight
    <3>. QED
      BY <1>2, <1>3, <1>4, <2>1, <3>1, <3>2, <3>3 DEF DecoderInv
  <2>7. pending' # 0 => file'[pending'] = size[pending']
    BY <1>1, <2>1 DEF FileInv
  <2>8. LeaseInv' /\ FileInv'
    BY <1>1, <1>2, <2>1, <2>4, <2>6, <2>7, DecoderFrame DEF FileInv
  <2>9. PipelineTypeOK'
    <3>1. current' \in 1 .. N + 1 /\ pending' \in {0} \cup Selected
      BY <1>3, <1>4, <2>1
    <3>. QED
      BY <1>1, <1>2, <1>3, <2>1, <3>1, DecoderType DEF PipelineTypeOK, DecoderStates, Errors
  <2>. QED
    BY <2>5, <2>6, <2>8, <2>9 DEF PipelineInv
<1>. QED
  BY <1>6, <1>7, <1>8

\* The spools that stage drops are those of members nobody may read; a byte
\* that was admitted and not written is returned.
LEMMA FailStep ==
  ASSUME PipelineInv, NEW e \in Errors, Fail(e),
         decoder \in {"start", "member", "wait", "write", "store"}
  PROVE  PipelineInv' /\ OneChargeMoves
<1>. USE DEF tokenVars, stateVars, callerVars, readerVars
<1>1. PipelineTypeOK /\ DecoderInv /\ LeaseInv /\ FileInv /\ Counted
  BY DEF PipelineInv
<1>2. /\ ready' = ready /\ published' = published /\ size' = size /\ target' = target
      /\ reader' = reader /\ UNCHANGED <<tokenVars, requested, callerVars, opens>>
      /\ error' = error /\ done' = done /\ failure' = e /\ decoder' = "finish"
      /\ current' = current /\ written' = written /\ pending' = pending
      /\ file' = [m \in 1 .. N |-> IF Owned(m) THEN 0 ELSE file[m]]
      /\ used' = IF decoder = "store" THEN used - 1 ELSE used
  BY DEF Fail
<1>3. /\ size \in [1 .. N -> Nat] /\ N \in Nat /\ Quota \in Nat /\ written \in Nat
      /\ used \in 0 .. Quota /\ file \in [1 .. N -> 0 .. Quota]
  BY <1>1, PipelineAssumption DEF PipelineAssumption, PipelineTypeOK
<1>4. ~Leased(current) /\ pending # current /\ current \notin published
  BY CurrentIsFree
<1>5. \A m \in 1 .. N : Leased(m)' <=> Leased(m)
  BY <1>2, LeasedStays
<1>6. \A m \in published : m \in 1 .. N /\ file'[m] = file[m]
  BY <1>2, <1>4, PublishedIsPast DEF Owned
<1>7. DecoderInv'
  BY <1>1, <1>2, <1>3 DEF DecoderInv, InFlight
<1>8. Charged \in [1 .. N -> 0 .. Quota]
  BY <1>1, ChargedType
<1>9. /\ Counted' /\ OneChargeMoves /\ used' \in 0 .. Quota
      /\ \A m \in 1 .. N : 0 <= Charged'[m] /\ (Owned(m) \/ Charged'[m] = Charged[m])
  <2>1. CASE decoder = "store"
    <3>1. current \in Selected /\ current \in 1 .. N
      BY <1>1, <2>1, Members DEF DecoderInv
    <3>2. /\ Charged[current] = written + 1 /\ Charged'[current] = written
          /\ \A m \in (1 .. N) \ {current} : Charged'[m] = Charged[m]
      BY <1>2, <1>3, <1>4, <1>5, <2>1, <3>1 DEF Charged
    <3>3. \A m \in 1 .. N : Charged'[m] \in 0 .. Quota
      <4>1. written + 1 \in 0 .. Quota
        BY <1>8, <3>1, <3>2
      <4>2. Charged'[current] \in 0 .. Quota
        BY <1>3, <3>2, <4>1
      <4>3. ASSUME NEW m \in (1 .. N) \ {current} PROVE Charged'[m] \in 0 .. Quota
        BY <1>8, <3>2
      <4>. QED
        BY <4>2, <4>3
    <3>4. Charged' \in [1 .. N -> 0 .. Quota]
      BY <3>3 DEF Charged
    <3>5. used' = used - Charged[current] + Charged'[current]
      BY <1>2, <1>3, <2>1, <3>2
    <3>6. Counted' /\ OneChargeMoves /\ used' \in Nat
      BY <1>1, <3>1, <3>2, <3>4, <3>5, CountedStep
    <3>7. used' \in 0 .. Quota
      BY <1>2, <1>3, <2>1, <3>6
    <3>. QED
      BY <2>1, <3>2, <3>3, <3>6, <3>7, <1>3 DEF Owned
  <2>2. CASE decoder # "store"
    <3>1. \A m \in 1 .. N : Charged'[m] = Charged[m]
      BY <1>2, <1>5, <2>2 DEF Charged
    <3>2. Counted' /\ OneChargeMoves
      BY <1>1, <1>2, <2>2, <3>1, CountedKept
    <3>3. \A m \in 1 .. N : 0 <= Charged'[m]
      BY <1>3, <1>8, <3>1
    <3>. QED
      BY <1>2, <1>3, <2>2, <3>1, <3>2, <3>3
  <2>. QED
    BY <2>1, <2>2
<1>10. \A m \in 1 .. N : file'[m] <= Charged'[m]
  BY <1>1, <1>2, <1>9 DEF FileInv
<1>11. LeaseInv' /\ FileInv'
  BY <1>2, <1>6, <1>7, <1>10, DecoderFrame
<1>12. file' \in [1 .. N -> 0 .. Quota]
  BY <1>2, <1>3
<1>13. PipelineTypeOK'
  BY <1>1, <1>2, <1>9, <1>12, DecoderType DEF PipelineTypeOK, DecoderStates, Errors
<1>. QED
  BY <1>7, <1>9, <1>11, <1>13 DEF PipelineInv

LEMMA DecoderStep ==
  ASSUME PipelineInv, DecoderNext
  PROVE  PipelineInv' /\ OneChargeMoves
<1>1. CASE Start \/ MayPublish \/ Decide \/ Demanded \/ Finish
  BY <1>1, PlainDecoderStep
<1>2. CASE Publish
  BY <1>2, PublishStep
<1>3. CASE Reserve \/ Store \/ Verified
  BY <1>3, ByteStep
<1>4. CASE RefuseSelection \/ OverLimit \/ Interrupted \/ DecodeError \/ StoreError
  <2>1. decoder \in {"start", "member", "wait", "write", "store"}
    BY <1>4 DEF RefuseSelection, OverLimit, Interrupted, DecodeError, StoreError
  <2>2. \E e \in Errors : Fail(e)
    BY <1>4 DEF RefuseSelection, OverLimit, Interrupted, DecodeError, StoreError, Errors
  <2>. QED
    BY <2>1, <2>2, FailStep
<1>. QED
  BY <1>1, <1>2, <1>3, <1>4 DEF DecoderNext
----------------------------------------------------------------------------
(* Steps of the calling thread.                                            *)

CallerStates == {"consume", "judge", "stop", "notify", "join", "guard", "clear", "clearing",
                 "wake", "done"}

\* The type of what the caller changes is the type of the state.
LEMMA CallerType ==
  ASSUME PipelineTypeOK, UNCHANGED <<size, requested, published, error, done, decoderVars, target, opens>>,
         parent' \in BOOLEAN, token' \in BOOLEAN, unused' \in BOOLEAN,
         caller' \in CallerStates, result' \in {"none", "ok", "error", "panic"},
         ready' \subseteq Selected, used' \in 0 .. Quota, file' \in [1 .. N -> 0 .. Quota],
         reader' = reader \/ reader' = Notified
  PROVE  PipelineTypeOK'
<1>1. reader' \in [Readers -> ReaderStates]
  BY NotifiedFacts DEF PipelineTypeOK, ReaderStates
<1>. QED
  BY <1>1 DEF PipelineTypeOK, ReaderStates, CallerStates, decoderVars

\* Steps of the caller, and the cancellation from outside, that move no lease.
LEMMA PlainCallerStep ==
  ASSUME PipelineInv,
         \/ CancelParent \/ ConsumeReturns \/ Judge \/ StopDecoder \/ NotifyDecoder \/ Join
         \/ GuardCancels \/ GuardLocks \/ GuardNotifies
  PROVE  PipelineInv' /\ OneChargeMoves
<1>. USE DEF tokenVars, stateVars, readerVars, callerVars, NotifyAll
<1>. USE DEF CancelParent, ConsumeReturns, Judge, StopDecoder, NotifyDecoder, Join,
             GuardCancels, GuardLocks, GuardNotifies
<1>1. PipelineTypeOK
  BY DEF PipelineInv
<1>2. /\ ready' = ready /\ published' = published /\ size' = size /\ target' = target
      /\ UNCHANGED <<diskVars, decoderVars, requested, error, done, opens>>
      /\ reader' = reader \/ reader' = Notified
  OBVIOUS
<1>3. \A s \in Readers : KeepsLease(s)
  BY <1>2, NotifyKeeps
<1>4. DecoderInv' /\ LeaseInv' /\ FileInv' /\ Counted' /\ OneChargeMoves
  BY <1>2, <1>3, QuietStep
<1>5. caller' \in CallerStates /\ result' \in {"none", "ok", "error", "panic"}
  BY <1>1 DEF PipelineTypeOK, CallerStates
<1>6. parent' \in BOOLEAN /\ token' \in BOOLEAN /\ unused' \in BOOLEAN
  BY <1>1 DEF PipelineTypeOK
<1>7. ready' \subseteq Selected /\ used' \in 0 .. Quota /\ file' \in [1 .. N -> 0 .. Quota]
  BY <1>1, <1>2 DEF PipelineTypeOK, diskVars
<1>8. PipelineTypeOK'
  BY <1>1, <1>2, <1>5, <1>6, <1>7, CallerType
<1>. QED
  BY <1>4, <1>8 DEF PipelineInv

\* The guard drops one lease of the map.
LEMMA GuardClearsStep ==
  ASSUME PipelineInv, GuardClears
  PROVE  PipelineInv' /\ OneChargeMoves
<1>. USE DEF tokenVars, readerVars, diskVars
<1>1. PipelineTypeOK /\ DecoderInv /\ LeaseInv /\ FileInv /\ Counted
  BY DEF PipelineInv
<1>2. /\ UNCHANGED <<tokenVars, requested, published, error, done, decoderVars, result, unused, readerVars>>
      /\ caller' \in {"clearing", "wake"}
  BY DEF GuardClears
<1>3. CASE ready = {}
  <2>1. ready' = ready /\ UNCHANGED diskVars
    BY <1>3 DEF GuardClears
  <2>2. \A s \in Readers : KeepsLease(s)
    BY <1>2, NotifyKeeps
  <2>3. DecoderInv' /\ LeaseInv' /\ FileInv' /\ Counted' /\ OneChargeMoves
    BY <1>2, <2>1, <2>2, QuietStep
  <2>4. PipelineTypeOK'
    BY <1>1, <1>2, <2>1, CallerType DEF PipelineTypeOK, CallerStates
  <2>. QED
    BY <2>3, <2>4 DEF PipelineInv
<1>4. CASE ready # {}
  <2>1. Min(ready) \in ready
    BY <1>1, <1>4, Members, MinExists DEF PipelineTypeOK
  <2>2. PICK m \in ready : /\ m = Min(ready) /\ ready' = ready \ {m}
                           /\ IF Holding(m) = {}
                                THEN used' = used - size[m] /\ file' = [file EXCEPT ![m] = 0]
                                ELSE UNCHANGED diskVars
    BY <1>4, <2>1 DEF GuardClears
  <2>3. m \in published /\ m \in 1 .. N
    BY <1>1, Members DEF LeaseInv, PipelineTypeOK
  <2>4. ready' \subseteq Selected
    BY <1>1, <2>2 DEF PipelineTypeOK
  <2>5. CASE Holding(m) # {}
    <3>1. UNCHANGED diskVars
      BY <2>2, <2>5
    <3>2. DecoderInv' /\ LeaseInv' /\ FileInv' /\ Counted' /\ OneChargeMoves
      BY <1>2, <2>2, <2>5, <3>1, SharedStep
    <3>3. PipelineTypeOK'
      BY <1>1, <1>2, <2>4, <3>1, CallerType DEF PipelineTypeOK, CallerStates
    <3>. QED
      BY <3>2, <3>3 DEF PipelineInv
  <2>6. CASE Holding(m) = {}
    <3>1. used' = used - size[m] /\ file' = [file EXCEPT ![m] = 0]
      BY <2>2, <2>6
    <3>2. \A s \in Readers : HasLease(s) => target[s] # m
      BY <1>1, <2>6 DEF LeaseInv, HasLease, Holding
    <3>3. LeaseInv'
      BY <1>1, <1>2, <2>2, <3>2 DEF LeaseInv, HasLease
    <3>4. /\ Leased(m) /\ ~Leased(m)'
          /\ \A k \in (1 .. N) \ {m} : Leased(k)' <=> Leased(k)
      BY <1>2, <2>2, <3>2 DEF Leased, HasLease
    <3>5. file'[m] = 0 /\ \A k \in (1 .. N) \ {m} : file'[k] = file[k]
      BY <1>1, <2>3, <3>1 DEF PipelineTypeOK
    <3>6. DecoderInv' /\ FileInv' /\ Counted' /\ OneChargeMoves /\ used' \in 0 .. Quota
      BY <1>2, <2>2, <2>3, <3>1, <3>2, <3>3, <3>4, <3>5, RefundStep DEF HasLease
    <3>7. file' \in [1 .. N -> 0 .. Quota]
      <4>1. file \in [1 .. N -> 0 .. Quota] /\ 0 \in 0 .. Quota
        BY <1>1, Members DEF PipelineTypeOK
      <4>. QED
        BY <3>1, <4>1
    <3>8. PipelineTypeOK'
      BY <1>1, <1>2, <2>4, <3>6, <3>7, CallerType DEF PipelineTypeOK, CallerStates
    <3>. QED
      BY <3>3, <3>6, <3>8 DEF PipelineInv
  <2>. QED
    BY <2>5, <2>6
<1>. QED
  BY <1>3, <1>4

LEMMA CallerStep ==
  ASSUME PipelineInv, CallerNext \/ CancelParent
  PROVE  PipelineInv' /\ OneChargeMoves
BY PlainCallerStep, GuardClearsStep DEF CallerNext
----------------------------------------------------------------------------
(* The theorems.                                                           *)

LEMMA PipelineInitial == PipelineInit => PipelineInv
<1>. SUFFICES ASSUME PipelineInit PROVE PipelineInv
  OBVIOUS
<1>1. size \in [1 .. N -> Nat] /\ N \in Nat /\ Quota \in Nat /\ 0 \in 0 .. Quota
  BY PipelineAssumption DEF PipelineAssumption, PipelineInit
<1>2. PipelineTypeOK
  <2>1. file \in [1 .. N -> 0 .. Quota]
    BY <1>1 DEF PipelineInit
  <2>2. current \in 1 .. N + 1
    BY <1>1 DEF PipelineInit
  <2>. QED
    <3>1. 0 \in 0 .. N /\ 0 \in 0 .. MaxOpens /\ 0 \in Nat
      BY <1>1, Members
    <3>2. /\ reader \in [Readers -> ReaderStates]
          /\ target \in [Readers -> {0} \cup Selected]
      BY DEF PipelineInit, ReaderStates
    <3>. QED
      BY <1>1, <2>1, <2>2, <3>1, <3>2 DEF PipelineInit, PipelineTypeOK, ReaderStates
<1>3. DecoderInv
  BY <1>1 DEF PipelineInit, DecoderInv, InFlight
<1>4. LeaseInv
  BY DEF PipelineInit, LeaseInv, HasLease
<1>5. Charged \in [1 .. N -> 0 .. Quota] /\ \A m \in 1 .. N : Charged[m] = 0
  <2>1. \A m \in 1 .. N : Charged[m] = 0
    BY <1>1 DEF PipelineInit, Charged, Leased
  <2>. QED
    BY <1>2, <1>3, <1>4, <2>1, ChargedType
<1>6. Counted
  <2>1. ASSUME NEW f \in [1 .. N -> 0 .. Quota], \A m \in 1 .. N : f[m] = 0
        PROVE  Total(f, 1 .. N, Quota) = 0
    BY <1>1, <2>1, Members, TotalZero
  <2>. QED
    BY <1>5, <2>1 DEF PipelineInit, Counted
<1>7. FileInv
  BY <1>1, <1>5 DEF PipelineInit, FileInv
<1>. QED
  BY <1>2, <1>3, <1>4, <1>6, <1>7 DEF PipelineInv

\* Every step keeps the invariant and changes at most one member's charge.
LEMMA PipelineStep ==
  PipelineInv /\ [PipelineNext]_pipelineVars => PipelineInv' /\ OneChargeMoves
<1>. SUFFICES ASSUME PipelineInv, [PipelineNext]_pipelineVars
              PROVE  PipelineInv' /\ OneChargeMoves
  OBVIOUS
<1>1. CASE UNCHANGED pipelineVars
  <2>. USE DEF pipelineVars, tokenVars, stateVars, diskVars, decoderVars, callerVars, readerVars
  <2>1. \A s \in Readers : KeepsLease(s)
    BY <1>1, NotifyKeeps
  <2>2. DecoderInv' /\ LeaseInv' /\ FileInv' /\ Counted' /\ OneChargeMoves
    BY <1>1, <2>1, QuietStep
  <2>3. PipelineTypeOK'
    BY <1>1 DEF PipelineInv, PipelineTypeOK
  <2>. QED
    BY <2>2, <2>3 DEF PipelineInv
<1>2. CASE CancelParent \/ CallerNext
  BY <1>2, CallerStep
<1>3. CASE DecoderNext
  BY <1>3, DecoderStep
<1>4. CASE \E r \in Readers : ReaderNext(r)
  BY <1>4, ReaderStep
<1>. QED
  BY <1>1, <1>2, <1>3, <1>4 DEF PipelineNext, Ended

\* Liveness aside, a call starts in PipelineInit and takes steps of PipelineNext.
LEMMA PipelineSafety == PipelineSpec => PipelineInit /\ [][PipelineNext]_pipelineVars
BY PTL DEF PipelineSpec

\* The invariant holds throughout a rewrite call.
THEOREM PipelineInvariant == PipelineSpec => []PipelineInv
BY PipelineInitial, PipelineStep, PipelineSafety, PTL

\* The quota's counter is exact and covers every temporary file (Accounted),
\* however the decoder, the readers, the caller and the guard interleave.
THEOREM PipelineCorrect ==
  PipelineSpec => [](PipelineTypeOK /\ Accounted)
<1>1. PipelineInv => used <= Quota
  BY PipelineAssumption DEF PipelineAssumption, PipelineInv, PipelineTypeOK
<1>2. PipelineInv => PipelineTypeOK /\ Accounted
  BY <1>1 DEF PipelineInv, Accounted, Counted, FileInv
<1>. QED
  BY <1>2, PipelineInvariant, PTL

\* A reader that was handed out reads its whole payload to the end, though the
\* source is released, the call fails or the guard clears the map.
THEOREM ReadersKeepTheirFile == PipelineSpec => []OpenReadersKeepTheirFile
<1>1. PipelineInv => OpenReadersKeepTheirFile
  BY DEF PipelineInv, FileInv, LeaseInv, HasLease, OpenReadersKeepTheirFile
<1>. QED
  BY <1>1, PipelineInvariant, PTL
----------------------------------------------------------------------------
(* How a call ends.                                                        *)

\* A member the decoder is past is published, or is the one it publishes next.
StagedInv ==
  /\ decoder \notin {"finish", "exited"} =>
       \A m \in Selected : m < current => m \in published \/ m = pending
  /\ decoder \in {"finish", "exited"} /\ failure = "none" => Selected \subseteq published

\* The decoder that returns has dropped the files it still owned.
OnDisk == decoder \in {"finish", "exited"} => \A m \in 1 .. N : file[m] > 0 => Leased(m)

\* The guard comes behind the join, unless consume panics: then the token is
\* cancelled first, and the decoder publishes one more member at most.
GuardInv ==
  /\ caller \in {"consume", "judge", "stop", "notify"} => result # "panic"
  /\ caller \in {"guard", "clear", "clearing", "wake", "done"} /\ result # "panic" => decoder = "exited"
  /\ caller = "done" => decoder = "exited"
  /\ caller \in {"wake", "done"} /\ result # "panic" => ready = {}
  /\ caller \in {"clear", "clearing", "wake", "join", "done"} /\ result = "panic" => token
  /\ caller \in {"wake", "join", "done"} /\ result = "panic" =>
       /\ decoder = "publish" => ready = {}
       /\ \A m, k \in ready : m = k

EndInv == StagedInv /\ OnDisk /\ GuardInv

LEMMA ReaderEnds ==
  ASSUME PipelineInv, EndInv, NEW r \in Readers, ReaderNext(r)
  PROVE  EndInv'
<1>. USE DEF tokenVars, decoderVars, callerVars, diskVars, stateVars
<1>1. PipelineTypeOK /\ LeaseInv /\ FileInv
  BY DEF PipelineInv
<1>2. \A s \in Readers : Notified[s] = IF reader[s] = "waiting" THEN "woken" ELSE reader[s]
  BY <1>1, NotifiedFacts
<1>3. /\ UNCHANGED <<token, published, decoderVars, callerVars>>
      /\ ready' \subseteq ready
  BY DEF ReaderNext, ReaderProceeds, Open, Sleep, LookAgain, Close, Release, DropLease
<1>4. ASSUME NEW m \in 1 .. N, Leased(m), file'[m] > 0
      PROVE  Leased(m)' /\ file'[m] = file[m]
  <2>1. reader \in [Readers -> ReaderStates] /\ file \in [1 .. N -> 0 .. Quota]
        /\ target \in [Readers -> {0} \cup Selected]
    BY <1>1 DEF PipelineTypeOK, ReaderStates
  <2>2. ASSUME NEW k \in Selected, Open(r, k) PROVE Leased(m)' /\ file'[m] = file[m]
    BY <1>2, <1>4, <2>1, <2>2 DEF Open, Leased, Aimed
  <2>3. CASE Sleep(r)
    BY <1>4, <2>1, <2>3 DEF Sleep, Leased
  <2>4. CASE LookAgain(r)
    BY <1>4, <2>1, <2>4 DEF LookAgain, Leased, Aimed
  <2>5. CASE Close(r)
    <3>1. CASE Holding(target[r]) = {r} /\ target[r] \notin ready
      <4>1. file' = [file EXCEPT ![target[r]] = 0] /\ reader' = [reader EXCEPT ![r] = "closing"]
            /\ target' = target /\ ready' = ready
        BY <2>5, <3>1 DEF Close, Unlink
      <4>2. Leased(m)'
        BY <1>4, <2>1, <4>1 DEF Leased
      <4>. QED
        BY <1>4, <2>1, <4>1, <4>2
    <3>2. CASE ~(Holding(target[r]) = {r} /\ target[r] \notin ready)
      <4>1. /\ reader' = [reader EXCEPT ![r] = "idle"] /\ target' = [target EXCEPT ![r] = 0]
            /\ ready' = ready /\ file' = file /\ reader[r] = "reading"
        BY <2>5, <3>2 DEF Close, Aimed
      <4>2. CASE m \in ready
        BY <4>1, <4>2 DEF Leased
      <4>3. CASE m \notin ready
        <5>1. PICK s \in Readers : target[s] = m /\ reader[s] \in {"reading", "closing", "releasing"}
          BY <1>4, <4>3 DEF Leased
        <5>2. \E t \in Readers \ {r} : target[t] = m /\ reader[t] \in {"reading", "closing", "releasing"}
          <6>1. CASE s # r
            BY <5>1, <6>1
          <6>2. CASE s = r
            <7>1. r \in Holding(m) /\ Holding(m) # {r}
              BY <3>2, <4>1, <4>3, <5>1, <6>2 DEF Holding
            <7>2. PICK t \in Holding(m) : t # r
              BY <7>1
            <7>. QED
              BY <7>2 DEF Holding
          <6>. QED
            BY <6>1, <6>2
        <5>. QED
          BY <2>1, <4>1, <5>2 DEF Leased
      <4>. QED
        BY <4>1, <4>2, <4>3
    <3>. QED
      BY <3>1, <3>2
  <2>6. ASSUME NEW k \in Selected, Release(r, k) PROVE Leased(m)' /\ file'[m] = file[m]
    <3>0. reader[r] = "idle" /\ ready' = ready \ {k} /\ k \in ready /\ k \in 1 .. N
      BY <2>6, Members DEF Release
    <3>1. CASE Holding(k) = {}
      <4>1. /\ file' = [file EXCEPT ![k] = 0] /\ reader' = [reader EXCEPT ![r] = "releasing"]
            /\ target' = [target EXCEPT ![r] = k]
        BY <2>6, <3>1 DEF Release, Unlink
      <4>2. m # k /\ file'[m] = file[m]
        BY <1>4, <2>1, <3>0, <4>1
      <4>. QED
        BY <1>4, <2>1, <3>0, <4>1, <4>2 DEF Leased
    <3>2. CASE Holding(k) # {}
      <4>1. reader' = Notified /\ target' = target /\ file' = file
        BY <2>6, <3>2 DEF Release, NotifyAll
      <4>2. CASE m = k
        <5>1. PICK s \in Readers : reader[s] = "reading" /\ target[s] = k
          BY <3>2 DEF Holding
        <5>. QED
          BY <1>2, <4>1, <4>2, <5>1 DEF Leased
      <4>3. CASE m # k
        BY <1>2, <1>4, <3>0, <4>1, <4>3 DEF Leased
      <4>. QED
        BY <4>1, <4>2, <4>3
    <3>. QED
      BY <3>1, <3>2
  <2>7. CASE DropLease(r)
    <3>1. /\ file' = file /\ ready' = ready /\ reader[r] \in {"closing", "releasing"}
          /\ reader' = [(IF reader[r] = "releasing" THEN Notified ELSE reader) EXCEPT ![r] = "idle"]
          /\ target' = [target EXCEPT ![r] = 0]
      BY <2>7 DEF DropLease, Refund, Aimed
    <3>2. target[r] # m
      BY <1>1, <1>4, <3>1 DEF FileInv
    <3>3. Notified \in [Readers -> ReaderStates]
      BY <1>1, NotifiedFacts
    <3>4. \A s \in Readers \ {r} :
             /\ target'[s] = target[s]
             /\ reader[s] \in {"reading", "closing", "releasing"} => reader'[s] = reader[s]
      BY <1>2, <2>1, <3>1, <3>3
    <3>. QED
      BY <1>4, <3>1, <3>2, <3>4 DEF Leased
  <2>. QED
    BY <2>2, <2>3, <2>4, <2>5, <2>6, <2>7 DEF ReaderNext, ReaderProceeds
<1>5. ASSUME NEW m \in 1 .. N, file'[m] > 0 PROVE file[m] > 0
  <2>1. file \in [1 .. N -> 0 .. Quota] /\ 0 \in 0 .. Quota
    BY <1>1, Members DEF PipelineTypeOK
  <2>2. file' = file \/ \E k : file' = [file EXCEPT ![k] = 0]
    BY DEF ReaderNext, ReaderProceeds, Open, Sleep, LookAgain, Close, Release, DropLease, Unlink, Refund
  <2>3. CASE file' = file
    BY <1>5, <2>3
  <2>4. ASSUME NEW k, file' = [file EXCEPT ![k] = 0] PROVE file[m] > 0
    <3>1. m # k
      BY <1>5, <2>1, <2>4
    <3>. QED
      BY <1>5, <2>1, <2>4, <3>1
  <2>. QED
    BY <2>2, <2>3, <2>4
<1>6. StagedInv' /\ GuardInv'
  BY <1>3 DEF EndInv, StagedInv, GuardInv
<1>7. OnDisk'
  BY <1>3, <1>4, <1>5 DEF EndInv, OnDisk
<1>. QED
  BY <1>6, <1>7 DEF EndInv

LEMMA DecoderEnds ==
  ASSUME PipelineInv, EndInv, DecoderNext
  PROVE  EndInv'
<1>. USE DEF tokenVars, callerVars, diskVars, stateVars, readerVars
<1>1. PipelineTypeOK /\ DecoderInv /\ LeaseInv /\ FileInv /\ N \in Nat /\ Selected \subseteq 1 .. N
  BY Members DEF PipelineInv
<1>2. /\ current \in Nat /\ pending \in {0} \cup Selected /\ written \in Nat
      /\ file \in [1 .. N -> 0 .. Quota] /\ \A m \in Selected : m \in Nat
  BY <1>1 DEF PipelineTypeOK
<1>3. ASSUME NEW m \in 1 .. N, file[m] > 0, decoder \notin {"finish", "exited"}
      PROVE  Leased(m) \/ Owned(m)
  <2>1. Charged[m] > 0
    <3>1. file[m] <= Charged[m] /\ file[m] \in 0 .. Quota /\ Charged[m] \in 0 .. Quota /\ Quota \in Nat
      BY <1>1, <1>2, ChargedType, Members DEF FileInv
    <3>. QED
      BY <1>3, <3>1
  <2>2. \/ Leased(m) \/ m = pending
        \/ m = current /\ m \in Selected /\ InFlight > 0
    BY <2>1 DEF Charged, InFlight
  <2>3. InFlight > 0 => decoder \in {"write", "store"}
    BY <1>1, <1>3 DEF DecoderInv, InFlight, PipelineTypeOK
  <2>. QED
    BY <2>2, <2>3 DEF Owned
<1>4. ASSUME NEW e \in {"limit", "decode", "panic", "cancelled"}, Fail(e), decoder \notin {"finish", "exited"}
      PROVE  EndInv'
  <2>1. /\ failure' = e /\ decoder' = "finish" /\ e # "none"
        /\ UNCHANGED <<token, ready, published, current, pending, caller, result, reader, target>>
        /\ \A m \in 1 .. N : file'[m] = IF Owned(m) THEN 0 ELSE file[m]
    BY <1>4 DEF Fail
  <2>2. StagedInv'
    BY <2>1 DEF StagedInv
  <2>3. OnDisk'
    <3>. SUFFICES ASSUME NEW m \in 1 .. N, file'[m] > 0 PROVE Leased(m)'
      BY DEF OnDisk
    <3>1. ~Owned(m) /\ file[m] > 0
      BY <2>1
    <3>2. Leased(m)
      BY <1>3, <1>4, <3>1
    <3>. QED
      BY <2>1, <3>2 DEF Leased
  <2>4. GuardInv'
    BY <1>4, <2>1 DEF EndInv, GuardInv
  <2>. QED
    BY <2>2, <2>3, <2>4 DEF EndInv
<1>5. CASE RefuseSelection \/ OverLimit \/ Interrupted \/ DecodeError \/ StoreError
  BY <1>4, <1>5 DEF RefuseSelection, OverLimit, Interrupted, DecodeError, StoreError
<1>6. CASE Start \/ Demanded \/ Reserve \/ Store
  <2>1. /\ decoder \in {"start", "wait", "write", "store"} /\ decoder' \in {"member", "write", "store"}
        /\ UNCHANGED <<token, ready, published, current, pending, caller, result>>
    BY <1>6 DEF Start, Demanded, Reserve, Store
  <2>2. StagedInv' /\ OnDisk' /\ GuardInv'
    BY <2>1 DEF EndInv, StagedInv, OnDisk, GuardInv
  <2>. QED
    BY <2>2 DEF EndInv
<1>7. CASE MayPublish
  <2>1. /\ decoder = "member" /\ decoder' = "publish" /\ ~token
        /\ UNCHANGED <<token, ready, published, current, pending, caller, result>>
    BY <1>7 DEF MayPublish, Cancelled
  <2>2. StagedInv' /\ OnDisk' /\ GuardInv'
    BY <2>1 DEF EndInv, StagedInv, OnDisk, GuardInv
  <2>. QED
    BY <2>2 DEF EndInv
<1>8. CASE Publish
  <2>1. /\ decoder = "publish" /\ decoder' = "member" /\ caller # "clearing"
        /\ published' = published \cup {pending} /\ ready' = ready \cup {pending} /\ pending' = 0
        /\ UNCHANGED <<token, current, caller, result>>
    BY <1>8 DEF Publish, Unlocked
  <2>2. StagedInv' /\ OnDisk'
    BY <2>1 DEF EndInv, StagedInv, OnDisk
  <2>3. GuardInv'
    BY <2>1 DEF EndInv, GuardInv
  <2>. QED
    BY <2>2, <2>3 DEF EndInv
<1>9. CASE Decide
  <2>1. /\ decoder = "member" /\ pending = 0
        /\ UNCHANGED <<token, ready, published, pending, caller, result, reader, target, file>>
        /\ Stop \/ (current <= LastSelected /\ (Skip \/ Need))
    BY <1>9 DEF Decide
  <2>2. CASE Stop
    <3>1. /\ decoder' = "finish" /\ current > LastSelected
          /\ LastSelected \in Selected /\ \A m \in Selected : m <= LastSelected
      BY <2>2, Members DEF Stop
    <3>2. \A m \in Selected : m < current
      BY <1>2, <3>1
    <3>3. Selected \subseteq published
      BY <1>2, <2>1, <3>2, Members DEF EndInv, StagedInv
    <3>4. OnDisk'
      <4>. SUFFICES ASSUME NEW m \in 1 .. N, file[m] > 0 PROVE Leased(m)'
        BY <2>1 DEF OnDisk
      <4>1. Leased(m) \/ Owned(m)
        BY <1>3, <2>1
      <4>2. ~Owned(m)
        BY <2>1 DEF Owned
      <4>. QED
        BY <2>1, <4>1, <4>2 DEF Leased
    <3>5. StagedInv' /\ GuardInv'
      BY <2>1, <3>1, <3>3 DEF EndInv, StagedInv, GuardInv
    <3>. QED
      BY <3>4, <3>5 DEF EndInv
  <2>3. CASE Skip \/ Need
    <3>1. /\ decoder' \in {"member", "wait"}
          /\ current' = current \/ (current' = current + 1 /\ current \notin Selected)
      BY <2>1, <2>3 DEF Skip, Need
    <3>2. \A m \in Selected : m < current' => m < current
      BY <1>2, <3>1
    <3>3. StagedInv' /\ OnDisk' /\ GuardInv'
      BY <2>1, <3>1, <3>2 DEF EndInv, StagedInv, OnDisk, GuardInv
    <3>. QED
      BY <3>3 DEF EndInv
  <2>. QED
    BY <2>1, <2>2, <2>3
<1>10. CASE Verified
  <2>1. /\ decoder = "write" /\ decoder' = "member" /\ current' = current + 1
        /\ pending' = IF current \in Selected THEN current ELSE 0
        /\ UNCHANGED <<token, ready, published, caller, result>>
    BY <1>10 DEF Verified
  <2>2. pending = 0
    BY <1>1, <2>1 DEF DecoderInv
  <2>3. ASSUME NEW m \in Selected, m < current' PROVE m \in published \/ m = pending'
    <3>1. m < current \/ m = current
      BY <1>2, <2>1, <2>3
    <3>2. m # 0
      BY <1>1
    <3>. QED
      BY <2>1, <2>2, <3>1, <3>2 DEF EndInv, StagedInv
  <2>4. StagedInv' /\ OnDisk' /\ GuardInv'
    BY <2>1, <2>3 DEF EndInv, StagedInv, OnDisk, GuardInv
  <2>. QED
    BY <2>4 DEF EndInv
<1>11. CASE Finish
  <2>1. /\ decoder = "finish" /\ decoder' = "exited" /\ reader' = Notified
        /\ UNCHANGED <<token, ready, published, failure, current, pending, caller, result, target, file>>
    BY <1>11 DEF Finish, NotifyAll
  <2>2. \A m \in 1 .. N : Leased(m)' <=> Leased(m)
    BY <2>1, LeasedStays
  <2>3. OnDisk'
    BY <2>1, <2>2 DEF EndInv, OnDisk
  <2>4. StagedInv' /\ GuardInv'
    BY <2>1 DEF EndInv, StagedInv, GuardInv
  <2>. QED
    BY <2>3, <2>4 DEF EndInv
<1>. QED
  BY <1>5, <1>6, <1>7, <1>8, <1>9, <1>10, <1>11 DEF DecoderNext

LEMMA CallerEnds ==
  ASSUME PipelineInv, EndInv, CallerNext \/ CancelParent
  PROVE  EndInv'
<1>. USE DEF tokenVars, decoderVars, diskVars, stateVars, readerVars
<1>1. PipelineTypeOK /\ LeaseInv /\ Selected \subseteq 1 .. N
  BY Members DEF PipelineInv
<1>2. CASE \/ CancelParent \/ ConsumeReturns \/ Judge \/ StopDecoder \/ NotifyDecoder \/ Join
           \/ GuardCancels \/ GuardLocks \/ GuardNotifies
  <2>. USE DEF CancelParent, ConsumeReturns, Judge, StopDecoder, NotifyDecoder, Join,
               GuardCancels, GuardLocks, GuardNotifies, NotifyAll
  <2>1. /\ UNCHANGED <<ready, published, decoderVars, file, target>>
        /\ reader' = reader \/ reader' = Notified
    BY <1>2 DEF callerVars
  <2>2. \A m \in 1 .. N : Leased(m)' <=> Leased(m)
    BY <2>1, LeasedStays
  <2>3. StagedInv' /\ OnDisk'
    BY <2>1, <2>2 DEF EndInv, StagedInv, OnDisk
  <2>4. GuardInv'
    <3>1. GuardInv
      BY DEF EndInv
    <3>2. CASE CancelParent \/ ConsumeReturns \/ Judge \/ StopDecoder \/ NotifyDecoder
      BY <2>1, <3>1, <3>2 DEF GuardInv, callerVars, PipelineTypeOK
    <3>3. CASE Join \/ GuardCancels \/ GuardLocks \/ GuardNotifies
      BY <2>1, <3>1, <3>3 DEF GuardInv, callerVars
    <3>. QED
      BY <1>2, <3>2, <3>3
  <2>. QED
    BY <2>3, <2>4 DEF EndInv
<1>3. CASE GuardClears
  <2>1. /\ UNCHANGED <<token, published, decoderVars, result, reader, target>> /\ caller = "clearing"
    BY <1>3 DEF GuardClears
  <2>2. CASE ready = {}
    <3>1. caller' = "wake" /\ ready' = {} /\ file' = file
      BY <1>3, <2>2 DEF GuardClears
    <3>2. StagedInv' /\ OnDisk' /\ GuardInv'
      BY <2>1, <2>2, <3>1 DEF EndInv, StagedInv, OnDisk, GuardInv, Leased
    <3>. QED
      BY <3>2 DEF EndInv
  <2>3. CASE ready # {}
    <3>1. PICK m : /\ ready' = ready \ {m} /\ caller' = caller
                   /\ IF Holding(m) = {} THEN file' = [file EXCEPT ![m] = 0] ELSE file' = file
      BY <1>3, <2>3 DEF GuardClears
    <3>2. StagedInv' /\ GuardInv'
      BY <2>1, <3>1 DEF EndInv, StagedInv, GuardInv
    <3>3. ASSUME NEW k \in 1 .. N, Leased(k), file'[k] > 0 PROVE Leased(k)'
      <4>1. CASE k # m
        BY <2>1, <3>1, <3>3, <4>1 DEF Leased
      <4>2. CASE k = m
        <5>1. Holding(m) # {}
          <6>. SUFFICES ASSUME Holding(m) = {} PROVE FALSE
            OBVIOUS
          <6>1. file' = [file EXCEPT ![m] = 0] /\ file \in [1 .. N -> 0 .. Quota]
            BY <1>1, <3>1 DEF PipelineTypeOK
          <6>. QED
            BY <3>3, <4>2, <6>1
        <5>. QED
          BY <2>1, <4>2, <5>1 DEF Leased, Holding
      <4>. QED
        BY <4>1, <4>2
    <3>4. ASSUME NEW k \in 1 .. N, file'[k] > 0 PROVE file[k] > 0
      <4>1. file \in [1 .. N -> 0 .. Quota]
        BY <1>1 DEF PipelineTypeOK
      <4>2. file'[k] = file[k] \/ file'[k] = 0
        BY <3>1, <4>1
      <4>. QED
        BY <3>4, <4>2
    <3>5. OnDisk'
      BY <2>1, <3>3, <3>4 DEF EndInv, OnDisk
    <3>. QED
      BY <3>2, <3>5 DEF EndInv
  <2>. QED
    BY <2>2, <2>3
<1>. QED
  BY <1>2, <1>3 DEF CallerNext

LEMMA InitialEnd == PipelineInit => EndInv
<1>. SUFFICES ASSUME PipelineInit PROVE EndInv
  OBVIOUS
<1>1. \A m \in Selected : ~(m < 1)
  BY Members
<1>. QED
  BY <1>1 DEF PipelineInit, EndInv, StagedInv, OnDisk, GuardInv

LEMMA EndStep ==
  ASSUME PipelineInv, EndInv, [PipelineNext]_pipelineVars
  PROVE  EndInv'
<1>1. CASE UNCHANGED pipelineVars
  BY <1>1 DEF pipelineVars, tokenVars, stateVars, diskVars, decoderVars, callerVars, readerVars,
              EndInv, StagedInv, OnDisk, GuardInv, Leased
<1>. QED
  BY <1>1, ReaderEnds, DecoderEnds, CallerEnds DEF PipelineNext, Ended

\* When a rewrite call is over, Ok means that every selected member was decoded
\* and verified, and no temporary file is left but those of kept readers - one
\* more at most behind a panic, published between the guard's clearing and the
\* decoder's next look at the token (run and StopOnDrop in
\* rewrite_staging/pipeline.rs).
THEOREM CallsEndClean == PipelineSpec => []EndIsClean
<1>1. ASSUME PipelineInv, EndInv PROVE EndIsClean
  <2>1. OkMeansStaged
    <3>. SUFFICES ASSUME caller = "done", Outcome = "ok", ~unused PROVE published = Selected
      BY DEF OkMeansStaged
    <3>1. result = "ok" /\ failure = "none"
      BY <1>1 DEF Outcome, FinishDecoder, PipelineInv, PipelineTypeOK
    <3>2. decoder = "exited" /\ published \subseteq Selected
      BY <1>1 DEF EndInv, GuardInv, PipelineInv, PipelineTypeOK
    <3>. QED
      BY <1>1, <3>1, <3>2 DEF EndInv, StagedInv
  <2>2. NothingLeftBehind
    <3>. SUFFICES ASSUME caller = "done"
                  PROVE  /\ \A m \in 1 .. N : file[m] > 0 => Leased(m)
                         /\ IF result = "panic" THEN Cardinality(ready) <= 1 ELSE ready = {}
      BY DEF NothingLeftBehind
    <3>1. \A m \in 1 .. N : file[m] > 0 => Leased(m)
      BY <1>1 DEF EndInv, GuardInv, OnDisk
    <3>2. CASE result = "panic"
      <4>1. \A m, k \in ready : m = k
        BY <1>1, <3>2 DEF EndInv, GuardInv
      <4>2. Cardinality(ready) <= 1
        <5>1. CASE ready = {}
          BY <5>1, FS_EmptySet
        <5>2. CASE ready # {}
          <6>1. PICK m : ready = {m}
            BY <4>1, <5>2
          <6>. QED
            BY <6>1, FS_Singleton
        <5>. QED
          BY <5>1, <5>2
      <4>. QED
        BY <3>1, <3>2, <4>2
    <3>3. CASE result # "panic"
      BY <1>1, <3>1, <3>3 DEF EndInv, GuardInv
    <3>. QED
      BY <3>2, <3>3
  <2>. QED
    BY <2>1, <2>2 DEF EndIsClean
<1>. QED
  BY <1>1, PipelineInvariant, PipelineSafety, InitialEnd, EndStep, PTL
----------------------------------------------------------------------------
(* The counter as an abstract quota.                                       *)

\* ChargedType as one formula of the state, which holds in both states of a step.
ChargesTyped == Charged \in [1 .. N -> 0 .. Quota]

LEMMA ChargedIsTyped == PipelineInv => ChargesTyped
BY ChargedType DEF PipelineInv, ChargesTyped

\* Staging implements the abstract quota (ImplementsQuota): each byte is one
\* acquisition of its member that fits, each refund one release.
THEOREM PipelineImplementsQuota == PipelineSpec => ImplementsQuota
<1>1. PipelineInit => StagingQuota!Init
  <2>. SUFFICES ASSUME PipelineInit PROVE StagingQuota!Init
    OBVIOUS
  <2>1. \A m \in 1 .. N : Charged[m] = 0
    BY PipelineAssumption DEF PipelineAssumption, PipelineInit, Charged, Leased
  <2>. QED
    BY <2>1 DEF StagingQuota!Init, Charged
<1>2. ASSUME PipelineInv, PipelineInv', ChargesTyped', OneChargeMoves
      PROVE  [StagingQuota!Next]_Charged
  <2>. SUFFICES ASSUME Charged' # Charged PROVE StagingQuota!Next
    OBVIOUS
  <2>1. /\ used \in 0 .. Quota /\ used' \in 0 .. Quota /\ Quota \in Nat /\ IsFiniteSet(1 .. N)
        /\ used = Total(Charged, 1 .. N, Quota) /\ used' = Total(Charged', 1 .. N, Quota)
    BY <1>2, Members DEF PipelineInv, PipelineTypeOK, Counted
  <2>2. Charged \in [1 .. N -> 0 .. Quota]
    BY <1>2, ChargedType DEF PipelineInv
  <2>3. PICK m \in 1 .. N : \A k \in (1 .. N) \ {m} : Charged'[k] = Charged[k]
    BY <1>2 DEF OneChargeMoves
  <2>4. Charged' \in [1 .. N -> 0 .. Quota]
    BY <1>2 DEF ChargesTyped
  <2>5. ASSUME NEW g \in [1 .. N -> 0 .. Quota], \A k \in (1 .. N) \ {m} : g[k] = Charged[k]
        PROVE  /\ g = [Charged EXCEPT ![m] = g[m]]
               /\ Total(g, 1 .. N, Quota) = Total(Charged, 1 .. N, Quota) - Charged[m] + g[m]
    <3>1. IsFiniteSet(1 .. N) /\ Quota \in Nat
      BY Members
    <3>2. Total(g, 1 .. N, Quota) = Total(Charged, 1 .. N, Quota) - Charged[m] + g[m]
      BY <2>2, <2>3, <2>5, <3>1, TotalUpdate
    <3>3. g = [Charged EXCEPT ![m] = g[m]]
      BY <2>2, <2>5
    <3>. QED
      BY <3>2, <3>3
  <2>6. /\ Charged' = [Charged EXCEPT ![m] = Charged'[m]]
        /\ used' = used - Charged[m] + Charged'[m]
    BY <2>1, <2>3, <2>4, <2>5
  <2>7. Charged[m] \in 0 .. Quota /\ Charged'[m] \in 0 .. Quota
    BY <2>2, <2>4
  <2>8. CASE Charged'[m] > Charged[m]
    <3>1. PICK n \in 1 .. Quota : used + n <= Quota /\ Charged[m] + n = Charged'[m]
      <4>1. /\ Charged'[m] - Charged[m] \in 1 .. Quota
            /\ used + (Charged'[m] - Charged[m]) <= Quota
            /\ Charged[m] + (Charged'[m] - Charged[m]) = Charged'[m]
        BY <2>1, <2>6, <2>7, <2>8
      <4>. QED
        BY <4>1
    <3>2. StagingQuota!Sum(Charged) = used
      <4>1. StagingQuota!Units(Charged, 1 .. N, Quota) = Units(Charged, 1 .. N, Quota)
        BY DEF StagingQuota!Units, Units
      <4>2. \A T : StagingQuota!Cardinality(T) = Cardinality(T)
        BY DEF StagingQuota!Cardinality, Cardinality
      <4>. QED
        BY <2>1, <4>1, <4>2 DEF StagingQuota!Sum, StagingQuota!Total, Total
    <3>3. StagingQuota!Acquire(m, n)
      BY <2>6, <3>1, <3>2 DEF StagingQuota!Acquire
    <3>. QED
      BY <3>1, <3>3 DEF StagingQuota!Next
  <2>9. CASE Charged'[m] < Charged[m]
    <3>1. PICK n \in 1 .. Quota : n <= Charged[m] /\ Charged[m] - n = Charged'[m]
      <4>1. /\ Charged[m] - Charged'[m] \in 1 .. Quota /\ Charged[m] - Charged'[m] <= Charged[m]
            /\ Charged[m] - (Charged[m] - Charged'[m]) = Charged'[m]
        BY <2>1, <2>7, <2>9
      <4>. QED
        BY <4>1
    <3>2. StagingQuota!Release(m, n)
      BY <2>6, <3>1 DEF StagingQuota!Release
    <3>. QED
      BY <3>1, <3>2 DEF StagingQuota!Next
  <2>10. Charged'[m] # Charged[m]
    BY <2>2, <2>6
  <2>. QED
    BY <2>7, <2>8, <2>9, <2>10
<1>. QED
  BY <1>1, <1>2, PipelineStep, PipelineInvariant, ChargedIsTyped, PipelineSafety, PTL
     DEF ImplementsQuota, StagingQuota!Spec
----------------------------------------------------------------------------
(* The inputs of a writer.                                                 *)

LEMMA WriterFacts ==
  /\ Threads \in Nat \ {0} /\ Readers = 1 .. Threads /\ Emitter \in Readers
  /\ IsFiniteSet(Selected) /\ Cardinality(Selected) \in Nat
<1>1. Threads \in Nat \ {0} /\ Readers = 1 .. Threads
  BY WriterAssumption DEF WriterAssumption
<1>2. IsFiniteSet(Selected)
  BY Members, FS_Subset
<1>. QED
  BY <1>1, <1>2, FS_CardinalityType DEF Emitter

\* The inputs are the selected members, each once and in the order of the archive.
LEMMA InputOrder ==
  /\ \A k \in Inputs : Member(k) \in Selected
  /\ \A m \in Selected : \E k \in Inputs : m = Member(k)
  /\ \A j, k \in Inputs : j < k => Member(j) < Member(k)
  /\ \A j, k \in Inputs : Member(j) = Member(k) => j = k
<1>. DEFINE n == Cardinality(Selected)
            Upto(m) == {j \in Selected : j <= m}
            Rank == [m \in Selected |-> Cardinality(Upto(m))]
<1>1. IsFiniteSet(Selected) /\ n \in Nat /\ Selected \subseteq Nat
  BY WriterFacts, Members
<1>2. ASSUME NEW m \in Selected
      PROVE  /\ IsFiniteSet(Upto(m)) /\ Cardinality(Upto(m)) \in Nat
             /\ Cardinality(Upto(m)) <= n /\ Cardinality(Upto(m)) # 0
  <2>1. Upto(m) \in SUBSET Selected /\ m \in Upto(m)
    BY <1>1
  <2>2. IsFiniteSet(Upto(m)) /\ Cardinality(Upto(m)) <= n
    BY <1>1, <2>1, FS_Subset
  <2>. QED
    BY <2>1, <2>2, FS_CardinalityType, FS_EmptySet
<1>3. Rank \in [Selected -> 1 .. n]
  BY <1>1, <1>2
<1>4. ASSUME NEW a \in Selected, NEW b \in Selected, a < b PROVE Rank[a] < Rank[b]
  <2>1. Upto(a) \in SUBSET Upto(b) /\ b \in Upto(b) /\ b \notin Upto(a)
    <3>1. a \in Nat /\ b \in Nat /\ \A j \in Selected : j \in Nat
      BY <1>1
    <3>2. \A j \in Selected : j <= a => j <= b
      BY <1>4, <3>1
    <3>3. ~(b <= a) /\ b <= b
      BY <1>4, <3>1
    <3>4. \A x \in Upto(a) : x \in Upto(b)
      BY <3>2
    <3>5. b \in Upto(b) /\ b \notin Upto(a)
      BY <3>3
    <3>. QED
      BY <3>4, <3>5
  <2>2. /\ Cardinality(Upto(a)) <= Cardinality(Upto(b))
        /\ Cardinality(Upto(b)) = Cardinality(Upto(a)) => Upto(b) = Upto(a)
    BY <1>2, <2>1, FS_Subset
  <2>. QED
    BY <1>2, <2>1, <2>2
<1>0. ASSUME NEW a \in Selected, NEW b \in Selected, Rank[a] = Rank[b] PROVE a = b
  <2>1. Rank[a] \in Nat /\ a \in Nat /\ b \in Nat
    BY <1>1, <1>3
  <2>. HIDE DEF Rank
  <2>. QED
    BY <1>0, <1>4, <2>1
<1>5. Rank \in Surjection(Selected, 1 .. n)
  <2>2. Rank \in Injection(Selected, 1 .. n)
    BY <1>0, <1>3 DEF Injection, IsInjective
  <2>3. IsFiniteSet(1 .. n) /\ Cardinality(1 .. n) = n
    BY <1>1, FS_Interval
  <2>. QED
    BY <2>2, <2>3, FS_Injection
<1>6. ASSUME NEW k \in Inputs PROVE Member(k) \in Selected /\ Rank[Member(k)] = k
  <2>1. PICK x \in Selected : Rank[x] = k
    BY <1>5, <1>6 DEF Surjection, Inputs
  <2>2. Member(k) = CHOOSE m \in Selected : Cardinality(Upto(m)) = k
    BY <1>6 DEF Member, Items
  <2>3. Cardinality(Upto(x)) = k
    BY <2>1
  <2>4. Member(k) \in Selected /\ Cardinality(Upto(Member(k))) = k
    <3>. HIDE DEF Upto
    <3>. QED
      BY <2>2, <2>3
  <2>. QED
    BY <2>4
<1>7. ASSUME NEW m \in Selected PROVE \E k \in Inputs : m = Member(k)
  <2>1. Rank[m] \in Inputs
    BY <1>3 DEF Inputs
  <2>2. Rank[Member(Rank[m])] = Rank[m] /\ Member(Rank[m]) \in Selected
    BY <1>6, <2>1
  <2>3. m = Member(Rank[m])
    BY <1>0, <2>2
  <2>. HIDE DEF Rank
  <2>. QED
    BY <2>1, <2>3
<1>8. ASSUME NEW j \in Inputs, NEW k \in Inputs, j < k PROVE Member(j) < Member(k)
  <2>1. /\ Member(j) \in Selected /\ Rank[Member(j)] = j
        /\ Member(k) \in Selected /\ Rank[Member(k)] = k
    BY <1>6
  <2>2. j \in Nat /\ k \in Nat
    BY <1>1 DEF Inputs
  <2>3. Member(k) < Member(j) => k < j
    <3>. HIDE DEF Rank
    <3>. QED
      BY <1>4, <2>1
  <2>4. Member(j) \in Nat /\ Member(k) \in Nat /\ Member(j) # Member(k)
    <3>1. Member(j) \in Nat /\ Member(k) \in Nat
      BY <1>1, <2>1
    <3>2. Rank[Member(j)] # Rank[Member(k)]
      BY <1>8, <2>1, <2>2
    <3>. QED
      BY <3>1, <3>2
  <2>. QED
    BY <1>8, <2>2, <2>3, <2>4
<1>9. \A j, k \in Inputs : Member(j) = Member(k) => j = k
  BY <1>6
<1>. QED
  BY <1>6, <1>7, <1>8, <1>9

\* The largest payload, and the window the sources grant.
LEMMA WindowFacts ==
  ASSUME size \in Sizes
  PROVE  /\ Largest \in Nat \ {0} /\ \A m \in Selected : size[m] \in 0 .. Largest
         /\ Largest = 1 \/ \E m \in Selected : Largest = size[m]
         /\ LegacyWindow \in Nat \ {0} /\ LegacyWindow <= Threads
         /\ LegacyWindow <= MaxPreparationWindow
         /\ MaxPreparationWindow = IF Largest <= Quota THEN Quota \div Largest ELSE 1
<1>1. size \in [1 .. N -> Nat] /\ Selected \subseteq 1 .. N /\ Quota \in Nat
  BY PipelineAssumption DEF PipelineAssumption
<1>. DEFINE f == [m \in Selected |-> size[m]]
            S == {1} \cup {size[m] : m \in Selected}
<1>2. PICK b \in Nat : \A m \in Selected : f[m] <= b
  <2>1. f \in [Selected -> Nat]
    BY <1>1
  <2>. HIDE DEF f
  <2>. QED
    BY <2>1, WriterFacts, BoundExists
<1>3. S \in SUBSET Nat /\ S # {} /\ b + 1 \in Nat /\ \A s \in S : s <= b + 1
  BY <1>1, <1>2
<1>4. Largest \in S /\ \A s \in S : s <= Largest
  <2>1. Largest = Max(S)
    BY DEF Largest
  <2>. HIDE DEF S
  <2>. QED
    BY <1>3, <2>1, MaxExists
<1>5. /\ Largest \in Nat \ {0} /\ \A m \in Selected : size[m] \in 0 .. Largest
      /\ Largest = 1 \/ \E m \in Selected : Largest = size[m]
  BY <1>1, <1>3, <1>4
<1>6. /\ MaxPreparationWindow = IF Largest <= Quota THEN Quota \div Largest ELSE 1
      /\ MaxPreparationWindow \in Nat \ {0}
  <2>. DEFINE q == Quota \div Largest
              W == {1, q}
  <2>1. q \in Nat
    BY <1>1, <1>5, Quotients
  <2>2. q \in Int /\ q * Largest <= Quota /\ Quota < (q + 1) * Largest
    BY <1>1, <1>5, QuotientBounds
  <2>3. IF Largest <= Quota THEN q >= 1 ELSE q = 0
    <3>1. \A l \in Nat \ {0}, d \in Nat, a \in Nat : d * l <= a /\ a < l => d = 0
      BY SMTT(30)
    <3>2. \A l \in Nat \ {0}, d \in Nat, a \in Nat : a < (d + 1) * l /\ l <= a => d >= 1
      BY SMTT(30)
    <3>. HIDE DEF q
    <3>. QED
      BY <1>1, <1>5, <2>1, <2>2, <3>1, <3>2
  <2>4. W \in SUBSET Nat /\ W # {} /\ q + 1 \in Nat /\ \A w \in W : w <= q + 1
    BY <2>1
  <2>5. Max(W) \in W /\ \A w \in W : w <= Max(W)
    <3>. HIDE DEF W, q
    <3>. QED
      BY <2>4, MaxExists
  <2>6. MaxPreparationWindow = Max(W)
    BY DEF MaxPreparationWindow
  <2>7. MaxPreparationWindow \in {1, q} /\ 1 <= MaxPreparationWindow /\ q <= MaxPreparationWindow
    <3>. HIDE DEF q
    <3>. QED
      BY <2>5, <2>6
  <2>8. MaxPreparationWindow = (IF Largest <= Quota THEN q ELSE 1) /\ MaxPreparationWindow \in Nat \ {0}
    <3>. HIDE DEF q
    <3>. QED
      BY <2>1, <2>3, <2>7
  <2>. QED
    BY <2>8
<1>7. LegacyWindow \in Nat \ {0} /\ LegacyWindow <= Threads /\ LegacyWindow <= MaxPreparationWindow
  <2>. DEFINE W == {Threads, MaxPreparationWindow}
  <2>1. W \in SUBSET (Nat \ {0}) /\ W # {}
    BY <1>6, WriterFacts
  <2>2. Min(W) \in W /\ \A w \in W : Min(W) <= w
    <3>. HIDE DEF W
    <3>. QED
      BY <2>1, MinExists
  <2>3. LegacyWindow = Min(W)
    BY DEF LegacyWindow
  <2>. QED
    BY <2>1, <2>2, <2>3
<1>. QED
  BY <1>5, <1>6, <1>7
----------------------------------------------------------------------------
InputStates == {"waiting", "opened", "read", "prepared", "emitting", "written", "emitted", "failed"}

WriterTypeOK ==
  /\ writer \in Writers /\ stored \subseteq Selected
  /\ base \in Nat /\ wave \in 0 .. Threads /\ base + wave <= Cardinality(Selected)
  /\ ~Rar5 => wave <= LegacyWindow
  /\ input \in [Inputs -> InputStates]

\* Inputs are prepared wave by wave and emitted one after the other; a call
\* that has returned left none half done.
ProgressInv ==
  \A k \in Inputs :
    /\ k > base + wave => input[k] = "waiting"
    /\ k <= base => input[k] \in (IF Rar5 THEN {"prepared", "emitting", "written", "emitted", "failed"}
                                  ELSE {"emitted"})
    /\ caller # "consume" => input[k] \notin {"opened", "read", "emitting", "written"}
    /\ input[k] \in {"emitting", "written"} =>
         /\ \A j \in 1 .. k - 1 : input[j] = "emitted"
         /\ \A j \in Inputs : Rar5 \/ InWave(j) =>
              input[j] \in {"prepared", "emitting", "written", "emitted"}

\* What the decoder told the readers; nobody but the parent cancels a call
\* while its writer runs.
AnswerInv ==
  /\ caller = "consume" => ~token
  /\ error # "none" => done
  /\ done => decoder = "exited" /\ error = failure

\* The decoder stages nothing that was not asked for.
RequestInv ==
  /\ \A m \in published : m <= requested
  /\ pending <= requested
  /\ decoder \in {"write", "store"} /\ current \in Selected => current <= requested

\* The writer asks for its inputs in order.
AskedInv == \A k \in Inputs : Member(k) <= requested => k <= base + wave

\* A source keeps its lease until its input is emitted.
SourceInv ==
  \A k \in Inputs :
    /\ input[k] \in {"read", "prepared", "emitting", "written", "emitted"} => Member(k) \in published
    /\ input[k] = "emitted" => Member(k) \notin ready
    /\ caller = "consume" /\ Member(k) \in published \ ready => input[k] = "emitted"

\* The decoder has failed, or the caller has cancelled.
Troubled == failure # "none" \/ parent

\* An open is under way, has a reader, or was refused for a reason.
Answering(r, m) ==
  \/ target[r] = m /\ reader[r] \in {"blocking", "waiting", "woken", "reading"}
  \/ reader[r] = "idle" /\ Troubled

OpenInv ==
  /\ \A k \in Inputs : input[k] = "opened" => Answering(Job(k), Member(k))
  /\ \A k \in Inputs : input[k] = "emitting" /\ Member(k) \in stored => Answering(Emitter, Member(k))
  /\ (\E k \in Inputs : input[k] = "failed") => Troubled

\* Nothing behind the waves before this one has been asked for.
WaveUnasked == \A j \in Inputs : j > base => requested < Member(j)

\* Reader r is at work on input k, or returns the lease of the emitted one.
WorksFor(r, k) ==
  /\ target[r] = Member(k)
  /\ \/ input[k] \in {"opened", "read"} /\ r = Job(k)
     \/ input[k] \in {"emitting", "written"} /\ r = Emitter
     \/ input[k] = "emitted" /\ reader[r] = "releasing" /\ (Rar5 \/ InWave(k) \/ WaveUnasked)

\* A reader that is not idle works for an input.
OwnerInv == \A r \in Readers : reader[r] # "idle" => \E k \in Inputs : WorksFor(r, k)

InputInv == ProgressInv /\ AskedInv /\ SourceInv /\ OpenInv /\ OwnerInv

CallInv == PipelineInv /\ EndInv /\ AnswerInv /\ RequestInv

RewriteInv == WriterTypeOK /\ CallInv /\ InputInv /\ LegacyWindowsFit
----------------------------------------------------------------------------
(* A writer is a consumer as the pipeline allows it.                       *)

LEMMA JobIsReader ==
  ASSUME WriterTypeOK, NEW k \in Inputs, InWave(k)
  PROVE  Job(k) \in Readers
<1>1. k \in Nat /\ base \in Nat /\ wave \in 0 .. Threads /\ Threads \in Nat
  BY WriterFacts DEF Inputs, WriterTypeOK
<1>. QED
  BY <1>1, WriterFacts DEF InWave, Job

LEMMA StepShape ==
  ASSUME WriterTypeOK, RewriteNext
  PROVE  [PipelineNext]_pipelineVars
<1>. SUFFICES ASSUME ~UNCHANGED pipelineVars PROVE PipelineNext
  OBVIOUS
<1>1. ASSUME NEW k \in Inputs, Prepare(k) \/ Consumed(k) \/ Prepared(k) \/ Emit(k) \/ CloseEmitted(k)
                                 \/ ReleaseEmitted(k) \/ Refused(k)
      PROVE  PipelineNext
  <2>1. Member(k) \in Selected /\ Emitter \in Readers
    BY InputOrder, WriterFacts
  <2>2. CASE Prepare(k)
    BY <2>1, <2>2, JobIsReader DEF Prepare, PipelineNext, ReaderNext
  <2>3. CASE Consumed(k)
    BY <2>1, <2>3, JobIsReader DEF Consumed, PipelineNext, ReaderNext
  <2>4. CASE Prepared(k)
    BY <2>1, <2>4, JobIsReader DEF Prepared, PipelineNext, ReaderNext
  <2>5. CASE Emit(k)
    BY <2>1, <2>5 DEF Emit, PipelineNext, ReaderNext
  <2>6. CASE CloseEmitted(k)
    BY <2>1, <2>6 DEF CloseEmitted, PipelineNext, ReaderNext
  <2>7. CASE ReleaseEmitted(k)
    BY <2>1, <2>7 DEF ReleaseEmitted, PipelineNext, ReaderNext
  <2>8. CASE Refused(k)
    BY <2>8 DEF Refused
  <2>. QED
    BY <1>1, <2>2, <2>3, <2>4, <2>5, <2>6, <2>7, <2>8
<1>2. CASE NextWave
  BY <1>2 DEF NextWave
<1>3. CASE WriterReturns
  BY <1>3 DEF WriterReturns, PipelineNext, CallerNext
<1>4. CASE Surroundings
  BY <1>4 DEF Surroundings, PipelineNext, ReaderNext
<1>. QED
  BY <1>1, <1>2, <1>3, <1>4 DEF RewriteNext, WriterNext

\* A step of the decoder, as the writer sees it.
LEMMA DecoderFacts ==
  ASSUME PipelineInv, DecoderNext
  PROVE  /\ UNCHANGED <<size, parent, token, requested, callerVars, target>>
         /\ reader' = reader \/ reader' = Notified
         /\ \/ published' = published /\ ready' = ready
            \/ /\ pending \in Selected /\ pending \notin published /\ pending' = 0
               /\ published' = published \cup {pending} /\ ready' = ready \cup {pending}
         /\ failure # "none" => failure' # "none"
<1>. USE DEF tokenVars, stateVars, readerVars
<1>1. CASE Publish
  <2>1. pending \in Selected /\ pending \notin published
    BY <1>1 DEF Publish, PipelineInv, PipelineTypeOK, DecoderInv
  <2>. QED
    BY <1>1, <2>1 DEF Publish, NotifyAll
<1>2. ASSUME NEW e \in {"limit", "decode", "panic", "cancelled"}, Fail(e)
      PROVE  UNCHANGED <<size, parent, token, requested, callerVars, target, reader, published, ready>>
             /\ failure' # "none"
  BY <1>2 DEF Fail
<1>3. CASE RefuseSelection \/ OverLimit \/ Interrupted \/ DecodeError \/ StoreError
  BY <1>2, <1>3 DEF RefuseSelection, OverLimit, Interrupted, DecodeError, StoreError
<1>4. CASE Start \/ MayPublish \/ Decide \/ Demanded \/ Reserve \/ Store \/ Verified
  BY <1>4 DEF Start, MayPublish, Decide, Demanded, Reserve, Store, Verified
<1>5. CASE Finish
  BY <1>5 DEF Finish, NotifyAll
<1>. QED
  BY <1>1, <1>3, <1>4, <1>5 DEF DecoderNext

\* A step of the calling thread behind consume.
LEMMA CallerFacts ==
  ASSUME CallerNext, caller # "consume"
  PROVE  /\ UNCHANGED <<size, parent, requested, published, error, done, decoderVars, target>>
         /\ reader' = reader \/ reader' = Notified
         /\ ready' \subseteq ready /\ caller' # "consume"
<1>. USE DEF tokenVars, stateVars, decoderVars, readerVars
<1>1. CASE Judge \/ Join
  BY <1>1 DEF Judge, Join
<1>2. CASE StopDecoder \/ NotifyDecoder \/ GuardCancels \/ GuardLocks \/ GuardNotifies
  BY <1>2 DEF StopDecoder, NotifyDecoder, GuardCancels, GuardLocks, GuardNotifies, NotifyAll
<1>3. CASE GuardClears
  BY <1>3 DEF GuardClears
<1>. QED
  BY <1>1, <1>2, <1>3 DEF CallerNext, ConsumeReturns

LEMMA ReturnFacts ==
  ASSUME ConsumeReturns
  PROVE  /\ UNCHANGED <<tokenVars, stateVars, diskVars, decoderVars, readerVars>>
         /\ caller' # "consume" /\ \A r \in Readers : reader[r] \in {"idle", "reading"}
BY DEF ConsumeReturns

\* A step of a reader.
LEMMA ReaderFacts ==
  ASSUME NEW r \in Readers, ReaderNext(r)
  PROVE  /\ UNCHANGED <<tokenVars, published, error, done, decoderVars, callerVars>>
         /\ ready' \subseteq ready
BY DEF ReaderNext, ReaderProceeds, Open, Release, Close, Sleep, LookAgain, DropLease, stateVars

LEMMA SizeIsFixed ==
  ASSUME [PipelineNext]_pipelineVars
  PROVE  size' = size
<1>1. CASE CallerNext
  <2>1. CASE ConsumeReturns
    BY <2>1 DEF ConsumeReturns, tokenVars
  <2>2. CASE caller # "consume"
    BY <1>1, <2>2, CallerFacts
  <2>. QED
    BY <1>1, <2>1, <2>2 DEF CallerNext, Judge, StopDecoder, NotifyDecoder, Join, GuardCancels,
                            GuardLocks, GuardClears, GuardNotifies
<1>2. CASE DecoderNext
  BY <1>2 DEF DecoderNext, Start, RefuseSelection, MayPublish, Publish, Decide, Demanded, Reserve,
              OverLimit, Store, Verified, Interrupted, DecodeError, StoreError, Finish, Fail, tokenVars
<1>3. ASSUME NEW r \in Readers, ReaderNext(r) PROVE size' = size
  BY <1>3, ReaderFacts DEF tokenVars
<1>. QED
  BY <1>1, <1>2, <1>3 DEF PipelineNext, CancelParent, Ended, pipelineVars, tokenVars

\* Waves are as wide as there are threads, legacy ones as the sources grant.
LEMMA WriterTypeStep ==
  ASSUME WriterTypeOK, size \in Sizes, RewriteNext
  PROVE  WriterTypeOK'
<1>1. size' = size
  BY StepShape, SizeIsFixed
<1>2. LegacyWindow' = LegacyWindow
  BY <1>1 DEF LegacyWindow, MaxPreparationWindow, Largest
<1>3. CASE NextWave
  <2>. DEFINE left == Cardinality(Selected) - (base + wave)
              W == {Threads, left}
              V == {LegacyWindow, left}
  <2>1. left \in Nat \ {0} /\ base' = base + wave /\ UNCHANGED <<writer, stored, input>>
    BY <1>3, WriterFacts DEF NextWave, WriterTypeOK
  <2>2. /\ Threads \in Nat \ {0} /\ Cardinality(Selected) \in Nat
        /\ LegacyWindow \in Nat \ {0} /\ LegacyWindow <= Threads
    BY WriterFacts, WindowFacts
  <2>3. Min(W) \in W /\ \A w \in W : Min(W) <= w
    <3>1. W \in SUBSET Nat /\ W # {}
      BY <2>1, <2>2
    <3>. HIDE DEF W
    <3>. QED
      BY <3>1, MinExists
  <2>4. Min(V) \in V /\ \A w \in V : Min(V) <= w
    <3>1. V \in SUBSET Nat /\ V # {}
      BY <2>1, <2>2
    <3>. HIDE DEF V
    <3>. QED
      BY <3>1, MinExists
  <2>5. wave' \in IF Rar5 THEN 1 .. Min(W) ELSE {Min(V)}
    BY <1>2, <1>3, <2>1 DEF NextWave, WaveSizes, Remaining, Rar5
  <2>6. wave' \in 0 .. Threads /\ wave' <= left /\ (~Rar5 => wave' <= LegacyWindow)
    <3>. HIDE DEF left
    <3>. QED
      BY <2>1, <2>2, <2>3, <2>4, <2>5
  <2>. QED
    BY <1>2, <2>1, <2>2, <2>6 DEF WriterTypeOK, Rar5
<1>4. ASSUME NEW k \in Inputs, NEW n \in InputStates, Move(k, n), UNCHANGED fixed PROVE WriterTypeOK'
  BY <1>2, <1>4 DEF Move, fixed, WriterTypeOK, Rar5
<1>5. ASSUME UNCHANGED writerVars PROVE WriterTypeOK'
  BY <1>2, <1>5 DEF writerVars, WriterTypeOK, Rar5
<1>6. ASSUME NEW k \in Inputs, Prepare(k) \/ Consumed(k) \/ Prepared(k) \/ Emit(k) \/ CloseEmitted(k)
                                 \/ ReleaseEmitted(k) \/ Refused(k)
      PROVE  \E n \in InputStates : Move(k, n) /\ UNCHANGED fixed
  BY <1>6 DEF Prepare, Consumed, Prepared, Emit, CloseEmitted, ReleaseEmitted, Refused, InputStates
<1>. QED
  BY <1>3, <1>4, <1>5, <1>6 DEF RewriteNext, WriterNext, WriterReturns, Surroundings
----------------------------------------------------------------------------
(* What the call adds to the pipeline's invariant.                         *)

LEMMA AnswerStep ==
  ASSUME AnswerInv, [PipelineNext]_pipelineVars
  PROVE  AnswerInv'
<1>. USE DEF AnswerInv, tokenVars, stateVars, decoderVars, callerVars
<1>1. CASE DecoderNext
  <2>1. decoder # "exited"
    BY <1>1 DEF DecoderNext, Start, RefuseSelection, MayPublish, Publish, Decide, Demanded, Reserve,
                OverLimit, Store, Verified, Interrupted, DecodeError, StoreError, Finish
  <2>2. CASE Finish
    BY <2>2 DEF Finish
  <2>3. CASE ~Finish
    <3>1. UNCHANGED <<token, error, done, caller>>
      BY <1>1, <2>3 DEF DecoderNext, Start, RefuseSelection, MayPublish, Publish, Decide, Demanded,
               Reserve, OverLimit, Store, Verified, Interrupted, DecodeError, StoreError, Fail
    <3>. QED
      BY <2>1, <3>1
  <2>. QED
    BY <2>2, <2>3
<1>2. CASE CallerNext
  <2>1. CASE ConsumeReturns
    BY <2>1 DEF ConsumeReturns
  <2>2. CASE caller # "consume"
    BY <1>2, <2>2, CallerFacts
  <2>. QED
    BY <1>2, <2>1, <2>2 DEF CallerNext, Judge, StopDecoder, NotifyDecoder, Join, GuardCancels,
                            GuardLocks, GuardClears, GuardNotifies
<1>3. ASSUME NEW r \in Readers, ReaderNext(r) PROVE AnswerInv'
  BY <1>3, ReaderFacts
<1>. QED
  BY <1>1, <1>2, <1>3 DEF PipelineNext, CancelParent, Ended, pipelineVars

\* Max({requested, m}).
LEMMA RequestedMax ==
  ASSUME PipelineTypeOK, NEW m \in Selected
  PROVE  /\ requested \in Nat /\ m \in Nat
         /\ Max({requested, m}) = IF requested <= m THEN m ELSE requested
<1>1. requested \in Nat /\ m \in Nat /\ requested <= N /\ m <= N /\ N \in Nat
  BY Members DEF PipelineTypeOK
<1>. DEFINE S == {requested, m}
<1>2. S \in SUBSET Nat /\ S # {} /\ \A x \in S : x <= N
  BY <1>1
<1>3. Max(S) \in S /\ \A x \in S : x <= Max(S)
  <2>. HIDE DEF S
  <2>. QED
    BY <1>1, <1>2, MaxExists
<1>. QED
  BY <1>1, <1>3

LEMMA RequestStep ==
  ASSUME PipelineInv, RequestInv, [PipelineNext]_pipelineVars
  PROVE  RequestInv'
<1>. USE DEF RequestInv, tokenVars, stateVars, decoderVars
<1>0. /\ requested \in Nat /\ published \subseteq Nat /\ pending \in Nat /\ current \in Nat
      /\ Selected \subseteq Nat /\ published \subseteq Selected
  BY Members DEF PipelineInv, PipelineTypeOK
<1>1. CASE DecoderNext
  <2>1. CASE Demanded
    <3>1. ASSUME current \in Selected PROVE current <= requested
      <4>. DEFINE S == {m \in Selected : m >= current}
      <4>0. current >= current
        BY <1>0
      <4>1. S \in SUBSET Nat /\ current \in S
        BY <1>0, <3>1, <4>0
      <4>2. Min(S) \in S /\ \A x \in S : Min(S) <= x
        <5>. HIDE DEF S
        <5>. QED
          BY <4>1, MinExists
      <4>3. NextRetained = current
        BY <1>0, <4>1, <4>2 DEF NextRetained
      <4>. QED
        BY <2>1, <4>3 DEF Demanded
    <3>. QED
      BY <2>1, <3>1 DEF Demanded
  <2>2. CASE Publish
    BY <1>0, <2>2 DEF Publish
  <2>3. CASE Verified
    BY <1>0, <2>3 DEF Verified
  <2>4. CASE Reserve \/ Store
    BY <2>4 DEF Reserve, Store
  <2>5. CASE Start \/ MayPublish \/ Decide \/ Finish
    BY <2>5 DEF Start, MayPublish, Decide, Stop, Skip, Need, Finish
  <2>6. ASSUME NEW e \in {"limit", "decode", "panic", "cancelled"}, Fail(e) PROVE RequestInv'
    BY <2>6 DEF Fail
  <2>7. CASE RefuseSelection \/ OverLimit \/ Interrupted \/ DecodeError \/ StoreError
    BY <2>6, <2>7 DEF RefuseSelection, OverLimit, Interrupted, DecodeError, StoreError
  <2>. QED
    BY <1>1, <2>1, <2>2, <2>3, <2>4, <2>5, <2>7 DEF DecoderNext
<1>2. CASE CallerNext
  <2>1. CASE ConsumeReturns
    BY <2>1, ReturnFacts
  <2>2. CASE caller # "consume"
    BY <1>2, <2>2, CallerFacts
  <2>. QED
    BY <1>2, <2>1, <2>2 DEF CallerNext, Judge, StopDecoder, NotifyDecoder, Join, GuardCancels,
                            GuardLocks, GuardClears, GuardNotifies
<1>3. ASSUME NEW r \in Readers, ReaderNext(r) PROVE RequestInv'
  <2>1. UNCHANGED <<published, decoderVars>>
    BY <1>3, ReaderFacts
  <2>2. requested' \in Nat /\ requested <= requested'
    <3>1. ASSUME NEW m \in Selected, Open(r, m) PROVE requested' \in Nat /\ requested <= requested'
      BY <3>1, RequestedMax DEF Open, PipelineInv
    <3>2. CASE requested' = requested
      BY <1>0, <3>2
    <3>. QED
      BY <1>3, <3>1, <3>2 DEF ReaderNext, ReaderProceeds, Release, Close, Sleep, LookAgain, DropLease
  <2>. QED
    BY <1>0, <2>1, <2>2
<1>. QED
  BY <1>1, <1>2, <1>3 DEF PipelineNext, CancelParent, Ended, pipelineVars

LEMMA CallStep ==
  ASSUME CallInv, [PipelineNext]_pipelineVars
  PROVE  CallInv'
BY PipelineStep, EndStep, AnswerStep, RequestStep DEF CallInv
----------------------------------------------------------------------------
(* What happens to the inputs.                                             *)

\* The selected member behind an input that is not emitted is refused only when
\* there is trouble: its lease is still there.
LEMMA RefusedInTrouble ==
  ASSUME CallInv, SourceInv, caller = "consume",
         NEW k \in Inputs, input[k] # "emitted", Look(Member(k)) = "idle"
  PROVE  Troubled
<1>1. Member(k) \in Selected
  BY InputOrder
<1>2. CASE error # "none"
  BY <1>2 DEF CallInv, AnswerInv, Troubled
<1>3. CASE Cancelled
  BY <1>3 DEF CallInv, AnswerInv, Troubled, Cancelled
<1>4. CASE ~(error # "none") /\ ~Cancelled
  <2>1. Member(k) \notin ready /\ (Member(k) \in published \/ done)
    BY <1>4 DEF Look
  <2>2. Member(k) \notin published
    BY <2>1 DEF SourceInv
  <2>3. decoder = "exited" /\ failure = error
    BY <2>1, <2>2 DEF CallInv, AnswerInv
  <2>4. failure # "none"
    BY <1>1, <2>2, <2>3 DEF CallInv, EndInv, StagedInv
  <2>. QED
    BY <2>4 DEF Troubled
<1>. QED
  BY <1>2, <1>3, <1>4

\* While an input is emitted, no other is at work.
LEMMA Alone ==
  ASSUME ProgressInv, NEW k \in Inputs,
         \/ InWave(k) /\ input[k] \in {"waiting", "opened", "read"}
         \/ input[k] \in {"emitting", "written"}
         \/ input[k] = "prepared" /\ EmissionOpen(k)
  PROVE  \A j \in Inputs : j # k => input[j] \notin {"emitting", "written"}
<1>1. \A j \in Inputs : j \in Nat
  BY WriterFacts DEF Inputs
<1>2. SUFFICES ASSUME NEW j \in Inputs, j # k, input[j] \in {"emitting", "written"} PROVE FALSE
  OBVIOUS
<1>3. /\ \A i \in 1 .. j - 1 : input[i] = "emitted"
      /\ \A i \in Inputs : Rar5 \/ InWave(i) => input[i] \in {"prepared", "emitting", "written", "emitted"}
  BY <1>2 DEF ProgressInv
<1>4. CASE k < j
  <2>1. k \in 1 .. j - 1
    BY <1>1, <1>4 DEF Inputs
  <2>. QED
    BY <1>3, <2>1
<1>5. CASE j < k
  <2>1. j \in 1 .. k - 1
    BY <1>1, <1>5 DEF Inputs
  <2>2. CASE input[k] \in {"emitting", "written"}
    BY <1>2, <2>1, <2>2 DEF ProgressInv
  <2>3. CASE EmissionOpen(k)
    BY <1>2, <2>1, <2>3 DEF EmissionOpen
  <2>. QED
    BY <1>3, <2>2, <2>3
<1>. QED
  BY <1>1, <1>2, <1>4, <1>5

\* One input takes a step of its own.
LEMMA ProgressMove ==
  ASSUME WriterTypeOK, ProgressInv, UNCHANGED <<writer, base, wave, caller>>,
         NEW k \in Inputs, NEW n \in InputStates, Move(k, n), k <= base + wave, input[k] # "emitted",
         k <= base => n \in (IF Rar5 THEN {"prepared", "emitting", "written", "emitted", "failed"}
                             ELSE {"emitted"}),
         caller = "consume" \/ n \notin {"opened", "read", "emitting", "written"},
         n \in {"emitting", "written"} =>
           /\ \A j \in 1 .. k - 1 : input[j] = "emitted"
           /\ \A j \in Inputs : Rar5 \/ InWave(j) =>
                input[j] \in {"prepared", "emitting", "written", "emitted"},
         \A j \in Inputs : j # k => input[j] \notin {"emitting", "written"}
  PROVE  ProgressInv'
<1>1. input'[k] = n /\ \A j \in Inputs \ {k} : input'[j] = input[j]
  BY DEF Move, WriterTypeOK
<1>2. \A j \in Inputs : j \in Nat
  BY WriterFacts DEF Inputs
<1>3. base \in Nat /\ wave \in Nat
  BY WriterFacts DEF WriterTypeOK
<1>4. SUFFICES ASSUME NEW j \in Inputs
               PROVE  /\ j > base + wave => input'[j] = "waiting"
                      /\ j <= base => input'[j] \in (IF Rar5 THEN {"prepared", "emitting", "written", "emitted", "failed"}
                                                    ELSE {"emitted"})
                      /\ caller # "consume" => input'[j] \notin {"opened", "read", "emitting", "written"}
                      /\ input'[j] \in {"emitting", "written"} =>
                           /\ \A i \in 1 .. j - 1 : input'[i] = "emitted"
                           /\ \A i \in Inputs : Rar5 \/ InWave(i) =>
                                input'[i] \in {"prepared", "emitting", "written", "emitted"}
  BY DEF ProgressInv, Rar5, InWave
<1>5. CASE j # k
  BY <1>1, <1>5 DEF ProgressInv
<1>6. CASE j = k
  <2>1. ASSUME n \in {"emitting", "written"}
        PROVE  /\ \A i \in 1 .. k - 1 : input'[i] = "emitted"
               /\ \A i \in Inputs : Rar5 \/ InWave(i) =>
                    input'[i] \in {"prepared", "emitting", "written", "emitted"}
    <3>1. \A i \in 1 .. k - 1 : i \in Inputs \ {k}
      BY <1>2, WriterFacts DEF Inputs
    <3>. QED
      BY <1>1, <2>1, <3>1
  <2>2. ~(k > base + wave)
    BY <1>2, <1>3
  <2>. QED
    BY <1>1, <1>6, <2>1, <2>2
<1>. QED
  BY <1>5, <1>6
----------------------------------------------------------------------------
(* What a step of one reader does to it and to the others.                 *)

\* Reader s is as it was, or has been notified.
Stays(s) ==
  /\ target'[s] = target[s]
  /\ reader'[s] = reader[s] \/ (reader[s] = "waiting" /\ reader'[s] = "woken")

LEMMA NotifiedStay ==
  ASSUME PipelineTypeOK, target' = target, reader' = reader \/ reader' = Notified
  PROVE  \A s \in Readers : Stays(s)
<1>1. \A s \in Readers : Notified[s] = IF reader[s] = "waiting" THEN "woken" ELSE reader[s]
  BY NotifiedFacts
<1>. QED
  BY <1>1 DEF Stays

LEMMA OpenShape ==
  ASSUME PipelineTypeOK, NEW r \in Readers, NEW m \in Selected, Open(r, m)
  PROVE  /\ UNCHANGED <<tokenVars, ready, published, error, done, decoderVars, callerVars>>
         /\ requested' = Max({requested, m}) /\ reader[r] = "idle"
         /\ \A s \in Readers : reader[s] # "releasing"
         /\ \A s \in Readers \ {r} : Stays(s)
         /\ reader'[r] = Look(m) /\ (Look(m) # "idle" => target'[r] = m)
         /\ Look(m) \in {"idle", "reading", "blocking"}
<1>1. /\ Notified \in [Readers -> ReaderStates] /\ target \in [Readers -> {0} \cup Selected]
      /\ \A s \in Readers : Notified[s] = IF reader[s] = "waiting" THEN "woken" ELSE reader[s]
  BY NotifiedFacts DEF PipelineTypeOK
<1>. QED
  BY <1>1, LookResult DEF Open, Unlocked, Aimed, Stays

LEMMA CloseShape ==
  ASSUME PipelineTypeOK, NEW r \in Readers, Close(r)
  PROVE  /\ UNCHANGED <<tokenVars, stateVars, decoderVars, callerVars>>
         /\ \A s \in Readers \ {r} : Stays(s)
         /\ reader'[r] = "idle" \/ (reader'[r] = "closing" /\ target'[r] = target[r])
BY DEF Close, PipelineTypeOK, Aimed, Stays

LEMMA ReleaseShape ==
  ASSUME PipelineTypeOK, NEW r \in Readers, NEW m \in Selected, Release(r, m)
  PROVE  /\ UNCHANGED <<tokenVars, requested, published, error, done, decoderVars, callerVars>>
         /\ ready' = ready \ {m} /\ reader[r] = "idle"
         /\ \A s \in Readers \ {r} : Stays(s)
         /\ reader'[r] = "idle" \/ (reader'[r] = "releasing" /\ target'[r] = m)
<1>1. \A s \in Readers : Notified[s] = IF reader[s] = "waiting" THEN "woken" ELSE reader[s]
  BY NotifiedFacts
<1>2. CASE Holding(m) = {}
  BY <1>2 DEF Release, PipelineTypeOK, Stays
<1>3. CASE Holding(m) # {}
  BY <1>1, <1>3 DEF Release, NotifyAll, Stays
<1>. QED
  BY <1>2, <1>3

LEMMA ProceedShape ==
  ASSUME PipelineTypeOK, NEW r \in Readers, ReaderProceeds(r)
  PROVE  /\ UNCHANGED <<tokenVars, stateVars, decoderVars, callerVars>>
         /\ \A s \in Readers \ {r} : Stays(s)
         /\ \/ reader[r] = "blocking" /\ reader'[r] = "waiting" /\ target'[r] = target[r]
            \/ /\ reader[r] = "woken" /\ reader'[r] = Look(target[r])
               /\ Look(target[r]) # "idle" => target'[r] = target[r]
               /\ Look(target[r]) \in {"idle", "reading", "blocking"}
            \/ reader[r] \in {"closing", "releasing"} /\ reader'[r] = "idle"
<1>1. /\ Notified \in [Readers -> ReaderStates]
      /\ \A s \in Readers : Notified[s] = IF reader[s] = "waiting" THEN "woken" ELSE reader[s]
  BY NotifiedFacts
<1>2. CASE Sleep(r)
  BY <1>2 DEF Sleep, PipelineTypeOK, Stays
<1>3. CASE LookAgain(r)
  BY <1>3 DEF LookAgain, PipelineTypeOK, Aimed, Look, Stays
<1>4. CASE DropLease(r)
  BY <1>1, <1>4 DEF DropLease, PipelineTypeOK, Aimed, Stays, ReaderStates
<1>. QED
  BY <1>2, <1>3, <1>4 DEF ReaderProceeds

\* An input that is half done belongs to the wave, or is the one at the emitter.
LEMMA HalfDone ==
  ASSUME WriterTypeOK, ProgressInv, NEW k \in Inputs
  PROVE  /\ input[k] \in {"opened", "read"} =>
              InWave(k) /\ Job(k) \in Readers /\ caller = "consume"
         /\ input[k] \in {"emitting", "written"} => caller = "consume" /\ k <= base + wave
         /\ input[k] # "waiting" => k <= base + wave
         /\ ~Rar5 /\ input[k] \notin {"waiting", "emitted"} => InWave(k)
<1>1. k \in Nat /\ base \in Nat /\ wave \in Nat
  BY WriterFacts DEF Inputs, WriterTypeOK
<1>2. input[k] # "waiting" => k <= base + wave
  BY <1>1 DEF ProgressInv
<1>3. input[k] \in {"opened", "read"} => ~(k <= base)
  BY DEF ProgressInv
<1>4. ~Rar5 /\ input[k] \notin {"waiting", "emitted"} => ~(k <= base)
  BY DEF ProgressInv
<1>5. ~(k <= base) /\ k <= base + wave => InWave(k)
  BY <1>1 DEF InWave
<1>. QED
  BY <1>2, <1>3, <1>4, <1>5, JobIsReader DEF ProgressInv
----------------------------------------------------------------------------
(* Steps around the writer.                                                *)

\* A step that leaves the readers where they are, and takes no lease out of the
\* map while the writer runs.
LEMMA Undisturbed ==
  ASSUME WriterTypeOK, CallInv, InputInv, UNCHANGED <<writerVars, requested>>,
         \A s \in Readers : Stays(s),
         \/ published' = published /\ ready' \subseteq ready /\ (caller = "consume" => ready' = ready)
         \/ /\ pending \notin published
            /\ published' = published \cup {pending} /\ ready' = ready \cup {pending},
         caller' = "consume" <=> caller = "consume",
         Troubled => Troubled'
  PROVE  InputInv'
<1>. USE DEF writerVars, Member
<1>1. ProgressInv'
  BY DEF InputInv, ProgressInv, Rar5, InWave
<1>2. AskedInv'
  BY DEF InputInv, AskedInv
<1>3. SourceInv'
  <2>1. \A k \in Inputs : input[k] \in {"read", "prepared", "emitting", "written", "emitted"} =>
          Member(k) \in published
    BY DEF InputInv, SourceInv
  <2>. QED
    BY <2>1 DEF InputInv, SourceInv
<1>4. ASSUME NEW r \in Readers, NEW m, Answering(r, m) PROVE Answering(r, m)'
  BY <1>4 DEF Answering, Stays
<1>5. OpenInv'
  <2>1. \A k \in Inputs : input[k] = "opened" => Job(k) \in Readers
    BY HalfDone DEF InputInv
  <2>2. ASSUME NEW k \in Inputs, input[k] = "opened" PROVE Answering(Job(k), Member(k))'
    BY <1>4, <2>1, <2>2 DEF InputInv, OpenInv, Job, Answering
  <2>3. ASSUME NEW k \in Inputs, input[k] = "emitting", Member(k) \in stored
        PROVE  Answering(Emitter, Member(k))'
    BY <1>4, <2>3, WriterFacts DEF InputInv, OpenInv, Answering
  <2>. QED
    BY <2>2, <2>3 DEF InputInv, OpenInv
<1>6. OwnerInv'
  <2>. SUFFICES ASSUME NEW r \in Readers, reader'[r] # "idle"
                PROVE  \E k \in Inputs :
                         /\ target'[r] = Member(k)
                         /\ \/ input[k] \in {"opened", "read"} /\ r = Job(k)
                            \/ input[k] \in {"emitting", "written"} /\ r = Emitter
                            \/ /\ input[k] = "emitted" /\ reader'[r] = "releasing"
                               /\ Rar5 \/ InWave(k) \/ WaveUnasked
    BY DEF OwnerInv, WorksFor, Job, Rar5, InWave, WaveUnasked, Emitter
  <2>1. Stays(r) /\ reader[r] # "idle"
    BY DEF Stays
  <2>. QED
    BY <2>1 DEF InputInv, OwnerInv, WorksFor, Stays
<1>. QED
  BY <1>1, <1>2, <1>3, <1>5, <1>6 DEF InputInv

LEMMA ProceedInputs ==
  ASSUME WriterTypeOK, CallInv, InputInv, UNCHANGED writerVars,
         NEW r \in Readers, ReaderProceeds(r)
  PROVE  InputInv'
<1>. USE DEF writerVars, Member
<1>0. PipelineTypeOK
  BY DEF CallInv, PipelineInv
<1>1. /\ UNCHANGED <<tokenVars, stateVars, decoderVars, callerVars>>
      /\ \A s \in Readers \ {r} : Stays(s)
      /\ \/ reader[r] = "blocking" /\ reader'[r] = "waiting" /\ target'[r] = target[r]
         \/ /\ reader[r] = "woken" /\ reader'[r] = Look(target[r])
            /\ Look(target[r]) # "idle" => target'[r] = target[r]
            /\ Look(target[r]) \in {"idle", "reading", "blocking"}
         \/ reader[r] \in {"closing", "releasing"} /\ reader'[r] = "idle"
  BY <1>0, ProceedShape
<1>2. UNCHANGED <<requested, ready, published, caller, failure, parent>>
  BY <1>1 DEF tokenVars, stateVars, decoderVars, callerVars
<1>3. ProgressInv' /\ AskedInv' /\ SourceInv'
  BY <1>2 DEF InputInv, ProgressInv, AskedInv, SourceInv, Rar5, InWave
<1>4. Troubled' <=> Troubled
  BY <1>2 DEF Troubled
<1>5. ASSUME NEW k \in Inputs, input[k] # "emitted", caller = "consume", NEW s \in Readers,
             Answering(s, Member(k))
      PROVE  Answering(s, Member(k))'
  <2>1. CASE s # r
    BY <1>1, <1>4, <1>5, <2>1 DEF Answering, Stays
  <2>2. CASE s = r
    <3>1. Look(Member(k)) = "idle" => Troubled
      BY <1>5, RefusedInTrouble DEF InputInv
    <3>. QED
      BY <1>1, <1>4, <1>5, <2>2, <3>1 DEF Answering
  <2>. QED
    BY <2>1, <2>2
<1>6. OpenInv'
  <2>1. ASSUME NEW k \in Inputs, input[k] = "opened" PROVE Answering(Job(k), Member(k))'
    <3>1. Job(k) \in Readers /\ caller = "consume" /\ Answering(Job(k), Member(k))
      BY <2>1, HalfDone DEF InputInv, OpenInv
    <3>. QED
      BY <1>5, <2>1, <3>1 DEF Answering, Job
  <2>2. ASSUME NEW k \in Inputs, input[k] = "emitting", Member(k) \in stored
        PROVE  Answering(Emitter, Member(k))'
    <3>1. Emitter \in Readers /\ caller = "consume" /\ Answering(Emitter, Member(k))
      BY <2>2, HalfDone, WriterFacts DEF InputInv, OpenInv
    <3>. QED
      BY <1>5, <2>2, <3>1
  <2>. QED
    BY <1>4, <2>1, <2>2 DEF InputInv, OpenInv
<1>7. OwnerInv'
  <2>. SUFFICES ASSUME NEW s \in Readers, reader'[s] # "idle"
                PROVE  \E k \in Inputs :
                         /\ target'[s] = Member(k)
                         /\ \/ input[k] \in {"opened", "read"} /\ s = Job(k)
                            \/ input[k] \in {"emitting", "written"} /\ s = Emitter
                            \/ /\ input[k] = "emitted" /\ reader'[s] = "releasing"
                               /\ Rar5 \/ InWave(k) \/ WaveUnasked
    BY <1>2 DEF OwnerInv, WorksFor, Job, Rar5, InWave, WaveUnasked, Emitter
  <2>1. /\ reader[s] # "idle" /\ target'[s] = target[s]
        /\ reader[s] = "releasing" => reader'[s] = "releasing"
    BY <1>1 DEF Stays
  <2>. QED
    BY <2>1 DEF InputInv, OwnerInv, WorksFor
<1>. QED
  BY <1>3, <1>6, <1>7 DEF InputInv

LEMMA SurroundingsInputs ==
  ASSUME WriterTypeOK, CallInv, InputInv, Surroundings
  PROVE  InputInv'
<1>. USE DEF tokenVars, stateVars, decoderVars, callerVars, readerVars
<1>0. PipelineInv /\ PipelineTypeOK
  BY DEF CallInv, PipelineInv
<1>1. UNCHANGED writerVars
  BY DEF Surroundings
<1>2. CASE CancelParent
  <2>1. /\ UNCHANGED <<requested, ready, published, caller, reader, target>>
        /\ Troubled => Troubled'
    BY <1>2 DEF CancelParent, Troubled
  <2>2. \A s \in Readers : Stays(s)
    BY <2>1 DEF Stays
  <2>. QED
    BY <1>1, <2>1, <2>2, Undisturbed
<1>3. CASE DecoderNext
  <2>1. UNCHANGED <<requested, caller>> /\ (Troubled => Troubled') /\ \A s \in Readers : Stays(s)
    BY <1>0, <1>3, DecoderFacts, NotifiedStay DEF Troubled
  <2>. QED
    BY <1>0, <1>1, <1>3, <2>1, DecoderFacts, Undisturbed
<1>4. CASE CallerNext /\ caller # "consume"
  <2>1. UNCHANGED requested /\ (Troubled => Troubled') /\ \A s \in Readers : Stays(s)
    BY <1>0, <1>4, CallerFacts, NotifiedStay DEF Troubled
  <2>2. published' = published /\ ready' \subseteq ready /\ caller' # "consume"
    BY <1>4, CallerFacts
  <2>. QED
    BY <1>1, <1>4, <2>1, <2>2, Undisturbed
<1>5. CASE Ended
  <2>1. UNCHANGED <<requested, ready, published, caller, reader, target>> /\ (Troubled => Troubled')
    BY <1>5 DEF Ended, pipelineVars, Troubled
  <2>2. \A s \in Readers : Stays(s)
    BY <2>1 DEF Stays
  <2>. QED
    BY <1>1, <2>1, <2>2, Undisturbed
<1>. QED
  BY <1>1, <1>2, <1>3, <1>4, <1>5, ProceedInputs DEF Surroundings
----------------------------------------------------------------------------
(* Steps of the writer.                                                    *)

\* A wave is over: nothing is half done, and the next wave is not asked for.
LEMMA NextWaveInputs ==
  ASSUME WriterTypeOK, WriterTypeOK', CallInv, InputInv, NextWave
  PROVE  InputInv'
<1>. USE DEF pipelineVars, tokenVars, stateVars, decoderVars, callerVars, readerVars, Member
<1>1. /\ UNCHANGED <<writer, stored, input, requested, ready, published, caller, reader, target,
                    failure, parent>>
      /\ base' = base + wave /\ base + wave < Cardinality(Selected)
      /\ \A k \in Inputs : InWave(k) =>
           input[k] \in (IF Rar5 THEN {"prepared", "emitted"} ELSE {"emitted"})
  BY DEF NextWave
<1>2. /\ base \in Nat /\ wave \in Nat /\ wave' \in Nat /\ \A k \in Inputs : k \in Nat
      /\ base + wave + 1 \in Inputs /\ Selected \subseteq Nat /\ requested \in Nat
  BY <1>1, WriterFacts, Members DEF WriterTypeOK, Inputs, CallInv, PipelineInv, PipelineTypeOK
<1>3. ASSUME NEW k \in Inputs, k <= base + wave
      PROVE  input[k] \in (IF Rar5 THEN {"prepared", "emitting", "written", "emitted", "failed"}
                           ELSE {"emitted"})
  <2>1. k <= base \/ InWave(k)
    BY <1>2, <1>3 DEF InWave
  <2>. QED
    BY <1>1, <2>1 DEF InputInv, ProgressInv
<1>4. ASSUME NEW k \in Inputs PROVE input[k] \notin {"opened", "read", "emitting", "written"}
  <2>1. k > base + wave => input[k] = "waiting"
    BY DEF InputInv, ProgressInv
  <2>2. input[base + wave + 1] = "waiting"
    BY <1>2 DEF InputInv, ProgressInv
  <2>3. Rar5 => input[k] \notin {"emitting", "written"}
    BY <1>2, <2>2 DEF InputInv, ProgressInv
  <2>4. k <= base => input[k] \notin {"opened", "read"}
    BY DEF InputInv, ProgressInv
  <2>5. k <= base \/ InWave(k) \/ k > base + wave
    BY <1>2 DEF InWave
  <2>. QED
    BY <1>1, <1>2, <1>3, <2>1, <2>3, <2>4, <2>5
<1>5. ProgressInv'
  <2>1. \A k \in Inputs : k > base' + wave' => k > base + wave
    BY <1>1, <1>2
  <2>2. \A k \in Inputs : k > base + wave => input[k] = "waiting"
    BY DEF InputInv, ProgressInv
  <2>. QED
    BY <1>1, <1>3, <1>4, <2>1, <2>2 DEF ProgressInv, Rar5
<1>6. \A j \in Inputs : Member(j) \in Nat
  BY <1>2, InputOrder
<1>7. AskedInv' /\ WaveUnasked'
  <2>1. \A j \in Inputs : Member(j) <= requested => j <= base + wave
    BY DEF InputInv, AskedInv
  <2>. QED
    BY <1>1, <1>2, <1>6, <2>1 DEF AskedInv, WaveUnasked
<1>8. SourceInv'
  BY <1>1 DEF InputInv, SourceInv
<1>9. OpenInv'
  BY <1>1, <1>4 DEF InputInv, OpenInv, Troubled
<1>10. OwnerInv'
  BY <1>1, <1>4, <1>7 DEF InputInv, OwnerInv, WorksFor
<1>. QED
  BY <1>5, <1>7, <1>8, <1>9, <1>10 DEF InputInv

LEMMA WriterReturnsInputs ==
  ASSUME WriterTypeOK, CallInv, InputInv, WriterReturns
  PROVE  InputInv'
<1>. USE DEF tokenVars, stateVars, decoderVars, readerVars, writerVars, Member
<1>1. /\ UNCHANGED <<writerVars, requested, ready, published, reader, target, failure, parent>>
      /\ caller' # "consume"
  BY ReturnFacts DEF WriterReturns
<1>2. ASSUME NEW j \in Inputs, input[j] \in {"emitting", "written"},
             NEW k \in Inputs, input[k] = "failed"
      PROVE  FALSE
  BY <1>2, HalfDone DEF InputInv, ProgressInv
<1>3. \A k \in Inputs : input[k] \notin {"opened", "read", "emitting", "written"}
  BY <1>2 DEF WriterReturns
<1>4. ProgressInv' /\ AskedInv'
  BY <1>1, <1>3 DEF InputInv, ProgressInv, AskedInv, Rar5, InWave
<1>5. SourceInv' /\ OpenInv'
  BY <1>1, <1>3 DEF InputInv, SourceInv, OpenInv, Troubled
<1>6. OwnerInv'
  BY <1>1 DEF InputInv, OwnerInv, WorksFor, Rar5, InWave, Job, WaveUnasked, Emitter
<1>. QED
  BY <1>4, <1>5, <1>6 DEF InputInv

\* A request of an input of the waves so far.
LEMMA Asked ==
  ASSUME WriterTypeOK, PipelineTypeOK, AskedInv, UNCHANGED <<base, wave>>,
         NEW k \in Inputs, k <= base + wave, requested' = Max({requested, Member(k)})
  PROVE  AskedInv'
<1>1. /\ requested \in Nat /\ Member(k) \in Selected /\ Member(k) \in Nat
      /\ requested' = IF requested <= Member(k) THEN Member(k) ELSE requested
  BY InputOrder, RequestedMax
<1>2. base \in Nat /\ wave \in Nat /\ \A j \in Inputs : j \in Nat
  BY WriterFacts DEF WriterTypeOK, Inputs
<1>3. ASSUME NEW j \in Inputs, Member(j) <= requested' PROVE j <= base + wave
  <2>0. Selected \subseteq Nat
    BY Members
  <2>1. Member(j) \in Nat
    BY <2>0, InputOrder
  <2>2. CASE Member(j) <= requested
    BY <2>2 DEF AskedInv
  <2>3. CASE Member(j) <= Member(k)
    <3>1. ~(k < j)
      BY <1>1, <2>1, <2>3, InputOrder
    <3>. QED
      BY <1>2, <3>1
  <2>. QED
    BY <1>1, <1>3, <2>1, <2>2, <2>3
<1>. QED
  BY <1>3 DEF AskedInv, Member

\* The other readers and inputs are as they were.
LEMMA OthersOwn ==
  ASSUME WriterTypeOK, OwnerInv, UNCHANGED fixed, requested' = requested,
         NEW k \in Inputs, NEW n \in InputStates, Move(k, n),
         NEW r \in Readers, \A s \in Readers \ {r} : Stays(s),
         input[k] # "emitted",
         input[k] \in {"opened", "read"} => Job(k) = r,
         input[k] \in {"emitting", "written"} => Emitter = r
  PROVE  \A s \in Readers \ {r} : reader'[s] # "idle" =>
           \E j \in Inputs : WorksFor(s, j)'
<1>1. input'[k] = n /\ \A j \in Inputs \ {k} : input'[j] = input[j]
  BY DEF Move, WriterTypeOK
<1>. SUFFICES ASSUME NEW s \in Readers \ {r}, reader'[s] # "idle"
              PROVE  \E j \in Inputs : WorksFor(s, j)'
  OBVIOUS
<1>2. reader[s] # "idle" /\ target'[s] = target[s] /\ (reader[s] = "releasing" => reader'[s] = "releasing")
  BY DEF Stays
<1>3. PICK j \in Inputs : WorksFor(s, j)
  BY <1>2 DEF OwnerInv
<1>4. j # k
  BY <1>3 DEF WorksFor
<1>5. /\ Rar5' = Rar5 /\ WaveUnasked' = WaveUnasked
      /\ InWave(j)' = InWave(j) /\ Job(j)' = Job(j) /\ Member(j)' = Member(j)
  BY DEF fixed, Rar5, WaveUnasked, InWave, Job, Member
<1>. QED
  BY <1>1, <1>2, <1>3, <1>4, <1>5 DEF WorksFor, Emitter

LEMMA PrepareInputs ==
  ASSUME WriterTypeOK, CallInv, InputInv, NEW k \in Inputs, Prepare(k)
  PROVE  InputInv'
<1>. USE DEF Member
<1>0. /\ PipelineTypeOK /\ Job(k) \in Readers /\ Member(k) \in Selected /\ k \in Nat /\ base \in Nat
      /\ wave \in Nat /\ InWave(k) /\ input[k] = "waiting" /\ caller = "consume" /\ "opened" \in InputStates
  BY InputOrder, JobIsReader, WriterFacts
     DEF CallInv, PipelineInv, Prepare, Inputs, WriterTypeOK, InputStates
<1>1. /\ Move(k, "opened") /\ UNCHANGED fixed /\ Open(Job(k), Member(k))
      /\ input'[k] = "opened" /\ \A j \in Inputs \ {k} : input'[j] = input[j]
  BY DEF Prepare, Move, WriterTypeOK
<1>2. /\ UNCHANGED <<ready, published, caller, failure, parent>>
      /\ requested' = Max({requested, Member(k)}) /\ reader[Job(k)] = "idle"
      /\ \A s \in Readers : reader[s] # "releasing"
      /\ \A s \in Readers \ {Job(k)} : Stays(s)
      /\ reader'[Job(k)] = Look(Member(k)) /\ (Look(Member(k)) # "idle" => target'[Job(k)] = Member(k))
      /\ Look(Member(k)) \in {"idle", "reading", "blocking"}
  BY <1>0, <1>1, OpenShape DEF tokenVars, decoderVars, callerVars
<1>3. \A j \in Inputs : j # k => input[j] \notin {"emitting", "written"}
  BY <1>0, Alone DEF InputInv
<1>4. ProgressInv'
  <2>1. k <= base + wave /\ ~(k <= base)
    BY <1>0 DEF InWave
  <2>. QED
    BY <1>0, <1>1, <1>2, <1>3, <2>1, ProgressMove DEF InputInv, fixed
<1>5. AskedInv'
  <2>1. k <= base + wave
    BY <1>0 DEF InWave
  <2>. QED
    BY <1>0, <1>1, <1>2, <2>1, Asked DEF InputInv, fixed
<1>6. SourceInv'
  BY <1>0, <1>1, <1>2 DEF InputInv, SourceInv
<1>7. Troubled' <=> Troubled
  BY <1>2 DEF Troubled
<1>8. OpenInv'
  <2>1. Answering(Job(k), Member(k))'
    <3>1. Look(Member(k)) = "idle" => Troubled
      BY <1>0, RefusedInTrouble DEF InputInv
    <3>. QED
      BY <1>1, <1>2, <1>7, <3>1 DEF Answering, Job, fixed
  <2>2. ASSUME NEW j \in Inputs \ {k}, input[j] = "opened" PROVE Answering(Job(j), Member(j))'
    <3>1. Job(j) \in Readers \ {Job(k)} /\ Answering(Job(j), Member(j))
      <4>1. Job(j) # Job(k)
        BY <1>0, <2>2, WriterFacts DEF Job, Inputs
      <4>. QED
        BY <2>2, <4>1, HalfDone DEF InputInv, OpenInv
    <3>. QED
      BY <1>1, <1>2, <1>7, <3>1 DEF Answering, Stays, Job, fixed
  <2>. QED
    BY <1>1, <1>3, <1>7, <2>1, <2>2 DEF InputInv, OpenInv
<1>9. OwnerInv'
  <2>. SUFFICES ASSUME NEW s \in Readers, reader'[s] # "idle"
                PROVE  \E j \in Inputs :
                         /\ target'[s] = Member(j)
                         /\ \/ input'[j] \in {"opened", "read"} /\ s = Job(j)
                            \/ input'[j] \in {"emitting", "written"} /\ s = Emitter
    BY <1>1 DEF OwnerInv, WorksFor, Job, fixed, Emitter
  <2>1. CASE s = Job(k)
    BY <1>1, <1>2, <2>1
  <2>2. CASE s # Job(k)
    <3>1. Stays(s) /\ reader[s] # "idle" /\ reader[s] # "releasing"
      BY <1>2, <2>2 DEF Stays
    <3>2. PICK j \in Inputs :
            /\ target[s] = Member(j)
            /\ \/ input[j] \in {"opened", "read"} /\ s = Job(j)
               \/ input[j] \in {"emitting", "written"} /\ s = Emitter
      BY <3>1 DEF InputInv, OwnerInv, WorksFor
    <3>3. input'[j] = input[j]
      BY <1>0, <1>1, <3>2
    <3>. QED
      BY <3>1, <3>2, <3>3 DEF Stays
  <2>. QED
    BY <2>1, <2>2
<1>. QED
  BY <1>4, <1>5, <1>6, <1>8, <1>9 DEF InputInv

\* A reader of an input that was opened reads a published source.
LEMMA ConsumedInputs ==
  ASSUME WriterTypeOK, CallInv, InputInv, NEW k \in Inputs, Consumed(k)
  PROVE  InputInv'
<1>. USE DEF Member
<1>0. /\ PipelineTypeOK /\ Job(k) \in Readers /\ k \in Nat /\ base \in Nat
      /\ wave \in Nat /\ InWave(k) /\ input[k] = "opened" /\ caller = "consume" /\ "read" \in InputStates
  BY HalfDone, WriterFacts
     DEF CallInv, PipelineInv, Consumed, Inputs, WriterTypeOK, InputStates, InputInv
<1>1. /\ Move(k, "read") /\ UNCHANGED fixed /\ Close(Job(k)) /\ reader[Job(k)] = "reading"
      /\ input'[k] = "read" /\ \A j \in Inputs \ {k} : input'[j] = input[j]
  BY DEF Consumed, Move, WriterTypeOK
<1>2. /\ UNCHANGED <<requested, ready, published, caller, failure, parent>>
      /\ \A s \in Readers \ {Job(k)} : Stays(s)
      /\ reader'[Job(k)] = "idle" \/ (reader'[Job(k)] = "closing" /\ target'[Job(k)] = target[Job(k)])
  BY <1>0, <1>1, CloseShape DEF tokenVars, stateVars, decoderVars, callerVars
<1>3. \A j \in Inputs : j # k => input[j] \notin {"emitting", "written"}
  BY <1>0, Alone DEF InputInv
<1>4. ProgressInv' /\ AskedInv'
  <2>1. k <= base + wave /\ ~(k <= base)
    BY <1>0 DEF InWave
  <2>2. AskedInv'
    BY <1>1, <1>2 DEF InputInv, AskedInv, fixed
  <2>. QED
    BY <1>0, <1>1, <1>2, <1>3, <2>1, <2>2, ProgressMove DEF InputInv, fixed
<1>5. target[Job(k)] = Member(k) /\ Member(k) \in published
  BY <1>0, <1>1 DEF InputInv, OpenInv, Answering, CallInv, PipelineInv, LeaseInv, HasLease
<1>6. SourceInv'
  BY <1>0, <1>1, <1>2, <1>5 DEF InputInv, SourceInv
<1>7. OpenInv'
  <2>1. Troubled' <=> Troubled
    BY <1>2 DEF Troubled
  <2>2. ASSUME NEW j \in Inputs \ {k}, input[j] = "opened" PROVE Answering(Job(j), Member(j))'
    <3>1. Job(j) \in Readers \ {Job(k)} /\ Answering(Job(j), Member(j))
      <4>1. Job(j) # Job(k)
        BY <1>0, <2>2, WriterFacts DEF Job, Inputs
      <4>. QED
        BY <2>2, <4>1, HalfDone DEF InputInv, OpenInv
    <3>. QED
      BY <1>1, <1>2, <2>1, <3>1 DEF Answering, Stays, Job, fixed
  <2>. QED
    BY <1>1, <1>3, <2>1, <2>2 DEF InputInv, OpenInv
<1>8. OwnerInv'
  <2>1. \A s \in Readers \ {Job(k)} : reader'[s] # "idle" =>
           \E j \in Inputs : WorksFor(s, j)'
    BY <1>0, <1>1, <1>2, OthersOwn DEF InputInv
  <2>2. reader'[Job(k)] # "idle" => target'[Job(k)] = Member(k)
    BY <1>2, <1>5
  <2>. QED
    BY <1>1, <1>2, <2>1, <2>2 DEF OwnerInv, WorksFor, Rar5, InWave, WaveUnasked, Job, fixed, Emitter
<1>. QED
  BY <1>4, <1>6, <1>7, <1>8 DEF InputInv

\* A source is released early only when nothing is left to be emitted of it.
LEMMA PreparedInputs ==
  ASSUME WriterTypeOK, CallInv, InputInv, NEW k \in Inputs, Prepared(k)
  PROVE  InputInv'
<1>. USE DEF Member
<1>. DEFINE n == IF ReleasesEarly(k) THEN "emitted" ELSE "prepared"
<1>0. /\ PipelineTypeOK /\ Job(k) \in Readers /\ Member(k) \in Selected /\ k \in Nat /\ base \in Nat
      /\ wave \in Nat /\ InWave(k) /\ input[k] = "read" /\ caller = "consume" /\ n \in InputStates
      /\ reader[Job(k)] = "idle" /\ Member(k) \in published
  BY HalfDone, InputOrder, WriterFacts
     DEF CallInv, PipelineInv, Prepared, Inputs, WriterTypeOK, InputStates, InputInv, SourceInv
<1>1. /\ Move(k, n) /\ UNCHANGED fixed
      /\ input'[k] = n /\ \A j \in Inputs \ {k} : input'[j] = input[j]
  BY DEF Prepared, ReleasesEarly, Move, WriterTypeOK
<1>2. /\ UNCHANGED <<requested, published, caller, failure, parent>>
      /\ \A s \in Readers \ {Job(k)} : Stays(s)
      /\ IF ReleasesEarly(k)
           THEN /\ Rar5 /\ ready' = ready \ {Member(k)}
                /\ \/ reader'[Job(k)] = "idle"
                   \/ reader'[Job(k)] = "releasing" /\ target'[Job(k)] = Member(k)
           ELSE ready' = ready /\ reader'[Job(k)] = "idle"
  <2>1. CASE ReleasesEarly(k)
    <3>1. Release(Job(k), Member(k)) /\ Rar5
      BY <2>1 DEF Prepared, ReleasesEarly
    <3>. QED
      BY <1>0, <2>1, <3>1, ReleaseShape DEF tokenVars, decoderVars, callerVars
  <2>2. CASE ~ReleasesEarly(k)
    BY <1>0, <2>2 DEF Prepared, pipelineVars, tokenVars, stateVars, decoderVars, callerVars,
                      readerVars, Stays
  <2>. QED
    BY <2>1, <2>2
<1>. HIDE DEF n
<1>3. \A j \in Inputs : j # k => input[j] \notin {"emitting", "written"}
  BY <1>0, Alone DEF InputInv
<1>4. n \in {"emitted", "prepared"} /\ (n = "emitted" <=> ReleasesEarly(k))
  BY DEF n
<1>5. ProgressInv' /\ AskedInv'
  <2>1. k <= base + wave /\ ~(k <= base)
    BY <1>0 DEF InWave
  <2>2. AskedInv'
    BY <1>1, <1>2 DEF InputInv, AskedInv, fixed
  <2>. QED
    BY <1>0, <1>1, <1>2, <1>3, <1>4, <2>1, <2>2, ProgressMove DEF InputInv, fixed
<1>6. SourceInv'
  <2>1. \A j \in Inputs \ {k} : Member(j) # Member(k)
    BY InputOrder
  <2>. QED
    BY <1>0, <1>1, <1>2, <1>4, <2>1 DEF InputInv, SourceInv
<1>7. OpenInv'
  <2>1. Troubled' <=> Troubled
    BY <1>2 DEF Troubled
  <2>2. ASSUME NEW j \in Inputs \ {k}, input[j] = "opened" PROVE Answering(Job(j), Member(j))'
    <3>1. Job(j) \in Readers \ {Job(k)} /\ Answering(Job(j), Member(j))
      <4>1. Job(j) # Job(k)
        BY <1>0, <2>2, WriterFacts DEF Job, Inputs
      <4>. QED
        BY <2>2, <4>1, HalfDone DEF InputInv, OpenInv
    <3>. QED
      BY <1>1, <1>2, <2>1, <3>1 DEF Answering, Stays, Job, fixed
  <2>. QED
    BY <1>1, <1>3, <1>4, <2>1, <2>2 DEF InputInv, OpenInv
<1>8. OwnerInv'
  <2>1. \A s \in Readers \ {Job(k)} : reader'[s] # "idle" =>
           \E j \in Inputs : WorksFor(s, j)'
    BY <1>0, <1>1, <1>2, OthersOwn DEF InputInv
  <2>2. reader'[Job(k)] # "idle" =>
          target'[Job(k)] = Member(k) /\ n = "emitted" /\ Rar5 /\ reader'[Job(k)] = "releasing"
    BY <1>2, <1>4
  <2>. QED
    BY <1>1, <1>2, <2>1, <2>2 DEF OwnerInv, WorksFor, Rar5, InWave, WaveUnasked, Job, fixed, Emitter
<1>. QED
  BY <1>5, <1>6, <1>7, <1>8 DEF InputInv

\* A stored input is opened once more, and its source is still there.
LEMMA EmitInputs ==
  ASSUME WriterTypeOK, CallInv, InputInv, NEW k \in Inputs, Emit(k)
  PROVE  InputInv'
<1>. USE DEF Member
<1>0. /\ PipelineTypeOK /\ Emitter \in Readers /\ Member(k) \in Selected /\ k \in Nat /\ base \in Nat
      /\ wave \in Nat /\ input[k] = "prepared" /\ caller = "consume" /\ "emitting" \in InputStates
      /\ k <= base + wave /\ Member(k) \in published /\ EmissionOpen(k)
  BY HalfDone, InputOrder, WriterFacts
     DEF CallInv, PipelineInv, Emit, EmissionOpen, Inputs, WriterTypeOK, InputStates, InputInv, SourceInv
<1>1. /\ Move(k, "emitting") /\ UNCHANGED fixed
      /\ input'[k] = "emitting" /\ \A j \in Inputs \ {k} : input'[j] = input[j]
  BY DEF Emit, Move, WriterTypeOK
<1>2. /\ UNCHANGED <<ready, published, caller, failure, parent>>
      /\ \/ /\ Member(k) \notin stored /\ requested' = requested
            /\ \A s \in Readers : Stays(s)
         \/ /\ Member(k) \in stored /\ requested' = Max({requested, Member(k)})
            /\ reader[Emitter] = "idle" /\ \A s \in Readers : reader[s] # "releasing"
            /\ \A s \in Readers \ {Emitter} : Stays(s)
            /\ reader'[Emitter] = Look(Member(k))
            /\ Look(Member(k)) # "idle" => target'[Emitter] = Member(k)
            /\ Look(Member(k)) \in {"idle", "reading", "blocking"}
  <2>1. CASE Member(k) \in stored
    <3>1. Open(Emitter, Member(k))
      BY <2>1 DEF Emit
    <3>. QED
      BY <1>0, <2>1, <3>1, OpenShape DEF tokenVars, decoderVars, callerVars
  <2>2. CASE Member(k) \notin stored
    BY <2>2 DEF Emit, pipelineVars, tokenVars, stateVars, decoderVars, callerVars, readerVars, Stays
  <2>. QED
    BY <2>1, <2>2
<1>3. \A j \in Inputs : j # k => input[j] \notin {"emitting", "written"}
  BY <1>0, Alone DEF InputInv
<1>4. /\ \A j \in 1 .. k - 1 : input[j] = "emitted"
      /\ \A j \in Inputs : Rar5 \/ InWave(j) => input[j] \in {"prepared", "emitting", "written", "emitted"}
  BY <1>0 DEF EmissionOpen
<1>5. ProgressInv'
  <2>1. k <= base => Rar5
    BY <1>0 DEF InputInv, ProgressInv
  <2>. QED
    BY <1>0, <1>1, <1>2, <1>3, <1>4, <2>1, ProgressMove DEF InputInv, fixed
<1>6. AskedInv'
  <2>1. CASE requested' = requested
    BY <1>1, <2>1 DEF InputInv, AskedInv, fixed
  <2>2. CASE requested' = Max({requested, Member(k)})
    BY <1>0, <1>1, <2>2, Asked DEF InputInv, fixed
  <2>. QED
    BY <1>2, <2>1, <2>2
<1>7. SourceInv'
  BY <1>0, <1>1, <1>2 DEF InputInv, SourceInv
<1>8. \A j \in Inputs : input[j] \notin {"opened", "read"}
  BY <1>4, HalfDone DEF InputInv
<1>9. OpenInv'
  <2>1. Troubled' <=> Troubled
    BY <1>2 DEF Troubled
  <2>2. ASSUME Member(k) \in stored PROVE Answering(Emitter, Member(k))'
    <3>1. Look(Member(k)) = "idle" => Troubled
      BY <1>0, RefusedInTrouble DEF InputInv
    <3>. QED
      BY <1>2, <2>1, <2>2, <3>1 DEF Answering, Emitter
  <2>. QED
    BY <1>1, <1>3, <1>8, <2>1, <2>2 DEF InputInv, OpenInv, fixed
<1>10. OwnerInv'
  <2>1. CASE Member(k) \in stored
    <3>. SUFFICES ASSUME NEW s \in Readers, reader'[s] # "idle"
                  PROVE  \E j \in Inputs :
                           /\ target'[s] = Member(j)
                           /\ input'[j] \in {"emitting", "written"} /\ s = Emitter
      BY <1>1 DEF OwnerInv, WorksFor, Emitter
    <3>1. CASE s = Emitter
      BY <1>1, <1>2, <2>1, <3>1
    <3>2. CASE s # Emitter
      <4>1. Stays(s) /\ reader[s] # "idle" /\ reader[s] # "releasing"
        BY <1>2, <2>1, <3>2 DEF Stays
      <4>. QED
        BY <1>3, <1>8, <3>2, <4>1 DEF InputInv, OwnerInv, WorksFor
    <3>. QED
      BY <3>1, <3>2
  <2>2. CASE Member(k) \notin stored
    <3>1. requested' = requested /\ \A s \in Readers : Stays(s)
      BY <1>2, <2>2
    <3>. SUFFICES ASSUME NEW s \in Readers, reader'[s] # "idle"
                  PROVE  \E j \in Inputs :
                           /\ target'[s] = Member(j)
                           /\ \/ input'[j] \in {"emitting", "written"} /\ s = Emitter
                              \/ /\ input'[j] = "emitted" /\ reader'[s] = "releasing"
                                 /\ Rar5 \/ InWave(j) \/ WaveUnasked
      BY <1>1, <3>1 DEF OwnerInv, WorksFor, Rar5, InWave, WaveUnasked, fixed, Emitter
    <3>2. PICK j \in Inputs :
            /\ target[s] = Member(j) /\ j # k
            /\ \/ input[j] \in {"emitting", "written"} /\ s = Emitter
               \/ input[j] = "emitted" /\ reader[s] = "releasing" /\ (Rar5 \/ InWave(j) \/ WaveUnasked)
      BY <1>0, <1>8, <3>1 DEF InputInv, OwnerInv, WorksFor, Stays
    <3>. QED
      BY <1>1, <3>1, <3>2 DEF Stays
  <2>. QED
    BY <2>1, <2>2
<1>. QED
  BY <1>5, <1>6, <1>7, <1>9, <1>10 DEF InputInv

LEMMA CloseEmittedInputs ==
  ASSUME WriterTypeOK, CallInv, InputInv, NEW k \in Inputs, CloseEmitted(k)
  PROVE  InputInv'
<1>. USE DEF Member
<1>0. /\ PipelineTypeOK /\ Emitter \in Readers /\ k \in Nat /\ base \in Nat
      /\ wave \in Nat /\ input[k] = "emitting" /\ caller = "consume" /\ "written" \in InputStates
      /\ k <= base + wave /\ reader[Emitter] = "reading" /\ Close(Emitter)
  BY HalfDone, WriterFacts
     DEF CallInv, PipelineInv, CloseEmitted, Inputs, WriterTypeOK, InputStates, InputInv
<1>1. /\ Move(k, "written") /\ UNCHANGED fixed
      /\ input'[k] = "written" /\ \A j \in Inputs \ {k} : input'[j] = input[j]
  BY DEF CloseEmitted, Move, WriterTypeOK
<1>2. /\ UNCHANGED <<requested, ready, published, caller, failure, parent>>
      /\ \A s \in Readers \ {Emitter} : Stays(s)
      /\ reader'[Emitter] = "idle" \/ (reader'[Emitter] = "closing" /\ target'[Emitter] = target[Emitter])
  BY <1>0, CloseShape DEF tokenVars, stateVars, decoderVars, callerVars
<1>3. \A j \in Inputs : j # k => input[j] \notin {"emitting", "written"}
  BY <1>0, Alone DEF InputInv
<1>4. /\ \A j \in 1 .. k - 1 : input[j] = "emitted"
      /\ \A j \in Inputs : Rar5 \/ InWave(j) => input[j] \in {"prepared", "emitting", "written", "emitted"}
      /\ k <= base => Rar5
  BY <1>0 DEF InputInv, ProgressInv
<1>5. ProgressInv' /\ AskedInv'
  <2>1. AskedInv'
    BY <1>1, <1>2 DEF InputInv, AskedInv, fixed
  <2>. QED
    BY <1>0, <1>1, <1>2, <1>3, <1>4, <2>1, ProgressMove DEF InputInv, fixed
<1>6. SourceInv'
  BY <1>0, <1>1, <1>2 DEF InputInv, SourceInv
<1>7. \A j \in Inputs : input[j] \notin {"opened", "read"}
  BY <1>4, HalfDone DEF InputInv
<1>8. OpenInv'
  BY <1>1, <1>2, <1>3, <1>7 DEF InputInv, OpenInv, Troubled
<1>9. OwnerInv'
  <2>1. \A s \in Readers \ {Emitter} : reader'[s] # "idle" =>
           \E j \in Inputs : WorksFor(s, j)'
    BY <1>0, <1>1, <1>2, OthersOwn DEF InputInv
  <2>2. target[Emitter] = Member(k)
    BY <1>0, <1>3, <1>7 DEF InputInv, OwnerInv, WorksFor
  <2>. QED
    BY <1>1, <1>2, <2>1, <2>2 DEF OwnerInv, WorksFor, Rar5, InWave, WaveUnasked, Job, fixed, Emitter
<1>. QED
  BY <1>5, <1>6, <1>8, <1>9 DEF InputInv

LEMMA ReleaseEmittedInputs ==
  ASSUME WriterTypeOK, CallInv, InputInv, NEW k \in Inputs, ReleaseEmitted(k)
  PROVE  InputInv'
<1>. USE DEF Member
<1>0. /\ PipelineTypeOK /\ Emitter \in Readers /\ Member(k) \in Selected /\ k \in Nat /\ base \in Nat
      /\ wave \in Nat /\ input[k] \in {"emitting", "written"} /\ "emitted" \in InputStates
      /\ k <= base + wave /\ reader[Emitter] = "idle" /\ Member(k) \in published /\ caller = "consume"
  BY HalfDone, InputOrder, WriterFacts
     DEF CallInv, PipelineInv, ReleaseEmitted, Inputs, WriterTypeOK, InputStates, InputInv, SourceInv
<1>1. /\ Move(k, "emitted") /\ UNCHANGED fixed
      /\ input'[k] = "emitted" /\ \A j \in Inputs \ {k} : input'[j] = input[j]
  BY DEF ReleaseEmitted, Move, WriterTypeOK
<1>2. /\ UNCHANGED <<requested, published, caller, failure, parent>>
      /\ ready' = ready \ {Member(k)}
      /\ \A s \in Readers \ {Emitter} : Stays(s)
      /\ reader'[Emitter] = "idle" \/ (reader'[Emitter] = "releasing" /\ target'[Emitter] = Member(k))
  <2>1. CASE Member(k) \in ready
    <3>1. Release(Emitter, Member(k))
      BY <2>1 DEF ReleaseEmitted
    <3>. QED
      BY <1>0, <3>1, ReleaseShape DEF tokenVars, decoderVars, callerVars
  <2>2. CASE Member(k) \notin ready
    BY <1>0, <2>2 DEF ReleaseEmitted, pipelineVars, tokenVars, stateVars, decoderVars, callerVars,
                      readerVars, Stays
  <2>. QED
    BY <2>1, <2>2
<1>3. \A j \in Inputs : j # k => input[j] \notin {"emitting", "written"}
  BY <1>0, Alone DEF InputInv
<1>4. ProgressInv' /\ AskedInv'
  <2>1. AskedInv'
    BY <1>1, <1>2 DEF InputInv, AskedInv, fixed
  <2>. QED
    BY <1>0, <1>1, <1>2, <1>3, <2>1, ProgressMove DEF InputInv, fixed
<1>5. SourceInv'
  <2>1. \A j \in Inputs \ {k} : Member(j) # Member(k)
    BY InputOrder
  <2>. QED
    BY <1>0, <1>1, <1>2, <2>1 DEF InputInv, SourceInv
<1>6. \A j \in Inputs : input[j] \notin {"opened", "read"}
  BY <1>0, HalfDone DEF InputInv, ProgressInv
<1>7. OpenInv'
  BY <1>1, <1>2, <1>3, <1>6 DEF InputInv, OpenInv, Troubled
<1>8. OwnerInv'
  <2>1. \A s \in Readers \ {Emitter} : reader'[s] # "idle" =>
           \E j \in Inputs : WorksFor(s, j)'
    BY <1>0, <1>1, <1>2, OthersOwn DEF InputInv
  <2>2. Rar5 \/ InWave(k)
    BY <1>0, HalfDone DEF InputInv
  <2>. QED
    BY <1>1, <1>2, <2>1, <2>2 DEF OwnerInv, WorksFor, Rar5, InWave, WaveUnasked, Job, fixed, Emitter
<1>. QED
  BY <1>4, <1>5, <1>7, <1>8 DEF InputInv

\* A job fails only when its open was refused.
LEMMA RefusedInputs ==
  ASSUME WriterTypeOK, CallInv, InputInv, NEW k \in Inputs, Refused(k)
  PROVE  InputInv'
<1>. USE DEF Member
<1>. DEFINE r == IF input[k] = "opened" THEN Job(k) ELSE Emitter
<1>0. /\ Emitter \in Readers /\ k \in Nat /\ base \in Nat /\ wave \in Nat
      /\ "failed" \in InputStates /\ k <= base + wave /\ caller = "consume"
      /\ r \in Readers /\ reader[r] = "idle"
      /\ \/ input[k] = "opened" /\ r = Job(k) /\ InWave(k)
         \/ input[k] = "emitting" /\ r = Emitter /\ Member(k) \in stored
  BY HalfDone, WriterFacts DEF Refused, Inputs, WriterTypeOK, InputStates, InputInv
<1>. HIDE DEF r
<1>1. /\ Move(k, "failed") /\ UNCHANGED fixed
      /\ input'[k] = "failed" /\ \A j \in Inputs \ {k} : input'[j] = input[j]
  BY DEF Refused, Move, WriterTypeOK
<1>2. /\ UNCHANGED <<requested, ready, published, caller, failure, parent, reader, target>>
      /\ \A s \in Readers : Stays(s)
  BY DEF Refused, pipelineVars, tokenVars, stateVars, decoderVars, callerVars, readerVars, Stays
<1>3. Troubled
  BY <1>0 DEF InputInv, OpenInv, Answering
<1>4. \A j \in Inputs : j # k => input[j] \notin {"emitting", "written"}
  BY <1>0, Alone DEF InputInv
<1>5. ProgressInv' /\ AskedInv'
  <2>1. AskedInv'
    BY <1>1, <1>2 DEF InputInv, AskedInv, fixed
  <2>2. k <= base => Rar5
    BY <1>0 DEF InputInv, ProgressInv
  <2>. QED
    BY <1>0, <1>1, <1>2, <1>4, <2>1, <2>2, ProgressMove DEF InputInv, fixed
<1>6. SourceInv'
  BY <1>0, <1>1, <1>2 DEF InputInv, SourceInv
<1>7. OpenInv'
  BY <1>1, <1>2, <1>3, <1>4 DEF InputInv, OpenInv, Troubled, Answering, Job, fixed
<1>8. OwnerInv'
  <2>1. \A s \in Readers \ {r} : reader'[s] # "idle" =>
           \E j \in Inputs : WorksFor(s, j)'
    BY <1>0, <1>1, <1>2, OthersOwn DEF InputInv
  <2>. QED
    BY <1>0, <1>1, <1>2, <2>1 DEF OwnerInv, WorksFor, Rar5, InWave, WaveUnasked, Job, fixed, Emitter
<1>. QED
  BY <1>5, <1>6, <1>7, <1>8 DEF InputInv

LEMMA InputStep ==
  ASSUME WriterTypeOK, WriterTypeOK', CallInv, InputInv, [RewriteNext]_rewriteVars
  PROVE  InputInv'
<1>1. CASE UNCHANGED rewriteVars
  BY <1>1 DEF rewriteVars, writerVars, pipelineVars, tokenVars, stateVars, decoderVars, callerVars,
              readerVars, InputInv, ProgressInv, AskedInv, SourceInv, OpenInv, OwnerInv, WorksFor, Rar5, InWave,
              WaveUnasked, Job, Emitter, Member, Troubled, Answering
<1>2. CASE WriterNext
  BY <1>2, NextWaveInputs, WriterReturnsInputs, PrepareInputs, ConsumedInputs, PreparedInputs,
     EmitInputs, CloseEmittedInputs, ReleaseEmittedInputs, RefusedInputs DEF WriterNext
<1>. QED
  BY <1>1, <1>2, SurroundingsInputs DEF RewriteNext
----------------------------------------------------------------------------
(* What fits a window, and why an input fails.                             *)

\* What is charged belongs to the window, and the member that is decoded is in it.
LEMMA ChargedInWave ==
  ASSUME WriterTypeOK, CallInv, InputInv, ~Rar5, decoder = "write", current \in Selected
  PROVE  /\ \E k \in Inputs : InWave(k) /\ current = Member(k)
         /\ \A m \in 1 .. N : Charged[m] # 0 => \E k \in Inputs : InWave(k) /\ m = Member(k)
<1>. USE DEF CallInv, PipelineInv, InputInv
<1>1. \A k \in Inputs : k \in Nat
  BY WriterFacts DEF Inputs
<1>2. base \in Nat /\ wave \in Nat
  BY WriterFacts DEF WriterTypeOK
<1>3. /\ requested \in Nat /\ published \subseteq Selected /\ Selected \subseteq Nat
      /\ \A m \in published : m < current /\ m <= requested
      /\ pending = 0 /\ current <= requested /\ current \notin published
  BY Members DEF PipelineTypeOK, DecoderInv, RequestInv
<1>4. ASSUME NEW k \in Inputs, input[k] # "emitted", Member(k) <= requested PROVE InWave(k)
  <2>1. k <= base + wave
    BY <1>4 DEF AskedInv
  <2>2. ~(k <= base)
    BY <1>4 DEF ProgressInv
  <2>. QED
    BY <1>1, <1>2, <2>1, <2>2 DEF InWave
<1>5. PICK c \in Inputs : current = Member(c)
  BY InputOrder
<1>6. InWave(c)
  <2>1. input[c] # "emitted"
    BY <1>3, <1>5 DEF SourceInv
  <2>. QED
    BY <1>3, <1>4, <1>5, <2>1
<1>7. ~WaveUnasked
  <2>1. c > base /\ ~(requested < Member(c))
    BY <1>1, <1>2, <1>3, <1>5, <1>6 DEF InWave
  <2>. QED
    BY <2>1 DEF WaveUnasked
<1>8. ASSUME NEW m \in ready PROVE \E k \in Inputs : InWave(k) /\ m = Member(k)
  <2>1. m \in published
    BY DEF LeaseInv
  <2>2. PICK k \in Inputs : m = Member(k)
    BY <1>3, <2>1, InputOrder
  <2>3. input[k] # "emitted"
    BY <2>2 DEF SourceInv
  <2>. QED
    BY <1>3, <1>4, <2>1, <2>2, <2>3
<1>9. ASSUME NEW r \in Readers, HasLease(r)
      PROVE  \E k \in Inputs : InWave(k) /\ target[r] = Member(k)
  <2>1. PICK k \in Inputs :
          /\ target[r] = Member(k)
          /\ \/ input[k] \in {"opened", "read"}
             \/ input[k] \in {"emitting", "written"}
             \/ input[k] = "emitted" /\ (Rar5 \/ InWave(k) \/ WaveUnasked)
    BY <1>9 DEF OwnerInv, WorksFor, HasLease
  <2>2. input[k] \in {"opened", "read", "emitting", "written"} => InWave(k)
    BY HalfDone
  <2>. QED
    BY <1>7, <2>1, <2>2
<1>10. ASSUME NEW m \in 1 .. N, Charged[m] # 0
       PROVE  \E k \in Inputs : InWave(k) /\ m = Member(k)
  <2>1. Leased(m) \/ m = pending \/ m = current
    BY <1>10 DEF Charged
  <2>2. m # pending
    BY <1>3, Members
  <2>3. CASE Leased(m)
    BY <1>8, <1>9, <2>3 DEF Leased, HasLease
  <2>. QED
    BY <1>5, <1>6, <2>1, <2>2, <2>3
<1>. QED
  BY <1>5, <1>6, <1>10

\* The next byte of a member the window has asked for fits the quota.
LEMMA WindowFits ==
  ASSUME WriterTypeOK, CallInv, InputInv, ~Rar5, decoder = "write", current \in Selected,
         written < size[current], \A m \in Selected : size[m] <= Quota
  PROVE  AdmitBytes(1)
<1>. USE DEF CallInv, PipelineInv
<1>. DEFINE W == {k \in Inputs : InWave(k)}
            T == {Member(k) : k \in W}
<1>0. /\ size \in Sizes /\ size \in [1 .. N -> Nat] /\ written \in Nat /\ base \in Nat /\ wave \in Nat
      /\ Quota \in Nat /\ IsFiniteSet(1 .. N) /\ Selected \subseteq 1 .. N /\ used \in Nat
  <2>1. size \in Sizes /\ written \in Nat /\ used \in 0 .. Quota
    BY DEF PipelineTypeOK
  <2>2. size \in [1 .. N -> Nat]
    BY <2>1, PipelineAssumption DEF PipelineAssumption
  <2>3. base \in Nat /\ wave \in Nat
    BY WriterFacts DEF WriterTypeOK
  <2>. QED
    BY <2>1, <2>2, <2>3, Members
<1>1. /\ Largest \in Nat \ {0} /\ \A m \in Selected : size[m] \in 0 .. Largest
      /\ Largest = 1 \/ \E m \in Selected : Largest = size[m]
      /\ LegacyWindow \in Nat \ {0} /\ LegacyWindow <= MaxPreparationWindow
      /\ MaxPreparationWindow = IF Largest <= Quota THEN Quota \div Largest ELSE 1
  BY <1>0, WindowFacts
<1>2. Largest \in 1 .. Quota
  <2>1. size[current] >= 1 /\ size[current] <= Quota
    BY <1>0
  <2>. QED
    BY <1>0, <1>1, <2>1
<1>3. wave * Largest <= Quota
  <2>. DEFINE q == Quota \div Largest
  <2>1. q \in Nat /\ q * Largest <= Quota
    BY <1>0, <1>1, Quotients, QuotientBounds
  <2>2. wave <= q
    <3>1. wave <= LegacyWindow /\ LegacyWindow <= MaxPreparationWindow /\ MaxPreparationWindow = q
      BY <1>0, <1>1, <1>2 DEF WriterTypeOK
    <3>. HIDE DEF q
    <3>. QED
      BY <1>0, <1>1, <2>1, <3>1
  <2>3. \A a, b, l, d \in Nat : a <= b /\ b * l <= d => a * l <= d
    <3>1. \A a, b, l \in Nat : a <= b => a * l <= b * l
      BY SMTT(30)
    <3>2. \A a, l \in Nat : a * l \in Nat
      BY SMTT(30)
    <3>. QED
      BY <3>1, <3>2
  <2>. HIDE DEF q
  <2>. QED
    BY <1>0, <1>1, <2>1, <2>2, <2>3
<1>4. IsFiniteSet(T) /\ Cardinality(T) \in Nat /\ Cardinality(T) <= wave
  <2>1. W \in SUBSET (base + 1 .. base + wave)
    BY <1>0, WriterFacts DEF InWave, Inputs
  <2>2. IsFiniteSet(base + 1 .. base + wave) /\ Cardinality(base + 1 .. base + wave) = wave
    BY <1>0, FS_Interval
  <2>3. IsFiniteSet(W) /\ Cardinality(W) <= wave /\ Cardinality(W) \in Nat
    BY <2>1, <2>2, FS_Subset, FS_CardinalityType
  <2>. HIDE DEF W
  <2>. DEFINE F == [k \in W |-> Member(k)]
  <2>4. F \in Surjection(W, T)
    <3>1. F \in [W -> T]
      OBVIOUS
    <3>2. \A t \in T : \E k \in W : F[k] = t
      OBVIOUS
    <3>. QED
      BY <3>1, <3>2, Fun_IsSurj
  <2>. HIDE DEF F, T
  <2>5. IsFiniteSet(T) /\ Cardinality(T) <= Cardinality(W)
    BY <2>3, <2>4, FS_Surjection
  <2>. QED
    BY <1>0, <2>3, <2>5, FS_CardinalityType
<1>5. T \in SUBSET Selected /\ current \in T /\ \A m \in 1 .. N : Charged[m] # 0 => m \in T
  <2>1. T \in SUBSET Selected
    BY InputOrder
  <2>. QED
    BY <2>1, ChargedInWave
<1>6. Charged \in [1 .. N -> 0 .. Quota]
  BY ChargedType
<1>. HIDE DEF W, T
<1>7. Charged[current] < Largest /\ \A m \in T : Charged[m] <= Largest
  <2>1. /\ \A m \in published : m < current
        /\ pending = 0 /\ current \in Nat /\ current # 0
    BY <1>0 DEF DecoderInv, PipelineTypeOK
  <2>2. ~Leased(current) /\ current # pending
    BY <2>1 DEF Leased, LeaseInv, HasLease
  <2>3. Charged[current] = written
    BY <1>0, <2>2 DEF Charged
  <2>4. written < Largest
    BY <1>0, <1>1
  <2>5. ASSUME NEW m \in T PROVE Charged[m] <= Largest
    <3>1. m \in 1 .. N /\ Charged[m] \in {size[m], written, 0}
      BY <1>0, <1>5 DEF Charged
    <3>2. size[m] \in 0 .. Largest
      BY <1>1, <1>5
    <3>. QED
      BY <1>0, <1>1, <2>4, <3>1, <3>2
  <2>. QED
    BY <2>3, <2>4, <2>5
<1>8. Total(Charged, 1 .. N, Quota) < Cardinality(T) * Largest
  <2>1. T \in SUBSET (1 .. N) /\ \A x \in (1 .. N) \ T : Charged[x] = 0
    BY <1>0, <1>5
  <2>. QED
    BY <1>0, <1>2, <1>5, <1>6, <1>7, <2>1, TotalWindow
<1>9. Cardinality(T) * Largest <= wave * Largest
  <2>1. \A a, b, l \in Nat : a <= b => a * l <= b * l
    BY SMTT(30)
  <2>. QED
    BY <1>0, <1>1, <1>4, <2>1
<1>10. used < Quota
  <2>1. \A a, l \in Nat : a * l \in Nat
    BY SMTT(30)
  <2>2. Cardinality(T) * Largest \in Nat /\ wave * Largest \in Nat
    BY <1>0, <1>1, <1>4, <2>1
  <2>. QED
    BY <1>0, <1>3, <1>8, <1>9, <2>2 DEF Counted
<1>. QED
  BY <1>0, <1>10 DEF AdmitBytes

LEMMA LimitStep ==
  ASSUME RewriteInv, [RewriteNext]_rewriteVars
  PROVE  LegacyWindowsFit'
<1>. USE DEF RewriteInv, CallInv
<1>1. [PipelineNext]_pipelineVars
  BY StepShape DEF rewriteVars
<1>2. size' = size
  BY <1>1, SizeIsFixed
<1>3. writer' = writer
  BY DEF RewriteNext, WriterNext, NextWave, WriterReturns, Prepare, Consumed, Prepared, Emit, CloseEmitted,
         ReleaseEmitted, Refused, Surroundings, rewriteVars, writerVars, fixed
<1>. SUFFICES ASSUME ~Rar5, \A m \in Selected : size[m] <= Quota, failure' = "limit" PROVE FALSE
  BY <1>2, <1>3 DEF LegacyWindowsFit, WindowsFitTheQuota, Rar5
<1>4. failure # "limit"
  BY DEF LegacyWindowsFit, WindowsFitTheQuota
<1>5. DecoderNext
  <2>1. ASSUME CallerNext PROVE UNCHANGED failure
    BY <2>1, CallerFacts, ReturnFacts DEF decoderVars, CallerNext, Judge, StopDecoder, NotifyDecoder, Join,
                                          GuardCancels, GuardLocks, GuardClears, GuardNotifies
  <2>2. ASSUME NEW r \in Readers, ReaderNext(r) PROVE UNCHANGED failure
    BY <2>2, ReaderFacts DEF decoderVars
  <2>. QED
    BY <1>1, <1>4, <2>1, <2>2 DEF PipelineNext, CancelParent, Ended, pipelineVars, decoderVars
<1>6. size \in Sizes /\ Selected \subseteq 1 .. N /\ Quota \in Nat /\ size \in [1 .. N -> Nat]
  BY Members, PipelineAssumption DEF PipelineAssumption, PipelineInv, PipelineTypeOK
<1>7. ~RefuseSelection
  <2>1. \A m \in Selected : ~(size[m] > Quota)
    BY <1>6
  <2>. QED
    BY <2>1 DEF RefuseSelection
<1>8. ~OverLimit
  BY WindowFits DEF OverLimit
<1>. QED
  BY <1>4, <1>5, <1>7, <1>8 DEF DecoderNext, Start, MayPublish, Publish, Decide, Demanded, Reserve, Store,
         Verified, Interrupted, DecodeError, StoreError, Finish, Fail
----------------------------------------------------------------------------
(* The writer as a whole.                                                  *)

LEMMA WriterInitial == WriterInit => RewriteInv
<1>. SUFFICES ASSUME WriterInit PROVE RewriteInv
  OBVIOUS
<1>. USE DEF WriterInit
<1>1. PipelineInv /\ EndInv
  BY PipelineInitial, InitialEnd
<1>2. AnswerInv /\ RequestInv
  <2>1. /\ token = FALSE /\ error = "none" /\ done = FALSE /\ requested = 0 /\ published = {}
        /\ pending = 0 /\ decoder = "start"
    BY DEF PipelineInit
  <2>2. AnswerInv
    BY <2>1 DEF AnswerInv
  <2>3. RequestInv
    BY <2>1 DEF RequestInv
  <2>. QED
    BY <2>2, <2>3
<1>3. /\ IsFiniteSet(Selected) /\ Cardinality(Selected) \in Nat /\ Threads \in Nat
      /\ \A k \in Inputs : k \in Nat /\ k > 0 /\ Member(k) \in Nat /\ Member(k) > 0
  <2>1. \A k \in Inputs : Member(k) \in 1 .. N
    BY InputOrder, Members
  <2>2. \A k \in Inputs : Member(k) \in Nat /\ Member(k) > 0
    BY <2>1, Members
  <2>3. \A k \in Inputs : k \in Nat /\ k > 0
    BY WriterFacts DEF Inputs
  <2>. QED
    BY <2>2, <2>3, WriterFacts
<1>4. WriterTypeOK
  <2>1. LegacyWindow \in Nat
    BY WindowFacts DEF PipelineInit
  <2>2. stored \subseteq Selected
    BY WriterAssumption DEF WriterAssumption
  <2>3. 0 \in 0 .. Threads /\ 0 + 0 <= Cardinality(Selected) /\ 0 <= LegacyWindow
    BY <1>3, <2>1
  <2>. QED
    BY <2>2, <2>3 DEF WriterTypeOK, InputStates
<1>5. ProgressInv
  BY <1>3 DEF ProgressInv
<1>6. AskedInv
  <2>1. \A k \in Inputs : ~(Member(k) <= 0)
    BY <1>3
  <2>. QED
    BY <2>1 DEF AskedInv, PipelineInit
<1>7. SourceInv /\ OpenInv
  BY DEF SourceInv, OpenInv, PipelineInit
<1>8. OwnerInv
  BY DEF OwnerInv, WorksFor, PipelineInit
<1>9. LegacyWindowsFit
  BY DEF LegacyWindowsFit, WindowsFitTheQuota, PipelineInit
<1>. QED
  BY <1>1, <1>2, <1>4, <1>5, <1>6, <1>7, <1>8, <1>9 DEF RewriteInv, CallInv, InputInv

LEMMA RewriteStep == RewriteInv /\ [RewriteNext]_rewriteVars => RewriteInv'
<1>. SUFFICES ASSUME RewriteInv, [RewriteNext]_rewriteVars PROVE RewriteInv'
  OBVIOUS
<1>1. WriterTypeOK /\ CallInv /\ InputInv
  BY DEF RewriteInv
<1>2. WriterTypeOK'
  <2>1. CASE UNCHANGED rewriteVars
    <3>1. LegacyWindow' = LegacyWindow
      BY <2>1 DEF rewriteVars, pipelineVars, tokenVars, LegacyWindow, MaxPreparationWindow, Largest
    <3>. QED
      BY <1>1, <2>1, <3>1 DEF rewriteVars, writerVars, WriterTypeOK, Rar5
  <2>2. CASE RewriteNext
    BY <1>1, <2>2, WriterTypeStep DEF CallInv, PipelineInv, PipelineTypeOK
  <2>. QED
    BY <2>1, <2>2
<1>3. [PipelineNext]_pipelineVars
  BY <1>1, StepShape DEF rewriteVars
<1>4. CallInv'
  BY <1>1, <1>3, CallStep
<1>5. InputInv'
  BY <1>1, <1>2, InputStep
<1>. QED
  BY <1>2, <1>4, <1>5, LimitStep DEF RewriteInv

LEMMA RewriteSafety == RewriteSpec => WriterInit /\ [][RewriteNext]_rewriteVars
BY PTL DEF RewriteSpec

\* The invariant holds throughout a rewrite, whichever writer consumes it.
THEOREM RewriteInvariant == RewriteSpec => []RewriteInv
BY WriterInitial, RewriteStep, RewriteSafety, PTL

\* A selection that fits the quota never runs into it in the legacy writer: what
\* is charged belongs to the window, and a window of largest payloads fits.
THEOREM WindowsFit == RewriteSpec => []LegacyWindowsFit
<1>1. RewriteInv => LegacyWindowsFit
  BY DEF RewriteInv
<1>. QED
  BY <1>1, RewriteInvariant, PTL

\* An input fails only when the decoder has failed or the rewrite is cancelled:
\* a source keeps its lease until its last use.
THEOREM FailuresAreTheDecoders == RewriteSpec => []OnlyTheDecoderFails
<1>1. RewriteInv => OnlyTheDecoderFails
  BY DEF RewriteInv, CallInv, PipelineInv, PipelineTypeOK, InputInv, OpenInv, Troubled, OnlyTheDecoderFails
<1>. QED
  BY <1>1, RewriteInvariant, PTL

\* Both writers are consumers as the pipeline allows: all that is proved of a
\* call by steps holds of theirs.
THEOREM WritersAreConsumers == RewriteSpec => PipelineInit /\ [][PipelineNext]_pipelineVars
<1>1. WriterInit => PipelineInit
  BY DEF WriterInit
<1>2. RewriteInv /\ [RewriteNext]_rewriteVars => [PipelineNext]_pipelineVars
  BY StepShape DEF RewriteInv, rewriteVars
<1>. QED
  BY <1>1, <1>2, RewriteInvariant, RewriteSafety, PTL
=============================================================================
