------------------------ MODULE WorkspaceLedgerProofs ------------------------
(***************************************************************************)
(* The accounting of the workspace ledger, for every number of scopes and  *)
(* charges and every limit.                                                *)
(***************************************************************************)
EXTENDS WorkspaceLedger, TotalsProofs

LedgerInv ==
  /\ LedgerTypeOK
  /\ CommitmentFits
  /\ Conservation
  /\ ScopeConservation
  /\ RetiredIsExact
  /\ NoOrphanScope

\* Everything that changes the share of one holder h in the global counter by
\* the difference keeps the counter conserved and inside its type.
LEMMA HolderStep ==
  ASSUME LedgerAssumption, LedgerTypeOK, CommitmentFits, Conservation,
         NEW h \in Holders,
         phase' \in [Scopes -> Phases], capacity' \in [Scopes -> 0 .. Limit],
         owner' \in [Charges -> Scopes \cup {Global, None}],
         bytes' \in [Charges -> 0 .. Limit],
         CommitmentFits',
         \A k \in Holders \ {h} : Held'[k] = Held[k],
         used' = used - Held[h] + Held'[h],
         used' <= Limit
  PROVE  Conservation' /\ used' \in 0 .. Limit
<1>1. IsFiniteSet(Holders)
  BY FS_Union DEF Holders, LedgerAssumption
<1>2. Held \in [Holders -> 0 .. Limit]
  BY DEF Held, Holders, LedgerAssumption, LedgerTypeOK, CommitmentFits, Live, Phases
<1>3. Held' \in [Holders -> 0 .. Limit]
  BY DEF Held, Holders, LedgerAssumption, CommitmentFits, Live, Phases
<1>4. Limit \in Nat
  BY DEF LedgerAssumption
<1>5. Total(Held', Holders, Limit) = Total(Held, Holders, Limit) - Held[h] + Held'[h]
  BY <1>1, <1>2, <1>3, <1>4, TotalUpdate
<1>6. Total(Held', Holders, Limit) \in Nat
  BY <1>1, <1>4, TotalFinite
<1>7. used' = Total(Held', Holders, Limit)
  BY <1>5 DEF Conservation
<1>. QED
  BY <1>4, <1>6, <1>7 DEF Conservation

\* The same for the charges of one scope and the scope's own counter.
LEMMA ScopeShare ==
  ASSUME LedgerAssumption, LedgerTypeOK, ScopeConservation,
         NEW s \in Scopes, NEW c \in Charges,
         owner' \in [Charges -> Scopes \cup {Global, None}],
         bytes' \in [Charges -> 0 .. Limit],
         \A d \in Charges \ {c} : owner'[d] = owner[d] /\ bytes'[d] = bytes[d],
         scopeUsed'[s] = scopeUsed[s] - ChargedTo(s)[c] + ChargedTo(s)'[c]
  PROVE  scopeUsed'[s] = Total(ChargedTo(s)', Charges, Limit)
<1>1. ChargedTo(s) \in [Charges -> 0 .. Limit] /\ ChargedTo(s)' \in [Charges -> 0 .. Limit]
  BY DEF ChargedTo, LedgerTypeOK, LedgerAssumption
<1>2. \A d \in Charges \ {c} : ChargedTo(s)'[d] = ChargedTo(s)[d]
  BY DEF ChargedTo
<1>3. scopeUsed[s] = Total(ChargedTo(s), Charges, Limit)
  BY DEF ScopeConservation
<1>4. IsFiniteSet(Charges) /\ Limit \in Nat
  BY DEF LedgerAssumption
<1>5. Total(ChargedTo(s)', Charges, Limit)
        = Total(ChargedTo(s), Charges, Limit) - ChargedTo(s)[c] + ChargedTo(s)'[c]
  BY SMTT(60), <1>1, <1>2, <1>4, TotalUpdate
<1>. QED
  BY <1>3, <1>5

\* A charge of a scope is within the scope's counter.
LEMMA ChargeWithinScope ==
  ASSUME LedgerAssumption, LedgerTypeOK, ScopeConservation,
         NEW c \in Charges, owner[c] \in Scopes
  PROVE  bytes[c] <= scopeUsed[owner[c]]
<1>. DEFINE f == ChargedTo(owner[c])
<1>1. f \in [Charges -> 0 .. Limit] /\ f[c] = bytes[c]
  BY DEF ChargedTo, LedgerTypeOK, LedgerAssumption
<1>2. scopeUsed[owner[c]] = Total(f, Charges, Limit)
  BY DEF ScopeConservation
<1>3. IsFiniteSet(Charges) /\ Limit \in Nat
  BY DEF LedgerAssumption
<1>. HIDE DEF f
<1>. QED
  BY <1>1, <1>2, <1>3, TotalMember

\* A scope none of whose charges has bytes uses nothing.
LEMMA EmptyScope ==
  ASSUME LedgerAssumption, LedgerTypeOK, ScopeConservation,
         NEW s \in Scopes, \A c \in Charges : owner[c] = s => bytes[c] = 0
  PROVE  scopeUsed[s] = 0
<1>. DEFINE f == ChargedTo(s)
<1>1. f \in [Charges -> 0 .. Limit] /\ \A c \in Charges : f[c] = 0
  BY DEF ChargedTo, LedgerTypeOK, LedgerAssumption
<1>2. scopeUsed[s] = Total(f, Charges, Limit)
  BY DEF ScopeConservation
<1>3. IsFiniteSet(Charges) /\ Limit \in Nat
  BY DEF LedgerAssumption
<1>. HIDE DEF f
<1>. QED
  BY <1>1, <1>2, <1>3, TotalZero

----------------------------------------------------------------------------
LEMMA ReserveStep ==
  ASSUME LedgerAssumption, LedgerInv, NEW s \in Scopes, NEW cap \in 0 .. Limit,
         Reserve(s, cap)
  PROVE  LedgerInv'
<1>. USE DEF LedgerAssumption, LedgerInv, LedgerTypeOK
<1>1. used + cap + ReservationBytes <= Limit /\ cap + ReservationBytes <= Limit
  BY DEF Reserve, Fits
<1>2. /\ phase' \in [Scopes -> Phases] /\ capacity' \in [Scopes -> 0 .. Limit]
      /\ owner' = owner /\ bytes' = bytes /\ scopeUsed' = scopeUsed /\ handles' = handles
      /\ CommitmentFits'
  BY <1>1 DEF Reserve, chargeVars, CommitmentFits, Live, Phases
<1>3. s \in Holders /\ \A k \in Holders \ {s} : Held'[k] = Held[k]
  BY <1>2 DEF Reserve, Held, Holders, Live
<1>4. Held[s] = 0 /\ Held'[s] = cap + ReservationBytes
  BY <1>3 DEF Reserve, Held, Live
<1>5. used' = used - Held[s] + Held'[s] /\ used' <= Limit
  BY <1>1, <1>4 DEF Reserve
<1>6. Conservation' /\ used' \in 0 .. Limit
  BY <1>2, <1>3, <1>5, HolderStep
<1>7. ScopeConservation'
  <2>1. \A t \in Scopes : ChargedTo(t)' = ChargedTo(t)
    BY <1>2 DEF ChargedTo
  <2>2. scopeUsed[s] = 0
    BY EmptyScope DEF NoOrphanScope, Reserve, Live, Dependents
  <2>. QED
    BY <1>2, <2>1, <2>2 DEF ScopeConservation, Reserve
<1>8. RetiredIsExact' /\ NoOrphanScope'
  BY <1>2 DEF RetiredIsExact, NoOrphanScope, Reserve, Reserved, Reachable, Live, Dependents
<1>. QED
  BY <1>2, <1>6, <1>7, <1>8

\* Start and CloneHandle commit and release nothing.
LEMMA HandleStep ==
  ASSUME LedgerAssumption, LedgerInv, NEW s \in Scopes, Start(s) \/ CloneHandle(s)
  PROVE  LedgerInv'
<1>. USE DEF LedgerAssumption, LedgerInv, LedgerTypeOK
<1>1. /\ phase' \in [Scopes -> Phases] /\ handles' \in [Scopes -> 0 .. MaxHandles]
      /\ UNCHANGED <<used, capacity, scopeUsed, owner, bytes>>
      /\ \A t \in Scopes :
           /\ Live(t)' = Live(t)
           /\ Reserved(t)' = Reserved(t)
           /\ handles'[t] >= handles[t]
           /\ ~Live(t) => handles'[t] = handles[t]
  BY DEF Start, CloneHandle, chargeVars, Live, Reserved, Phases
<1>2. Held' = Held
  BY <1>1 DEF Held
<1>3. \A t \in Scopes : ChargedTo(t)' = ChargedTo(t)
  BY <1>1 DEF ChargedTo
<1>4. Conservation' /\ ScopeConservation' /\ CommitmentFits' /\ RetiredIsExact'
  BY <1>1, <1>2, <1>3 DEF Conservation, ScopeConservation, CommitmentFits, RetiredIsExact
<1>5. NoOrphanScope'
  <2>1. \A t \in Scopes : Dependents(t)' = Dependents(t)
    BY <1>1 DEF Dependents
  <2>. QED
    BY <1>1, <2>1 DEF NoOrphanScope, Reachable
<1>. QED
  BY <1>1, <1>4, <1>5

\* The reservation goes: its room returns, and with no other handle its control.
LEMMA RetireStep ==
  ASSUME LedgerAssumption, LedgerInv, NEW s \in Scopes, Retire(s)
  PROVE  LedgerInv'
<1>. USE DEF LedgerAssumption, LedgerInv, LedgerTypeOK
<1>. DEFINE last == handles[s] = 0 /\ Dependents(s) = {}
<1>1. /\ phase' \in [Scopes -> Phases] /\ capacity' \in [Scopes -> 0 .. Limit]
      /\ UNCHANGED <<scopeUsed, handles, owner, bytes>>
  BY DEF Retire, chargeVars, Phases
<1>2. scopeUsed[s] <= capacity[s] /\ capacity'[s] = scopeUsed[s]
  BY DEF ScopeConservation, Retire
<1>3. CommitmentFits'
  BY <1>1, <1>2 DEF Retire, CommitmentFits, Live, Reserved
<1>4. s \in Holders /\ \A k \in Holders \ {s} : Held'[k] = Held[k]
  BY <1>1 DEF Retire, Held, Holders, Live
<1>5. Held[s] = capacity[s] + ReservationBytes
  BY <1>4 DEF Retire, Held, Live, Reserved
<1>6. ASSUME last PROVE scopeUsed[s] = 0
  BY <1>6, EmptyScope DEF Dependents
<1>7. Held'[s] = IF last THEN 0 ELSE scopeUsed[s] + ReservationBytes
  BY <1>2, <1>4 DEF Retire, Held, Live
<1>8. used' = used - Held[s] + Held'[s] /\ used' <= used
  BY <1>2, <1>5, <1>6, <1>7 DEF Retire, Room
<1>9. Conservation' /\ used' \in 0 .. Limit
  BY <1>1, <1>3, <1>4, <1>8, HolderStep
<1>10. \A t \in Scopes : ChargedTo(t)' = ChargedTo(t)
  BY <1>1 DEF ChargedTo
<1>11. ScopeConservation' /\ RetiredIsExact'
  BY <1>1, <1>2, <1>10 DEF ScopeConservation, RetiredIsExact, Retire, Reserved
<1>12. NoOrphanScope'
  BY <1>1, <1>2, <1>6 DEF NoOrphanScope, Retire, Reserved, Reachable, Live, Dependents
<1>. QED
  BY <1>1, <1>3, <1>9, <1>11, <1>12

\* What the drop of the last handle of a retired scope does to the counter.
LEMMA FreeStep ==
  ASSUME LedgerAssumption, LedgerInv, NEW s \in Scopes, NEW last \in BOOLEAN,
         last => phase[s] = "retired" /\ \A c \in Charges : owner[c] = s => bytes[c] = 0,
         FreeIf(s, last), UNCHANGED <<capacity, scopeUsed, bytes>>,
         owner' \in [Charges -> Scopes \cup {Global, None}],
         \A c \in Charges : owner[c] = Global <=> owner'[c] = Global
  PROVE  /\ phase' \in [Scopes -> Phases] /\ used' \in 0 .. Limit
         /\ CommitmentFits' /\ Conservation' /\ RetiredIsExact'
<1>. USE DEF LedgerAssumption, LedgerInv, LedgerTypeOK
<1>1. phase' \in [Scopes -> Phases]
  BY DEF FreeIf, Phases
<1>2. CommitmentFits'
  BY DEF FreeIf, CommitmentFits, Live
<1>3. s \in Holders /\ \A k \in Holders \ {s} : Held'[k] = Held[k]
  BY DEF FreeIf, Held, Holders, Live
<1>4. ASSUME last PROVE capacity[s] = 0
  <2>1. scopeUsed[s] = 0
    BY <1>4, EmptyScope
  <2>. QED
    BY <1>4, <2>1 DEF RetiredIsExact, Reserved
<1>5. used' = used - Held[s] + Held'[s] /\ used' <= used
  <2>1. CASE last
    <3>1. Held[s] = ReservationBytes /\ Held'[s] = 0
      BY <1>3, <1>4, <2>1 DEF FreeIf, Held, Live
    <3>. QED
      BY <2>1, <3>1 DEF FreeIf
  <2>2. CASE ~last
    <3>1. Held'[s] = Held[s] /\ Held[s] \in Nat
      BY <1>3, <2>2 DEF FreeIf, Held, Live
    <3>. QED
      BY <2>2, <3>1 DEF FreeIf
  <2>. QED
    BY <2>1, <2>2
<1>6. Conservation' /\ used' \in 0 .. Limit
  BY <1>1, <1>2, <1>3, <1>5, HolderStep
<1>7. RetiredIsExact'
  BY DEF FreeIf, RetiredIsExact, Reserved
<1>. QED
  BY <1>1, <1>2, <1>6, <1>7

LEMMA DropHandleStep ==
  ASSUME LedgerAssumption, LedgerInv, NEW s \in Scopes, DropHandle(s)
  PROVE  LedgerInv'
<1>. USE DEF LedgerAssumption, LedgerInv, LedgerTypeOK
<1>. DEFINE last == phase[s] = "retired" /\ handles[s] = 1 /\ Dependents(s) = {}
<1>1. /\ FreeIf(s, last) /\ UNCHANGED <<capacity, scopeUsed, owner, bytes>>
      /\ handles' \in [Scopes -> 0 .. MaxHandles]
      /\ handles[s] > 0 /\ handles' = [handles EXCEPT ![s] = @ - 1]
  BY DEF DropHandle, chargeVars
<1>2. last \in BOOLEAN /\ (last => \A c \in Charges : owner[c] = s => bytes[c] = 0)
  BY DEF Dependents
<1>3. /\ phase' \in [Scopes -> Phases] /\ used' \in 0 .. Limit
      /\ CommitmentFits' /\ Conservation' /\ RetiredIsExact'
  BY <1>1, <1>2, FreeStep
<1>4. \A t \in Scopes : ChargedTo(t)' = ChargedTo(t)
  BY <1>1 DEF ChargedTo
<1>5. ScopeConservation'
  BY <1>1, <1>4 DEF ScopeConservation
<1>6. last => capacity[s] = 0
  <2>1. last => scopeUsed[s] = 0
    BY <1>2, EmptyScope
  <2>. QED
    BY <2>1 DEF RetiredIsExact, Reserved
<1>7. NoOrphanScope'
  <2>1. \A t \in Scopes : Dependents(t)' = Dependents(t)
    BY <1>1 DEF Dependents
  <2>2. \A t \in Scopes \ {s} : handles'[t] = handles[t] /\ phase'[t] = phase[t]
    BY <1>1 DEF FreeIf
  <2>3. \A t \in Scopes \ {s} :
          IF Live(t)' THEN Reachable(t)'
          ELSE handles'[t] = 0 /\ Dependents(t)' = {} /\ capacity'[t] = 0
    BY <1>1, <2>1, <2>2 DEF NoOrphanScope, Live, Reachable, Reserved
  <2>4. Live(s)
    BY <1>1 DEF NoOrphanScope
  <2>5. CASE last
    <3>1. ~Live(s)' /\ handles'[s] = 0 /\ Dependents(s)' = {} /\ capacity'[s] = 0
      BY <1>1, <1>6, <2>1, <2>5 DEF FreeIf, Live
    <3>. QED
      BY <1>1, <2>3, <3>1 DEF NoOrphanScope
  <2>6. CASE ~last
    <3>1. Live(s)' /\ phase'[s] = phase[s] /\ handles'[s] = handles[s] - 1
      BY <1>1, <2>4, <2>6 DEF FreeIf, Live
    <3>2. Reachable(s)'
      BY <1>1, <2>1, <2>4, <2>6, <3>1 DEF Reachable, Reserved, Live, Phases
    <3>. QED
      BY <1>1, <2>3, <3>1, <3>2 DEF NoOrphanScope
  <2>. QED
    BY <2>5, <2>6
<1>. QED
  BY <1>1, <1>3, <1>5, <1>7

----------------------------------------------------------------------------
\* A step that changes one charge keeps every scope's counter exact.
LEMMA ScopesStep ==
  ASSUME LedgerAssumption, LedgerTypeOK, ScopeConservation, NEW c \in Charges,
         owner' \in [Charges -> Scopes \cup {Global, None}],
         bytes' \in [Charges -> 0 .. Limit],
         \A d \in Charges \ {c} : owner'[d] = owner[d] /\ bytes'[d] = bytes[d],
         \A s \in Scopes :
            /\ scopeUsed'[s] = scopeUsed[s] - (IF owner[c] = s THEN bytes[c] ELSE 0)
                                            + (IF owner'[c] = s THEN bytes'[c] ELSE 0)
            /\ scopeUsed'[s] <= capacity'[s]
  PROVE  ScopeConservation'
<1>1. ASSUME NEW s \in Scopes
      PROVE  scopeUsed'[s] = Total(ChargedTo(s)', Charges, Limit)
  <2>1. ChargedTo(s)[c] = IF owner[c] = s THEN bytes[c] ELSE 0
    BY DEF ChargedTo
  <2>2. ChargedTo(s)'[c] = IF owner'[c] = s THEN bytes'[c] ELSE 0
    BY DEF ChargedTo
  <2>3. scopeUsed'[s] = scopeUsed[s] - ChargedTo(s)[c] + ChargedTo(s)'[c]
    BY <2>1, <2>2
  <2>. QED
    BY <2>3, ScopeShare
<1>. QED
  BY <1>1 DEF ScopeConservation

LEMMA NewChargeStep ==
  ASSUME LedgerAssumption, LedgerInv, NEW c \in Charges,
         NEW a \in Scopes \cup {Global}, NewCharge(c, a)
  PROVE  LedgerInv'
<1>. USE DEF LedgerAssumption, LedgerInv, LedgerTypeOK
<1>1. /\ owner[c] = None /\ bytes[c] = 0
      /\ owner' = [owner EXCEPT ![c] = a]
      /\ UNCHANGED <<used, phase, capacity, scopeUsed, handles, bytes>>
      /\ a \in Scopes => Live(a)
  BY DEF NewCharge, scopeVars, NoOrphanScope
<1>2. Held' = Held
  <2>1. \A h \in Holders : Held'[h] = Held[h]
    BY <1>1 DEF Held, Live, Holders
  <2>. QED
    BY <2>1 DEF Held
<1>3. ScopeConservation'
  BY <1>1, ScopesStep DEF ScopeConservation
<1>4. Conservation' /\ CommitmentFits' /\ RetiredIsExact'
  BY <1>1, <1>2 DEF Conservation, CommitmentFits, RetiredIsExact, Live, Reserved
<1>5. NoOrphanScope'
  <2>1. \A s \in Scopes : Dependents(s)' = IF s = a THEN Dependents(s) \cup {c} ELSE Dependents(s)
    BY <1>1 DEF Dependents
  <2>. QED
    BY <1>1, <2>1 DEF NoOrphanScope, Live, Reachable, Reserved
<1>. QED
  BY <1>1, <1>3, <1>4, <1>5

\* Growth and shrinkage of an unscoped charge.
LEMMA GlobalStep ==
  ASSUME LedgerAssumption, LedgerInv, NEW c \in Charges, NEW n \in 0 .. Limit,
         GrowGlobal(c, n) \/ ShrinkGlobal(c, n)
  PROVE  LedgerInv'
<1>. USE DEF LedgerAssumption, LedgerInv, LedgerTypeOK
<1>1. /\ owner[c] = Global
      /\ used' = used - bytes[c] + n /\ used' <= Limit
      /\ bytes' = [bytes EXCEPT ![c] = n]
      /\ UNCHANGED <<phase, capacity, scopeUsed, handles, owner>>
  BY DEF GrowGlobal, ShrinkGlobal, Fits, scopeVars
<1>2. CommitmentFits' /\ RetiredIsExact'
  BY <1>1 DEF CommitmentFits, RetiredIsExact, Live, Reserved
<1>3. c \in Holders /\ \A k \in Holders \ {c} : Held'[k] = Held[k]
  BY <1>1 DEF Held, Holders, Live
<1>4. Held[c] = bytes[c] /\ Held'[c] = n
  BY <1>1, <1>3 DEF Held
<1>5. Conservation' /\ used' \in 0 .. Limit
  BY <1>1, <1>2, <1>3, <1>4, HolderStep
<1>6. ScopeConservation'
  BY <1>1, ScopesStep DEF ScopeConservation
<1>7. NoOrphanScope'
  <2>1. \A s \in Scopes : Dependents(s)' = Dependents(s)
    BY <1>1 DEF Dependents
  <2>. QED
    BY <1>1, <2>1 DEF NoOrphanScope, Live, Reachable, Reserved
<1>. QED
  BY <1>1, <1>2, <1>5, <1>6, <1>7

\* Growth of a scoped charge: the global counter is not asked.
LEMMA GrowScopedStep ==
  ASSUME LedgerAssumption, LedgerInv, NEW c \in Charges, NEW n \in 0 .. Limit,
         GrowScoped(c, n)
  PROVE  LedgerInv'
<1>. USE DEF LedgerAssumption, LedgerInv, LedgerTypeOK
<1>. DEFINE s == owner[c]
<1>1. /\ s \in Scopes
      /\ scopeUsed[s] + (n - bytes[c]) <= capacity[s]
      /\ n > bytes[c]
      /\ scopeUsed' = [scopeUsed EXCEPT ![s] = @ + (n - bytes[c])]
      /\ bytes' = [bytes EXCEPT ![c] = n]
      /\ UNCHANGED <<used, phase, capacity, handles, owner>>
  BY DEF GrowScoped, Room
<1>2. scopeUsed' \in [Scopes -> 0 .. Limit]
  BY <1>1
<1>3. Reserved(s)
  BY <1>1 DEF RetiredIsExact
<1>4. Held' = Held
  <2>1. \A h \in Holders : Held'[h] = Held[h]
    BY <1>1 DEF Held, Live, Holders
  <2>. QED
    BY <2>1 DEF Held
<1>5. ScopeConservation'
  BY <1>1, ScopesStep DEF ScopeConservation
<1>6. Conservation' /\ CommitmentFits' /\ RetiredIsExact'
  BY <1>1, <1>3, <1>4 DEF Conservation, CommitmentFits, RetiredIsExact, Live, Reserved
<1>7. NoOrphanScope'
  <2>1. \A t \in Scopes : Dependents(t)' = Dependents(t)
    BY <1>1 DEF Dependents
  <2>. QED
    BY <1>1, <2>1 DEF NoOrphanScope, Live, Reachable, Reserved
<1>. QED
  BY <1>1, <1>2, <1>5, <1>6, <1>7

\* Shrinkage of a scoped charge: to the worker, or back to the ledger.
LEMMA ShrinkScopedStep ==
  ASSUME LedgerAssumption, LedgerInv, NEW c \in Charges, NEW n \in 0 .. Limit,
         ShrinkScoped(c, n)
  PROVE  LedgerInv'
<1>. USE DEF LedgerAssumption, LedgerInv, LedgerTypeOK
<1>. DEFINE s == owner[c]
            released == bytes[c] - n
            back == Returned(s, released)
<1>1. /\ s \in Scopes /\ n < bytes[c]
      /\ scopeUsed' = [scopeUsed EXCEPT ![s] = @ - released]
      /\ capacity' = [capacity EXCEPT ![s] = @ - back]
      /\ used' = used - back
      /\ bytes' = [bytes EXCEPT ![c] = n]
      /\ UNCHANGED <<phase, handles, owner>>
  BY DEF ShrinkScoped
<1>2. released \in 1 .. scopeUsed[s] /\ scopeUsed[s] <= capacity[s] /\ back \in 0 .. released
  BY <1>1, ChargeWithinScope DEF Returned, ScopeConservation
<1>3. Live(s)
  BY <1>1 DEF NoOrphanScope, Dependents
<1>. HIDE DEF back
<1>4. scopeUsed' \in [Scopes -> 0 .. Limit] /\ capacity' \in [Scopes -> 0 .. Limit]
  BY <1>1, <1>2
<1>5. CommitmentFits'
  BY <1>1, <1>2 DEF CommitmentFits, Live
<1>6. s \in Holders /\ \A k \in Holders \ {s} : Held'[k] = Held[k]
  BY <1>1 DEF Held, Holders, Live
<1>7. Held[s] = capacity[s] + ReservationBytes /\ Held'[s] = capacity[s] - back + ReservationBytes
  BY <1>1, <1>3, <1>6 DEF Held, Live
<1>8. used' = used - Held[s] + Held'[s] /\ used' <= Limit
  BY <1>1, <1>2, <1>7
<1>9. Conservation' /\ used' \in 0 .. Limit
  BY <1>1, <1>4, <1>5, <1>6, <1>8, HolderStep
<1>10. \A t \in Scopes : scopeUsed'[t] <= capacity'[t]
  BY <1>1, <1>2 DEF ScopeConservation
<1>11. ScopeConservation'
  BY <1>1, <1>2, <1>10, ScopesStep
<1>12. RetiredIsExact'
  BY <1>1, <1>2, <1>3 DEF RetiredIsExact, Reserved, Returned, Live, Phases, back
<1>13. NoOrphanScope'
  <2>1. \A t \in Scopes : Dependents(t)' = Dependents(t)
    BY <1>1 DEF Dependents
  <2>. QED
    BY <1>1, <1>3, <2>1 DEF NoOrphanScope, Live, Reachable, Reserved
<1>. QED
  BY <1>1, <1>4, <1>5, <1>9, <1>11, <1>12, <1>13

LEMMA DropChargeStep ==
  ASSUME LedgerAssumption, LedgerInv, NEW c \in Charges, DropCharge(c)
  PROVE  LedgerInv'
<1>. USE DEF LedgerAssumption, LedgerInv, LedgerTypeOK
<1>1. /\ owner[c] # None /\ bytes[c] = 0
      /\ owner' = [owner EXCEPT ![c] = None]
      /\ UNCHANGED <<capacity, scopeUsed, handles, bytes>>
  BY DEF DropCharge
<1>2. ScopeConservation'
  BY <1>1, ScopesStep DEF ScopeConservation
<1>3. \A t \in Scopes : Dependents(t)' = Dependents(t) \ {c}
  BY <1>1 DEF Dependents
<1>4. CASE owner[c] = Global
  <2>1. UNCHANGED <<used, phase>>
    BY <1>4 DEF DropCharge
  <2>2. Held' = Held
    <3>1. \A h \in Holders : Held'[h] = Held[h]
      BY <1>1, <1>4, <2>1 DEF Held, Live, Holders
    <3>. QED
      BY <3>1 DEF Held
  <2>3. Conservation' /\ CommitmentFits' /\ RetiredIsExact'
    BY <1>1, <2>1, <2>2 DEF Conservation, CommitmentFits, RetiredIsExact, Live, Reserved
  <2>4. \A t \in Scopes : c \notin Dependents(t)
    BY <1>4 DEF Dependents
  <2>5. NoOrphanScope'
    BY <1>1, <1>3, <2>1, <2>4 DEF NoOrphanScope, Live, Reachable, Reserved
  <2>. QED
    BY <1>1, <1>2, <2>1, <2>3, <2>5
<1>5. ASSUME NEW s \in Scopes, owner[c] = s PROVE LedgerInv'
  <2>. DEFINE last == phase[s] = "retired" /\ handles[s] = 0 /\ Dependents(s) = {c}
  <2>1. FreeIf(s, last) /\ last \in BOOLEAN
    BY <1>5 DEF DropCharge
  <2>2. last => \A d \in Charges : owner[d] = s => bytes[d] = 0
    BY <1>1 DEF Dependents
  <2>3. /\ phase' \in [Scopes -> Phases] /\ used' \in 0 .. Limit
        /\ CommitmentFits' /\ Conservation' /\ RetiredIsExact'
    <3>1. owner' \in [Charges -> Scopes \cup {Global, None}]
      BY <1>1
    <3>2. \A d \in Charges : owner[d] = Global <=> owner'[d] = Global
      BY <1>1, <1>5
    <3>3. last => phase[s] = "retired"
      OBVIOUS
    <3>. HIDE DEF last
    <3>. QED
      BY <1>1, <1>5, <2>1, <2>2, <3>1, <3>2, <3>3, FreeStep
  <2>4. last => capacity[s] = 0
    <3>1. last => scopeUsed[s] = 0
      BY <1>5, <2>2, EmptyScope
    <3>. QED
      BY <1>5, <3>1 DEF RetiredIsExact, Reserved
  <2>5. NoOrphanScope'
    <3>1. \A t \in Scopes \ {s} : Dependents(t)' = Dependents(t) /\ phase'[t] = phase[t]
      <4>1. \A t \in Scopes \ {s} : c \notin Dependents(t)
        BY <1>5 DEF Dependents
      <4>2. \A t \in Scopes \ {s} : phase'[t] = phase[t]
        BY <2>1 DEF FreeIf
      <4>3. \A t \in Scopes \ {s} : Dependents(t) \ {c} = Dependents(t)
        BY <4>1
      <4>. QED
        BY <1>3, <4>2, <4>3
    <3>2. \A t \in Scopes \ {s} :
            IF Live(t)' THEN Reachable(t)'
            ELSE handles'[t] = 0 /\ Dependents(t)' = {} /\ capacity'[t] = 0
      BY <1>1, <3>1 DEF NoOrphanScope, Live, Reachable, Reserved
    <3>3. Live(s) /\ c \in Dependents(s)
      BY <1>5 DEF NoOrphanScope, Dependents
    <3>4. CASE last
      <4>1. ~Live(s)' /\ handles'[s] = 0 /\ Dependents(s)' = {} /\ capacity'[s] = 0
        BY <1>1, <1>3, <1>5, <2>1, <2>4, <3>4 DEF FreeIf, Live
      <4>. QED
        BY <1>1, <1>5, <3>2, <4>1 DEF NoOrphanScope
    <3>5. CASE ~last
      <4>1. phase'[s] = phase[s] /\ handles'[s] = handles[s]
        BY <1>1, <2>1, <3>5 DEF FreeIf
      <4>2. Dependents(s)' # {} \/ handles[s] > 0 \/ Reserved(s)
        BY <1>3, <1>5, <3>3, <3>5 DEF Live, Reserved, Phases
      <4>3. Live(s)' /\ Reachable(s)'
        BY <3>3, <4>1, <4>2 DEF Live, Reachable, Reserved
      <4>. QED
        BY <1>1, <1>5, <3>2, <4>3 DEF NoOrphanScope
    <3>. QED
      BY <3>4, <3>5
  <2>. QED
    BY <1>1, <1>2, <2>3, <2>5
<1>. QED
  BY <1>1, <1>4, <1>5

----------------------------------------------------------------------------
LEMMA LedgerInitInv == LedgerAssumption /\ LedgerInit => LedgerInv
<1>. SUFFICES ASSUME LedgerAssumption, LedgerInit PROVE LedgerInv
  OBVIOUS
<1>. USE DEF LedgerAssumption, LedgerInit
<1>1. LedgerTypeOK
  BY DEF LedgerTypeOK, Phases
<1>2. IsFiniteSet(Holders)
  BY FS_Union DEF Holders
<1>3. Held \in [Holders -> 0 .. Limit] /\ \A h \in Holders : Held[h] = 0
  BY DEF Held, Holders, Live
<1>4. Conservation
  BY <1>2, <1>3, TotalZero DEF Conservation
<1>5. \A s \in Scopes : /\ ChargedTo(s) \in [Charges -> 0 .. Limit]
                         /\ \A c \in Charges : ChargedTo(s)[c] = 0
  BY DEF ChargedTo
<1>6. \A s \in Scopes : Total(ChargedTo(s), Charges, Limit) = 0
  BY <1>5, TotalZero
<1>7. ScopeConservation
  BY <1>6 DEF ScopeConservation
<1>8. CommitmentFits /\ RetiredIsExact /\ NoOrphanScope
  BY DEF CommitmentFits, RetiredIsExact, NoOrphanScope, Live, Dependents
<1>. QED
  BY <1>1, <1>4, <1>7, <1>8 DEF LedgerInv

LEMMA LedgerStep ==
  LedgerAssumption /\ LedgerInv /\ [LedgerNext]_ledgerVars => LedgerInv'
<1>. SUFFICES ASSUME LedgerAssumption, LedgerInv, [LedgerNext]_ledgerVars
              PROVE  LedgerInv'
  OBVIOUS
<1>1. ASSUME NEW s \in Scopes, NEW cap \in 0 .. Limit, Reserve(s, cap) PROVE LedgerInv'
  BY <1>1, ReserveStep
<1>2. ASSUME NEW s \in Scopes, Start(s) \/ CloneHandle(s) PROVE LedgerInv'
  BY <1>2, HandleStep
<1>3. ASSUME NEW s \in Scopes, DropHandle(s) PROVE LedgerInv'
  BY <1>3, DropHandleStep
<1>4. ASSUME NEW s \in Scopes, Retire(s) PROVE LedgerInv'
  BY <1>4, RetireStep
<1>5. ASSUME NEW c \in Charges, NEW a \in Scopes \cup {Global}, NewCharge(c, a)
      PROVE  LedgerInv'
  BY <1>5, NewChargeStep
<1>6. ASSUME NEW c \in Charges, NEW n \in 0 .. Limit, GrowGlobal(c, n) \/ ShrinkGlobal(c, n)
      PROVE  LedgerInv'
  BY <1>6, GlobalStep
<1>7. ASSUME NEW c \in Charges, NEW n \in 0 .. Limit, GrowScoped(c, n) PROVE LedgerInv'
  BY <1>7, GrowScopedStep
<1>8. ASSUME NEW c \in Charges, NEW n \in 0 .. Limit, ShrinkScoped(c, n) PROVE LedgerInv'
  BY <1>8, ShrinkScopedStep
<1>9. ASSUME NEW c \in Charges, DropCharge(c) PROVE LedgerInv'
  BY <1>9, DropChargeStep
<1>10. CASE UNCHANGED ledgerVars
  <2>1. /\ UNCHANGED <<used, phase, capacity, scopeUsed, handles, owner, bytes>>
    BY <1>10 DEF ledgerVars
  <2>2. Held' = Held /\ \A s \in Scopes : ChargedTo(s)' = ChargedTo(s) /\ Dependents(s)' = Dependents(s)
    BY <2>1 DEF Held, Live, ChargedTo, Dependents
  <2>. QED
    BY <2>1, <2>2 DEF LedgerInv, LedgerTypeOK, CommitmentFits, Conservation, ScopeConservation,
                      RetiredIsExact, NoOrphanScope, Live, Reserved, Reachable
<1>. QED
  BY <1>1, <1>2, <1>3, <1>4, <1>5, <1>6, <1>7, <1>8, <1>9, <1>10 DEF LedgerNext

\* The inductive invariant holds in every reachable state.
LEMMA LedgerInvariant == LedgerAssumption /\ LedgerSpec => []LedgerInv
<1>. SUFFICES ASSUME LedgerAssumption PROVE LedgerSpec => []LedgerInv
  OBVIOUS
<1>1. LedgerInit => LedgerInv
  BY LedgerInitInv
<1>2. LedgerInv /\ [LedgerNext]_ledgerVars => LedgerInv'
  BY LedgerStep
<1>. QED
  BY <1>1, <1>2, PTL DEF LedgerSpec

\* For every limit and any number of scopes and charges, the counter of the
\* ledger is exactly what live scopes and unscoped charges own and is within
\* the limit; each scope's counter is what its charges have, a retired scope
\* has no room, and no unreachable scope is charged.
THEOREM LedgerCorrect ==
  LedgerAssumption /\ LedgerSpec =>
    [](LedgerTypeOK /\ Conservation /\ ScopeConservation /\ ScopesAreSettled)
<1>. SUFFICES ASSUME LedgerAssumption
              PROVE  LedgerSpec =>
                       [](LedgerTypeOK /\ Conservation /\ ScopeConservation /\ ScopesAreSettled)
  OBVIOUS
<1>1. LedgerInv => LedgerTypeOK /\ Conservation /\ ScopeConservation /\ ScopesAreSettled
  BY DEF LedgerInv, ScopesAreSettled
<1>2. LedgerSpec => []LedgerInv
  BY LedgerInvariant
<1>. QED
  BY <1>1, <1>2, PTL

\* What is left of a reservation is exactly what escaped with its charges, and
\* its control block goes with the last of reservation, clones and charges, in
\* whatever order they are dropped (Reservation::drop, Usage::drop).
THEOREM ScopesSettle == LedgerAssumption /\ LedgerSpec => []ScopesAreSettled
BY LedgerCorrect, PTL

\* A worker's allocations under a live reservation never touch the global
\* counter nor a sibling's scope, and a retired scope never grows.
THEOREM WorkersAreIsolated == LedgerAssumption /\ LedgerSpec => ScopeIsolation
<1>. SUFFICES ASSUME LedgerAssumption PROVE LedgerSpec => ScopeIsolation
  OBVIOUS
<1>1. ASSUME LedgerInv, LedgerNext, NEW t \in Scopes PROVE Isolated(t)
  <2>. USE DEF LedgerAssumption, LedgerInv, LedgerTypeOK
  <2>1. ASSUME NEW s \in Scopes, NEW cap \in 0 .. Limit, Reserve(s, cap) PROVE Isolated(t)
    BY <1>1, <2>1 DEF Reserve, Isolated
  <2>2. ASSUME NEW s \in Scopes, Start(s) \/ CloneHandle(s) \/ DropHandle(s) PROVE Isolated(t)
    BY <1>1, <2>2 DEF Start, CloneHandle, DropHandle, Isolated
  <2>3. ASSUME NEW s \in Scopes, Retire(s) PROVE Isolated(t)
    BY <1>1, <2>3 DEF Retire, Reserved, Isolated
  <2>4. ASSUME NEW c \in Charges,
               \/ \E a \in Scopes \cup {Global} : NewCharge(c, a)
               \/ DropCharge(c)
               \/ \E n \in 0 .. Limit : GrowGlobal(c, n) \/ ShrinkGlobal(c, n)
        PROVE  Isolated(t)
    <3>1. scopeUsed' = scopeUsed /\ capacity' = capacity
      BY <2>4 DEF NewCharge, DropCharge, GrowGlobal, ShrinkGlobal, scopeVars
    <3>. QED
      BY <1>1, <3>1 DEF Isolated
  <2>5. ASSUME NEW c \in Charges, NEW n \in 0 .. Limit, GrowScoped(c, n) PROVE Isolated(t)
    BY <1>1, <2>5 DEF GrowScoped, Isolated
  <2>6. ASSUME NEW c \in Charges, NEW n \in 0 .. Limit, ShrinkScoped(c, n) PROVE Isolated(t)
    <3>. DEFINE back == Returned(owner[c], bytes[c] - n)
    <3>1. /\ owner[c] \in Scopes /\ n < bytes[c]
          /\ used' = used - back
          /\ capacity' = [capacity EXCEPT ![owner[c]] = @ - back]
          /\ scopeUsed' = [scopeUsed EXCEPT ![owner[c]] = @ - (bytes[c] - n)]
      BY <2>6 DEF ShrinkScoped
    <3>2. back \in Nat /\ (Reserved(owner[c]) => back = 0)
      BY <1>1, <3>1 DEF Returned, Reserved
    <3>. HIDE DEF back
    <3>3. \A u \in Scopes : capacity'[u] <= capacity[u]
      BY <1>1, <3>1, <3>2
    <3>4. Reserved(owner[c]) => used' = used /\ capacity' = capacity
      BY <1>1, <3>1, <3>2
    <3>5. \A u \in Scopes \ {owner[c]} : scopeUsed'[u] = scopeUsed[u]
      BY <1>1, <3>1
    <3>. QED
      BY <3>3, <3>4, <3>5 DEF Isolated
  <2>. QED
    BY <1>1, <2>1, <2>2, <2>3, <2>4, <2>5, <2>6 DEF LedgerNext
<1>2. LedgerInv /\ [LedgerNext]_ledgerVars => [\A s \in Scopes : Isolated(s)]_ledgerVars
  BY <1>1
<1>3. LedgerSpec => []LedgerInv
  BY LedgerInvariant
<1>. QED
  BY <1>2, <1>3, PTL DEF LedgerSpec, ScopeIsolation

----------------------------------------------------------------------------
\* Every operation moves the share of at most one holder.
LEMMA OneHolderMoves ==
  ASSUME LedgerAssumption, LedgerInv, LedgerNext
  PROVE  \E h \in Holders : \A k \in Holders \ {h} : Held'[k] = Held[k]
<1>. USE DEF LedgerAssumption, LedgerInv, LedgerTypeOK
<1>1. ASSUME NEW s \in Scopes,
             \/ \E cap \in 0 .. Limit : Reserve(s, cap)
             \/ Start(s) \/ CloneHandle(s) \/ DropHandle(s) \/ Retire(s)
      PROVE  \A k \in Holders \ {s} : Held'[k] = Held[k]
  <2>1. /\ \A t \in Scopes \ {s} : phase'[t] = phase[t] /\ capacity'[t] = capacity[t]
        /\ owner' = owner /\ bytes' = bytes
    BY <1>1 DEF Reserve, Start, CloneHandle, DropHandle, Retire, FreeIf, chargeVars
  <2>. QED
    BY <2>1 DEF Held, Holders, Live
<1>2. ASSUME NEW c \in Charges, NEW a \in Scopes \cup {Global}, NewCharge(c, a)
      PROVE  \A k \in Holders : Held'[k] = Held[k]
  BY <1>2 DEF NewCharge, NoOrphanScope, scopeVars, Held, Holders, Live
<1>3. ASSUME NEW c \in Charges, NEW n \in 0 .. Limit, GrowGlobal(c, n) \/ ShrinkGlobal(c, n)
      PROVE  \A k \in Holders \ {c} : Held'[k] = Held[k]
  BY <1>3 DEF GrowGlobal, ShrinkGlobal, scopeVars, Held, Holders, Live
<1>4. ASSUME NEW c \in Charges, NEW n \in 0 .. Limit, GrowScoped(c, n) \/ ShrinkScoped(c, n)
      PROVE  owner[c] \in Scopes /\ \A k \in Holders \ {owner[c]} : Held'[k] = Held[k]
  <2>1. /\ owner[c] \in Scopes /\ owner' = owner /\ phase' = phase
        /\ \A t \in Scopes \ {owner[c]} : capacity'[t] = capacity[t]
        /\ \A d \in Charges : owner[d] = Global => bytes'[d] = bytes[d]
    BY <1>4 DEF GrowScoped, ShrinkScoped
  <2>. QED
    BY <2>1 DEF Held, Holders, Live
<1>5. ASSUME NEW c \in Charges, DropCharge(c)
      PROVE  /\ owner[c] = Global => \A k \in Holders : Held'[k] = Held[k]
             /\ owner[c] # Global =>
                  owner[c] \in Scopes /\ \A k \in Holders \ {owner[c]} : Held'[k] = Held[k]
  <2>1. /\ owner' = [owner EXCEPT ![c] = None] /\ bytes[c] = 0 /\ owner[c] # None
        /\ UNCHANGED <<capacity, bytes>>
    BY <1>5 DEF DropCharge
  <2>2. CASE owner[c] = Global
    <3>1. phase' = phase
      BY <1>5, <2>2 DEF DropCharge
    <3>. QED
      BY <2>1, <2>2, <3>1 DEF Held, Holders, Live
  <2>3. CASE owner[c] \in Scopes
    <3>1. \A t \in Scopes \ {owner[c]} : phase'[t] = phase[t]
      BY <1>5, <2>3 DEF DropCharge, FreeIf
    <3>. QED
      BY <2>1, <2>3, <3>1 DEF Held, Holders, Live
  <2>. QED
    BY <2>1, <2>2, <2>3
<1>6. Scopes \subseteq Holders /\ Charges \subseteq Holders
  BY DEF Holders
<1>. QED
  BY <1>1, <1>2, <1>3, <1>4, <1>5, <1>6 DEF LedgerNext

\* The ledger implements the abstract quota under the mapping Held.
THEOREM LedgerImplementsQuota == LedgerAssumption /\ LedgerSpec => ImplementsQuota
<1>. SUFFICES ASSUME LedgerAssumption PROVE LedgerSpec => Q!Spec
  BY DEF ImplementsQuota
<1>1. LedgerInit => Q!Init
  BY DEF LedgerAssumption, LedgerInit, Q!Init, Held, Holders, Live
<1>2. ASSUME LedgerInv, LedgerInv', LedgerNext PROVE Q!Next \/ Held' = Held
  <2>1. PICK h \in Holders : \A k \in Holders \ {h} : Held'[k] = Held[k]
    BY <1>2, OneHolderMoves
  <2>2. IsFiniteSet(Holders) /\ Limit \in Nat
    BY FS_Union DEF Holders, LedgerAssumption
  <2>3. Held \in [Holders -> 0 .. Limit] /\ Held' \in [Holders -> 0 .. Limit]
    BY <1>2 DEF Held, Holders, LedgerInv, LedgerAssumption, LedgerTypeOK, CommitmentFits, Live
  <2>4. /\ used = Total(Held, Holders, Limit) /\ used' = Total(Held', Holders, Limit)
        /\ used \in 0 .. Limit /\ used' \in 0 .. Limit
    BY <1>2 DEF LedgerInv, Conservation, LedgerTypeOK
  <2>5. used' = used - Held[h] + Held'[h]
    BY <2>1, <2>2, <2>3, <2>4, TotalUpdate
  <2>6. Held' = [Held EXCEPT ![h] = Held'[h]]
    BY <2>1, <2>3
  <2>7. CASE Held'[h] > Held[h]
    <3>. DEFINE n == Held'[h] - Held[h]
    <3>1. n \in 1 .. Limit /\ used + n <= Limit /\ Held[h] + n = Held'[h]
      BY <2>2, <2>3, <2>4, <2>5, <2>7
    <3>2. Q!Sum(Held) = used
      <4>1. Q!Units(Held, Holders, Limit) = Units(Held, Holders, Limit)
        BY DEF Q!Units, Units
      <4>2. \A T : Q!Cardinality(T) = Cardinality(T)
        BY DEF Q!Cardinality, Cardinality
      <4>. QED
        BY <2>4, <4>1, <4>2 DEF Q!Sum, Q!Total, Total
    <3>3. Q!Acquire(h, n)
      BY <2>6, <3>1, <3>2 DEF Q!Acquire
    <3>. QED
      BY <3>1, <3>3 DEF Q!Next
  <2>8. CASE Held'[h] < Held[h]
    <3>. DEFINE n == Held[h] - Held'[h]
    <3>1. n \in 1 .. Limit /\ n <= Held[h] /\ Held[h] - n = Held'[h]
      BY <2>2, <2>3, <2>8
    <3>2. Q!Release(h, n)
      BY <2>6, <3>1 DEF Q!Release
    <3>. QED
      BY <3>1, <3>2 DEF Q!Next
  <2>9. CASE Held'[h] = Held[h]
    BY <2>3, <2>6, <2>9
  <2>. QED
    BY <2>3, <2>7, <2>8, <2>9
<1>3. LedgerInv /\ LedgerInv' /\ [LedgerNext]_ledgerVars => [Q!Next]_Held
  <2>1. UNCHANGED ledgerVars => Held' = Held
    BY DEF ledgerVars, Held, Live
  <2>. QED
    BY <1>2, <2>1
<1>4. LedgerSpec => []LedgerInv
  BY LedgerInvariant
<1>. QED
  BY <1>1, <1>3, <1>4, PTL DEF LedgerSpec, Q!Spec
=============================================================================
