--------------------------- MODULE WorkspaceLedger ---------------------------
(***************************************************************************)
(* The codec workspace ledger (codec/workspace/ledger.rs).  One global     *)
(* counter, `used', admits every byte.  A coordinator reserves a capacity  *)
(* for each worker before dispatch (a scope); a worker's allocations       *)
(* (charges) are then admitted by its own scope and never reach the global *)
(* counter.  Retiring a scope gives back the bytes it does not use; the    *)
(* charges that escaped keep theirs until they shrink.  The control block  *)
(* of a scope (RESERVATION_BYTES) is charged until its last handle drops.  *)
(*                                                                         *)
(* Each operation runs under the mutex of the scope or of the ledger, and  *)
(* takes them in that order, so one operation is one step.                 *)
(***************************************************************************)
EXTENDS Naturals, FiniteSets, Totals

CONSTANTS Scopes,            \* identities of reservations; reused once freed
          Charges,           \* identities of allocations
          Limit,             \* Ledger.limit
          ReservationBytes,  \* RESERVATION_BYTES
          MaxHandles,        \* bound: clones of one scope's allowance alive
          Global, None       \* an unscoped allowance; no allowance

ASSUME LedgerAssumption ==
  /\ IsFiniteSet(Scopes) /\ IsFiniteSet(Charges)
  /\ Scopes \cap Charges = {}
  /\ Limit \in Nat /\ ReservationBytes \in Nat /\ MaxHandles \in Nat
  /\ Global # None /\ {Global, None} \cap Scopes = {}

VARIABLES used,       \* *Ledger.used
          phase,      \* of each scope: none, admitted, started, retired
          capacity,   \* Usage.capacity
          scopeUsed,  \* Usage.used
          handles,    \* clones of the allowance held by workers
          owner,      \* Charge.allowance.scope, None while the charge is dead
          bytes       \* Charge.bytes

scopeVars  == <<phase, capacity, scopeUsed, handles>>
chargeVars == <<owner, bytes>>
ledgerVars == <<used, phase, capacity, scopeUsed, handles, owner, bytes>>

Phases == {"none", "admitted", "started", "retired"}

Live(s) == phase[s] # "none"

\* The Reservation value itself is a handle until it is dropped.
Reserved(s) == phase[s] \in {"admitted", "started"}

Dependents(s) == {c \in Charges : owner[c] = s}

\* Some clone of the allowance exists from which a charge can be made.
Reachable(s) == Reserved(s) \/ handles[s] > 0 \/ Dependents(s) # {}

LedgerInit ==
  /\ used = 0
  /\ phase = [s \in Scopes |-> "none"]
  /\ capacity = [s \in Scopes |-> 0]
  /\ scopeUsed = [s \in Scopes |-> 0]
  /\ handles = [s \in Scopes |-> 0]
  /\ owner = [c \in Charges |-> None]
  /\ bytes = [c \in Charges |-> 0]

----------------------------------------------------------------------------
\* Limited::reserve_global refuses what the limit does not leave room for.
FitsOffByOne(n) == n <= Limit - used + 1  \* mistake: the limit is exclusive

Fits(n) == n <= Limit - used

\* The bytes a scope can still admit.
Room(s) == capacity[s] - scopeUsed[s]

\* Limited::reserve on the coordinator's unscoped allowance.
Reserve(s, cap) ==
  /\ phase[s] = "none"
  /\ Fits(cap + ReservationBytes)
  /\ used' = used + cap + ReservationBytes
  /\ phase' = [phase EXCEPT ![s] = "admitted"]
  /\ capacity' = [capacity EXCEPT ![s] = cap]
  /\ UNCHANGED <<scopeUsed, handles, chargeVars>>

\* Reservation::start.
Start(s) ==
  /\ phase[s] = "admitted"
  /\ phase' = [phase EXCEPT ![s] = "started"]
  /\ UNCHANGED <<used, capacity, scopeUsed, handles, chargeVars>>

\* The allowance of a scope is cloned by whoever has one.
CloneHandle(s) ==
  /\ Live(s) /\ Reachable(s)
  /\ handles[s] < MaxHandles
  /\ handles' = [handles EXCEPT ![s] = @ + 1]
  /\ UNCHANGED <<used, phase, capacity, scopeUsed, chargeVars>>

\* Usage::drop, run by whichever handle of s goes last: the scope's record
\* ends and its control bytes return.  Its unused bytes went back before.
FreeKeepsControl(s, last) ==  \* mistake: the control block stays charged
  /\ phase' = IF last THEN [phase EXCEPT ![s] = "none"] ELSE phase
  /\ UNCHANGED used

FreeNever(s, last) == UNCHANGED <<phase, used>>  \* mistake: the record leaks

FreeIf(s, last) ==
  /\ phase' = IF last THEN [phase EXCEPT ![s] = "none"] ELSE phase
  /\ used' = IF last THEN used - ReservationBytes ELSE used

\* Reservation::drop (retire): what the scope does not use goes back, and the
\* capacity of what escaped is frozen at its size.  With no other handle left
\* the scope ends with it.
Retire(s) ==
  LET last == handles[s] = 0 /\ Dependents(s) = {} IN
  /\ Reserved(s)
  /\ phase' = [phase EXCEPT ![s] = IF last THEN "none" ELSE "retired"]
  /\ used' = used - Room(s)
                  - (IF last THEN ReservationBytes ELSE 0)
  /\ capacity' = [capacity EXCEPT ![s] = scopeUsed[s]]
  /\ UNCHANGED <<scopeUsed, handles, chargeVars>>

\* A worker's clone of the allowance is dropped.
DropHandle(s) ==
  /\ handles[s] > 0
  /\ handles' = [handles EXCEPT ![s] = @ - 1]
  /\ FreeIf(s, phase[s] = "retired" /\ handles[s] = 1 /\ Dependents(s) = {})
  /\ UNCHANGED <<capacity, scopeUsed, chargeVars>>

----------------------------------------------------------------------------
\* Budget::charge: an empty charge on an allowance somebody holds.
NewCharge(c, a) ==
  /\ owner[c] = None
  /\ a = Global \/ (a \in Scopes /\ Live(a) /\ Reachable(a))
  /\ owner' = [owner EXCEPT ![c] = a]
  /\ UNCHANGED <<used, scopeVars, bytes>>

\* Charge::resize to a larger size, unscoped: the global counter admits it.
GrowGlobal(c, n) ==
  /\ owner[c] = Global
  /\ n > bytes[c]
  /\ Fits(n - bytes[c])
  /\ used' = used + (n - bytes[c])
  /\ bytes' = [bytes EXCEPT ![c] = n]
  /\ UNCHANGED <<scopeVars, owner>>

\* Charge::resize to a larger size, scoped: only the scope's own capacity is
\* asked, whatever the ledger has to spare.
GrowScoped(c, n) ==
  LET s == owner[c] IN
  /\ s \in Scopes
  /\ n > bytes[c]
  /\ n - bytes[c] <= Room(s)
  /\ scopeUsed' = [scopeUsed EXCEPT ![s] = @ + (n - bytes[c])]
  /\ bytes' = [bytes EXCEPT ![c] = n]
  /\ UNCHANGED <<used, phase, capacity, handles, owner>>

\* Charge::resize to a smaller size, unscoped.
ShrinkGlobal(c, n) ==
  /\ owner[c] = Global
  /\ n < bytes[c]
  /\ used' = used - (bytes[c] - n)
  /\ bytes' = [bytes EXCEPT ![c] = n]
  /\ UNCHANGED <<scopeVars, owner>>

\* What a scoped shrink returns to the global counter.
ReturnedAlways(s, released) == released  \* mistake: a live scope gives back too
ReturnedNever(s, released) == 0          \* mistake: a retired scope does not

Returned(s, released) == IF phase[s] = "retired" THEN released ELSE 0

\* Charge::resize to a smaller size, scoped.  A live scope keeps the bytes for
\* its worker; a retired one returns them to the ledger with its capacity.
ShrinkScoped(c, n) ==
  LET s        == owner[c]
      released == bytes[c] - n
      back     == Returned(s, released)
  IN
  /\ s \in Scopes
  /\ n < bytes[c]
  /\ scopeUsed' = [scopeUsed EXCEPT ![s] = @ - released]
  /\ capacity' = [capacity EXCEPT ![s] = @ - back]
  /\ used' = used - back
  /\ bytes' = [bytes EXCEPT ![c] = n]
  /\ UNCHANGED <<phase, handles, owner>>

\* Charge::drop after its resize(0) (a shrink above): the allowance goes, and
\* with it perhaps the last handle of a retired scope.
DropCharge(c) ==
  LET s == owner[c] IN
  /\ s # None
  /\ bytes[c] = 0
  /\ owner' = [owner EXCEPT ![c] = None]
  /\ IF s \in Scopes
       THEN FreeIf(s, phase[s] = "retired" /\ handles[s] = 0 /\ Dependents(s) = {c})
       ELSE UNCHANGED <<used, phase>>
  /\ UNCHANGED <<capacity, scopeUsed, handles, bytes>>

LedgerNext ==
  \/ \E s \in Scopes :
       \/ \E cap \in 0 .. Limit : Reserve(s, cap)
       \/ Start(s)
       \/ CloneHandle(s)
       \/ DropHandle(s)
       \/ Retire(s)
  \/ \E c \in Charges :
       \/ \E a \in Scopes \cup {Global} : NewCharge(c, a)
       \/ \E n \in 0 .. Limit :
            GrowGlobal(c, n) \/ GrowScoped(c, n) \/ ShrinkGlobal(c, n) \/ ShrinkScoped(c, n)
       \/ DropCharge(c)

LedgerSpec == LedgerInit /\ [][LedgerNext]_ledgerVars
----------------------------------------------------------------------------
(* Properties.                                                             *)

LedgerTypeOK ==
  /\ used \in 0 .. Limit
  /\ phase \in [Scopes -> Phases]
  /\ capacity \in [Scopes -> 0 .. Limit]
  /\ scopeUsed \in [Scopes -> 0 .. Limit]
  /\ handles \in [Scopes -> 0 .. MaxHandles]
  /\ owner \in [Charges -> Scopes \cup {Global, None}]
  /\ bytes \in [Charges -> 0 .. Limit]

\* The bytes each owner has committed of the global limit: a live scope its
\* capacity and its control block, an unscoped charge its size.
Holders == Scopes \cup Charges

Held ==
  [h \in Holders |->
     IF h \in Scopes
       THEN IF Live(h) THEN capacity[h] + ReservationBytes ELSE 0
       ELSE IF owner[h] = Global THEN bytes[h] ELSE 0]

ChargedTo(s) == [c \in Charges |-> IF owner[c] = s THEN bytes[c] ELSE 0]

\* Every byte of the global counter is owned by exactly one live scope or
\* unscoped charge, through any order of retirements, escapes and drops: the
\* counter neither leaks nor frees twice, and is zero when nothing is left.
Conservation == used = Total(Held, Holders, Limit)

\* A scope's own counter is the size of the charges made on it, never more
\* than the capacity reserved for it.
ScopeConservation ==
  \A s \in Scopes :
    /\ scopeUsed[s] = Total(ChargedTo(s), Charges, Limit)
    /\ scopeUsed[s] <= capacity[s]

\* Retirement leaves a scope exactly the bytes that escaped with its charges:
\* a worker that outlives its reservation can never allocate again.
RetiredIsExact ==
  \A s \in Scopes : ~Reserved(s) => capacity[s] = scopeUsed[s]

\* A scope's control block stays charged only while somebody can still reach
\* the scope: whichever handle goes last frees it, in whatever order the
\* reservation, the clones and the charges are dropped, and an unreachable
\* scope holds nothing.
NoOrphanScope ==
  /\ \A s \in Scopes :
       IF Live(s) THEN Reachable(s)
                  ELSE handles[s] = 0 /\ Dependents(s) = {} /\ capacity[s] = 0
  /\ \A c \in Charges : owner[c] = None => bytes[c] = 0

\* What is left of a reservation when its worker, its clones and its output
\* have gone in any order: neither room that somebody could still use nor
\* bytes that nobody will ever return.
ScopesAreSettled == RetiredIsExact /\ NoOrphanScope

\* No worker's allocation moves the global counter while its reservation is
\* live, so concurrent workers cannot make each other's admissions fail; and
\* what a worker does never changes the capacity of a sibling.
Isolated(s) ==
  /\ Reserved(s) /\ scopeUsed'[s] # scopeUsed[s] =>
       used' = used /\ \A t \in Scopes \ {s} : capacity'[t] = capacity[t] /\ scopeUsed'[t] = scopeUsed[t]
  /\ phase[s] = "retired" => capacity'[s] <= capacity[s]

ScopeIsolation == [][\A s \in Scopes : Isolated(s)]_ledgerVars

\* A live scope's commitment is one the ledger could admit at all.
CommitmentFits ==
  \A s \in Scopes : Live(s) => capacity[s] + ReservationBytes <= Limit

\* The ledger is one implementation of the quota every byte ledger promises.
Q == INSTANCE Quota WITH held <- Held
ImplementsQuota == Q!Spec
=============================================================================
