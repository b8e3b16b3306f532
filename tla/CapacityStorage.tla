--------------------------- MODULE CapacityStorage ---------------------------
(***************************************************************************)
(* Memory that a writer admits before it allocates: the prepared bytes and *)
(* records (streaming/preparation.rs), the collected outputs (output.rs)   *)
(* and the spools in memory (memory_spool.rs).  An owner has a payload that*)
(* grows in place and an array that grows by replacement, and is charged   *)
(* (CapacityCharge) in the execution ledger, in the quota of its class, or *)
(* in both.  A growth admits the peak, the old array and its replacement,  *)
(* in the execution ledger first; a refusal by the class gives that back.  *)
(* A release goes through the class first.                                 *)
(*                                                                         *)
(* One step is one critical section of a ledger or one change of the       *)
(* owner's memory; owners run in different threads.                        *)
(***************************************************************************)
EXTENDS Naturals, FiniteSets, Totals

CONSTANTS Owners,       \* Bytes, Records, Owned and BoundedSpool values
          Classes,      \* the quotas: PayloadMemory, Preparation, ...
          ClassOf,      \* the class of an owner
          Wants,        \* the sizes an owner may grow to
          ExecLimit,    \* Ledger.limit of the execution ledger
          ClassLimit    \* StorageBudget.limit of every class

ASSUME CapacityAssumption ==
  /\ IsFiniteSet(Owners) /\ IsFiniteSet(Classes)
  /\ ClassOf \in [Owners -> Classes]
  /\ ExecLimit \in Nat /\ ClassLimit \in Nat
  /\ Wants \in [Owners -> SUBSET [payload : Nat, array : Nat]]

VARIABLES ledgers,   \* of {"exec", "class"}, those this writer has
          execUsed,  \* bytes of the execution ledger
          classUsed, \* StorageBudget.used of each class
          execHeld,  \* the Charge of each owner
          classHeld, \* its StorageCharge.bytes
          step,      \* where the owner is in grow, or in drop
          target,    \* the sizes being grown to
          before,    \* `old' in CapacityCharge::grow_to
          payload,   \* blocks of a BoundedSpool, in bytes
          array,     \* index slots, or the elements of Bytes and Records
          fresh      \* the replacement array while both exist

budgetVars == <<ledgers, execUsed, classUsed, execHeld, classHeld>>
memoryVars == <<payload, array, fresh>>
capacityVars == <<budgetVars, step, target, before, memoryVars>>

Empty == [payload |-> 0, array |-> 0]

CapacityInit ==
  /\ ledgers \in {{"exec"}, {"class"}, {"exec", "class"}}
  /\ execUsed = 0
  /\ classUsed = [c \in Classes |-> 0]
  /\ execHeld = [o \in Owners |-> 0]
  /\ classHeld = [o \in Owners |-> 0]
  /\ step = [o \in Owners |-> "idle"]
  /\ target = [o \in Owners |-> Empty]
  /\ before = [o \in Owners |-> 0]
  /\ payload = [o \in Owners |-> 0]
  /\ array = [o \in Owners |-> 0]
  /\ fresh = [o \in Owners |-> 0]

HasExec == "exec" \in ledgers
HasClass == "class" \in ledgers

\* CapacityCharge::bytes.
Charged(o) == IF HasExec THEN execHeld[o] ELSE classHeld[o]

Retained(t) == t.payload + t.array

PeakIsRetained(o, t) == Retained(t)  \* mistake: the array that is replaced is free

\* Bytes::grow, Records::push_growing and BoundedSpool::grow: what exists
\* while an array is replaced.
Peak(o, t) == Retained(t) + (IF t.array # array[o] THEN array[o] ELSE 0)

ExecFits(o, n) == execUsed + n <= ExecLimit + execHeld[o]
ClassFits(o, n) == classUsed[ClassOf[o]] + n <= ClassLimit + classHeld[o]

\* Limited::resize and StorageCharge::grow_to, shrink_to: the owner's charge
\* becomes n bytes.
SetExec(o, n) ==
  /\ execUsed' = (execUsed + n) - execHeld[o]
  /\ execHeld' = [execHeld EXCEPT ![o] = n]
  /\ UNCHANGED <<ledgers, classUsed, classHeld>>

SetClass(o, n) ==
  /\ classUsed' = [classUsed EXCEPT ![ClassOf[o]] = (@ + n) - classHeld[o]]
  /\ classHeld' = [classHeld EXCEPT ![o] = n]
  /\ UNCHANGED <<ledgers, execUsed, execHeld>>

GoTo(o, s) == step' = [step EXCEPT ![o] = s]

----------------------------------------------------------------------------
\* A growth to sizes t begins; a charge that covers the peak is kept as it is.
BeginGrow(o, t) ==
  /\ step[o] = "idle"
  /\ t.payload >= payload[o] /\ t.array >= array[o]
  /\ Retained(t) > payload[o] + array[o]
  /\ target' = [target EXCEPT ![o] = t]
  /\ before' = [before EXCEPT ![o] = Charged(o)]
  /\ GoTo(o, IF Peak(o, t) <= Charged(o) THEN "admitted"
             ELSE IF HasExec THEN "askExec" ELSE "askClass")
  /\ UNCHANGED <<budgetVars, memoryVars>>

\* CapacityCharge::grow_to, in the execution ledger.
AdmitExec(o) ==
  LET n == Peak(o, target[o]) IN
  /\ step[o] = "askExec"
  /\ IF ExecFits(o, n)
     THEN SetExec(o, n) /\ GoTo(o, IF HasClass THEN "askClass" ELSE "admitted")
     ELSE UNCHANGED budgetVars /\ GoTo(o, "idle")
  /\ UNCHANGED <<target, before, memoryVars>>

RefusedAtOnce(o) == GoTo(o, "idle")  \* mistake: the execution ledger keeps the bytes

\* The class refuses: what the execution ledger admitted goes back first.
Refused(o) == GoTo(o, IF HasExec THEN "rollBack" ELSE "idle")

\* CapacityCharge::grow_to, in the class.
AdmitClass(o) ==
  LET n == Peak(o, target[o]) IN
  /\ step[o] = "askClass"
  /\ IF ClassFits(o, n)
     THEN SetClass(o, n) /\ GoTo(o, "admitted")
     ELSE UNCHANGED budgetVars /\ Refused(o)
  /\ UNCHANGED <<target, before, memoryVars>>

RollBack(o) ==
  /\ step[o] = "rollBack"
  /\ SetExec(o, before[o])
  /\ GoTo(o, "idle")
  /\ UNCHANGED <<target, before, memoryVars>>

\* The replacement is allocated, unless the array is large enough.
Allocate(o) ==
  /\ step[o] = "admitted" /\ target[o].array # array[o]
  /\ fresh' = [fresh EXCEPT ![o] = target[o].array]
  /\ GoTo(o, "replace")
  /\ UNCHANGED <<budgetVars, target, before, payload, array>>

\* The elements have moved and the old array is freed.
Replace(o) ==
  /\ step[o] = "replace"
  /\ array' = [array EXCEPT ![o] = fresh[o]]
  /\ fresh' = [fresh EXCEPT ![o] = 0]
  /\ GoTo(o, IF HasClass THEN "shrinkClass" ELSE "shrinkExec")
  /\ UNCHANGED <<budgetVars, target, before, payload>>

\* CapacityCharge::shrink_to what is retained: the class, then the ledger.
ShrinkClass(o) ==
  /\ step[o] = "shrinkClass"
  /\ SetClass(o, Retained(target[o]))
  /\ GoTo(o, IF HasExec THEN "shrinkExec" ELSE "fill")
  /\ UNCHANGED <<target, before, memoryVars>>

ShrinkExec(o) ==
  /\ step[o] = "shrinkExec"
  /\ SetExec(o, Retained(target[o]))
  /\ GoTo(o, "fill")
  /\ UNCHANGED <<target, before, memoryVars>>

\* BoundedSpool allocates its new blocks last; the growth is complete.
Fill(o) ==
  /\ \/ step[o] = "fill"
     \/ step[o] = "admitted" /\ target[o].array = array[o]
  /\ payload' = [payload EXCEPT ![o] = target[o].payload]
  /\ GoTo(o, "idle")
  /\ UNCHANGED <<budgetVars, target, before, array, fresh>>

----------------------------------------------------------------------------
\* into_vec and copy_with hand the memory to the caller, a drop frees it; the
\* charge goes after it.
FreeMemory(o) ==
  /\ step[o] = "idle" /\ Charged(o) > 0
  /\ payload' = [payload EXCEPT ![o] = 0]
  /\ array' = [array EXCEPT ![o] = 0]
  /\ GoTo(o, IF HasClass THEN "dropClass" ELSE "dropExec")
  /\ UNCHANGED <<budgetVars, target, before, fresh>>

\* The fields of CapacityCharge drop: the StorageCharge, then the Charge.
DropClass(o) ==
  /\ step[o] = "dropClass"
  /\ SetClass(o, 0)
  /\ GoTo(o, IF HasExec THEN "dropExec" ELSE "idle")
  /\ UNCHANGED <<target, before, memoryVars>>

DropExec(o) ==
  /\ step[o] = "dropExec"
  /\ SetExec(o, 0)
  /\ GoTo(o, "idle")
  /\ UNCHANGED <<target, before, memoryVars>>

CapacityNext == \E o \in Owners :
  \/ \E t \in Wants[o] : BeginGrow(o, t)
  \/ AdmitExec(o) \/ AdmitClass(o) \/ RollBack(o)
  \/ Allocate(o) \/ Replace(o) \/ ShrinkClass(o) \/ ShrinkExec(o) \/ Fill(o)
  \/ FreeMemory(o) \/ DropClass(o) \/ DropExec(o)

CapacitySpec == CapacityInit /\ [][CapacityNext]_capacityVars

----------------------------------------------------------------------------
Memory(o) == payload[o] + array[o] + fresh[o]

Members(c) == {o \in Owners : ClassOf[o] = c}

\* The execution ledger, and each class with its owners, are quotas.
ExecQuota == INSTANCE Quota WITH held <- execHeld, Holders <- Owners, Limit <- ExecLimit
HeldIn(c) == [o \in Members(c) |-> classHeld[o]]
ClassQuota(c) == INSTANCE Quota WITH held <- HeldIn(c), Holders <- Members(c), Limit <- ClassLimit
MemoryImplementsQuotas == ExecQuota!Spec /\ \A c \in Classes : ClassQuota(c)!Spec

\* Every byte that exists is admitted by every ledger the writer has, at every
\* moment of a replacement, a refusal, a rollback and a drop, and no ledger
\* exceeds its limit or miscounts what its owners hold (CapacityCharge, grow).
MemoryIsAdmitted ==
  /\ execUsed <= ExecLimit /\ execUsed = Total(execHeld, Owners, ExecLimit)
  /\ \A c \in Classes :
       /\ classUsed[c] <= ClassLimit
       /\ classUsed[c] = Total(classHeld, Members(c), ClassLimit)
  /\ \A o \in Owners :
       /\ HasExec => Memory(o) <= execHeld[o]
       /\ HasClass => Memory(o) <= classHeld[o]
  \* Between operations an owner is charged what it has and not a byte more: a
  \* refused growth has left no trace, a completed one has returned the peak.
  /\ \A o \in Owners : step[o] = "idle" =>
       /\ execHeld[o] = (IF HasExec THEN Memory(o) ELSE 0)
       /\ classHeld[o] = (IF HasClass THEN Memory(o) ELSE 0)
=============================================================================
