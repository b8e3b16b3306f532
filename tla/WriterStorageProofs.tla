------------------------- MODULE WriterStorageProofs -------------------------
(* Proofs about what a writer keeps while it works: the memory of its owners *)
(* against the two budgets (CapacityStorage), the spools, their files and    *)
(* the storage budget (SpoolStorage), the histories by which a solid         *)
(* archive's readers follow its writer (SolidChain), the passes that settle  *)
(* the offsets of a main header (ArchiveLayout), and the members it reads,   *)
(* cuts and writes (SourceWriting).  Each part has an inductive invariant,   *)
(* preserved action by action, from which its property follows.              *)
EXTENDS SpoolStorage, CapacityStorage, SolidChain, ArchiveLayout, SourceWriting,
        TotalsProofs, SequenceTheorems

-----------------------------------------------------------------------------
(* The memory budget. *)

Steps == {"idle", "askExec", "askClass", "rollBack", "admitted", "replace", "shrinkClass",
          "shrinkExec", "fill", "dropClass", "dropExec"}

CapacityTypeOK ==
  /\ ledgers \in {{"exec"}, {"class"}, {"exec", "class"}}
  /\ execUsed \in 0 .. ExecLimit
  /\ classUsed \in [Classes -> 0 .. ClassLimit]
  /\ execHeld \in [Owners -> 0 .. ExecLimit]
  /\ classHeld \in [Owners -> 0 .. ClassLimit]
  /\ step \in [Owners -> Steps]
  /\ target \in [Owners -> [payload : Nat, array : Nat]]
  /\ before \in [Owners -> Nat]
  /\ payload \in [Owners -> Nat]
  /\ array \in [Owners -> Nat]
  /\ fresh \in [Owners -> Nat]

\* The two ledgers count what their owners hold.
ExecExact == execUsed = Total(execHeld, Owners, ExecLimit)
ClassExact == \A c \in Classes : classUsed[c] = Total(classHeld, Members(c), ClassLimit)

\* What an owner is charged when each ledger that it has charges it the given
\* number of bytes.
ExecAt(o, n) == execHeld[o] = IF HasExec THEN n ELSE 0
ClassAt(o, n) == classHeld[o] = IF HasClass THEN n ELSE 0

\* The memory of an owner that is not replacing its array.
Kept(o) == payload[o] + array[o]

\* A growth adds memory; while it asks, `before' is what was charged.
Growing(o) ==
  /\ target[o].payload >= payload[o] /\ target[o].array >= array[o]
  /\ before[o] = Kept(o)
  /\ Retained(target[o]) > Kept(o)

\* The account of one owner at each of its steps.
Account(o) ==
  LET t == target[o] IN
  /\ step[o] # "replace" => fresh[o] = 0
  /\ ~HasExec => execHeld[o] = 0
  /\ ~HasClass => classHeld[o] = 0
  /\ step[o] = "idle" => ExecAt(o, Kept(o)) /\ ClassAt(o, Kept(o))
  /\ step[o] = "askExec" => HasExec /\ Growing(o) /\ ExecAt(o, Kept(o)) /\ ClassAt(o, Kept(o))
  /\ step[o] = "askClass" =>
       HasClass /\ Growing(o) /\ ExecAt(o, Peak(o, t)) /\ ClassAt(o, Kept(o))
  /\ step[o] = "rollBack" =>
       HasExec /\ Growing(o) /\ ExecAt(o, Peak(o, t)) /\ ClassAt(o, Kept(o))
  /\ step[o] = "admitted" => Growing(o) /\ ExecAt(o, Peak(o, t)) /\ ClassAt(o, Peak(o, t))
  /\ step[o] = "replace" =>
       /\ t.payload >= payload[o] /\ fresh[o] = t.array
       /\ ExecAt(o, Retained(t) + array[o]) /\ ClassAt(o, Retained(t) + array[o])
  /\ step[o] \in {"shrinkClass", "shrinkExec", "fill"} =>
       /\ t.payload >= payload[o] /\ array[o] = t.array
       /\ HasExec => execHeld[o] >= Retained(t)
       /\ HasClass => classHeld[o] >= Retained(t)
  /\ step[o] = "shrinkClass" => HasClass
  /\ step[o] = "shrinkExec" => HasExec /\ ClassAt(o, Retained(t))
  /\ step[o] = "fill" => ExecAt(o, Retained(t)) /\ ClassAt(o, Retained(t))
  /\ step[o] \in {"dropClass", "dropExec"} => payload[o] = 0 /\ array[o] = 0
  /\ step[o] = "dropClass" => HasClass
  /\ step[o] = "dropExec" => HasExec /\ classHeld[o] = 0

CapacityInv == CapacityTypeOK /\ ExecExact /\ ClassExact /\ \A o \in Owners : Account(o)

----------------------------------------------------------------------------
\* A ledger that sets what one owner holds, within its limit, stays exact.
LEMMA SetExecKeeps ==
  ASSUME CapacityInv, NEW o \in Owners, NEW n \in Nat, SetExec(o, n),
         ExecFits(o, n) \/ n <= execHeld[o]
  PROVE  /\ execUsed' \in 0 .. ExecLimit
         /\ execHeld' \in [Owners -> 0 .. ExecLimit]
         /\ ExecExact'
<1>. USE CapacityAssumption DEF CapacityAssumption, CapacityInv, CapacityTypeOK
<1>0. IsFiniteSet(Owners) /\ ExecLimit \in Nat /\ execHeld \in [Owners -> 0 .. ExecLimit]
  OBVIOUS
<1>1. execHeld[o] <= execUsed
  BY TotalMember DEF ExecExact
<1>2. /\ execUsed' = (execUsed + n) - execHeld[o]
      /\ execHeld' = [execHeld EXCEPT ![o] = n]
  BY DEF SetExec
<1>3. n <= ExecLimit /\ execUsed' \in 0 .. ExecLimit
  BY <1>1, <1>2 DEF ExecFits
<1>4. execHeld' \in [Owners -> 0 .. ExecLimit]
  BY <1>2, <1>3
<1>5. \A p \in Owners \ {o} : execHeld'[p] = execHeld[p]
  BY <1>2
<1>6. execHeld'[o] = n
  BY <1>2
<1>7. Total(execHeld', Owners, ExecLimit) = Total(execHeld, Owners, ExecLimit) - execHeld[o] + n
  <2>. HIDE CapacityAssumption DEF CapacityAssumption, CapacityInv, CapacityTypeOK
  <2>. QED
    BY <1>0, <1>4, <1>5, <1>6, TotalUpdate
<1>. QED
  BY <1>2, <1>3, <1>4, <1>7 DEF ExecExact

LEMMA SetClassKeeps ==
  ASSUME CapacityInv, NEW o \in Owners, NEW n \in Nat, SetClass(o, n),
         ClassFits(o, n) \/ n <= classHeld[o]
  PROVE  /\ classUsed' \in [Classes -> 0 .. ClassLimit]
         /\ classHeld' \in [Owners -> 0 .. ClassLimit]
         /\ ClassExact'
<1>. USE CapacityAssumption DEF CapacityAssumption, CapacityInv, CapacityTypeOK
<1>. DEFINE d == ClassOf[o]
<1>0. ClassLimit \in Nat /\ classHeld \in [Owners -> 0 .. ClassLimit]
  OBVIOUS
<1>1. /\ d \in Classes /\ o \in Members(d)
      /\ \A c \in Classes : Members(c) \in SUBSET Owners /\ IsFiniteSet(Members(c))
  BY FS_Subset DEF Members
<1>2. classHeld[o] <= classUsed[d]
  <2>1. classHeld[o] <= Total(classHeld, Members(d), ClassLimit)
    <3>. HIDE CapacityAssumption DEF CapacityAssumption, CapacityInv, CapacityTypeOK, d
    <3>. QED
      BY <1>0, <1>1, TotalMemberWithin
  <2>. QED
    BY <1>1, <2>1 DEF ClassExact
<1>3. /\ classUsed' = [classUsed EXCEPT ![d] = (classUsed[d] + n) - classHeld[o]]
      /\ classHeld' = [classHeld EXCEPT ![o] = n]
  BY DEF SetClass
<1>4. n <= ClassLimit /\ classUsed'[d] \in 0 .. ClassLimit
  BY <1>1, <1>2, <1>3 DEF ClassFits
<1>5. classHeld' \in [Owners -> 0 .. ClassLimit] /\ classUsed' \in [Classes -> 0 .. ClassLimit]
  BY <1>1, <1>3, <1>4
<1>6. (\A p \in Owners \ {o} : classHeld'[p] = classHeld[p]) /\ classHeld'[o] = n
  BY <1>3
<1>7. ASSUME NEW c \in Classes
      PROVE  classUsed'[c] = Total(classHeld', Members(c), ClassLimit)
  <2>1. CASE c = d
    <3>1. Total(classHeld', Members(d), ClassLimit)
            = Total(classHeld, Members(d), ClassLimit) - classHeld[o] + n
      <4>1. \A p \in Members(d) \ {o} : classHeld'[p] = classHeld[p]
        BY <1>1, <1>6
      <4>. HIDE CapacityAssumption DEF CapacityAssumption, CapacityInv, CapacityTypeOK, d
      <4>2. Total(classHeld', Members(d), ClassLimit)
              = Total(classHeld, Members(d), ClassLimit) - classHeld[o] + classHeld'[o]
        <5>1. IsFiniteSet(Members(d)) /\ Members(d) \in SUBSET Owners /\ o \in Members(d)
          BY <1>1
        <5>2. classHeld' \in [Owners -> 0 .. ClassLimit]
          BY <1>5
        <5>. QED
          BY <1>0, <5>1, <5>2, <4>1, TotalUpdateWithin
      <4>. QED
        BY <1>6, <4>2
    <3>. QED
      BY <1>1, <1>3, <2>1, <3>1 DEF ClassExact
  <2>2. CASE c # d
    <3>1. \A p \in Members(c) : classHeld[p] = classHeld'[p]
      BY <1>6, <2>2 DEF Members
    <3>2. Total(classHeld, Members(c), ClassLimit) = Total(classHeld', Members(c), ClassLimit)
      BY <3>1, TotalSame
    <3>. QED
      BY <1>3, <2>2, <3>2 DEF ClassExact
  <2>. QED
    BY <2>1, <2>2
<1>. QED
  BY <1>5, <1>7 DEF ClassExact, Members

----------------------------------------------------------------------------
\* What a step of one owner leaves alone: everything of another owner.
Untouched(p) ==
  /\ step'[p] = step[p] /\ target'[p] = target[p] /\ before'[p] = before[p]
  /\ payload'[p] = payload[p] /\ array'[p] = array[p] /\ fresh'[p] = fresh[p]
  /\ execHeld'[p] = execHeld[p] /\ classHeld'[p] = classHeld[p]

\* A step of one owner keeps the invariant when it keeps the types, the totals
\* and the account of that owner.
LEMMA OneOwnerSteps ==
  ASSUME CapacityInv, NEW o \in Owners, ledgers' = ledgers,
         CapacityTypeOK', ExecExact', ClassExact', Account(o)',
         \A p \in Owners \ {o} : Untouched(p)
  PROVE  CapacityInv'
<1>1. ASSUME NEW p \in Owners \ {o} PROVE Account(p)'
  <2>1. Account(p) /\ Untouched(p)
    BY DEF CapacityInv
  <2>. QED
    BY <2>1 DEF Account, Untouched, Growing, ExecAt, ClassAt, HasExec, HasClass, Peak, Retained, Kept
<1>. QED
  BY <1>1 DEF CapacityInv

\* Steps that leave the ledgers as they are.
LEMMA LedgersStand ==
  ASSUME CapacityInv, UNCHANGED budgetVars
  PROVE  /\ ledgers' = ledgers /\ execHeld' = execHeld /\ classHeld' = classHeld
         /\ execUsed' \in 0 .. ExecLimit /\ classUsed' \in [Classes -> 0 .. ClassLimit]
         /\ execHeld' \in [Owners -> 0 .. ExecLimit]
         /\ classHeld' \in [Owners -> 0 .. ClassLimit]
         /\ ledgers' \in {{"exec"}, {"class"}, {"exec", "class"}}
         /\ ExecExact' /\ ClassExact'
BY DEF budgetVars, CapacityInv, CapacityTypeOK, ExecExact, ClassExact, Members

LEMMA BeginGrowStep ==
  ASSUME CapacityInv, NEW o \in Owners, NEW t \in Wants[o], BeginGrow(o, t)
  PROVE  CapacityInv'
<1>. USE CapacityAssumption DEF CapacityAssumption
<1>1. UNCHANGED budgetVars
  BY DEF BeginGrow
<1>2. t \in [payload : Nat, array : Nat]
  OBVIOUS
<1>3. CapacityTypeOK
  BY DEF CapacityInv
<1>4. /\ target' = [target EXCEPT ![o] = t] /\ before' = [before EXCEPT ![o] = Charged(o)]
      /\ payload' = payload /\ array' = array /\ fresh' = fresh
      /\ step[o] = "idle"
      /\ t.payload >= payload[o] /\ t.array >= array[o]
      /\ Retained(t) > payload[o] + array[o]
  BY DEF BeginGrow, memoryVars
<1>5. Account(o) /\ ExecAt(o, Kept(o)) /\ ClassAt(o, Kept(o)) /\ Charged(o) = Kept(o)
  BY <1>3, <1>4 DEF CapacityInv, Account, Charged, ExecAt, ClassAt, HasExec, HasClass, CapacityTypeOK
<1>6. ~(Peak(o, t) <= Charged(o))
  BY <1>2, <1>3, <1>4, <1>5 DEF Peak, Kept, Retained, CapacityTypeOK
<1>7. step' = [step EXCEPT ![o] = IF HasExec THEN "askExec" ELSE "askClass"]
  BY <1>6 DEF BeginGrow, GoTo
<1>8. CapacityTypeOK' /\ ExecExact' /\ ClassExact' /\ ledgers' = ledgers
  <2>1. Charged(o) \in Nat
    BY <1>3, <1>5 DEF Kept, CapacityTypeOK
  <2>. QED
    BY <1>1, <1>2, <1>3, <1>4, <1>7, <2>1, LedgersStand DEF CapacityTypeOK, Steps
<1>9. Account(o)'
  <2>1. /\ execHeld' = execHeld /\ classHeld' = classHeld /\ ledgers' = ledgers
    BY <1>1 DEF budgetVars
  <2>2. Growing(o)'
    BY <1>3, <1>4, <1>5 DEF Growing, Kept, Retained, CapacityTypeOK
  <2>3. (~HasExec => HasClass)
    BY <1>3 DEF CapacityTypeOK, HasExec, HasClass
  <2>4. step'[o] \in {"askExec", "askClass"} /\ (step'[o] = "askExec" <=> HasExec)
    BY <1>3, <1>7 DEF CapacityTypeOK
  <2>5. /\ fresh'[o] = 0 /\ ExecAt(o, Kept(o))' /\ ClassAt(o, Kept(o))'
        /\ (~HasExec => execHeld'[o] = 0) /\ (~HasClass => classHeld'[o] = 0)
    BY <1>3, <1>4, <1>5, <2>1 DEF Account, ExecAt, ClassAt, HasExec, HasClass, Kept
  <2>6. HasExec' = HasExec /\ HasClass' = HasClass
    BY <2>1 DEF HasExec, HasClass
  <2>7. CASE step'[o] = "askExec"
    BY <2>2, <2>4, <2>5, <2>6, <2>7 DEF Account
  <2>8. CASE step'[o] = "askClass"
    BY <2>2, <2>3, <2>4, <2>5, <2>6, <2>8 DEF Account, ExecAt
  <2>. QED
    BY <2>4, <2>7, <2>8
<1>10. \A p \in Owners \ {o} : Untouched(p)
  BY <1>1, <1>3, <1>4, <1>7 DEF Untouched, budgetVars, CapacityTypeOK
<1>. QED
  BY <1>8, <1>9, <1>10, OneOwnerSteps

\* The numbers the accounts are made of.
LEMMA Numbers ==
  ASSUME CapacityTypeOK, NEW o \in Owners
  PROVE  /\ {target[o].payload, target[o].array, Retained(target[o]), Peak(o, target[o])} \subseteq Nat
         /\ {before[o], payload[o], array[o], fresh[o], Kept(o), execHeld[o], classHeld[o]} \subseteq Nat
         /\ (HasExec \/ HasClass)
<1>1. target[o] \in [payload : Nat, array : Nat]
  BY DEF CapacityTypeOK
<1>2. {before[o], payload[o], array[o], fresh[o], execHeld[o], classHeld[o]} \subseteq Nat
  BY CapacityAssumption DEF CapacityTypeOK, CapacityAssumption
<1>. QED
  BY <1>1, <1>2 DEF Retained, Peak, Kept, CapacityTypeOK, HasExec, HasClass

\* The execution ledger sets what o holds.
LEMMA ExecStep ==
  ASSUME CapacityInv, NEW o \in Owners, NEW n \in Nat, NEW q \in Steps,
         SetExec(o, n), ExecFits(o, n) \/ n <= execHeld[o],
         GoTo(o, q), UNCHANGED <<target, before, memoryVars>>, Account(o)'
  PROVE  CapacityInv'
<1>1. /\ execUsed' \in 0 .. ExecLimit /\ execHeld' \in [Owners -> 0 .. ExecLimit] /\ ExecExact'
      /\ UNCHANGED <<ledgers, classUsed, classHeld>>
      /\ execHeld' = [execHeld EXCEPT ![o] = n]
  BY SetExecKeeps DEF SetExec
<1>2. step' = [step EXCEPT ![o] = q] /\ UNCHANGED <<target, before, payload, array, fresh>>
  BY DEF GoTo, memoryVars
<1>3. CapacityTypeOK' /\ ClassExact'
  BY <1>1, <1>2 DEF CapacityInv, CapacityTypeOK, ClassExact, Members
<1>4. \A p \in Owners \ {o} : Untouched(p)
  BY <1>1, <1>2 DEF Untouched, CapacityInv, CapacityTypeOK
<1>. QED
  BY <1>1, <1>3, <1>4, OneOwnerSteps

\* The quota of its class does.
LEMMA ClassStep ==
  ASSUME CapacityInv, NEW o \in Owners, NEW n \in Nat, NEW q \in Steps,
         SetClass(o, n), ClassFits(o, n) \/ n <= classHeld[o],
         GoTo(o, q), UNCHANGED <<target, before, memoryVars>>, Account(o)'
  PROVE  CapacityInv'
<1>1. /\ classUsed' \in [Classes -> 0 .. ClassLimit] /\ ClassExact'
      /\ classHeld' \in [Owners -> 0 .. ClassLimit]
      /\ UNCHANGED <<ledgers, execUsed, execHeld>>
      /\ classHeld' = [classHeld EXCEPT ![o] = n]
  BY SetClassKeeps DEF SetClass
<1>2. step' = [step EXCEPT ![o] = q] /\ UNCHANGED <<target, before, payload, array, fresh>>
  BY DEF GoTo, memoryVars
<1>3. CapacityTypeOK' /\ ExecExact'
  BY <1>1, <1>2 DEF CapacityInv, CapacityTypeOK, ExecExact
<1>4. \A p \in Owners \ {o} : Untouched(p)
  BY <1>1, <1>2 DEF Untouched, CapacityInv, CapacityTypeOK
<1>. QED
  BY <1>1, <1>3, <1>4, OneOwnerSteps

\* Steps of the owner's memory.
LEMMA MemoryStep ==
  ASSUME CapacityInv, NEW o \in Owners, NEW q \in Steps,
         UNCHANGED <<budgetVars, target, before>>, GoTo(o, q),
         payload' \in [Owners -> Nat], array' \in [Owners -> Nat], fresh' \in [Owners -> Nat],
         \A p \in Owners \ {o} : payload'[p] = payload[p] /\ array'[p] = array[p] /\ fresh'[p] = fresh[p],
         Account(o)'
  PROVE  CapacityInv'
<1>1. step' = [step EXCEPT ![o] = q] /\ UNCHANGED <<target, before>>
  BY DEF GoTo
<1>2. /\ ledgers' = ledgers /\ execHeld' = execHeld /\ classHeld' = classHeld
      /\ CapacityTypeOK' /\ ExecExact' /\ ClassExact'
  BY <1>1, LedgersStand DEF CapacityInv, CapacityTypeOK
<1>3. \A p \in Owners \ {o} : Untouched(p)
  BY <1>1, <1>2 DEF Untouched, CapacityInv, CapacityTypeOK
<1>. QED
  BY <1>2, <1>3, OneOwnerSteps

\* One lemma per step of an owner.
LEMMA AdmitExecStep ==
  ASSUME CapacityInv, NEW o \in Owners, AdmitExec(o)
  PROVE  CapacityInv'
<1>. DEFINE n == Peak(o, target[o])
<1>0. CapacityTypeOK /\ Account(o) /\ step[o] = "askExec"
  BY DEF CapacityInv, AdmitExec
<1>1. n \in Nat /\ Kept(o) \in Nat /\ n > Kept(o) /\ step \in [Owners -> Steps]
      /\ execHeld \in [Owners -> 0 .. ExecLimit]
  BY <1>0, Numbers DEF Account, Growing, Peak, CapacityTypeOK
<1>2. CASE ExecFits(o, n)
  <2>. DEFINE q == IF HasClass THEN "askClass" ELSE "admitted"
  <2>1. SetExec(o, n) /\ GoTo(o, q) /\ UNCHANGED <<target, before, memoryVars>>
    BY <1>2 DEF AdmitExec
  <2>2. /\ execHeld'[o] = n /\ step'[o] = q
        /\ UNCHANGED <<ledgers, classHeld, target, before, payload, array, fresh>>
    BY <1>1, <2>1 DEF SetExec, GoTo, memoryVars
  <2>3. Account(o)'
    BY <1>0, <2>2
       DEF Account, Growing, ExecAt, ClassAt, HasExec, HasClass, Peak, Retained, Kept
  <2>4. q \in Steps
    BY DEF Steps
  <2>. QED
    BY <1>1, <1>2, <2>1, <2>3, <2>4, ExecStep
<1>3. CASE ~ExecFits(o, n)
  <2>1. UNCHANGED <<budgetVars, target, before, payload, array, fresh>> /\ GoTo(o, "idle")
    BY <1>3 DEF AdmitExec, memoryVars
  <2>2. Account(o)'
    BY <1>0, <1>1, <2>1
       DEF Account, ExecAt, ClassAt, HasExec, HasClass, Kept, budgetVars, GoTo
  <2>. QED
    BY <1>0, <2>1, <2>2, MemoryStep DEF CapacityTypeOK, Steps
<1>. QED
  BY <1>2, <1>3

LEMMA AdmitClassStep ==
  ASSUME CapacityInv, NEW o \in Owners, AdmitClass(o)
  PROVE  CapacityInv'
<1>. DEFINE n == Peak(o, target[o])
<1>0. CapacityTypeOK /\ Account(o) /\ step[o] = "askClass"
  BY DEF CapacityInv, AdmitClass
<1>1. n \in Nat /\ Kept(o) \in Nat /\ step \in [Owners -> Steps]
      /\ classHeld \in [Owners -> 0 .. ClassLimit]
  BY <1>0, Numbers DEF CapacityTypeOK
<1>2. CASE ClassFits(o, n)
  <2>1. SetClass(o, n) /\ GoTo(o, "admitted") /\ UNCHANGED <<target, before, memoryVars>>
    BY <1>2 DEF AdmitClass
  <2>2. /\ classHeld'[o] = n /\ step'[o] = "admitted"
        /\ UNCHANGED <<ledgers, execHeld, target, before, payload, array, fresh>>
    BY <1>1, <2>1 DEF SetClass, GoTo, memoryVars
  <2>3. Account(o)'
    BY <1>0, <2>2
       DEF Account, Growing, ExecAt, ClassAt, HasExec, HasClass, Peak, Retained, Kept
  <2>. QED
    BY <1>1, <1>2, <2>1, <2>3, ClassStep DEF Steps
<1>3. CASE ~ClassFits(o, n)
  <2>. DEFINE q == IF HasExec THEN "rollBack" ELSE "idle"
  <2>1. UNCHANGED <<budgetVars, target, before, payload, array, fresh>> /\ GoTo(o, q)
    BY <1>3 DEF AdmitClass, memoryVars, Refused
  <2>2. Account(o)'
    BY <1>0, <1>1, <2>1
       DEF Account, Growing, ExecAt, ClassAt, HasExec, HasClass, Peak, Retained, Kept, budgetVars, GoTo
  <2>. QED
    BY <1>0, <2>1, <2>2, MemoryStep DEF CapacityTypeOK, Steps
<1>. QED
  BY <1>2, <1>3

LEMMA RollBackStep ==
  ASSUME CapacityInv, NEW o \in Owners, RollBack(o)
  PROVE  CapacityInv'
<1>0. CapacityTypeOK /\ Account(o) /\ step[o] = "rollBack"
  BY DEF CapacityInv, RollBack
<1>1. /\ step \in [Owners -> Steps] /\ execHeld \in [Owners -> 0 .. ExecLimit]
      /\ before[o] \in Nat /\ before[o] = Kept(o) /\ HasExec
      /\ execHeld[o] = Peak(o, target[o]) /\ Peak(o, target[o]) >= Kept(o)
  BY <1>0, Numbers DEF CapacityTypeOK, Account, Growing, ExecAt, Peak
<1>2. SetExec(o, before[o]) /\ GoTo(o, "idle") /\ UNCHANGED <<target, before, memoryVars>>
  BY DEF RollBack
<1>3. Account(o)'
  BY <1>0, <1>1, <1>2
     DEF Account, ExecAt, ClassAt, HasExec, HasClass, Kept, SetExec, GoTo, memoryVars
<1>4. before[o] <= execHeld[o]
  BY <1>1
<1>. QED
  BY <1>1, <1>2, <1>3, <1>4, ExecStep DEF Steps

LEMMA AllocateStep ==
  ASSUME CapacityInv, NEW o \in Owners, Allocate(o)
  PROVE  CapacityInv'
<1>0. CapacityTypeOK /\ Account(o) /\ step[o] = "admitted" /\ target[o].array # array[o]
  BY DEF CapacityInv, Allocate
<1>1. /\ step \in [Owners -> Steps] /\ target[o].array \in Nat
      /\ fresh \in [Owners -> Nat] /\ payload \in [Owners -> Nat] /\ array \in [Owners -> Nat]
  BY <1>0, Numbers DEF CapacityTypeOK
<1>2. /\ UNCHANGED <<budgetVars, target, before, payload, array>> /\ GoTo(o, "replace")
      /\ fresh' = [fresh EXCEPT ![o] = target[o].array]
  BY DEF Allocate
<1>3. Account(o)'
  BY <1>0, <1>1, <1>2
     DEF Account, Growing, ExecAt, ClassAt, HasExec, HasClass, Peak, Kept, budgetVars, GoTo
<1>. QED
  BY <1>1, <1>2, <1>3, MemoryStep DEF Steps

LEMMA ReplaceStep ==
  ASSUME CapacityInv, NEW o \in Owners, Replace(o)
  PROVE  CapacityInv'
<1>. DEFINE q == IF HasClass THEN "shrinkClass" ELSE "shrinkExec"
<1>0. CapacityTypeOK /\ Account(o) /\ step[o] = "replace"
  BY DEF CapacityInv, Replace
<1>1. /\ step \in [Owners -> Steps] /\ fresh \in [Owners -> Nat]
      /\ payload \in [Owners -> Nat] /\ array \in [Owners -> Nat]
  BY <1>0 DEF CapacityTypeOK
<1>2. /\ UNCHANGED <<budgetVars, target, before, payload>> /\ GoTo(o, q)
      /\ fresh' = [fresh EXCEPT ![o] = 0] /\ array' = [array EXCEPT ![o] = fresh[o]]
  BY DEF Replace
<1>3. Account(o)'
  BY <1>0, <1>1, <1>2, Numbers
     DEF Account, ExecAt, ClassAt, HasExec, HasClass, Retained, budgetVars, GoTo
<1>. QED
  BY <1>1, <1>2, <1>3, MemoryStep DEF Steps

LEMMA ShrinkClassStep ==
  ASSUME CapacityInv, NEW o \in Owners, ShrinkClass(o)
  PROVE  CapacityInv'
<1>. DEFINE n == Retained(target[o])
            q == IF HasExec THEN "shrinkExec" ELSE "fill"
<1>0. CapacityTypeOK /\ Account(o) /\ step[o] = "shrinkClass"
  BY DEF CapacityInv, ShrinkClass
<1>1. /\ step \in [Owners -> Steps] /\ classHeld \in [Owners -> 0 .. ClassLimit]
      /\ n \in Nat /\ HasClass /\ n <= classHeld[o]
  BY <1>0, Numbers DEF CapacityTypeOK, Account
<1>2. SetClass(o, n) /\ GoTo(o, q) /\ UNCHANGED <<target, before, memoryVars>>
  BY DEF ShrinkClass
<1>3. Account(o)'
  BY <1>0, <1>1, <1>2
     DEF Account, ExecAt, ClassAt, HasExec, HasClass, Retained, SetClass, GoTo, memoryVars
<1>. QED
  BY <1>1, <1>2, <1>3, ClassStep DEF Steps

LEMMA ShrinkExecStep ==
  ASSUME CapacityInv, NEW o \in Owners, ShrinkExec(o)
  PROVE  CapacityInv'
<1>. DEFINE n == Retained(target[o])
<1>0. CapacityTypeOK /\ Account(o) /\ step[o] = "shrinkExec"
  BY DEF CapacityInv, ShrinkExec
<1>1. /\ step \in [Owners -> Steps] /\ execHeld \in [Owners -> 0 .. ExecLimit]
      /\ n \in Nat /\ HasExec /\ n <= execHeld[o]
  BY <1>0, Numbers DEF CapacityTypeOK, Account
<1>2. SetExec(o, n) /\ GoTo(o, "fill") /\ UNCHANGED <<target, before, memoryVars>>
  BY DEF ShrinkExec
<1>3. Account(o)'
  BY <1>0, <1>1, <1>2
     DEF Account, ExecAt, ClassAt, HasExec, HasClass, Retained, SetExec, GoTo, memoryVars
<1>. QED
  BY <1>1, <1>2, <1>3, ExecStep DEF Steps

LEMMA FillStep ==
  ASSUME CapacityInv, NEW o \in Owners, Fill(o)
  PROVE  CapacityInv'
<1>0. CapacityTypeOK /\ Account(o)
  BY DEF CapacityInv
<1>1. /\ step \in [Owners -> Steps] /\ target[o].payload \in Nat
      /\ fresh \in [Owners -> Nat] /\ payload \in [Owners -> Nat] /\ array \in [Owners -> Nat]
  BY <1>0, Numbers DEF CapacityTypeOK
<1>2. /\ UNCHANGED <<budgetVars, target, before, array, fresh>> /\ GoTo(o, "idle")
      /\ payload' = [payload EXCEPT ![o] = target[o].payload]
  BY DEF Fill
<1>3. Account(o)'
  <2>1. array[o] = target[o].array /\ fresh[o] = 0
        /\ ExecAt(o, Retained(target[o])) /\ ClassAt(o, Retained(target[o]))
    <3>1. Retained(target[o]) \in Nat
      BY <1>0, Numbers
    <3>2. CASE step[o] = "fill"
      BY <1>0, <3>2 DEF Account
    <3>3. CASE step[o] = "admitted" /\ target[o].array = array[o]
      <4>1. Peak(o, target[o]) = Retained(target[o])
        BY <3>1, <3>3 DEF Peak
      <4>. QED
        BY <1>0, <3>3, <4>1 DEF Account
    <3>. QED
      BY <3>2, <3>3 DEF Fill
  <2>2. /\ step'[o] = "idle" /\ fresh'[o] = 0 /\ Kept(o)' = Retained(target[o])
        /\ UNCHANGED <<ledgers, execHeld, classHeld>>
    BY <1>1, <1>2, <2>1 DEF Kept, Retained, GoTo, budgetVars
  <2>. QED
    BY <1>0, <2>1, <2>2 DEF Account, ExecAt, ClassAt, HasExec, HasClass
<1>. QED
  BY <1>1, <1>2, <1>3, MemoryStep DEF Steps

LEMMA FreeMemoryStep ==
  ASSUME CapacityInv, NEW o \in Owners, FreeMemory(o)
  PROVE  CapacityInv'
<1>. DEFINE q == IF HasClass THEN "dropClass" ELSE "dropExec"
<1>0. CapacityTypeOK /\ Account(o) /\ step[o] = "idle"
  BY DEF CapacityInv, FreeMemory
<1>1. /\ step \in [Owners -> Steps] /\ (HasExec \/ HasClass)
      /\ fresh \in [Owners -> Nat] /\ payload \in [Owners -> Nat] /\ array \in [Owners -> Nat]
  BY <1>0, Numbers DEF CapacityTypeOK
<1>2. /\ UNCHANGED <<budgetVars, target, before, fresh>> /\ GoTo(o, q)
      /\ payload' = [payload EXCEPT ![o] = 0] /\ array' = [array EXCEPT ![o] = 0]
  BY DEF FreeMemory
<1>3. Account(o)'
  BY <1>0, <1>1, <1>2
     DEF Account, ExecAt, ClassAt, HasExec, HasClass, budgetVars, GoTo
<1>. QED
  BY <1>1, <1>2, <1>3, MemoryStep DEF Steps

LEMMA DropClassStep ==
  ASSUME CapacityInv, NEW o \in Owners, DropClass(o)
  PROVE  CapacityInv'
<1>. DEFINE q == IF HasExec THEN "dropExec" ELSE "idle"
<1>0. CapacityTypeOK /\ Account(o) /\ step[o] = "dropClass"
  BY DEF CapacityInv, DropClass
<1>1. /\ step \in [Owners -> Steps] /\ classHeld \in [Owners -> 0 .. ClassLimit]
      /\ 0 <= classHeld[o] /\ execHeld[o] \in Nat
  BY <1>0, Numbers DEF CapacityTypeOK
<1>2. SetClass(o, 0) /\ GoTo(o, q) /\ UNCHANGED <<target, before, memoryVars>>
  BY DEF DropClass
<1>3. Account(o)'
  BY <1>0, <1>1, <1>2
     DEF Account, ExecAt, ClassAt, HasExec, HasClass, Kept, SetClass, GoTo, memoryVars
<1>. QED
  BY <1>1, <1>2, <1>3, ClassStep DEF Steps

LEMMA DropExecStep ==
  ASSUME CapacityInv, NEW o \in Owners, DropExec(o)
  PROVE  CapacityInv'
<1>0. CapacityTypeOK /\ Account(o) /\ step[o] = "dropExec"
  BY DEF CapacityInv, DropExec
<1>1. /\ step \in [Owners -> Steps] /\ execHeld \in [Owners -> 0 .. ExecLimit]
      /\ 0 <= execHeld[o]
  BY <1>0, Numbers DEF CapacityTypeOK
<1>2. SetExec(o, 0) /\ GoTo(o, "idle") /\ UNCHANGED <<target, before, memoryVars>>
  BY DEF DropExec
<1>3. Account(o)'
  BY <1>0, <1>1, <1>2
     DEF Account, ExecAt, ClassAt, HasExec, HasClass, Kept, SetExec, GoTo, memoryVars
<1>. QED
  BY <1>1, <1>2, <1>3, ExecStep DEF Steps

----------------------------------------------------------------------------
LEMMA CapacityInitInv == CapacityInit => CapacityInv
<1>. SUFFICES ASSUME CapacityInit PROVE CapacityInv
  OBVIOUS
<1>. USE CapacityAssumption DEF CapacityAssumption, CapacityInit
<1>1. CapacityTypeOK
  BY DEF CapacityTypeOK, Steps, Empty
<1>2. ExecExact
  <2>1. execHeld \in [Owners -> 0 .. ExecLimit] /\ \A o \in Owners : execHeld[o] = 0
    OBVIOUS
  <2>. QED
    BY <2>1, TotalZero DEF ExecExact
<1>3. ASSUME NEW c \in Classes PROVE classUsed[c] = Total(classHeld, Members(c), ClassLimit)
  <2>. DEFINE h == [o \in Members(c) |-> 0]
  <2>1. h \in [Members(c) -> 0 .. ClassLimit] /\ \A o \in Members(c) : h[o] = 0
    OBVIOUS
  <2>2. IsFiniteSet(Members(c)) /\ \A o \in Members(c) : h[o] = classHeld[o]
    BY FS_Subset DEF Members
  <2>. HIDE DEF h
  <2>3. Total(h, Members(c), ClassLimit) = 0
    BY <2>1, <2>2, TotalZero
  <2>4. Total(h, Members(c), ClassLimit) = Total(classHeld, Members(c), ClassLimit)
    BY <2>2, TotalSame
  <2>. QED
    BY <2>3, <2>4
<1>4. \A o \in Owners : Account(o)
  BY DEF Account, ExecAt, ClassAt, Kept
<1>. QED
  BY <1>1, <1>2, <1>3, <1>4 DEF CapacityInv, ClassExact

LEMMA CapacityStep == CapacityInv /\ [CapacityNext]_capacityVars => CapacityInv'
<1>. SUFFICES ASSUME CapacityInv, [CapacityNext]_capacityVars PROVE CapacityInv'
  OBVIOUS
<1>1. ASSUME NEW o \in Owners, NEW t \in Wants[o], BeginGrow(o, t) PROVE CapacityInv'
  BY <1>1, BeginGrowStep
<1>2. ASSUME NEW o \in Owners, AdmitExec(o) \/ AdmitClass(o) \/ RollBack(o) PROVE CapacityInv'
  BY <1>2, AdmitExecStep, AdmitClassStep, RollBackStep
<1>3. ASSUME NEW o \in Owners, Allocate(o) \/ Replace(o) \/ Fill(o) PROVE CapacityInv'
  BY <1>3, AllocateStep, ReplaceStep, FillStep
<1>4. ASSUME NEW o \in Owners, ShrinkClass(o) \/ ShrinkExec(o) PROVE CapacityInv'
  BY <1>4, ShrinkClassStep, ShrinkExecStep
<1>5. ASSUME NEW o \in Owners, FreeMemory(o) \/ DropClass(o) \/ DropExec(o) PROVE CapacityInv'
  BY <1>5, FreeMemoryStep, DropClassStep, DropExecStep
<1>6. CASE UNCHANGED capacityVars
  <2>1. UNCHANGED <<budgetVars, step, target, before, payload, array, fresh>>
    BY <1>6 DEF capacityVars, memoryVars
  <2>2. CapacityTypeOK' /\ ExecExact' /\ ClassExact'
    BY <2>1, LedgersStand DEF CapacityInv, CapacityTypeOK
  <2>. QED
    BY <2>1, <2>2 DEF CapacityInv, Account, Growing, ExecAt, ClassAt, HasExec, HasClass, Peak,
                      Retained, Kept, budgetVars
<1>. QED
  BY <1>1, <1>2, <1>3, <1>4, <1>5, <1>6 DEF CapacityNext

LEMMA CapacityInvariant == CapacitySpec => []CapacityInv
BY CapacityInitInv, CapacityStep, PTL DEF CapacitySpec

\* Every byte of memory is admitted by every ledger the writer has, at every moment of a
\* growth, a refusal, a rollback, a replacement and a drop, the ledgers count
\* exactly what the owners hold and stay within their limits, and an owner
\* between two operations is charged what it has (CapacityCharge, grow_to,
\* shrink_to), for any owners, classes and limits.
THEOREM CapacityCorrect == CapacitySpec => []MemoryIsAdmitted
<1>1. CapacityInv => MemoryIsAdmitted
  <2>. SUFFICES ASSUME CapacityInv PROVE MemoryIsAdmitted
    OBVIOUS
  <2>1. /\ execUsed <= ExecLimit /\ execUsed = Total(execHeld, Owners, ExecLimit)
        /\ \A c \in Classes : /\ classUsed[c] <= ClassLimit
                              /\ classUsed[c] = Total(classHeld, Members(c), ClassLimit)
    BY CapacityAssumption
       DEF CapacityAssumption, CapacityInv, CapacityTypeOK, ExecExact, ClassExact
  <2>2. ASSUME NEW o \in Owners
        PROVE  /\ HasExec => Memory(o) <= execHeld[o]
               /\ HasClass => Memory(o) <= classHeld[o]
    <3>1. CapacityTypeOK /\ Account(o) /\ step[o] \in Steps
      BY DEF CapacityInv, CapacityTypeOK
    <3>2. CASE step[o] \in {"idle", "askExec", "askClass", "rollBack", "admitted"}
      <4>1. Memory(o) = Kept(o) /\ (step[o] # "idle" => Peak(o, target[o]) >= Kept(o))
        BY <3>1, <3>2, Numbers DEF Memory, Account, Growing, Peak, Kept
      <4>. QED
        BY <3>1, <3>2, <4>1, Numbers DEF Account, ExecAt, ClassAt
    <3>3. CASE step[o] = "replace"
      <4>1. Memory(o) <= Retained(target[o]) + array[o]
        BY <3>1, <3>3, Numbers DEF Memory, Account, Retained
      <4>. QED
        BY <3>1, <3>3, <4>1 DEF Account, ExecAt, ClassAt
    <3>4. CASE step[o] \in {"shrinkClass", "shrinkExec", "fill"}
      <4>1. Memory(o) <= Retained(target[o])
        BY <3>1, <3>4, Numbers DEF Memory, Account, Retained
      <4>2. Memory(o) \in Nat
        BY <3>1, Numbers DEF Memory
      <4>. QED
        BY <3>1, <3>4, <4>1, <4>2, Numbers DEF Account
    <3>5. CASE step[o] \in {"dropClass", "dropExec"}
      <4>1. Memory(o) = 0
        BY <3>1, <3>5 DEF Memory, Account
      <4>. QED
        BY <3>1, <4>1, Numbers
    <3>. QED
      BY <3>1, <3>2, <3>3, <3>4, <3>5 DEF Steps
  <2>3. ASSUME NEW o \in Owners, step[o] = "idle"
        PROVE  /\ execHeld[o] = (IF HasExec THEN Memory(o) ELSE 0)
               /\ classHeld[o] = (IF HasClass THEN Memory(o) ELSE 0)
    BY <2>3, Numbers DEF CapacityInv, Memory, Account, ExecAt, ClassAt, Kept
  <2>. QED
    BY <2>1, <2>2, <2>3 DEF MemoryIsAdmitted
<1>. QED
  BY <1>1, CapacityInvariant, PTL

----------------------------------------------------------------------------
(* The memory ledgers as abstract quotas. *)

\* A step changes the charges of at most one owner.
OneOwnerMoves == \E o \in Owners : \A p \in Owners \ {o} :
                   execHeld'[p] = execHeld[p] /\ classHeld'[p] = classHeld[p]

LEMMA OneOwnerStep ==
  ASSUME CapacityInv, CapacityNext
  PROVE  OneOwnerMoves
<1>1. /\ execHeld \in [Owners -> 0 .. ExecLimit] /\ classHeld \in [Owners -> 0 .. ClassLimit]
  BY DEF CapacityInv, CapacityTypeOK
<1>2. PICK o \in Owners :
        \/ \E t \in Wants[o] : BeginGrow(o, t)
        \/ AdmitExec(o) \/ AdmitClass(o) \/ RollBack(o)
        \/ Allocate(o) \/ Replace(o) \/ ShrinkClass(o) \/ ShrinkExec(o) \/ Fill(o)
        \/ FreeMemory(o) \/ DropClass(o) \/ DropExec(o)
  BY DEF CapacityNext
<1>3. \/ UNCHANGED <<execHeld, classHeld>>
      \/ \E n : SetExec(o, n)
      \/ \E n : SetClass(o, n)
  BY <1>2 DEF BeginGrow, AdmitExec, AdmitClass, RollBack, Allocate, Replace, ShrinkClass, ShrinkExec,
              Fill, FreeMemory, DropClass, DropExec, budgetVars
<1>. QED
  BY <1>1, <1>3 DEF OneOwnerMoves, SetExec, SetClass

\* Each ledger that a writer's memory is charged to implements the abstract
\* quota: an admission is one acquisition of its owner that fits, a rollback, a
\* shrink or a drop one release (CapacityCharge, grow_to, shrink_to).
THEOREM CapacityImplementsQuotas == CapacitySpec => MemoryImplementsQuotas
<1>1. CapacitySpec => ExecQuota!Spec
  <2>1. CapacityInit => ExecQuota!Init
    BY DEF CapacityInit, ExecQuota!Init
  <2>2. ASSUME CapacityInv, CapacityInv', [CapacityNext]_capacityVars
        PROVE  [ExecQuota!Next]_execHeld
    <3>. SUFFICES ASSUME execHeld' # execHeld PROVE ExecQuota!Next
      OBVIOUS
    <3>1. PICK o \in Owners : \A p \in Owners \ {o} : execHeld'[p] = execHeld[p]
      <4>1. CASE UNCHANGED capacityVars
        BY <4>1 DEF capacityVars, budgetVars
      <4>. QED
        BY <2>2, <4>1, OneOwnerStep DEF OneOwnerMoves
    <3>2. /\ execHeld \in [Owners -> 0 .. ExecLimit] /\ execHeld' \in [Owners -> 0 .. ExecLimit]
          /\ IsFiniteSet(Owners) /\ ExecLimit \in Nat
          /\ execUsed' <= ExecLimit /\ execUsed' = Total(execHeld', Owners, ExecLimit)
      BY <2>2, CapacityAssumption DEF CapacityInv, CapacityTypeOK, ExecExact
    <3>3. PICK k \in 1 .. ExecLimit :
            \/ Total(execHeld, Owners, ExecLimit) + k <= ExecLimit /\ execHeld' = [execHeld EXCEPT ![o] = @ + k]
            \/ k <= execHeld[o] /\ execHeld' = [execHeld EXCEPT ![o] = @ - k]
      BY <3>1, <3>2, TotalMove
    <3>4. ExecQuota!Sum(execHeld) = Total(execHeld, Owners, ExecLimit)
      <4>1. ExecQuota!Units(execHeld, Owners, ExecLimit) = Units(execHeld, Owners, ExecLimit)
        BY DEF ExecQuota!Units, Units
      <4>2. \A T : ExecQuota!Cardinality(T) = Cardinality(T)
        BY DEF ExecQuota!Cardinality, Cardinality
      <4>. QED
        BY <4>1, <4>2 DEF ExecQuota!Sum, ExecQuota!Total, Total
    <3>5. ExecQuota!Acquire(o, k) \/ ExecQuota!Release(o, k)
      BY <3>3, <3>4 DEF ExecQuota!Acquire, ExecQuota!Release
    <3>. QED
      BY <3>5 DEF ExecQuota!Next
  <2>. QED
    BY <2>1, <2>2, CapacityInvariant, PTL DEF ExecQuota!Spec, CapacitySpec
<1>2. ASSUME NEW c \in Classes PROVE CapacitySpec => ClassQuota(c)!Spec
  <2>1. CapacityInit => ClassQuota(c)!Init
    BY DEF CapacityInit, ClassQuota!Init, HeldIn, Members
  <2>2. ASSUME CapacityInv, CapacityInv', [CapacityNext]_capacityVars
        PROVE  [ClassQuota(c)!Next]_(HeldIn(c))
    <3>. SUFFICES ASSUME HeldIn(c)' # HeldIn(c) PROVE ClassQuota(c)!Next
      OBVIOUS
    <3>. DEFINE S == Members(c)
                f == HeldIn(c)
                g == HeldIn(c)'
    <3>1. PICK o \in Owners : \A p \in Owners \ {o} : classHeld'[p] = classHeld[p]
      <4>1. CASE UNCHANGED capacityVars
        BY <4>1 DEF capacityVars, budgetVars, HeldIn, Members
      <4>. QED
        BY <2>2, <4>1, OneOwnerStep DEF OneOwnerMoves
    <3>2. /\ f \in [S -> 0 .. ClassLimit] /\ g \in [S -> 0 .. ClassLimit] /\ g # f
          /\ S \subseteq Owners /\ ClassLimit \in Nat
      BY <2>2, CapacityAssumption DEF CapacityInv, CapacityTypeOK, HeldIn, Members
    <3>3. IsFiniteSet(S)
      BY <3>2, CapacityAssumption, FS_Subset
    <3>4. \A p \in S \ {o} : g[p] = f[p]
      BY <3>1 DEF HeldIn, Members
    <3>5. Total(g, S, ClassLimit) <= ClassLimit
      <4>1. classUsed'[c] <= ClassLimit /\ classUsed'[c] = Total(classHeld', S, ClassLimit)
        BY <2>2, CapacityAssumption DEF CapacityInv, CapacityTypeOK, ClassExact, Members
      <4>2. \A p \in S : g[p] = classHeld'[p]
        BY DEF HeldIn, Members
      <4>. HIDE DEF S, g
      <4>3. Total(g, S, ClassLimit) = Total(classHeld', S, ClassLimit)
        BY <3>2, <4>2, TotalSame
      <4>. QED
        BY <4>1, <4>3
    <3>6. o \in S
      <4>. SUFFICES ASSUME o \notin S PROVE FALSE
        OBVIOUS
      <4>. HIDE DEF S, f, g
      <4>. QED
        BY <3>2, <3>4
    <3>7. PICK k \in 1 .. ClassLimit :
            \/ Total(f, S, ClassLimit) + k <= ClassLimit /\ g = [f EXCEPT ![o] = @ + k]
            \/ k <= f[o] /\ g = [f EXCEPT ![o] = @ - k]
      <4>. HIDE DEF S, f, g
      <4>. QED
        BY <3>2, <3>3, <3>4, <3>5, <3>6, TotalMove
    <3>8. ClassQuota(c)!Sum(f) = Total(f, S, ClassLimit)
      <4>. HIDE DEF f
      <4>1. ClassQuota(c)!Units(f, S, ClassLimit) = Units(f, S, ClassLimit)
        BY DEF ClassQuota!Units, Units
      <4>2. \A T : ClassQuota(c)!Cardinality(T) = Cardinality(T)
        BY DEF ClassQuota!Cardinality, Cardinality
      <4>. QED
        BY <4>1, <4>2 DEF ClassQuota!Sum, ClassQuota!Total, Total
    <3>9. ClassQuota(c)!Acquire(o, k) \/ ClassQuota(c)!Release(o, k)
      BY <3>7, <3>8 DEF ClassQuota!Acquire, ClassQuota!Release
    <3>. QED
      BY <3>6, <3>9 DEF ClassQuota!Next
  <2>. QED
    BY <2>1, <2>2, CapacityInvariant, PTL DEF ClassQuota!Spec, CapacitySpec
<1>. QED
  BY <1>1, <1>2 DEF MemoryImplementsQuotas

-----------------------------------------------------------------------------
(* Spools and the storage budget. *)

SpoolTypeOK ==
  /\ sequence \in 0 .. MaxName
  /\ disk \in [Names -> Nat \cup {Absent}]
  /\ leftover \subseteq Names
  /\ debt \in [Names -> 0 .. StorageLimit]
  /\ reserved \in 0 .. StorageLimit
  /\ phase \in [Spools -> {"none", "creating", "owned", "shared"}]
  /\ attempt \in [Spools -> Nat]
  /\ name \in [Spools -> 0 .. MaxName]
  /\ handle \in [Spools -> Nat \cup {Absent}]
  /\ pos \in [Spools -> Nat] /\ len \in [Spools -> Nat]
  /\ charge \in [Spools -> 0 .. StorageLimit]
  /\ writing \in [Spools -> Nat \cup {Absent}]
  /\ sources \in [Spools -> Nat] /\ readers \in [Spools -> Nat]

\* A live spool has a name of this process for itself, and its file is as long as
\* it believes unless another program removed it.
FileOfSpool(s) ==
  /\ name[s] \in 1 .. sequence /\ name[s] \notin leftover
  /\ debt[name[s]] = 0
  /\ disk[name[s]] \in {Absent, len[s]}
  /\ len[s] <= charge[s]

\* What is so in each phase of a spool.
PhaseOfSpool(s) ==
  /\ Alive(s) => FileOfSpool(s)
  /\ ~Alive(s) => charge[s] = 0 /\ handle[s] = Absent /\ sources[s] = 0 /\ readers[s] = 0
  /\ phase[s] = "owned" =>
       /\ sources[s] = 0 /\ readers[s] = 0
       /\ handle[s] # Absent => handle[s] = pos[s] /\ disk[name[s]] # Absent
  /\ phase[s] = "shared" => handle[s] = Absent /\ sources[s] + readers[s] > 0
  /\ writing[s] = Absent => charge[s] = (IF Alive(s) THEN len[s] ELSE 0)
  /\ writing[s] # Absent => phase[s] = "owned" /\ charge[s] = Reach(s, writing[s])

OwnNames ==
  \A s, t \in Spools : Alive(s) /\ Alive(t) /\ name[s] = name[t] => s = t

\* What is so of a name: it was not drawn yet, was left by an earlier process, or
\* its file has a spool or a debt that answers for it.
NameInOrder(n) ==
  /\ n \in leftover => disk[n] # Absent /\ debt[n] = 0
  /\ n > sequence => debt[n] = 0 /\ (disk[n] # Absent => n \in leftover)
  /\ n \notin leftover /\ OwnerOf(n) = {} => disk[n] = Absent \/ disk[n] <= debt[n]

AnswersExact == reserved = Total(Answers, Names, StorageLimit)

SpoolShape ==
  /\ SpoolTypeOK
  /\ \A s \in Spools : PhaseOfSpool(s)
  /\ OwnNames
  /\ \A n \in Names : NameInOrder(n)

SpoolInv == SpoolShape /\ AnswersExact

----------------------------------------------------------------------------
\* What the owners of a file are charged.
OwnedBytes(n) == Total([s \in Spools |-> IF s \in OwnerOf(n) THEN charge[s] ELSE 0],
                       Spools, StorageLimit)

\* A file without an owner answers for its debt, the file of a spool for what the
\* spool is charged.
AnswersOfDebts == \A n \in Names : OwnerOf(n) = {} => Answers[n] = debt[n]
AnswersOfSpools ==
  \A s \in Spools : Alive(s) =>
    name[s] \in Names /\ OwnerOf(name[s]) = {s} /\ Answers[name[s]] = charge[s]

LEMMA AnswersValue ==
  SpoolShape => Answers \in [Names -> 0 .. StorageLimit] /\ AnswersOfDebts /\ AnswersOfSpools
<1>. SUFFICES ASSUME SpoolShape
     PROVE  /\ Answers \in [Names -> 0 .. StorageLimit]
            /\ \A n \in Names : OwnerOf(n) = {} => Answers[n] = debt[n]
            /\ \A s \in Spools : Alive(s) =>
                 name[s] \in Names /\ OwnerOf(name[s]) = {s} /\ Answers[name[s]] = charge[s]
  BY DEF AnswersOfDebts, AnswersOfSpools
<1>1. IsFiniteSet(Spools) /\ StorageLimit \in Nat /\ SpoolTypeOK
  BY SpoolAssumption DEF SpoolShape
<1>2. ASSUME NEW n \in Names
      PROVE  Answers[n] = debt[n] + OwnedBytes(n)
  BY DEF Answers, OwnedBytes
<1>3. ASSUME NEW n \in Names, OwnerOf(n) = {}
      PROVE  OwnedBytes(n) = 0
  <2>. DEFINE f == [s \in Spools |-> IF s \in OwnerOf(n) THEN charge[s] ELSE 0]
  <2>1. f \in [Spools -> 0 .. StorageLimit] /\ \A s \in Spools : f[s] = 0
    BY <1>1, <1>3
  <2>2. OwnedBytes(n) = Total(f, Spools, StorageLimit)
    BY DEF OwnedBytes
  <2>. HIDE DEF f
  <2>. QED
    BY <1>1, <2>1, <2>2, TotalZero
<1>4. ASSUME NEW s \in Spools, Alive(s)
      PROVE  /\ name[s] \in Names /\ debt[name[s]] = 0 /\ OwnerOf(name[s]) = {s}
             /\ OwnedBytes(name[s]) = charge[s]
  <2>. DEFINE n == name[s]
              f == [t \in Spools |-> IF t \in OwnerOf(n) THEN charge[t] ELSE 0]
  <2>1. FileOfSpool(s)
    BY <1>4 DEF SpoolShape, PhaseOfSpool
  <2>2. n \in Names /\ debt[n] = 0
    BY <1>1, <2>1, SpoolAssumption DEF FileOfSpool, SpoolTypeOK, Names
  <2>3. OwnerOf(n) = {s}
    BY <1>4 DEF OwnerOf, SpoolShape, OwnNames
  <2>4. f \in [Spools -> 0 .. StorageLimit]
    BY <1>1 DEF SpoolTypeOK
  <2>5. f[s] = charge[s] /\ \A t \in Spools \ {s} : f[t] = 0
    BY <2>3
  <2>6. OwnedBytes(n) = Total(f, Spools, StorageLimit)
    BY DEF OwnedBytes
  <2>. HIDE DEF f
  <2>7. Total(f, Spools, StorageLimit) = f[s]
    BY <1>1, <2>4, <2>5, TotalSingle
  <2>. QED
    BY <2>2, <2>3, <2>5, <2>6, <2>7
<1>5. ASSUME NEW n \in Names
      PROVE  Answers[n] \in 0 .. StorageLimit /\ (OwnerOf(n) = {} => Answers[n] = debt[n])
  <2>1. debt[n] \in 0 .. StorageLimit
    BY <1>1 DEF SpoolTypeOK
  <2>2. CASE OwnerOf(n) = {}
    BY <1>1, <1>2, <1>3, <2>1, <2>2
  <2>3. CASE OwnerOf(n) # {}
    <3>1. PICK s \in Spools : Alive(s) /\ name[s] = n
      BY <2>3 DEF OwnerOf
    <3>2. Answers[n] = 0 + charge[s]
      BY <1>2, <1>4, <3>1
    <3>3. charge[s] \in 0 .. StorageLimit
      BY <1>1 DEF SpoolTypeOK
    <3>. QED
      BY <1>1, <2>3, <3>2, <3>3
  <2>. QED
    BY <2>2, <2>3
<1>6. Answers \in [Names -> 0 .. StorageLimit]
  BY <1>5 DEF Answers
<1>7. ASSUME NEW s \in Spools, Alive(s)
      PROVE  Answers[name[s]] = charge[s]
  <2>1. charge[s] \in 0 .. StorageLimit
    BY <1>1 DEF SpoolTypeOK
  <2>2. Answers[name[s]] = 0 + charge[s]
    BY <1>2, <1>4, <1>7
  <2>. QED
    BY <1>1, <2>1, <2>2
<1>. QED
  BY <1>4, <1>5, <1>6, <1>7

\* A spool is charged no more than the budget counts.
LEMMA ChargeIsCounted ==
  ASSUME SpoolInv, NEW s \in Spools, Alive(s)
  PROVE  charge[s] <= reserved
<1>1. /\ Answers \in [Names -> 0 .. StorageLimit] /\ name[s] \in Names
      /\ Answers[name[s]] = charge[s]
  BY AnswersValue DEF SpoolInv, AnswersOfSpools
<1>2. IsFiniteSet(Names) /\ StorageLimit \in Nat
  BY SpoolAssumption, FS_Interval DEF Names
<1>3. reserved = Total(Answers, Names, StorageLimit)
  BY DEF SpoolInv, AnswersExact
<1>. HIDE DEF Answers
<1>4. Answers[name[s]] <= Total(Answers, Names, StorageLimit)
  BY <1>1, <1>2, TotalMember
<1>. QED
  BY <1>1, <1>3, <1>4

\* The budget stays exact when it moves by what one file answers for more or less,
\* and every other file keeps its owner, its charge and its debt.
LEMMA AnswersMove ==
  ASSUME SpoolInv, SpoolShape', NEW n \in Names,
         \A m \in Names \ {n} : Answers'[m] = Answers[m],
         reserved' = reserved - Answers[n] + Answers'[n]
  PROVE  AnswersExact'
<1>1. Answers \in [Names -> 0 .. StorageLimit]
  BY AnswersValue DEF SpoolInv, AnswersOfSpools
<1>2. (Answers \in [Names -> 0 .. StorageLimit])'
  BY AnswersValue, PTL
<1>3. IsFiniteSet(Names) /\ StorageLimit \in Nat
  BY SpoolAssumption, FS_Interval DEF Names
<1>4. reserved = Total(Answers, Names, StorageLimit)
  BY DEF SpoolInv, AnswersExact
<1>5. Answers' \in [Names -> 0 .. StorageLimit]
  BY <1>2, SpoolAssumption
<1>6. Total(Answers', Names, StorageLimit) =
        Total(Answers, Names, StorageLimit) - Answers[n] + Answers'[n]
  <2>. DEFINE f == Answers
              g == Answers'
  <2>1. f \in [Names -> 0 .. StorageLimit] /\ g \in [Names -> 0 .. StorageLimit]
    BY <1>1, <1>5
  <2>2. \A m \in Names \ {n} : g[m] = f[m]
    OBVIOUS
  <2>. HIDE DEF f, g, Names
  <2>3. Total(g, Names, StorageLimit) = Total(f, Names, StorageLimit) - f[n] + g[n]
    BY <1>3, <2>1, <2>2, TotalUpdate
  <2>. QED
    BY <2>3 DEF f, g
<1>7. (reserved = Total(Answers, Names, StorageLimit))' <=>
        reserved' = Total(Answers', Names, StorageLimit)
  BY DEF Names
<1>. QED
  BY <1>4, <1>6, <1>7 DEF AnswersExact

\* A file answers for the same when its owners, their charges and its debt are the same.
LEMMA AnswersSame ==
  ASSUME NEW m \in Names, debt'[m] = debt[m],
         \A t \in Spools : /\ (t \in OwnerOf(m))' <=> t \in OwnerOf(m)
                           /\ t \in OwnerOf(m) => charge'[t] = charge[t]
  PROVE  Answers'[m] = Answers[m]
<1>1. [t \in Spools |-> IF t \in OwnerOf(m)' THEN charge'[t] ELSE 0]
        = [t \in Spools |-> IF t \in OwnerOf(m) THEN charge[t] ELSE 0]
  OBVIOUS
<1>. QED
  BY <1>1 DEF Answers, Names

\* Nothing is answered for differently when names, charges, debts and the live spools
\* are the same.
LEMMA QuietStep ==
  ASSUME SpoolInv, UNCHANGED <<debt, reserved, name, charge>>,
         \A s \in Spools : (phase[s] \in {"owned", "shared"}) = (phase'[s] \in {"owned", "shared"})
  PROVE  /\ AnswersExact' /\ OwnNames'
         /\ \A n \in Names : (OwnerOf(n))' = OwnerOf(n)
<1>1. \A s \in Spools : Alive(s)' <=> Alive(s)
  BY DEF Alive
<1>2. \A n \in Names : \A s \in Spools : (s \in OwnerOf(n))' <=> s \in OwnerOf(n)
  BY <1>1 DEF OwnerOf
<1>3. \A n \in Names : (OwnerOf(n))' = OwnerOf(n)
  BY <1>1 DEF OwnerOf
<1>4. OwnNames'
  BY <1>1 DEF OwnNames, SpoolInv, SpoolShape
<1>5. [n \in Names |-> debt'[n] + Total([s \in Spools |-> IF s \in (OwnerOf(n))' THEN charge'[s] ELSE 0], Spools, StorageLimit)]
       = Answers
  BY <1>3 DEF Answers
<1>6. Answers' = Answers
  BY <1>5 DEF Answers, Names
<1>7. (Total(Answers, Names, StorageLimit))' = Total(Answers, Names, StorageLimit)
  BY <1>6 DEF Total, Units, Names
<1>8. AnswersExact'
  BY <1>7 DEF AnswersExact, SpoolInv
<1>. QED
  BY <1>3, <1>4, <1>8

\* A spool that a step leaves alone, its file too, is what it was.
LEMMA OtherSpool ==
  ASSUME SpoolShape, NEW t \in Spools,
         phase'[t] = phase[t], name'[t] = name[t], handle'[t] = handle[t],
         pos'[t] = pos[t], len'[t] = len[t], charge'[t] = charge[t],
         writing'[t] = writing[t], sources'[t] = sources[t], readers'[t] = readers[t],
         sequence <= sequence', sequence' \in Nat, leftover' \subseteq leftover,
         Alive(t) => disk'[name[t]] = disk[name[t]] /\ debt'[name[t]] = debt[name[t]]
  PROVE  PhaseOfSpool(t)'
<1>1. PhaseOfSpool(t) /\ name[t] \in Nat /\ sequence \in Nat
  BY SpoolAssumption DEF SpoolShape, SpoolTypeOK
<1>2. Alive(t)' <=> Alive(t)
  BY DEF Alive
<1>3. (Reach(t, writing[t]))' = Reach(t, writing[t])
  BY DEF Reach, Larger
<1>4. Alive(t) => FileOfSpool(t)'
  BY <1>1, <1>2 DEF FileOfSpool, PhaseOfSpool
<1>. QED
  BY <1>1, <1>2, <1>3, <1>4 DEF PhaseOfSpool, Alive

----------------------------------------------------------------------------
\* Spool::create before its file: a name is drawn, or the creation ends.
LEMMA CreationStep ==
  ASSUME SpoolInv, NEW s \in Spools, BeginCreate(s) \/ NameTaken(s) \/ CreateFails(s)
  PROVE  SpoolInv'
<1>1. SpoolShape /\ SpoolTypeOK /\ PhaseOfSpool(s) /\ phase[s] \in {"none", "creating"}
  BY DEF SpoolInv, SpoolShape, BeginCreate, NameTaken, CreateFails
<1>2. /\ UNCHANGED <<disk, leftover, debt, reserved, name, cursorVars, charge, sharingVars>>
      /\ phase'[s] \in {"none", "creating"}
      /\ \A t \in Spools \ {s} : phase'[t] = phase[t]
      /\ sequence' \in 0 .. MaxName /\ sequence <= sequence'
      /\ phase' \in [Spools -> {"none", "creating", "owned", "shared"}]
      /\ attempt' \in [Spools -> Nat]
  <2>1. /\ phase \in [Spools -> {"none", "creating", "owned", "shared"}]
        /\ attempt \in [Spools -> Nat]
        /\ sequence \in 0 .. MaxName /\ MaxName \in Nat
    BY <1>1, SpoolAssumption DEF SpoolTypeOK
  <2>2. CASE BeginCreate(s)
    BY <2>1, <2>2 DEF BeginCreate, directoryVars
  <2>3. CASE NameTaken(s) /\ attempt[s] + 1 = MaxAttempts
    BY <2>1, <2>3 DEF NameTaken, Names
  <2>4. CASE NameTaken(s) /\ attempt[s] + 1 # MaxAttempts
    BY <1>1, <2>1, <2>4 DEF NameTaken, Names
  <2>5. CASE CreateFails(s)
    BY <2>1, <2>5 DEF CreateFails
  <2>. QED
    BY <2>2, <2>3, <2>4, <2>5
<1>3. SpoolTypeOK'
  BY <1>1, <1>2, SpoolAssumption DEF SpoolTypeOK, cursorVars, sharingVars, Names
<1>4. AnswersExact' /\ OwnNames' /\ \A n \in Names : (OwnerOf(n))' = OwnerOf(n)
  BY <1>1, <1>2, QuietStep
<1>5. ASSUME NEW t \in Spools
      PROVE  PhaseOfSpool(t)'
  <2>1. CASE t = s
    BY <1>1, <1>2, <2>1 DEF PhaseOfSpool, Alive, cursorVars, sharingVars
  <2>2. CASE t # s
    BY <1>1, <1>2, <2>2, OtherSpool, SpoolAssumption DEF cursorVars, sharingVars
  <2>. QED
    BY <2>1, <2>2
<1>6. ASSUME NEW n \in Names
      PROVE  NameInOrder(n)'
  <2>1. NameInOrder(n) /\ n \in Nat /\ sequence \in Nat /\ sequence' \in Nat
    BY <1>1, <1>2, SpoolAssumption DEF SpoolInv, SpoolShape, SpoolTypeOK, Names
  <2>. QED
    BY <1>2, <1>4, <2>1 DEF NameInOrder
<1>. QED
  BY <1>3, <1>4, <1>5, <1>6 DEF SpoolInv, SpoolShape, Names

\* The steps that move a cursor or a handle and no bytes: park, flush, seek, read, copy.
LEMMA CursorStep ==
  ASSUME SpoolInv, NEW s \in Spools,
         \/ Park(s) \/ Flush(s)
         \/ \E p \in 0 .. StorageLimit : SeekTo(s, p)
         \/ \E r \in 1 .. MaxWrite : ReadSome(s, r)
         \/ \E low, high \in 0 .. StorageLimit : CopyOut(s, low, high)
  PROVE  SpoolInv'
<1>1. SpoolShape /\ SpoolTypeOK /\ PhaseOfSpool(s) /\ phase[s] = "owned" /\ writing[s] = Absent
  BY DEF SpoolInv, SpoolShape, Park, Flush, SeekTo, ReadSome, CopyOut, Idle
<1>2. /\ UNCHANGED <<directoryVars, reserved, phase, attempt, name, len, writing, charge, sharingVars>>
      /\ handle' \in [Spools -> Nat \cup {Absent}] /\ pos' \in [Spools -> Nat]
      /\ \A t \in Spools \ {s} : handle'[t] = handle[t] /\ pos'[t] = pos[t]
      /\ handle'[s] # Absent => handle'[s] = pos'[s] /\ disk[name[s]] # Absent
  <2>1. Idle(s) /\ pos[s] \in Nat /\ handle[s] \in Nat \cup {Absent}
        /\ (handle[s] # Absent => handle[s] = pos[s] /\ disk[name[s]] # Absent)
    BY <1>1 DEF PhaseOfSpool, SpoolTypeOK, Idle
  <2>2. handle \in [Spools -> Nat \cup {Absent}] /\ pos \in [Spools -> Nat]
    BY <1>1 DEF SpoolTypeOK
  <2>3. CASE Park(s)
    BY <2>1, <2>2, <2>3 DEF Park
  <2>4. CASE Flush(s)
    BY <2>1, <2>2, <2>4 DEF Flush, Reopened, Usable
  <2>5. CASE \E p \in 0 .. StorageLimit : SeekTo(s, p)
    <3>1. PICK p \in 0 .. StorageLimit : SeekTo(s, p)
      BY <2>5
    <3>2. p \in Nat
      BY SpoolAssumption
    <3>. QED
      BY <2>1, <2>2, <3>1, <3>2 DEF SeekTo, Usable
  <2>6. CASE \E r \in 1 .. MaxWrite : ReadSome(s, r)
    <3>1. PICK r \in 1 .. MaxWrite : ReadSome(s, r)
      BY <2>6
    <3>2. r \in Nat /\ Reopened(s) = pos[s]
      BY <2>1, SpoolAssumption DEF Reopened
    <3>. QED
      BY <2>1, <2>2, <3>1, <3>2 DEF ReadSome
  <2>7. CASE \E low, high \in 0 .. StorageLimit : CopyOut(s, low, high)
    <3>1. PICK low \in 0 .. StorageLimit, high \in 0 .. StorageLimit : CopyOut(s, low, high)
      BY <2>7
    <3>2. high \in Nat
      BY SpoolAssumption
    <3>. QED
      BY <2>1, <2>2, <3>1, <3>2 DEF CopyOut
  <2>. QED
    BY <2>3, <2>4, <2>5, <2>6, <2>7
<1>3. SpoolTypeOK'
  BY <1>1, <1>2, SpoolAssumption DEF SpoolTypeOK, directoryVars, sharingVars, Names
<1>4. AnswersExact' /\ OwnNames' /\ \A n \in Names : (OwnerOf(n))' = OwnerOf(n)
  BY <1>2, QuietStep DEF directoryVars
<1>5. ASSUME NEW t \in Spools
      PROVE  PhaseOfSpool(t)'
  <2>1. CASE t = s
    BY <1>1, <1>2, <2>1 DEF PhaseOfSpool, FileOfSpool, Alive, directoryVars, sharingVars
  <2>2. CASE t # s
    <3>1. sequence' = sequence /\ sequence \in Nat
      BY <1>1, <1>2 DEF directoryVars, SpoolTypeOK
    <3>. QED
      BY <1>1, <1>2, <2>2, <3>1, OtherSpool DEF directoryVars, sharingVars
  <2>. QED
    BY <2>1, <2>2
<1>6. ASSUME NEW n \in Names
      PROVE  NameInOrder(n)'
  BY <1>2, <1>4 DEF NameInOrder, SpoolInv, SpoolShape, directoryVars
<1>. QED
  BY <1>3, <1>4, <1>5, <1>6 DEF SpoolInv, SpoolShape, Names

\* The steps that share a spool and its source: into_source, clone, the opener.
LEMMA ShareStep ==
  ASSUME SpoolInv, NEW s \in Spools, IntoSource(s) \/ CloneSource(s) \/ OpenReader(s)
  PROVE  SpoolInv'
<1>1. SpoolShape /\ SpoolTypeOK /\ PhaseOfSpool(s)
      /\ sources[s] \in Nat /\ readers[s] \in Nat
  BY DEF SpoolInv, SpoolShape, SpoolTypeOK
<1>2. /\ UNCHANGED <<directoryVars, reserved, attempt, name, pos, len, writing, charge>>
      /\ Alive(s) /\ writing[s] = Absent /\ phase'[s] = "shared" /\ handle'[s] = Absent
      /\ sources'[s] + readers'[s] > 0
      /\ handle' \in [Spools -> Nat \cup {Absent}]
      /\ sources' \in [Spools -> Nat] /\ readers' \in [Spools -> Nat]
      /\ phase' \in [Spools -> {"none", "creating", "owned", "shared"}]
      /\ \A t \in Spools \ {s} : /\ handle'[t] = handle[t] /\ phase'[t] = phase[t]
                                 /\ sources'[t] = sources[t] /\ readers'[t] = readers[t]
  <2>1. CASE IntoSource(s)
    BY <1>1, <2>1 DEF IntoSource, Idle, Alive, PhaseOfSpool, SpoolTypeOK
  <2>2. CASE CloneSource(s) \/ OpenReader(s)
    <3>1. sources[s] > 0
      BY <1>1, <2>2 DEF CloneSource, OpenReader
    <3>2. phase[s] = "shared" /\ handle[s] = Absent /\ writing[s] = Absent
      BY <1>1, <3>1 DEF PhaseOfSpool, Alive, SpoolTypeOK
    <3>3. UNCHANGED <<directoryVars, reserved, attempt, name, pos, len, writing, charge, handle, phase>>
      BY <2>2 DEF CloneSource, OpenReader, cursorVars
    <3>4. /\ sources' \in [Spools -> Nat] /\ readers' \in [Spools -> Nat]
          /\ sources'[s] + readers'[s] > 0
          /\ \A t \in Spools \ {s} : sources'[t] = sources[t] /\ readers'[t] = readers[t]
      BY <1>1, <2>2, <3>1 DEF CloneSource, OpenReader, SpoolTypeOK
    <3>. QED
      BY <1>1, <3>2, <3>3, <3>4 DEF Alive, SpoolTypeOK
  <2>. QED
    BY <2>1, <2>2
<1>3. SpoolTypeOK'
  BY <1>1, <1>2, SpoolAssumption DEF SpoolTypeOK, directoryVars, Names
<1>4. AnswersExact' /\ OwnNames' /\ \A n \in Names : (OwnerOf(n))' = OwnerOf(n)
  <2>1. \A t \in Spools : (phase[t] \in {"owned", "shared"}) = (phase'[t] \in {"owned", "shared"})
    BY <1>2 DEF Alive
  <2>. QED
    BY <1>2, <2>1, QuietStep DEF directoryVars
<1>5. ASSUME NEW t \in Spools
      PROVE  PhaseOfSpool(t)'
  <2>1. CASE t = s
    BY <1>1, <1>2, <2>1 DEF PhaseOfSpool, FileOfSpool, Alive, directoryVars
  <2>2. CASE t # s
    <3>1. sequence' = sequence /\ sequence \in Nat
      BY <1>1, <1>2 DEF directoryVars, SpoolTypeOK
    <3>. QED
      BY <1>1, <1>2, <2>2, <3>1, OtherSpool DEF directoryVars
  <2>. QED
    BY <2>1, <2>2
<1>6. ASSUME NEW n \in Names
      PROVE  NameInOrder(n)'
  BY <1>2, <1>4 DEF NameInOrder, SpoolInv, SpoolShape, directoryVars
<1>. QED
  BY <1>3, <1>4, <1>5, <1>6 DEF SpoolInv, SpoolShape, Names

\* The charge of one live spool moves, and the budget with it.
LEMMA ChargeMove ==
  ASSUME SpoolInv, SpoolShape', NEW s \in Spools, Alive(s),
         UNCHANGED <<debt, phase, name>>,
         \A t \in Spools \ {s} : charge'[t] = charge[t],
         reserved' = reserved - charge[s] + charge'[s]
  PROVE  AnswersExact'
<1>. DEFINE n == name[s]
<1>1. Alive(s)' /\ name'[s] = n
  BY DEF Alive
<1>2. n \in Names /\ OwnerOf(n) = {s} /\ Answers[n] = charge[s]
  BY AnswersValue DEF SpoolInv, AnswersOfSpools
<1>3. \A t \in Spools : Alive(t)' => Answers'[name'[t]] = charge'[t]
  <2>1. AnswersOfSpools'
    BY AnswersValue, PTL
  <2>. QED
    BY <2>1 DEF Alive, AnswersOfSpools
<1>4. Answers'[n] = charge'[s]
  BY <1>1, <1>3
<1>5. ASSUME NEW m \in Names \ {n}
      PROVE  Answers'[m] = Answers[m]
  <2>1. \A t \in Spools : (t \in OwnerOf(m))' <=> t \in OwnerOf(m)
    BY DEF OwnerOf, Alive
  <2>2. \A t \in Spools : t \in OwnerOf(m) => charge'[t] = charge[t]
    BY <1>5 DEF OwnerOf
  <2>. QED
    BY <2>1, <2>2, AnswersSame
<1>. HIDE DEF n
<1>. QED
  BY <1>2, <1>4, <1>5, AnswersMove

\* write_with reserves what the write could need.
LEMMA ReserveStep ==
  ASSUME SpoolInv, NEW s \in Spools, NEW n \in 1 .. MaxWrite, ReserveWrite(s, n)
  PROVE  SpoolInv'
<1>1. /\ SpoolShape /\ SpoolTypeOK /\ PhaseOfSpool(s) /\ Idle(s) /\ Alive(s)
      /\ n \in Nat /\ StorageLimit \in Nat /\ reserved \in Nat
      /\ pos[s] \in Nat /\ len[s] \in Nat /\ charge[s] \in Nat
  BY SpoolAssumption DEF SpoolInv, SpoolShape, ReserveWrite, Idle, Alive, SpoolTypeOK
<1>2. charge[s] = len[s]
  BY <1>1 DEF PhaseOfSpool, Idle
<1>3. /\ Reach(s, n) \in Nat /\ charge[s] <= Reach(s, n)
      /\ len[s] <= Reach(s, n)
  BY <1>1, <1>2 DEF Reach, Larger
<1>4. charge[s] <= reserved
  BY <1>1, ChargeIsCounted
<1>5. /\ reserved' = reserved + (Reach(s, n) - charge[s]) /\ reserved' \in 0 .. StorageLimit
      /\ Reach(s, n) \in 0 .. StorageLimit
  BY <1>1, <1>3, <1>4 DEF ReserveWrite
<1>6. /\ UNCHANGED <<directoryVars, phase, attempt, name, handle, pos, len, sharingVars>>
      /\ charge' = [charge EXCEPT ![s] = Reach(s, n)]
      /\ writing' = [writing EXCEPT ![s] = n]
  BY DEF ReserveWrite
<1>7. SpoolTypeOK'
  BY <1>1, <1>5, <1>6, SpoolAssumption DEF SpoolTypeOK, directoryVars, sharingVars, Names
<1>8. OwnNames' /\ \A m \in Names : (OwnerOf(m))' = OwnerOf(m)
  BY <1>1, <1>6 DEF OwnNames, OwnerOf, Alive, SpoolShape
<1>9. charge'[s] = Reach(s, n) /\ writing'[s] = n /\ n # Absent
      /\ (Reach(s, writing[s]))' = Reach(s, n)
  BY <1>1, <1>6, SpoolAssumption DEF SpoolTypeOK, Reach, Larger
<1>10. ASSUME NEW t \in Spools
       PROVE  PhaseOfSpool(t)'
  <2>1. CASE t = s
    BY <1>1, <1>3, <1>6, <1>9, <2>1 DEF PhaseOfSpool, FileOfSpool, Alive, Idle, directoryVars, sharingVars
  <2>2. CASE t # s
    <3>1. sequence' = sequence /\ sequence \in Nat
      BY <1>1, <1>6 DEF directoryVars, SpoolTypeOK
    <3>2. charge'[t] = charge[t] /\ writing'[t] = writing[t]
      BY <1>1, <1>6, <2>2 DEF SpoolTypeOK
    <3>. QED
      BY <1>1, <1>6, <3>1, <3>2, OtherSpool DEF directoryVars, sharingVars
  <2>. QED
    BY <2>1, <2>2
<1>11. ASSUME NEW m \in Names
       PROVE  NameInOrder(m)'
  BY <1>6, <1>8 DEF NameInOrder, SpoolInv, SpoolShape, directoryVars
<1>12. SpoolShape'
  BY <1>7, <1>8, <1>10, <1>11 DEF SpoolShape, Names
<1>13. AnswersExact'
  <2>1. \A t \in Spools \ {s} : charge'[t] = charge[t]
    BY <1>1, <1>6 DEF SpoolTypeOK
  <2>2. reserved' = reserved - charge[s] + charge'[s]
    BY <1>1, <1>3, <1>5, <1>9
  <2>. QED
    BY <1>1, <1>6, <1>12, <2>1, <2>2, ChargeMove DEF directoryVars
<1>. QED
  BY <1>12, <1>13 DEF SpoolInv

\* write_with ends: what was written stays charged, whether the write was whole, short
\* or failed, or the parked file could not be opened again.
LEMMA WriteStep ==
  ASSUME SpoolInv, NEW s \in Spools,
         WriteUnopened(s) \/ \E w \in 0 .. MaxWrite : FinishWrite(s, w)
  PROVE  SpoolInv'
<1>1. /\ SpoolShape /\ SpoolTypeOK /\ PhaseOfSpool(s) /\ writing[s] # Absent
      /\ phase[s] = "owned" /\ Alive(s) /\ FileOfSpool(s)
      /\ StorageLimit \in Nat /\ reserved \in 0 .. StorageLimit /\ writing[s] \in Nat
      /\ pos[s] \in Nat /\ len[s] \in Nat /\ charge[s] \in Nat /\ name[s] \in Names
  <2>1. SpoolShape /\ SpoolTypeOK /\ PhaseOfSpool(s) /\ writing[s] # Absent
    BY DEF SpoolInv, SpoolShape, WriteUnopened, FinishWrite
  <2>2. phase[s] = "owned" /\ Alive(s) /\ FileOfSpool(s)
    BY <2>1 DEF PhaseOfSpool, Alive
  <2>3. name[s] \in Names
    BY <2>1, <2>2, AnswersValue DEF AnswersOfSpools
  <2>. QED
    BY <2>1, <2>2, <2>3, SpoolAssumption DEF SpoolTypeOK
<1>2. charge[s] = Reach(s, writing[s]) /\ charge[s] <= reserved
  BY <1>1, ChargeIsCounted DEF PhaseOfSpool
<1>3. PICK length \in Nat :
        /\ length <= charge[s]
        /\ ShrinkTo(s, length)
        /\ len'[s] = length /\ len' \in [Spools -> Nat]
        /\ pos' \in [Spools -> Nat] /\ handle' \in [Spools -> Nat \cup {Absent}]
        /\ disk' \in [Names -> Nat \cup {Absent}]
        /\ disk'[name[s]] \in {Absent, length}
        /\ handle'[s] # Absent => handle'[s] = pos'[s] /\ disk'[name[s]] # Absent
        /\ writing' = [writing EXCEPT ![s] = Absent]
        /\ \A t \in Spools \ {s} : len'[t] = len[t] /\ pos'[t] = pos[t] /\ handle'[t] = handle[t]
        /\ \A m \in Names \ {name[s]} : disk'[m] = disk[m]
        /\ UNCHANGED <<sequence, leftover, debt, phase, attempt, name, sharingVars>>
  <2>1. CASE WriteUnopened(s)
    <3>1. len[s] \in Nat /\ len[s] <= charge[s]
      BY <1>1 DEF FileOfSpool
    <3>2. /\ handle[s] = Absent /\ writing' = [writing EXCEPT ![s] = Absent] /\ ShrinkTo(s, len[s])
          /\ UNCHANGED <<directoryVars, phase, attempt, name, handle, pos, len, sharingVars>>
      BY <2>1 DEF WriteUnopened
    <3>3. /\ len' \in [Spools -> Nat]
          /\ pos' \in [Spools -> Nat] /\ handle' \in [Spools -> Nat \cup {Absent}]
          /\ disk' \in [Names -> Nat \cup {Absent}]
          /\ disk'[name[s]] \in {Absent, len[s]}
      BY <1>1, <3>2 DEF FileOfSpool, directoryVars, SpoolTypeOK
    <3>. QED
      BY <3>1, <3>2, <3>3 DEF directoryVars
  <2>2. CASE \E w \in 0 .. MaxWrite : FinishWrite(s, w)
    <3>1. PICK w \in 0 .. MaxWrite : FinishWrite(s, w)
      BY <2>2
    <3>. DEFINE at == Reopened(s)
                length == IF w = 0 THEN len[s] ELSE Larger(len[s], pos[s] + w)
    <3>2. w \in Nat /\ w <= writing[s] /\ Usable(s)
      BY <3>1, SpoolAssumption DEF FinishWrite
    <3>3. /\ at = pos[s] /\ disk[name[s]] = len[s]
      BY <1>1, <3>2 DEF Reopened, Usable, PhaseOfSpool, FileOfSpool
    <3>4. length \in Nat /\ length <= charge[s]
      BY <1>1, <1>2, <3>2 DEF Reach, Larger
    <3>5. /\ IF w = 0 THEN UNCHANGED disk
             ELSE disk' = [disk EXCEPT ![name[s]] = Larger(disk[name[s]], at + w)]
          /\ handle' = [handle EXCEPT ![s] = at + w]
          /\ pos' = [pos EXCEPT ![s] = pos[s] + w]
          /\ len' = [len EXCEPT ![s] = length]
          /\ writing' = [writing EXCEPT ![s] = Absent]
          /\ ShrinkTo(s, length)
          /\ UNCHANGED <<sequence, leftover, debt, phase, attempt, name, sharingVars>>
      BY <3>1 DEF FinishWrite
    <3>6. disk \in [Names -> Nat \cup {Absent}] /\ handle \in [Spools -> Nat \cup {Absent}]
          /\ pos \in [Spools -> Nat] /\ len \in [Spools -> Nat]
      BY <1>1 DEF SpoolTypeOK
    <3>7. /\ disk' \in [Names -> Nat \cup {Absent}] /\ disk'[name[s]] = length
          /\ \A m \in Names \ {name[s]} : disk'[m] = disk[m]
      <4>1. CASE w = 0
        BY <3>3, <3>5, <3>6, <4>1
      <4>2. CASE w # 0
        <5>1. disk' = [disk EXCEPT ![name[s]] = length]
          BY <3>3, <3>5, <4>2
        <5>. HIDE DEF length
        <5>. QED
          BY <1>1, <3>4, <3>6, <5>1
      <4>. QED
        BY <4>1, <4>2
    <3>8. length # Absent /\ at + w \in Nat /\ at + w = pos[s] + w
      BY <1>1, <3>2, <3>3, <3>4, SpoolAssumption
    <3>. HIDE DEF at, length
    <3>9. /\ len'[s] = length /\ len' \in [Spools -> Nat]
          /\ pos' \in [Spools -> Nat] /\ handle' \in [Spools -> Nat \cup {Absent}]
          /\ handle'[s] = pos'[s]
          /\ \A t \in Spools \ {s} : len'[t] = len[t] /\ pos'[t] = pos[t] /\ handle'[t] = handle[t]
      BY <1>1, <3>4, <3>5, <3>6, <3>8
    <3>. QED
      BY <3>4, <3>5, <3>7, <3>8, <3>9
  <2>. QED
    BY <2>1, <2>2
<1>4. /\ reserved' = reserved - (charge[s] - length)
      /\ charge' = [charge EXCEPT ![s] = length]
      /\ reserved' \in 0 .. StorageLimit /\ length \in 0 .. StorageLimit
  BY <1>1, <1>2, <1>3 DEF ShrinkTo
<1>5. SpoolTypeOK'
  <2>1. /\ writing' \in [Spools -> Nat \cup {Absent}]
        /\ charge' \in [Spools -> 0 .. StorageLimit]
    BY <1>1, <1>3, <1>4 DEF SpoolTypeOK
  <2>. QED
    BY <1>1, <1>3, <1>4, <2>1, SpoolAssumption DEF SpoolTypeOK, sharingVars, Names
<1>6. OwnNames' /\ \A m \in Names : (OwnerOf(m))' = OwnerOf(m)
  BY <1>1, <1>3 DEF OwnNames, OwnerOf, Alive, SpoolShape
<1>7. charge'[s] = length /\ writing'[s] = Absent
      /\ \A t \in Spools \ {s} : charge'[t] = charge[t] /\ writing'[t] = writing[t]
  BY <1>1, <1>3, <1>4 DEF SpoolTypeOK
<1>8. ASSUME NEW t \in Spools
      PROVE  PhaseOfSpool(t)'
  <2>1. CASE t = s
    <3>1. FileOfSpool(s)'
      BY <1>1, <1>3, <1>7 DEF FileOfSpool
    <3>. QED
      BY <1>1, <1>3, <1>7, <2>1, <3>1 DEF PhaseOfSpool, Alive, sharingVars
  <2>2. CASE t # s
    <3>1. sequence' = sequence /\ sequence \in Nat
      BY <1>1, <1>3 DEF SpoolTypeOK
    <3>2. Alive(t) => name[t] \in Names /\ name[t] # name[s]
      BY <1>1, <2>2, AnswersValue DEF SpoolShape, OwnNames, AnswersOfSpools
    <3>3. Alive(t) => disk'[name[t]] = disk[name[t]]
      BY <1>3, <3>2
    <3>. QED
      BY <1>1, <1>3, <1>7, <2>2, <3>1, <3>3, OtherSpool DEF sharingVars
  <2>. QED
    BY <2>1, <2>2
<1>9. ASSUME NEW m \in Names
      PROVE  NameInOrder(m)'
  <2>1. NameInOrder(m)
    BY <1>1 DEF SpoolShape
  <2>2. CASE m = name[s]
    <3>1. s \in OwnerOf(m) /\ m \in 1 .. sequence /\ m \notin leftover /\ debt[m] = 0
      BY <1>1, <2>2 DEF OwnerOf, FileOfSpool
    <3>2. sequence \in Nat
      BY <1>1 DEF SpoolTypeOK
    <3>. QED
      BY <1>3, <1>6, <3>1, <3>2 DEF NameInOrder
  <2>3. CASE m # name[s]
    BY <1>3, <1>6, <2>1, <2>3 DEF NameInOrder
  <2>. QED
    BY <2>2, <2>3
<1>10. SpoolShape'
  BY <1>5, <1>6, <1>8, <1>9 DEF SpoolShape, Names
<1>11. AnswersExact'
  <2>1. reserved' = reserved - charge[s] + charge'[s]
    BY <1>1, <1>4, <1>7
  <2>. QED
    BY <1>1, <1>3, <1>7, <1>10, <2>1, ChargeMove
<1>. QED
  BY <1>10, <1>11 DEF SpoolInv

\* create_new opens an empty spool on a name nobody has.
LEMMA CreateFileStep ==
  ASSUME SpoolInv, NEW s \in Spools, CreateFile(s)
  PROVE  SpoolInv'
<1>. PICK n \in Names : n = sequence + 1
  BY DEF CreateFile
<1>1. /\ SpoolShape /\ SpoolTypeOK /\ PhaseOfSpool(s) /\ ~Alive(s)
      /\ n \in Names /\ disk[n] = Absent /\ sequence \in Nat /\ n \in Nat
      /\ charge[s] = 0 /\ sources[s] = 0 /\ readers[s] = 0 /\ writing[s] = Absent
  <2>1. SpoolShape /\ SpoolTypeOK /\ PhaseOfSpool(s) /\ ~Alive(s) /\ n \in Names /\ disk[n] = Absent
    BY DEF SpoolInv, SpoolShape, CreateFile, TakeName, Alive
  <2>2. phase[s] # "owned" /\ sequence \in Nat
    BY <2>1, SpoolAssumption DEF SpoolTypeOK, Alive
  <2>. QED
    BY <2>1, <2>2 DEF PhaseOfSpool
<1>2. n \notin leftover /\ debt[n] = 0
  BY <1>1 DEF SpoolShape, NameInOrder
<1>3. \A t \in Spools : Alive(t) => name[t] # n
  <2>1. \A t \in Spools : Alive(t) => name[t] \in 1 .. sequence
    BY <1>1 DEF SpoolShape, PhaseOfSpool, FileOfSpool
  <2>. QED
    BY <1>1, <2>1
<1>4. /\ sequence' = n /\ disk' = [disk EXCEPT ![n] = 0]
      /\ phase' = [phase EXCEPT ![s] = "owned"] /\ name' = [name EXCEPT ![s] = n]
      /\ handle' = [handle EXCEPT ![s] = 0] /\ pos' = [pos EXCEPT ![s] = 0]
      /\ len' = [len EXCEPT ![s] = 0] /\ attempt' = [attempt EXCEPT ![s] = 0]
      /\ UNCHANGED <<leftover, debt, reserved, charge, writing, sharingVars>>
  BY DEF CreateFile
<1>5. SpoolTypeOK'
  <2>1. n \in 0 .. MaxName /\ 0 \in Nat
    BY <1>1, SpoolAssumption DEF Names
  <2>2. disk' \in [Names -> Nat \cup {Absent}] /\ name' \in [Spools -> 0 .. MaxName]
        /\ phase' \in [Spools -> {"none", "creating", "owned", "shared"}]
        /\ handle' \in [Spools -> Nat \cup {Absent}] /\ pos' \in [Spools -> Nat]
        /\ len' \in [Spools -> Nat] /\ attempt' \in [Spools -> Nat]
    BY <1>1, <1>4, <2>1 DEF SpoolTypeOK
  <2>. QED
    BY <1>1, <1>4, <2>1, <2>2 DEF SpoolTypeOK, sharingVars, Names
<1>6. /\ phase'[s] = "owned" /\ name'[s] = n /\ handle'[s] = 0 /\ pos'[s] = 0 /\ len'[s] = 0
      /\ disk'[n] = 0 /\ (\A m \in Names \ {n} : disk'[m] = disk[m])
      /\ \A t \in Spools \ {s} :
           /\ phase'[t] = phase[t] /\ name'[t] = name[t] /\ handle'[t] = handle[t]
           /\ pos'[t] = pos[t] /\ len'[t] = len[t]
  BY <1>1, <1>4 DEF SpoolTypeOK
<1>7. ASSUME NEW t \in Spools
      PROVE  PhaseOfSpool(t)'
  <2>1. CASE t = s
    <3>1. FileOfSpool(s)'
      BY <1>1, <1>2, <1>4, <1>6 DEF FileOfSpool
    <3>2. Alive(s)'
      BY <1>6 DEF Alive
    <3>. QED
      BY <1>1, <1>4, <1>6, <2>1, <3>1, <3>2, SpoolAssumption DEF PhaseOfSpool, sharingVars
  <2>2. CASE t # s
    <3>1. Alive(t) => disk'[name[t]] = disk[name[t]]
      BY <1>1, <1>3, <1>6, AnswersValue DEF AnswersOfSpools
    <3>2. sequence <= sequence' /\ sequence' \in Nat
      BY <1>1, <1>4
    <3>. QED
      BY <1>1, <1>4, <1>6, <2>2, <3>1, <3>2, OtherSpool DEF sharingVars
  <2>. QED
    BY <2>1, <2>2
<1>8. OwnNames'
  BY <1>1, <1>3, <1>6 DEF OwnNames, Alive, SpoolShape
<1>9. \A m \in Names \ {n} : \A t \in Spools : (t \in OwnerOf(m))' <=> t \in OwnerOf(m)
  BY <1>1, <1>6 DEF OwnerOf, Alive
<1>10. ASSUME NEW m \in Names
       PROVE  NameInOrder(m)'
  <2>1. NameInOrder(m) /\ m \in Nat /\ sequence' \in Nat
    BY <1>1, <1>4, SpoolAssumption DEF SpoolShape, Names
  <2>2. CASE m = n
    <3>1. (s \in OwnerOf(m))'
      BY <1>6, <2>2 DEF OwnerOf, Alive
    <3>. QED
      BY <1>1, <1>2, <1>4, <2>2, <3>1 DEF NameInOrder
  <2>3. CASE m # n
    <3>1. (OwnerOf(m))' = OwnerOf(m)
      BY <1>9, <2>3 DEF OwnerOf
    <3>2. m > n => m > sequence
      BY <1>1, <2>1
    <3>. QED
      BY <1>4, <1>6, <2>1, <2>3, <3>1, <3>2 DEF NameInOrder
  <2>. QED
    BY <2>2, <2>3
<1>11. SpoolShape'
  BY <1>5, <1>7, <1>8, <1>10 DEF SpoolShape, Names
<1>12. AnswersExact'
  <2>1. OwnerOf(n) = {}
    BY <1>3 DEF OwnerOf
  <2>2. Answers[n] = 0
    BY <1>1, <1>2, <2>1, AnswersValue DEF AnswersOfDebts
  <2>3. AnswersOfSpools'
    BY <1>11, AnswersValue, PTL
  <2>4. Answers'[n] = 0
    BY <1>1, <1>4, <1>6, <2>3 DEF Alive, AnswersOfSpools
  <2>5. ASSUME NEW m \in Names \ {n}
        PROVE  Answers'[m] = Answers[m]
    BY <1>4, <1>9, AnswersSame
  <2>6. reserved' = reserved - Answers[n] + Answers'[n]
    BY <1>1, <1>4, <2>2, <2>4 DEF SpoolTypeOK
  <2>. QED
    BY <1>1, <1>11, <2>5, <2>6, AnswersMove
<1>. QED
  BY <1>11, <1>12 DEF SpoolInv

\* Spool::drop by the last owner: the file goes and the charge with it, or the file
\* stays and the charge becomes its debt.
LEMMA RemoveStep ==
  ASSUME SpoolInv, NEW s \in Spools, Alive(s), writing[s] = Absent, Remove(s),
         sources' \in [Spools -> Nat], readers' \in [Spools -> Nat],
         sources'[s] = 0, readers'[s] = 0,
         \A t \in Spools \ {s} : sources'[t] = sources[t] /\ readers'[t] = readers[t]
  PROVE  SpoolInv'
<1>. PICK n \in Names : n = name[s]
  BY AnswersValue DEF SpoolInv, AnswersOfSpools
<1>1. /\ SpoolShape /\ SpoolTypeOK /\ PhaseOfSpool(s) /\ FileOfSpool(s)
      /\ n \in Names /\ OwnerOf(n) = {s} /\ Answers[n] = charge[s] /\ charge[s] <= reserved
      /\ charge[s] \in Nat /\ charge[s] \in 0 .. StorageLimit
      /\ reserved \in 0 .. StorageLimit /\ StorageLimit \in Nat
  BY AnswersValue, ChargeIsCounted, SpoolAssumption
     DEF AnswersOfSpools, SpoolInv, SpoolShape, PhaseOfSpool, SpoolTypeOK
<1>2. /\ n \in 1 .. sequence /\ n \notin leftover /\ debt[n] = 0 /\ charge[s] = len[s]
      /\ disk[n] \in {Absent, charge[s]} /\ sequence \in Nat
  BY <1>1 DEF FileOfSpool, PhaseOfSpool, SpoolTypeOK
<1>3. /\ charge' = [charge EXCEPT ![s] = 0] /\ phase' = [phase EXCEPT ![s] = "none"]
      /\ name' = [name EXCEPT ![s] = 0] /\ handle' = [handle EXCEPT ![s] = Absent]
      /\ pos' = [pos EXCEPT ![s] = 0] /\ len' = [len EXCEPT ![s] = 0]
      /\ UNCHANGED <<sequence, leftover, attempt, writing>>
  BY DEF Remove
<1>4. /\ disk' \in [Names -> Nat \cup {Absent}] /\ debt' \in [Names -> 0 .. StorageLimit]
      /\ reserved' \in 0 .. StorageLimit
      /\ \A m \in Names \ {n} : disk'[m] = disk[m] /\ debt'[m] = debt[m]
      /\ disk'[n] \in {Absent, charge[s]} /\ debt'[n] \in Nat
      /\ (disk'[n] = Absent /\ debt'[n] = 0) \/ (disk'[n] = charge[s] /\ debt'[n] = charge[s])
      /\ reserved' = reserved - charge[s] + debt'[n]
  <2>1. disk \in [Names -> Nat \cup {Absent}] /\ debt \in [Names -> 0 .. StorageLimit]
    BY <1>1 DEF SpoolTypeOK
  <2>2. disk' = [disk EXCEPT ![n] = Absent] \/ disk' = disk
    BY DEF Remove
  <2>3. /\ disk' \in [Names -> Nat \cup {Absent}] /\ disk'[n] \in {Absent, charge[s]}
        /\ \A m \in Names \ {n} : disk'[m] = disk[m]
    BY <1>1, <1>2, <2>1, <2>2
  <2>4. CASE disk'[n] = Absent
    <3>1. reserved' = reserved - charge[s] /\ debt' = debt
      BY <2>4 DEF Remove, Releases
    <3>. QED
      BY <1>1, <1>2, <2>1, <2>3, <2>4, <3>1
  <2>5. CASE disk'[n] # Absent
    <3>1. reserved' = reserved /\ debt' = [debt EXCEPT ![n] = charge[s]]
      BY <2>5 DEF Remove, Releases
    <3>. QED
      BY <1>1, <1>2, <2>1, <2>3, <2>5, <3>1
  <2>. QED
    BY <2>4, <2>5
<1>5. /\ phase'[s] = "none" /\ charge'[s] = 0 /\ handle'[s] = Absent
      /\ \A t \in Spools \ {s} :
           /\ phase'[t] = phase[t] /\ name'[t] = name[t] /\ handle'[t] = handle[t]
           /\ pos'[t] = pos[t] /\ len'[t] = len[t] /\ charge'[t] = charge[t]
           /\ writing'[t] = writing[t]
  BY <1>1, <1>3 DEF SpoolTypeOK
<1>6. SpoolTypeOK'
  <2>1. 0 \in Nat /\ 0 \in 0 .. StorageLimit /\ 0 \in 0 .. MaxName
    BY <1>1, SpoolAssumption
  <2>2. /\ charge' \in [Spools -> 0 .. StorageLimit] /\ name' \in [Spools -> 0 .. MaxName]
        /\ phase' \in [Spools -> {"none", "creating", "owned", "shared"}]
        /\ handle' \in [Spools -> Nat \cup {Absent}] /\ pos' \in [Spools -> Nat]
        /\ len' \in [Spools -> Nat]
    BY <1>1, <1>3, <2>1 DEF SpoolTypeOK
  <2>. QED
    BY <1>1, <1>3, <1>4, <2>2 DEF SpoolTypeOK, Names
<1>7. ASSUME NEW t \in Spools
      PROVE  PhaseOfSpool(t)'
  <2>1. CASE t = s
    BY <1>3, <1>5, <2>1 DEF PhaseOfSpool, Alive
  <2>2. CASE t # s
    <3>1. Alive(t) => name[t] \in Names /\ name[t] # n
      BY <1>1, <2>2, AnswersValue DEF SpoolShape, OwnNames, AnswersOfSpools
    <3>2. Alive(t) => disk'[name[t]] = disk[name[t]] /\ debt'[name[t]] = debt[name[t]]
      BY <1>4, <3>1
    <3>. QED
      BY <1>1, <1>2, <1>3, <1>5, <2>2, <3>2, OtherSpool
  <2>. QED
    BY <2>1, <2>2
<1>8. OwnNames'
  BY <1>1, <1>5 DEF OwnNames, Alive, SpoolShape
<1>9. \A m \in Names \ {n} : \A t \in Spools : (t \in OwnerOf(m))' <=> t \in OwnerOf(m)
  BY <1>1, <1>5 DEF OwnerOf, Alive
<1>10. ASSUME NEW m \in Names
       PROVE  NameInOrder(m)'
  <2>1. NameInOrder(m) /\ m \in Nat
    BY <1>1, SpoolAssumption DEF SpoolShape, Names
  <2>2. CASE m = n
    <3>1. ~(n > sequence')
      BY <1>2, <1>3
    <3>. QED
      BY <1>1, <1>2, <1>3, <1>4, <2>2, <3>1 DEF NameInOrder
  <2>3. CASE m # n
    <3>1. (OwnerOf(m))' = OwnerOf(m)
      BY <1>9, <2>3 DEF OwnerOf
    <3>. QED
      BY <1>3, <1>4, <2>1, <2>3, <3>1 DEF NameInOrder
  <2>. QED
    BY <2>2, <2>3
<1>11. SpoolShape'
  BY <1>6, <1>7, <1>8, <1>10 DEF SpoolShape, Names
<1>12. AnswersExact'
  <2>1. (OwnerOf(n))' = {}
    BY <1>1, <1>5 DEF OwnerOf, Alive
  <2>2. AnswersOfDebts'
    BY <1>11, AnswersValue, PTL
  <2>3. Answers'[n] = debt'[n]
    BY <1>1, <2>1, <2>2 DEF AnswersOfDebts, OwnerOf, Alive, Names
  <2>4. ASSUME NEW m \in Names \ {n}
        PROVE  Answers'[m] = Answers[m]
    <3>1. \A t \in Spools : t \in OwnerOf(m) => t # s
      BY <2>4 DEF OwnerOf
    <3>. QED
      BY <1>4, <1>5, <1>9, <3>1, AnswersSame
  <2>5. reserved' = reserved - Answers[n] + Answers'[n]
    BY <1>1, <1>4, <2>3
  <2>. QED
    BY <1>1, <1>11, <2>4, <2>5, AnswersMove
<1>. QED
  BY <1>11, <1>12 DEF SpoolInv

\* Both ways a spool is dropped.
LEMMA DropStep ==
  ASSUME SpoolInv, NEW s \in Spools, DropHolder(s) \/ DropSpool(s)
  PROVE  /\ SpoolInv'
         /\ Alive(s)
         /\ \/ Keep(s)
            \/ Remove(s) /\ sources'[s] = 0 /\ readers'[s] = 0
<1>1. /\ SpoolShape /\ SpoolTypeOK /\ PhaseOfSpool(s)
      /\ sources \in [Spools -> Nat] /\ readers \in [Spools -> Nat]
  BY DEF SpoolInv, SpoolShape, SpoolTypeOK
<1>2. CASE DropSpool(s)
  <2>1. /\ Alive(s) /\ writing[s] = Absent /\ Remove(s)
        /\ sources' = sources /\ readers' = readers /\ sources[s] = 0 /\ readers[s] = 0
    BY <1>1, <1>2 DEF DropSpool, Idle, Alive, PhaseOfSpool, sharingVars
  <2>. QED
    BY <1>1, <2>1, RemoveStep
<1>3. CASE DropHolder(s)
  <2>1. sources[s] \in Nat /\ readers[s] \in Nat /\ sources[s] + readers[s] > 0
        /\ (sources[s] > 0 \/ readers[s] > 0)
    BY <1>1, <1>3 DEF DropHolder
  <2>2. Alive(s) /\ phase[s] = "shared" /\ handle[s] = Absent /\ writing[s] = Absent
    BY <1>1, <2>1 DEF PhaseOfSpool, Alive
  <2>3. /\ sources' \in [Spools -> Nat] /\ readers' \in [Spools -> Nat]
        /\ sources'[s] + readers'[s] = sources[s] + readers[s] - 1
        /\ \A t \in Spools \ {s} : sources'[t] = sources[t] /\ readers'[t] = readers[t]
    <3>1. CASE sources[s] > 0 /\ sources' = [sources EXCEPT ![s] = @ - 1] /\ UNCHANGED readers
      BY <1>1, <2>1, <3>1
    <3>2. CASE readers[s] > 0 /\ readers' = [readers EXCEPT ![s] = @ - 1] /\ UNCHANGED sources
      BY <1>1, <2>1, <3>2
    <3>. QED
      BY <1>3, <3>1, <3>2 DEF DropHolder
  <2>4. CASE LastHolder(s)
    <3>1. sources'[s] = 0 /\ readers'[s] = 0
      BY <2>1, <2>3, <2>4 DEF LastHolder
    <3>2. Remove(s)
      BY <1>3, <2>4 DEF DropHolder
    <3>. QED
      BY <2>2, <2>3, <3>1, <3>2, RemoveStep
  <2>5. CASE ~LastHolder(s)
    <3>1. Keep(s)
      BY <1>3, <2>5 DEF DropHolder
    <3>2. UNCHANGED <<directoryVars, reserved, phase, attempt, name, cursorVars, charge>>
      BY <3>1 DEF Keep
    <3>3. sources'[s] + readers'[s] > 0
      BY <2>1, <2>3, <2>5 DEF LastHolder
    <3>4. SpoolTypeOK'
      BY <1>1, <2>3, <3>2 DEF SpoolTypeOK, directoryVars, cursorVars, Names
    <3>5. AnswersExact' /\ OwnNames' /\ \A n \in Names : (OwnerOf(n))' = OwnerOf(n)
      BY <3>2, QuietStep DEF directoryVars
    <3>6. ASSUME NEW t \in Spools
          PROVE  PhaseOfSpool(t)'
      <4>1. CASE t = s
        BY <1>1, <2>2, <3>2, <3>3, <4>1
           DEF PhaseOfSpool, FileOfSpool, Alive, directoryVars, cursorVars
      <4>2. CASE t # s
        <5>1. sequence' = sequence /\ sequence \in Nat
          BY <1>1, <3>2 DEF directoryVars, SpoolTypeOK
        <5>. QED
          BY <1>1, <2>3, <3>2, <4>2, <5>1, OtherSpool DEF directoryVars, cursorVars
      <4>. QED
        BY <4>1, <4>2
    <3>7. ASSUME NEW n \in Names
          PROVE  NameInOrder(n)'
      BY <3>2, <3>5 DEF NameInOrder, SpoolInv, SpoolShape, directoryVars
    <3>. QED
      BY <2>2, <3>1, <3>4, <3>5, <3>6, <3>7 DEF SpoolInv, SpoolShape, Names
  <2>. QED
    BY <2>4, <2>5
<1>. QED
  BY <1>2, <1>3

\* Another program removes a file that nobody has open.
LEMMA SweepStep ==
  ASSUME SpoolInv, NEW n \in Names, Sweep(n)
  PROVE  SpoolInv'
<1>1. /\ SpoolShape /\ SpoolTypeOK
      /\ disk' = [disk EXCEPT ![n] = Absent] /\ leftover' = leftover \ {n}
      /\ UNCHANGED <<sequence, debt, reserved, phase, attempt, name, cursorVars, charge,
                     sharingVars>>
      /\ \A t \in Spools : name[t] = n /\ phase[t] # "none" => handle[t] = Absent
  BY DEF SpoolInv, SpoolShape, Sweep
<1>2. /\ disk' \in [Names -> Nat \cup {Absent}] /\ disk'[n] = Absent
      /\ \A m \in Names \ {n} : disk'[m] = disk[m]
  BY <1>1 DEF SpoolTypeOK
<1>3. SpoolTypeOK'
  BY <1>1, <1>2 DEF SpoolTypeOK, cursorVars, sharingVars, Names
<1>4. AnswersExact' /\ OwnNames' /\ \A m \in Names : (OwnerOf(m))' = OwnerOf(m)
  BY <1>1, QuietStep
<1>5. ASSUME NEW t \in Spools
      PROVE  PhaseOfSpool(t)'
  <2>1. CASE Alive(t) /\ name[t] = n
    <3>1. handle[t] = Absent /\ PhaseOfSpool(t)
      BY <1>1, <2>1 DEF Alive, SpoolShape
    <3>2. FileOfSpool(t)'
      BY <1>1, <1>2, <2>1, <3>1 DEF PhaseOfSpool, FileOfSpool, cursorVars
    <3>3. (Reach(t, writing[t]))' = Reach(t, writing[t])
      BY <1>1 DEF Reach, Larger, cursorVars
    <3>. QED
      BY <1>1, <2>1, <3>1, <3>2, <3>3 DEF PhaseOfSpool, Alive, cursorVars, sharingVars
  <2>2. CASE ~(Alive(t) /\ name[t] = n)
    <3>1. sequence' = sequence /\ sequence \in Nat
      BY <1>1 DEF SpoolTypeOK
    <3>2. Alive(t) => disk'[name[t]] = disk[name[t]]
      BY <1>1, <1>2, <2>2, AnswersValue DEF AnswersOfSpools
    <3>. QED
      BY <1>1, <3>1, <3>2, OtherSpool DEF cursorVars, sharingVars
  <2>. QED
    BY <2>1, <2>2
<1>6. ASSUME NEW m \in Names
      PROVE  NameInOrder(m)'
  <2>1. NameInOrder(m)
    BY <1>1 DEF SpoolShape
  <2>. QED
    BY <1>1, <1>2, <1>4, <2>1 DEF NameInOrder
<1>. QED
  BY <1>3, <1>4, <1>5, <1>6 DEF SpoolInv, SpoolShape, Names

----------------------------------------------------------------------------
LEMMA SpoolInitial == SpoolInit => SpoolInv
<1>. SUFFICES ASSUME SpoolInit PROVE SpoolInv
  OBVIOUS
<1>1. SpoolTypeOK
  BY SpoolAssumption DEF SpoolInit, SpoolTypeOK, Names
<1>2. \A s \in Spools : PhaseOfSpool(s)
  BY SpoolAssumption DEF SpoolInit, PhaseOfSpool, Alive
<1>3. OwnNames
  BY DEF SpoolInit, OwnNames, Alive
<1>4. \A n \in Names : NameInOrder(n)
  BY SpoolAssumption DEF SpoolInit, NameInOrder
<1>5. SpoolShape
  BY <1>1, <1>2, <1>3, <1>4 DEF SpoolShape
<1>6. \A n \in Names : OwnerOf(n) = {}
  BY DEF SpoolInit, OwnerOf, Alive
<1>7. Answers \in [Names -> 0 .. StorageLimit] /\ \A n \in Names : Answers[n] = 0
  BY <1>5, <1>6, AnswersValue DEF AnswersOfDebts, SpoolInit
<1>8. IsFiniteSet(Names) /\ StorageLimit \in Nat
  BY SpoolAssumption, FS_Interval DEF Names
<1>. HIDE DEF Answers
<1>9. Total(Answers, Names, StorageLimit) = 0
  BY <1>7, <1>8, TotalZero
<1>. QED
  BY <1>5, <1>9 DEF SpoolInit, SpoolInv, AnswersExact

\* A step of the specification is one of the steps above.
LEMMA SpoolInductive ==
  ASSUME SpoolInv, SpoolNext
  PROVE  SpoolInv'
<1>1. CASE \E n \in Names : Sweep(n)
  BY <1>1, SweepStep
<1>2. ASSUME NEW s \in Spools, BeginCreate(s) \/ NameTaken(s) \/ CreateFails(s)
      PROVE  SpoolInv'
  BY <1>2, CreationStep
<1>3. ASSUME NEW s \in Spools, CreateFile(s)
      PROVE  SpoolInv'
  BY <1>3, CreateFileStep
<1>4. ASSUME NEW s \in Spools,
             \/ Park(s) \/ Flush(s)
             \/ \E p \in 0 .. StorageLimit : SeekTo(s, p)
             \/ \E r \in 1 .. MaxWrite : ReadSome(s, r)
             \/ \E low, high \in 0 .. StorageLimit : CopyOut(s, low, high)
      PROVE  SpoolInv'
  BY <1>4, CursorStep
<1>5. ASSUME NEW s \in Spools, NEW n \in 1 .. MaxWrite, ReserveWrite(s, n)
      PROVE  SpoolInv'
  BY <1>5, ReserveStep
<1>6. ASSUME NEW s \in Spools, WriteUnopened(s) \/ \E w \in 0 .. MaxWrite : FinishWrite(s, w)
      PROVE  SpoolInv'
  BY <1>6, WriteStep
<1>7. ASSUME NEW s \in Spools, IntoSource(s) \/ CloneSource(s) \/ OpenReader(s)
      PROVE  SpoolInv'
  BY <1>7, ShareStep
<1>8. ASSUME NEW s \in Spools, DropHolder(s) \/ DropSpool(s)
      PROVE  SpoolInv'
  BY <1>8, DropStep
<1>. QED
  BY <1>1, <1>2, <1>3, <1>4, <1>5, <1>6, <1>7, <1>8 DEF SpoolNext

\* The invariant holds for any number of spools, names and holders.
THEOREM SpoolInvariant == SpoolSpec => []SpoolInv
<1>1. ASSUME SpoolInv, UNCHANGED spoolVars
      PROVE  SpoolInv'
  <2>1. UNCHANGED <<debt, reserved, name, charge, phase, sequence, disk, leftover, attempt,
                    handle, pos, len, writing, sources, readers>>
    BY <1>1 DEF spoolVars, directoryVars, cursorVars, sharingVars
  <2>2. AnswersExact' /\ OwnNames' /\ \A n \in Names : (OwnerOf(n))' = OwnerOf(n)
    BY <1>1, <2>1, QuietStep
  <2>3. SpoolTypeOK'
    BY <1>1, <2>1 DEF SpoolInv, SpoolShape, SpoolTypeOK, Names
  <2>4. \A t \in Spools : PhaseOfSpool(t)'
    BY <1>1, <2>1, OtherSpool DEF SpoolInv, SpoolShape, SpoolTypeOK
  <2>5. \A n \in Names : NameInOrder(n)'
    BY <1>1, <2>1, <2>2 DEF NameInOrder, SpoolInv, SpoolShape
  <2>. QED
    BY <2>2, <2>3, <2>4, <2>5 DEF SpoolInv, SpoolShape, Names
<1>. QED
  BY <1>1, SpoolInitial, SpoolInductive, PTL DEF SpoolSpec

\* The storage budget counts exactly what the files of the writer answer for, a file that
\* could not be removed included, no file outgrows what answers for it, and a parked spool
\* comes back at its cursor (StorageCharge, write_with, Spool::file, park, Spool::drop).
THEOREM SpoolsCorrect == SpoolSpec => []SpoolsAreExact
<1>1. SpoolInv => SpoolsAreExact
  <2>. SUFFICES ASSUME SpoolInv PROVE SpoolsAreExact
    OBVIOUS
  <2>1. SpoolShape /\ SpoolTypeOK /\ AnswersOfDebts /\ AnswersOfSpools
    BY AnswersValue DEF SpoolInv, SpoolShape
  <2>2. reserved <= StorageLimit /\ reserved = Total(Answers, Names, StorageLimit)
    BY <2>1, SpoolAssumption DEF SpoolTypeOK, SpoolInv, AnswersExact
  <2>3. ASSUME NEW n \in Names \ leftover
        PROVE  disk[n] = Absent \/ disk[n] <= Answers[n]
    <3>1. CASE OwnerOf(n) = {}
      BY <2>1, <3>1 DEF SpoolShape, NameInOrder, AnswersOfDebts
    <3>2. CASE OwnerOf(n) # {}
      <4>1. PICK s \in Spools : Alive(s) /\ name[s] = n
        BY <3>2 DEF OwnerOf
      <4>2. FileOfSpool(s) /\ Answers[n] = charge[s]
        BY <2>1, <4>1 DEF SpoolShape, PhaseOfSpool, AnswersOfSpools
      <4>. QED
        BY <4>1, <4>2 DEF FileOfSpool
    <3>. QED
      BY <3>1, <3>2
  <2>4. \A s \in Spools : Alive(s) /\ writing[s] = Absent => charge[s] = len[s]
    BY <2>1 DEF SpoolShape, PhaseOfSpool
  <2>5. CursorIsExact
    BY <2>1 DEF CursorIsExact, SpoolShape, PhaseOfSpool, FileOfSpool, Alive
  <2>. QED
    BY <2>2, <2>3, <2>4, <2>5 DEF SpoolsAreExact, StorageAccounted
<1>. QED
  BY <1>1, SpoolInvariant, PTL

\* No step of this process touches a file that an earlier process left, or a payload that
\* still has a source or a reader (into_source, SpoolReader._owner, create_new).
THEOREM SharedFilesAreKept == SpoolSpec => FilesKept
<1>. DEFINE StaysOrIsSwept(n) ==
       \/ disk'[n] = disk[n]
       \/ disk'[n] = Absent /\ Sweep(n)
       \/ /\ n \notin leftover
          /\ \A s \in OwnerOf(n) : sources'[s] + readers'[s] = 0
<1>1. ASSUME SpoolInv, SpoolNext, NEW n \in Names
      PROVE  StaysOrIsSwept(n)
  <2>1. SpoolShape /\ SpoolTypeOK /\ AnswersOfSpools
    BY <1>1, AnswersValue DEF SpoolInv, SpoolShape
  <2>2. CASE disk' = disk
    BY <2>2
  <2>3. ASSUME NEW m \in Names, Sweep(m)
        PROVE  StaysOrIsSwept(n)
    <3>1. disk' = [disk EXCEPT ![m] = Absent] /\ disk \in [Names -> Nat \cup {Absent}]
      BY <2>1, <2>3 DEF Sweep, SpoolTypeOK
    <3>. QED
      BY <2>3, <3>1
  <2>4. ASSUME NEW s \in Spools, CreateFile(s)
        PROVE  StaysOrIsSwept(n)
    <3>1. disk' = [disk EXCEPT ![sequence + 1] = 0] /\ sequence + 1 \in Names
          /\ disk[sequence + 1] = Absent
      BY <2>4 DEF CreateFile, TakeName
    <3>2. sequence + 1 \notin leftover
      BY <2>1, <3>1 DEF SpoolShape, NameInOrder
    <3>3. OwnerOf(sequence + 1) = {}
      <4>1. \A t \in Spools : Alive(t) => name[t] \in 1 .. sequence
        BY <2>1 DEF SpoolShape, PhaseOfSpool, FileOfSpool
      <4>2. sequence \in Nat
        BY <2>1 DEF SpoolTypeOK
      <4>3. \A t \in Spools : Alive(t) => name[t] # sequence + 1
        BY <4>1, <4>2
      <4>. QED
        BY <4>3 DEF OwnerOf
    <3>4. disk \in [Names -> Nat \cup {Absent}]
      BY <2>1 DEF SpoolTypeOK
    <3>. QED
      BY <3>1, <3>2, <3>3, <3>4
  <2>5. ASSUME NEW s \in Spools, NEW w \in 0 .. MaxWrite, FinishWrite(s, w)
        PROVE  StaysOrIsSwept(n)
    <3>1. PhaseOfSpool(s) /\ writing[s] # Absent /\ UNCHANGED sharingVars
      BY <2>1, <2>5 DEF SpoolShape, FinishWrite
    <3>2. /\ Alive(s) /\ FileOfSpool(s) /\ sources'[s] = 0 /\ readers'[s] = 0
      BY <3>1 DEF PhaseOfSpool, Alive, sharingVars
    <3>3. name[s] \notin leftover /\ OwnerOf(name[s]) = {s}
      BY <2>1, <3>2 DEF FileOfSpool, AnswersOfSpools
    <3>4. n # name[s] => disk'[n] = disk[n]
      <4>1. UNCHANGED disk \/ disk' = [disk EXCEPT ![name[s]] = Larger(@, Reopened(s) + w)]
        BY <2>5 DEF FinishWrite
      <4>2. disk \in [Names -> Nat \cup {Absent}]
        BY <2>1 DEF SpoolTypeOK
      <4>. QED
        BY <4>1, <4>2
    <3>. QED
      BY <3>2, <3>3, <3>4
  <2>6. ASSUME NEW s \in Spools, DropHolder(s) \/ DropSpool(s)
        PROVE  StaysOrIsSwept(n)
    <3>1. Alive(s) /\ (Keep(s) \/ (Remove(s) /\ sources'[s] = 0 /\ readers'[s] = 0))
      BY <1>1, <2>6, DropStep
    <3>2. CASE Keep(s)
      BY <3>2 DEF Keep, directoryVars
    <3>3. CASE Remove(s) /\ sources'[s] = 0 /\ readers'[s] = 0
      <4>1. name[s] \notin leftover /\ OwnerOf(name[s]) = {s}
        BY <2>1, <3>1 DEF SpoolShape, PhaseOfSpool, FileOfSpool, AnswersOfSpools
      <4>2. disk' = [disk EXCEPT ![name[s]] = Absent] \/ disk' = disk
        BY <3>3 DEF Remove
      <4>3. disk \in [Names -> Nat \cup {Absent}]
        BY <2>1 DEF SpoolTypeOK
      <4>4. n # name[s] => disk'[n] = disk[n]
        BY <4>2, <4>3
      <4>. QED
        BY <3>3, <4>1, <4>4
    <3>. QED
      BY <3>1, <3>2, <3>3
  <2>7. ASSUME NEW s \in Spools,
               \/ BeginCreate(s) \/ NameTaken(s) \/ CreateFails(s)
               \/ Park(s) \/ Flush(s) \/ WriteUnopened(s)
               \/ \E k \in 1 .. MaxWrite : ReserveWrite(s, k)
               \/ \E p \in 0 .. StorageLimit : SeekTo(s, p)
               \/ \E r \in 1 .. MaxWrite : ReadSome(s, r)
               \/ \E low, high \in 0 .. StorageLimit : CopyOut(s, low, high)
               \/ IntoSource(s) \/ CloneSource(s) \/ OpenReader(s)
        PROVE  disk' = disk
    BY <2>7 DEF BeginCreate, NameTaken, CreateFails, Park, Flush, WriteUnopened, ReserveWrite,
                SeekTo, ReadSome, CopyOut, IntoSource, CloneSource, OpenReader, directoryVars
  <2>. HIDE DEF Kept
  <2>. QED
    BY <1>1, <2>3, <2>4, <2>5, <2>6, <2>7, <2>2 DEF SpoolNext
<1>2. ASSUME SpoolInv, [SpoolNext]_spoolVars
      PROVE  [\A n \in Names : StaysOrIsSwept(n)]_spoolVars
  BY <1>1, <1>2
<1>3. SpoolInv /\ [SpoolNext]_spoolVars => [\A n \in Names : StaysOrIsSwept(n)]_spoolVars
  BY <1>2
<1>. QED
  BY <1>3, SpoolInvariant, PTL DEF SpoolSpec, FilesKept

----------------------------------------------------------------------------
(* The storage budget as an abstract quota. *)

\* A step changes what at most one file answers for.
OneAnswerMoves == \E n : \A m \in Names \ {n} : Answers'[m] = Answers[m]

LEMMA OneAnswerStep ==
  ASSUME SpoolInv, SpoolNext
  PROVE  OneAnswerMoves
<1>1. ASSUME NEW s \in Spools, NEW n,
             \A t \in Spools \ {s} : phase'[t] = phase[t] /\ name'[t] = name[t] /\ charge'[t] = charge[t],
             \A m \in Names \ {n} : debt'[m] = debt[m],
             Alive(s) => name[s] = n,
             Alive(s)' => name'[s] = n
      PROVE  OneAnswerMoves
  <2>1. ASSUME NEW m \in Names \ {n} PROVE Answers'[m] = Answers[m]
    <3>1. \A t \in Spools : (t \in OwnerOf(m))' <=> t \in OwnerOf(m)
      BY <1>1, <2>1 DEF OwnerOf, Alive
    <3>2. \A t \in Spools : t \in OwnerOf(m) => charge'[t] = charge[t]
      BY <1>1, <2>1 DEF OwnerOf
    <3>. QED
      BY <1>1, <3>1, <3>2, AnswersSame
  <2>. QED
    BY <2>1 DEF OneAnswerMoves
<1>2. ASSUME UNCHANGED <<debt, phase, name, charge>> PROVE OneAnswerMoves
  <2>1. \A m \in Names : \A t \in Spools : (t \in OwnerOf(m))' <=> t \in OwnerOf(m)
    BY <1>2 DEF OwnerOf, Alive
  <2>2. \A m \in Names : Answers'[m] = Answers[m]
    BY <1>2, <2>1, AnswersSame
  <2>. QED
    BY <2>2 DEF OneAnswerMoves
<1>3. /\ phase \in [Spools -> {"none", "creating", "owned", "shared"}]
      /\ name \in [Spools -> 0 .. MaxName] /\ charge \in [Spools -> 0 .. StorageLimit]
      /\ debt \in [Names -> 0 .. StorageLimit]
  BY DEF SpoolInv, SpoolShape, SpoolTypeOK
<1>4. CASE \E n \in Names : Sweep(n)
  BY <1>2, <1>4 DEF Sweep
<1>5. ASSUME NEW s \in Spools, BeginCreate(s) \/ NameTaken(s) \/ CreateFails(s) PROVE OneAnswerMoves
  <2>1. /\ ~Alive(s) /\ ~Alive(s)' /\ UNCHANGED <<debt, name, charge>>
        /\ \A t \in Spools \ {s} : phase'[t] = phase[t]
    BY <1>3, <1>5 DEF BeginCreate, NameTaken, CreateFails, Alive, directoryVars
  <2>. QED
    BY <1>1, <2>1
<1>6. ASSUME NEW s \in Spools, CreateFile(s) PROVE OneAnswerMoves
  <2>1. /\ ~Alive(s) /\ name'[s] = sequence + 1 /\ UNCHANGED <<debt, charge>>
        /\ \A t \in Spools \ {s} : phase'[t] = phase[t] /\ name'[t] = name[t]
    BY <1>3, <1>6 DEF CreateFile, Alive
  <2>. QED
    BY <1>1, <2>1
<1>7. ASSUME NEW s \in Spools,
             \/ Park(s) \/ Flush(s) \/ CloneSource(s) \/ OpenReader(s)
             \/ \E p \in 0 .. StorageLimit : SeekTo(s, p)
             \/ \E r \in 1 .. MaxWrite : ReadSome(s, r)
             \/ \E low, high \in 0 .. StorageLimit : CopyOut(s, low, high)
      PROVE  OneAnswerMoves
  <2>1. UNCHANGED <<debt, phase, name, charge>>
    BY <1>7 DEF Park, Flush, CloneSource, OpenReader, SeekTo, ReadSome, CopyOut, directoryVars
  <2>. QED
    BY <1>2, <2>1
<1>8. ASSUME NEW s \in Spools,
             \/ WriteUnopened(s)
             \/ \E n \in 1 .. MaxWrite : ReserveWrite(s, n)
             \/ \E w \in 0 .. MaxWrite : FinishWrite(s, w)
      PROVE  OneAnswerMoves
  <2>1. /\ UNCHANGED <<debt, phase, name>>
        /\ \A t \in Spools \ {s} : charge'[t] = charge[t]
    BY <1>3, <1>8 DEF WriteUnopened, ReserveWrite, FinishWrite, ShrinkTo, directoryVars
  <2>. QED
    BY <1>1, <2>1 DEF Alive
<1>9. ASSUME NEW s \in Spools, IntoSource(s) PROVE OneAnswerMoves
  <2>1. /\ UNCHANGED <<debt, name, charge>>
        /\ \A t \in Spools \ {s} : phase'[t] = phase[t]
    BY <1>3, <1>9 DEF IntoSource, directoryVars
  <2>. QED
    BY <1>1, <2>1
<1>10. ASSUME NEW s \in Spools, DropHolder(s) \/ DropSpool(s) PROVE OneAnswerMoves
  <2>1. CASE Remove(s)
    <3>1. /\ \A t \in Spools \ {s} : phase'[t] = phase[t] /\ name'[t] = name[t] /\ charge'[t] = charge[t]
          /\ \A m \in Names \ {name[s]} : debt'[m] = debt[m]
          /\ ~Alive(s)'
      BY <1>3, <2>1 DEF Remove, Alive
    <3>. QED
      BY <1>1, <3>1
  <2>2. CASE Keep(s)
    BY <1>2, <2>2 DEF Keep, directoryVars
  <2>. QED
    BY <1>10, <2>1, <2>2 DEF DropHolder, DropSpool
<1>. QED
  BY <1>4, <1>5, <1>6, <1>7, <1>8, <1>9, <1>10 DEF SpoolNext

\* What files answer for, as one formula of the state.
AnswersTyped == Answers \in [Names -> 0 .. StorageLimit]

LEMMA AnswersAreTyped == SpoolInv => AnswersTyped
BY AnswersValue DEF SpoolInv, AnswersTyped

\* The storage budget of a writer implements the abstract quota: a reservation
\* is one acquisition of its file that fits, what a short write leaves over or a
\* removal gives back one release, and a file that stays keeps its bytes
\* (StorageBudget, StorageCharge, Spool::drop).
THEOREM SpoolsImplementQuota == SpoolSpec => StorageImplementsQuota
<1>1. SpoolInit => StorageQuota!Init
  <2>. SUFFICES ASSUME SpoolInit PROVE StorageQuota!Init
    OBVIOUS
  <2>1. SpoolInv /\ \A n \in Names : OwnerOf(n) = {}
    BY SpoolInitial DEF SpoolInit, OwnerOf, Alive
  <2>2. Answers \in [Names -> 0 .. StorageLimit] /\ \A n \in Names : Answers[n] = 0
    BY <2>1, AnswersValue DEF SpoolInv, AnswersOfDebts, SpoolInit
  <2>. QED
    BY <2>2 DEF StorageQuota!Init
<1>2. ASSUME SpoolInv, SpoolInv', AnswersTyped, AnswersTyped', [SpoolNext]_spoolVars
      PROVE  [StorageQuota!Next]_Answers
  <2>. SUFFICES ASSUME Answers' # Answers PROVE StorageQuota!Next
    OBVIOUS
  <2>1. OneAnswerMoves
    <3>1. CASE UNCHANGED spoolVars
      BY <3>1 DEF spoolVars, directoryVars, cursorVars, sharingVars, Answers, OwnerOf, Alive
    <3>. QED
      BY <1>2, <3>1, OneAnswerStep
  <2>. DEFINE f == Answers
              g == Answers'
  <2>2. f \in [Names -> 0 .. StorageLimit] /\ g \in [Names -> 0 .. StorageLimit] /\ g # f
    BY <1>2 DEF AnswersTyped, Names
  <2>3. IsFiniteSet(Names) /\ StorageLimit \in Nat
    BY SpoolAssumption, FS_Interval DEF Names
  <2>4. Total(g, Names, StorageLimit) <= StorageLimit
    <3>1. reserved' <= StorageLimit /\ reserved' = Total(g, Names, StorageLimit)
      BY <1>2, SpoolAssumption DEF SpoolInv, SpoolShape, SpoolTypeOK, AnswersExact, Names
    <3>. QED
      BY <3>1
  <2>5. PICK n : \A m \in Names \ {n} : g[m] = f[m]
    BY <2>1 DEF OneAnswerMoves
  <2>. HIDE DEF f, g, Names
  <2>6. n \in Names
    <3>. SUFFICES ASSUME n \notin Names PROVE FALSE
      OBVIOUS
    <3>1. \A m \in Names : g[m] = f[m]
      BY <2>5
    <3>. QED
      BY <2>2, <3>1
  <2>7. PICK k \in 1 .. StorageLimit :
          \/ Total(f, Names, StorageLimit) + k <= StorageLimit /\ g = [f EXCEPT ![n] = @ + k]
          \/ k <= f[n] /\ g = [f EXCEPT ![n] = @ - k]
    BY <2>2, <2>3, <2>4, <2>5, <2>6, TotalMove
  <2>8. StorageQuota!Sum(f) = Total(f, Names, StorageLimit)
    <3>1. StorageQuota!Units(f, Names, StorageLimit) = Units(f, Names, StorageLimit)
      BY DEF StorageQuota!Units, Units
    <3>2. \A T : StorageQuota!Cardinality(T) = Cardinality(T)
      BY DEF StorageQuota!Cardinality, Cardinality
    <3>. QED
      BY <3>1, <3>2 DEF StorageQuota!Sum, StorageQuota!Total, Total
  <2>9. StorageQuota!Acquire(n, k) \/ StorageQuota!Release(n, k)
    BY <2>7, <2>8 DEF StorageQuota!Acquire, StorageQuota!Release, f, g
  <2>. QED
    BY <2>6, <2>9 DEF StorageQuota!Next
<1>. QED
  BY <1>1, <1>2, SpoolInvariant, AnswersAreTyped, PTL
     DEF StorageImplementsQuota, StorageQuota!Spec, SpoolSpec

-----------------------------------------------------------------------------
(* Solid archives. *)

Histories == Seq(Nat)

\* What becomes of a member, by the job alone.
StoredAt(i) ==
  \/ Chain[i].kind = "dir"
  \/ Chain[i].kind = "link" /\ Family # "rar13"
  \/ Family = "rar20" /\ Chain[i].packed >= Chain[i].size /\ Chain[i].size >= MinStoreFallbackSize
  \/ Family = "rar50" /\ Chain[i].size = 0

\* The history that member i leaves the encoder with.
HistoryAfter(i) ==
  IF Family \in {"rar15", "rar20"} /\ StoredAt(i) /\ Chain[i].kind # "dir" THEN <<>>
  ELSE IF StoredAt(i) THEN headers[i].base
  ELSE Remembering(headers[i].base, i)

\* The history that the next member to be read was coded against.
BaseAt(p) == IF p = Len(headers) THEN encoder ELSE headers[p + 1].base

SolidTypeOK ==
  /\ solidJob \in SolidJobs
  /\ headers \in Seq([stored : BOOLEAN, solid : BOOLEAN, base : Histories])
  /\ Len(headers) <= Len(Chain)
  /\ encoder \in Histories /\ decoder \in Histories
  /\ runHasMember \in BOOLEAN
  /\ reader \in {"none", "rars", "7-Zip"}
  /\ position \in Nat /\ position <= Len(headers)
  /\ decodedFiles \in Nat

\* The writer's flags tell a run that goes on from one that starts afresh.
HeaderInOrder(i) ==
  /\ headers[i].stored = StoredAt(i)
  /\ BaseAt(i) = HistoryAfter(i)
  /\ headers[i].solid =
       CASE Family = "rar13" -> FALSE
         [] Family = "rar50" -> i # 1
         [] OTHER -> (~StoredAt(i) \/ Chain[i].kind = "dir") /\ headers[i].base # <<>>

WriterInOrder ==
  /\ \A i \in 1 .. Len(headers) : HeaderInOrder(i)
  /\ BaseAt(0) = <<>>
  /\ Family \in {"rar15", "rar20"} => (runHasMember <=> encoder # <<>>)

Carries(i) == Chain[i].kind = "file" /\ Chain[i].size > 0

\* What the decoder holds whenever the next member was coded against something; only
\* where a stored member can end a run may it hold something else.  In RAR 1.5 it holds
\* nothing before a member with data, so that no link comes between the two accounts.
ReaderInOrder ==
  /\ reader = "none" => position = 0 /\ decoder = <<>> /\ decodedFiles = 0
  /\ reader # "none" => Len(headers) = Len(Chain)
  /\ reader = "7-Zip" => Family = "rar20"
  /\ Family # "rar20" => /\ decodedFiles = 0 => decoder = <<>>
                         /\ ~BehindLink(position + 1) => decoder = BaseAt(position)
  /\ Family = "rar15" /\ decoder # <<>> => \E j \in 1 .. position : Carries(j)
  /\ Family = "rar20" /\ BaseAt(position) # <<>> =>
       decoder = BaseAt(position) /\ (reader # "7-Zip" => decodedFiles # 0)

SolidInv == SolidTypeOK /\ WriterInOrder /\ ReaderInOrder

----------------------------------------------------------------------------
\* The members of a job, and what one of them adds to a history.
LEMMA MembersOfJob ==
  ASSUME solidJob \in SolidJobs
  PROVE  /\ Family \in {"rar13", "rar15", "rar20", "rar50"}
         /\ Len(Chain) \in Nat
         /\ \A i \in 1 .. Len(Chain) :
              /\ Chain[i].kind \in {"dir", "link", "file"}
              /\ Chain[i].size \in Nat /\ Chain[i].packed \in Nat
              /\ Chain[i].kind = "dir" => Chain[i].size = 0
<1>1. Chain \in Seq([kind : {"dir", "link", "file"}, size : Nat, packed : Nat])
  BY SolidAssumption DEF Chain
<1>2. DOMAIN Chain = 1 .. Len(Chain) /\ Len(Chain) \in Nat
  BY <1>1
<1>3. \A i \in 1 .. Len(Chain) : Chain[i] \in [kind : {"dir", "link", "file"}, size : Nat, packed : Nat]
  BY <1>1, ElementOfSeq
<1>. QED
  BY <1>2, <1>3, SolidAssumption DEF Chain, Family

LEMMA RememberingType ==
  ASSUME NEW h \in Histories, NEW i \in Nat
  PROVE  /\ Remembering(h, i) \in Histories
         /\ Chain[i].size > 0 => Remembering(h, i) # <<>>
         /\ ~(Chain[i].size > 0) => Remembering(h, i) = h
<1>1. Append(h, i) \in Seq(Nat) /\ Append(h, i) # <<>>
  BY AppendProperties DEF Histories
<1>. QED
  BY <1>1 DEF Remembering, Histories

\* What a reader has passed stays behind it, and a link is passed as the others are.
LEMMA LinksBehind ==
  ASSUME SolidTypeOK, Family = "rar15", NEW p \in Nat
  PROVE  /\ BehindLink(p + 1) => BehindLink(p + 2)
         /\ Chain[p + 1].kind = "link" /\ (\E j \in 1 .. p : Carries(j)) => BehindLink(p + 2)
<1>1. (p + 1) - 1 = p /\ (p + 2) - 1 = p + 1 /\ 1 .. p \subseteq 1 .. p + 1 /\ p + 1 \in 1 .. p + 1
  OBVIOUS
<1>. QED
  BY <1>1 DEF BehindLink, Carries

\* A member is written: its header tells what it was coded against.
LEMMA WriteMemberStep ==
  ASSUME SolidInv, WriteSolidMember
  PROVE  SolidInv'
<1>. DEFINE n == Len(headers)
            h == [stored |-> Stored, solid |-> SolidFlag, base |-> encoder]
<1>1. /\ SolidTypeOK /\ reader = "none" /\ n < Len(Chain) /\ n \in Nat
      /\ position = 0 /\ decoder = <<>> /\ decodedFiles = 0
  BY DEF SolidInv, WriteSolidMember, Coding, ReaderInOrder, SolidTypeOK
<1>2. /\ Family \in {"rar13", "rar15", "rar20", "rar50"} /\ n + 1 \in 1 .. Len(Chain)
      /\ Current = Chain[n + 1]
      /\ Chain[n + 1].size \in Nat /\ Chain[n + 1].packed \in Nat
      /\ (Chain[n + 1].kind = "dir" => Chain[n + 1].size = 0)
  <2>1. Len(Chain) \in Nat
    BY <1>1, MembersOfJob DEF SolidTypeOK
  <2>2. n + 1 \in 1 .. Len(Chain)
    BY <1>1, <2>1
  <2>. QED
    BY <1>1, <2>2, MembersOfJob DEF SolidTypeOK, Current
<1>3. Stored = StoredAt(n + 1) /\ Stored \in BOOLEAN
  BY <1>2 DEF Stored, StoredAt, FallsBack
<1>4. SolidFlag \in BOOLEAN
      /\ SolidFlag = (CASE Family = "rar13" -> FALSE
                        [] Family = "rar50" -> n + 1 # 1
                        [] OTHER -> (~StoredAt(n + 1) \/ Chain[n + 1].kind = "dir") /\ encoder # <<>>)
  <2>1. headers # <<>> <=> n + 1 # 1
    BY <1>1 DEF SolidTypeOK
  <2>2. Family \in {"rar15", "rar20"} => (runHasMember <=> encoder # <<>>)
    BY DEF SolidInv, WriterInOrder
  <2>. QED
    BY <1>2, <1>3, <2>1, <2>2 DEF SolidFlag, FlagsContinuation
<1>5. h \in [stored : BOOLEAN, solid : BOOLEAN, base : Histories]
  BY <1>1, <1>3, <1>4 DEF SolidTypeOK
<1>6. /\ headers' = Append(headers, h) /\ Len(headers') = n + 1
      /\ headers' \in Seq([stored : BOOLEAN, solid : BOOLEAN, base : Histories])
      /\ headers'[n + 1] = h
      /\ \A i \in 1 .. n : headers'[i] = headers[i]
      /\ UNCHANGED <<solidJob, reader, position, decoder, decodedFiles>>
  BY <1>1, <1>5 DEF WriteSolidMember, SolidTypeOK, chainReaderVars
<1>7. encoder' = (IF Family \in {"rar15", "rar20"} /\ Stored /\ Current.kind # "dir" THEN <<>>
                  ELSE IF Stored THEN encoder ELSE Remembering(encoder, n + 1))
  BY DEF WriteSolidMember, Rebuilds
<1>. HIDE DEF h
<1>8. encoder' \in Histories
  BY <1>1, <1>7, RememberingType DEF SolidTypeOK, Histories
<1>9. runHasMember' \in BOOLEAN
      /\ (Family \in {"rar15", "rar20"} => (runHasMember' <=> encoder' # <<>>))
  <2>1. CASE Family \notin {"rar15", "rar20"}
    BY <1>1, <2>1 DEF WriteSolidMember, SolidTypeOK
  <2>2. CASE Family \in {"rar15", "rar20"}
    <3>1. runHasMember' = RunAfter /\ (runHasMember <=> encoder # <<>>) /\ runHasMember \in BOOLEAN
      BY <1>1, <2>2 DEF WriteSolidMember, SolidInv, WriterInOrder, SolidTypeOK
    <3>2. CASE Current.kind = "dir"
      BY <1>7, <3>1, <3>2 DEF RunAfter, Stored
    <3>3. CASE Current.kind # "dir" /\ Stored
      BY <1>3, <1>7, <2>2, <3>1, <3>3 DEF RunAfter
    <3>4. CASE Current.kind # "dir" /\ ~Stored
      <4>1. encoder' = Remembering(encoder, n + 1) /\ runHasMember' = (runHasMember \/ Current.size # 0)
        BY <1>7, <3>1, <3>4 DEF RunAfter
      <4>2. CASE Chain[n + 1].size > 0
        <5>1. Remembering(encoder, n + 1) # <<>>
          BY <1>1, <4>2, RememberingType DEF SolidTypeOK
        <5>2. Current.size # 0
          BY <1>2, <4>2
        <5>. QED
          BY <4>1, <5>1, <5>2
      <4>3. CASE ~(Chain[n + 1].size > 0)
        BY <1>1, <1>2, <3>1, <4>1, <4>3, RememberingType DEF SolidTypeOK
      <4>. QED
        BY <4>2, <4>3
    <3>. QED
      BY <3>2, <3>3, <3>4
  <2>. QED
    BY <2>1, <2>2
<1>10. SolidTypeOK'
  BY <1>1, <1>2, <1>6, <1>8, <1>9 DEF SolidTypeOK, Chain, Histories
<1>11. \A i \in 1 .. n + 1 : (StoredAt(i))' = StoredAt(i)
  BY <1>6 DEF StoredAt, Chain, Family
<1>12. \A i \in 0 .. n : (BaseAt(i))' = BaseAt(i)
  <2>. TAKE i \in 0 .. n
  <2>1. CASE i = n
    BY <1>1, <1>6, <2>1 DEF BaseAt, h
  <2>2. CASE i # n
    <3>1. i + 1 \in 1 .. n
      BY <1>1, <2>2
    <3>. QED
      BY <1>1, <1>6, <2>2, <3>1 DEF BaseAt
  <2>. QED
    BY <2>1, <2>2
<1>13. ASSUME NEW i \in 1 .. n + 1
       PROVE  HeaderInOrder(i)'
  <2>1. CASE i = n + 1
    <3>1. (BaseAt(i))' = encoder'
      BY <1>6, <2>1 DEF BaseAt
    <3>2. (HistoryAfter(i))' = encoder'
      BY <1>2, <1>3, <1>6, <1>7, <1>11, <2>1 DEF HistoryAfter, h, Remembering, Chain, Family
    <3>. QED
      <4>1. headers'[i].stored = Stored /\ headers'[i].solid = SolidFlag /\ headers'[i].base = encoder
        BY <1>6, <2>1 DEF h
      <4>2. (StoredAt(i))' = StoredAt(i) /\ Chain' = Chain /\ Family' = Family
        BY <1>6, <1>11, <2>1 DEF Chain, Family
      <4>. QED
        BY <1>2, <1>3, <1>4, <2>1, <3>1, <3>2, <4>1, <4>2 DEF HeaderInOrder
  <2>2. CASE i # n + 1
    <3>1. i \in 1 .. n
      BY <1>1, <2>2
    <3>2. HeaderInOrder(i)
      BY <3>1 DEF SolidInv, WriterInOrder
    <3>3. (HistoryAfter(i))' = HistoryAfter(i)
      BY <1>6, <1>11, <3>1 DEF HistoryAfter, Remembering, Chain, Family
    <3>4. (BaseAt(i))' = BaseAt(i)
      BY <1>12, <3>1
    <3>. QED
      BY <1>6, <1>11, <3>1, <3>2, <3>3, <3>4 DEF HeaderInOrder, Chain, Family
  <2>. QED
    BY <2>1, <2>2
<1>14. (BaseAt(0))' = <<>> /\ BaseAt(0) = <<>>
  BY <1>1, <1>12 DEF SolidInv, WriterInOrder
<1>15. WriterInOrder'
  BY <1>6, <1>9, <1>13, <1>14 DEF WriterInOrder, Family
<1>16. ReaderInOrder'
  <2>1. (BaseAt(position))' = <<>>
    BY <1>1, <1>6, <1>14 DEF BaseAt
  <2>. QED
    BY <1>1, <1>6, <2>1 DEF ReaderInOrder, Family
<1>. QED
  BY <1>10, <1>15, <1>16 DEF SolidInv

\* What the reader's steps find: the next member's base is what its header says, and the
\* decoder has it.
LEMMA BaseIsRight ==
  ASSUME SolidInv, Reading
  PROVE  /\ position + 1 \in 1 .. Len(headers) /\ position + 1 \in 1 .. Len(Chain)
         /\ HeaderInOrder(position + 1) /\ BaseAt(position) = Header.base
         /\ Header.base \in Histories /\ Header.stored \in BOOLEAN
         /\ ~BehindLink(position + 1) /\ (Family = "rar20" => (~StoredAt(position + 1) \/ Following.kind = "dir"))
              => Base = Header.base
<1>1. /\ SolidTypeOK /\ ReaderInOrder /\ reader # "none" /\ position < Len(Chain)
      /\ Len(headers) = Len(Chain) /\ position \in Nat /\ Len(headers) \in Nat
  BY DEF SolidInv, Reading, ReaderInOrder, SolidTypeOK
<1>2. position + 1 \in 1 .. Len(headers)
  BY <1>1
<1>3. HeaderInOrder(position + 1)
  BY <1>2 DEF SolidInv, WriterInOrder
<1>4. BaseAt(position) = Header.base
  BY <1>1 DEF BaseAt, Header
<1>5. Header \in [stored : BOOLEAN, solid : BOOLEAN, base : Histories]
  BY <1>1, <1>2, ElementOfSeq DEF SolidTypeOK, Header
<1>6. Family \in {"rar13", "rar15", "rar20", "rar50"}
  BY <1>1, MembersOfJob DEF SolidTypeOK
<1>7. ASSUME ~BehindLink(position + 1), Family = "rar20" => (~StoredAt(position + 1) \/ Following.kind = "dir")
      PROVE  Base = Header.base
  <2>1. CASE Family \in {"rar13", "rar15"}
    BY <1>1, <1>4, <1>7, <2>1 DEF ReaderInOrder, Base, GoesOn
  <2>2. CASE Family = "rar50"
    <3>1. GoesOn <=> position + 1 # 1
      BY <1>1, <1>3, <2>2 DEF GoesOn, HeaderInOrder, Header, ReaderInOrder
    <3>2. position = 0 => BaseAt(position) = <<>>
      BY DEF SolidInv, WriterInOrder
    <3>. QED
      BY <1>1, <1>4, <1>7, <2>2, <3>1, <3>2 DEF ReaderInOrder, Base
  <2>3. CASE Family = "rar20"
    <3>1. Header.solid <=> Header.base # <<>>
      BY <1>3, <1>7, <2>3 DEF HeaderInOrder, Header, Following
    <3>2. GoesOn <=> Header.solid /\ (reader = "7-Zip" \/ decodedFiles # 0)
      BY <2>3 DEF GoesOn
    <3>3. Header.base # <<>> => decoder = Header.base /\ (reader # "7-Zip" => decodedFiles # 0)
      BY <1>1, <1>4, <2>3 DEF ReaderInOrder
    <3>. QED
      BY <3>1, <3>2, <3>3 DEF Base
  <2>. QED
    BY <1>6, <2>1, <2>2, <2>3
<1>. QED
  BY <1>1, <1>2, <1>3, <1>4, <1>5, <1>7

\* The readers leave what the writer left.
LEMMA ChainStays ==
  ASSUME SolidInv, UNCHANGED <<solidJob, headers, encoder, runHasMember>>
  PROVE  WriterInOrder' /\ \A p \in Nat : (BaseAt(p))' = BaseAt(p)
<1>1. Chain' = Chain /\ Family' = Family
  BY DEF Chain, Family
<1>2. \A p \in Nat : (BaseAt(p))' = BaseAt(p)
  BY DEF BaseAt
<1>3. \A i \in 1 .. Len(headers) : (StoredAt(i))' = StoredAt(i) /\ (HistoryAfter(i))' = HistoryAfter(i)
  BY <1>1 DEF StoredAt, HistoryAfter, Remembering
<1>4. \A i \in 1 .. Len(headers) : HeaderInOrder(i)'
  <2>. TAKE i \in 1 .. Len(headers)
  <2>1. HeaderInOrder(i) /\ (BaseAt(i))' = BaseAt(i)
    BY <1>2 DEF SolidInv, WriterInOrder
  <2>. QED
    BY <1>1, <1>3, <2>1 DEF HeaderInOrder
<1>. QED
  BY <1>1, <1>2, <1>4 DEF WriterInOrder, SolidInv

\* A member is passed over or decoded: the decoder then has what the next one was coded
\* against.
LEMMA ReadMemberStep ==
  ASSUME SolidInv, PassMember \/ DecodeMember
  PROVE  SolidInv'
<1>. DEFINE i == position + 1
<1>1. /\ SolidTypeOK /\ ReaderInOrder /\ Reading /\ reader # "none"
      /\ Len(headers) = Len(Chain) /\ position \in Nat /\ Len(headers) \in Nat
  BY DEF SolidInv, PassMember, DecodeMember, Reading, ReaderInOrder, SolidTypeOK
<1>2. /\ i \in 1 .. Len(headers) /\ i \in 1 .. Len(Chain) /\ i \in Nat
      /\ HeaderInOrder(i) /\ BaseAt(position) = Header.base /\ Header = headers[i]
      /\ Following = Chain[i] /\ Header.base \in Histories /\ Header.stored = StoredAt(i)
      /\ BaseAt(i) = HistoryAfter(i)
  <2>1. HeaderInOrder(i)
    BY <1>1, BaseIsRight
  <2>. QED
    BY <1>1, <2>1, BaseIsRight DEF Header, Following, HeaderInOrder
<1>3. /\ Family \in {"rar13", "rar15", "rar20", "rar50"}
      /\ Chain[i].kind \in {"dir", "link", "file"}
      /\ Chain[i].size \in Nat /\ Chain[i].packed \in Nat
      /\ Chain[i].kind = "dir" => Chain[i].size = 0
  BY <1>1, <1>2, MembersOfJob DEF SolidTypeOK
<1>4. /\ UNCHANGED <<solidJob, headers, encoder, runHasMember, reader>>
      /\ position' = i /\ decodedFiles' \in Nat /\ decodedFiles' >= decodedFiles
  BY <1>1 DEF PassMember, DecodeMember, chainWriterVars, SolidTypeOK
<1>5. (BaseAt(position))' = BaseAt(i)
  BY <1>4 DEF BaseAt
<1>6. BaseAt(i) \in Histories
  BY <1>1, <1>2, RememberingType, EmptySeq DEF HistoryAfter, SolidTypeOK, Histories
<1>7. /\ Family' = Family /\ Len(Chain)' = Len(Chain) /\ \A j : (Carries(j))' = Carries(j)
      /\ (BehindLink(position + 1))' = BehindLink(position + 2)
  <2>1. (position + 1)' = position + 2
    BY <1>1, <1>4
  <2>. QED
    BY <1>4, <2>1 DEF Family, Chain, Carries, BehindLink
\* The member is in the archive as it was read: stored or empty ones leave the base.
<1>8. CASE PassMember
  <2>1. PassesOver /\ decoder' = (IF reader = "7-Zip" THEN Base ELSE decoder)
        /\ (Family # "rar13" => decodedFiles' = decodedFiles)
    BY <1>8 DEF PassMember
  <2>2. ~(Chain[i].size > 0) \/ StoredAt(i)
    BY <1>2, <1>3, <2>1 DEF PassesOver, StoredAt
  <2>3. BaseAt(i) = Header.base
        \/ /\ Family = "rar20" \/ (Family = "rar15" /\ Chain[i].kind = "link")
           /\ BaseAt(i) = <<>>
    <3>1. CASE StoredAt(i)
      BY <1>2, <1>3, <3>1 DEF HistoryAfter, StoredAt
    <3>2. CASE ~StoredAt(i)
      BY <1>2, <2>2, <3>2, RememberingType DEF HistoryAfter
    <3>. QED
      BY <3>1, <3>2
  <2>4. CASE Family # "rar20"
    <3>1. decoder' = decoder
      BY <1>1, <2>1, <2>4 DEF ReaderInOrder
    <3>2. decodedFiles' = 0 => decodedFiles = 0
      BY <1>1, <1>4 DEF SolidTypeOK
    <3>3. ASSUME ~BehindLink(position + 2)
          PROVE  decoder = BaseAt(i)
      <4>1. ~BehindLink(position + 1)
        BY <1>1, <3>3, LinksBehind DEF BehindLink
      <4>2. decoder = BaseAt(position)
        BY <1>1, <2>4, <4>1 DEF ReaderInOrder
      <4>3. CASE BaseAt(i) = Header.base
        BY <1>2, <4>2, <4>3
      <4>4. CASE Family = "rar15" /\ Chain[i].kind = "link" /\ BaseAt(i) = <<>>
        <5>1. ~ \E j \in 1 .. position : Carries(j)
          BY <1>1, <3>3, <4>4, LinksBehind
        <5>. QED
          BY <1>1, <4>4, <5>1 DEF ReaderInOrder
      <4>. QED
        BY <2>3, <2>4, <4>3, <4>4
    <3>4. ReaderInOrder'
      BY <1>1, <1>3, <1>4, <1>5, <1>7, <2>4, <3>1, <3>2, <3>3 DEF ReaderInOrder
    <3>. QED
      BY <1>1, <1>2, <1>4, <3>1, <3>4, ChainStays DEF SolidInv, SolidTypeOK, Chain
  <2>5. CASE Family = "rar20"
    <3>1. BaseAt(i) # <<>> => BaseAt(i) = Header.base /\ Base = Header.base
      <4>1. ASSUME BaseAt(i) # <<>>
            PROVE  ~StoredAt(i) \/ Chain[i].kind = "dir"
        BY <1>2, <2>5, <4>1 DEF HistoryAfter
      <4>2. ~BehindLink(position + 1)
        BY <2>5 DEF BehindLink
      <4>. QED
        BY <1>1, <1>2, <2>3, <4>1, <4>2, BaseIsRight
    <3>2. BaseAt(i) # <<>> => decoder' = BaseAt(i) /\ (reader # "7-Zip" => decodedFiles' # 0)
      <4>1. BaseAt(i) # <<>> => decoder = BaseAt(i) /\ (reader # "7-Zip" => decodedFiles # 0)
        BY <1>1, <1>2, <2>5, <3>1 DEF ReaderInOrder
      <4>. QED
        BY <2>1, <2>5, <3>1, <4>1
    <3>3. decoder' \in Histories
      BY <1>1, <2>1, EmptySeq DEF SolidTypeOK, Base, Histories
    <3>4. ReaderInOrder'
      BY <1>1, <1>4, <1>5, <2>5, <3>2 DEF ReaderInOrder, Family, Chain
    <3>. QED
      BY <1>1, <1>2, <1>4, <3>3, <3>4, ChainStays DEF SolidInv, SolidTypeOK, Chain
  <2>. QED
    BY <2>4, <2>5
<1>9. CASE DecodeMember
  <2>1. ~PassesOver /\ decoder' = Remembering(Base, i) /\ decodedFiles' = decodedFiles + 1
    BY <1>9 DEF DecodeMember
  <2>2. ~StoredAt(i) /\ (~BehindLink(position + 1) => Base = Header.base)
    <3>1. ~StoredAt(i)
      BY <1>2, <2>1 DEF PassesOver
    <3>. QED
      BY <1>1, <3>1, BaseIsRight
  <2>3. decodedFiles' # 0 /\ decoder' \in Histories
    <3>1. Base \in Histories
      BY <1>1, EmptySeq DEF SolidTypeOK, Base, Histories
    <3>. QED
      BY <1>1, <1>2, <2>1, <3>1, RememberingType DEF SolidTypeOK
  <2>4. ~BehindLink(position + 1) => decoder' = BaseAt(i)
    BY <1>2, <2>1, <2>2 DEF HistoryAfter
  <2>5. ~BehindLink(position + 2) => decoder' = BaseAt(i)
    BY <1>1, <2>4, LinksBehind DEF BehindLink
  <2>6. ASSUME Family = "rar15", decoder' # <<>>
        PROVE  \E j \in 1 .. i : Carries(j)
    <3>1. CASE Chain[i].size > 0
      BY <1>1, <1>3, <2>2, <2>6, <3>1 DEF Carries, StoredAt
    <3>2. CASE ~(Chain[i].size > 0)
      <4>1. decoder # <<>>
        BY <2>1, <2>6, <3>2 DEF Remembering, Base
      <4>2. PICK j \in 1 .. position : Carries(j)
        BY <1>1, <2>6, <4>1 DEF ReaderInOrder
      <4>. QED
        BY <1>1, <4>2
    <3>. QED
      BY <3>1, <3>2
  <2>7. Family = "rar20" => ~BehindLink(position + 1)
    BY DEF BehindLink
  <2>8. ReaderInOrder'
    BY <1>1, <1>3, <1>4, <1>5, <1>7, <2>3, <2>4, <2>5, <2>6, <2>7 DEF ReaderInOrder
  <2>. QED
    BY <1>1, <1>2, <1>4, <1>6, <2>3, <2>8, ChainStays DEF SolidInv, SolidTypeOK, Chain
<1>. QED
  BY <1>8, <1>9

\* The archive is opened once its last member is written.
LEMMA OpenStep ==
  ASSUME SolidInv, OpenArchive
  PROVE  SolidInv'
<1>1. /\ UNCHANGED <<solidJob, headers, encoder, runHasMember, position, decoder, decodedFiles>>
      /\ reader = "none" /\ Len(headers) = Len(Chain)
      /\ reader' \in {"rars", "7-Zip"} /\ (reader' = "7-Zip" => Family = "rar20")
  BY DEF OpenArchive, chainWriterVars
<1>2. SolidTypeOK'
  BY <1>1 DEF SolidInv, SolidTypeOK, Chain
<1>3. WriterInOrder'
  BY <1>1, ChainStays
<1>4. BaseAt(position) = <<>> /\ (BaseAt(position))' = BaseAt(position)
  BY <1>1 DEF SolidInv, ReaderInOrder, WriterInOrder, BaseAt
<1>5. ReaderInOrder'
  BY <1>1, <1>4 DEF SolidInv, ReaderInOrder, Chain, Family
<1>. QED
  BY <1>2, <1>3, <1>5 DEF SolidInv

\* The invariant of the chain, for any job.
THEOREM SolidInvariant == SolidSpec => []SolidInv
<1>1. SolidInit => SolidInv
  <2>. SUFFICES ASSUME SolidInit PROVE SolidInv
    OBVIOUS
  <2>1. Len(headers) = 0 /\ headers = <<>> /\ Len(Chain) \in Nat
    BY MembersOfJob DEF SolidInit
  <2>2. SolidTypeOK
    <3>1. <<>> \in Histories
      BY EmptySeq DEF Histories
    <3>. DEFINE H == [stored : BOOLEAN, solid : BOOLEAN, base : Histories]
    <3>2. <<>> \in Seq(H)
      <4>. HIDE DEF H
      <4>. QED
        BY EmptySeq
    <3>3. headers \in Seq(H)
      BY <2>1, <3>2
    <3>4. /\ solidJob \in SolidJobs /\ encoder \in Histories /\ decoder \in Histories
          /\ runHasMember \in BOOLEAN /\ reader = "none" /\ position = 0 /\ decodedFiles = 0
      BY <3>1 DEF SolidInit
    <3>5. 0 <= Len(Chain) /\ position <= Len(headers)
      BY <2>1, <3>4
    <3>. QED
      BY <2>1, <3>3, <3>4, <3>5 DEF SolidTypeOK
  <2>3. BaseAt(0) = <<>>
    BY <2>1 DEF BaseAt, SolidInit
  <2>4. WriterInOrder
    BY <2>1, <2>3 DEF SolidInit, WriterInOrder
  <2>5. ReaderInOrder
    BY <2>3 DEF SolidInit, ReaderInOrder
  <2>. QED
    BY <2>2, <2>4, <2>5 DEF SolidInv
<1>2. ASSUME SolidInv, SolidNext
      PROVE  SolidInv'
  BY <1>2, WriteMemberStep, ReadMemberStep, OpenStep DEF SolidNext
<1>3. ASSUME SolidInv, UNCHANGED solidVars
      PROVE  SolidInv'
  <2>1. UNCHANGED <<solidJob, headers, encoder, runHasMember, reader, position, decoder, decodedFiles>>
    BY <1>3 DEF solidVars, chainWriterVars, chainReaderVars
  <2>2. WriterInOrder' /\ (BaseAt(position))' = BaseAt(position)
    BY <1>3, <2>1, ChainStays DEF BaseAt
  <2>. QED
    BY <1>3, <2>1, <2>2 DEF SolidInv, SolidTypeOK, ReaderInOrder, Chain, Family, BehindLink, Carries
<1>. QED
  BY <1>1, <1>2, <1>3, PTL DEF SolidSpec

\* Whatever the members of a solid archive are, links among them, each reader decodes each
\* of them against the history it was coded against (StoreFallback::applies, the solid
\* flags and solid_run_has_member of the writers; decoded_files and the flags in the
\* readers): but not what a RAR 1.5 archive has behind a link behind data.
THEOREM ChainsCorrect == SolidSpec => []ChainsAgree
<1>1. SolidInv => ChainsAgree
  <2>. SUFFICES ASSUME SolidInv, Reading, ~PassesOver, ~BehindLink(position + 1)
                PROVE  Base = Header.base
    BY DEF ChainsAgree, DecodesAsCoded
  <2>1. ~StoredAt(position + 1)
    BY BaseIsRight DEF PassesOver, HeaderInOrder, Header
  <2>. QED
    BY <2>1, BaseIsRight
<1>. QED
  BY <1>1, SolidInvariant, PTL

-----------------------------------------------------------------------------
(* The layout of a RAR5 archive. *)

\* A width reaches at least 128 values, and a wider one more.
LEMMA WidthsGrow ==
  ASSUME NEW m \in 1 .. MaxWidth, NEW n \in m .. MaxWidth
  PROVE  WidthLimit[m] \in Nat /\ 128 <= WidthLimit[m] /\ WidthLimit[m] <= WidthLimit[n]
<1>. DEFINE Low(k) == {i \in k .. MaxWidth : WidthLimit[i] < WidthLimit[k]}
            Small == {i \in 1 .. MaxWidth : WidthLimit[i] < 128}
<1>1. /\ MaxWidth \in 1 .. 10 /\ WidthLimit[1] = 128
      /\ \A i \in 1 .. MaxWidth : WidthLimit[i] \in Nat
      /\ \A i \in 2 .. MaxWidth : WidthLimit[i] = 128 * WidthLimit[i - 1]
  BY WidthAssumption
<1>2. Small = {}
  <2>. SUFFICES ASSUME Small # {} PROVE FALSE
    OBVIOUS
  <2>1. Small \in SUBSET Nat
    BY <1>1
  <2>2. Min(Small) \in Small /\ \A y \in Small : Min(Small) <= y
    <3>. HIDE DEF Small
    <3>. QED
      BY <2>1, MinExists
  <2>3. PICK i \in Small : \A y \in Small : i <= y
    BY <2>2
  <2>4. i \in 2 .. MaxWidth /\ i - 1 \in 1 .. MaxWidth /\ i - 1 \notin Small
    BY <1>1, <2>3
  <2>. QED
    BY <1>1, <2>3, <2>4
<1>3. Low(m) = {}
  <2>. SUFFICES ASSUME Low(m) # {} PROVE FALSE
    OBVIOUS
  <2>1. Low(m) \in SUBSET Nat
    BY <1>1
  <2>2. Min(Low(m)) \in Low(m) /\ \A y \in Low(m) : Min(Low(m)) <= y
    <3>. HIDE DEF Low
    <3>. QED
      BY <2>1, MinExists
  <2>3. PICK i \in Low(m) : \A y \in Low(m) : i <= y
    BY <2>2
  <2>4. i \in (m + 1) .. MaxWidth /\ i - 1 \in m .. MaxWidth /\ i - 1 \notin Low(m)
    BY <1>1, <2>3
  <2>. QED
    BY <1>1, <2>3, <2>4
<1>. QED
  BY <1>1, <1>2, <1>3

\* A value has exactly one width.
LEMMA VintWidth ==
  ASSUME NEW v \in Nat, v < WidthLimit[MaxWidth]
  PROVE  /\ Vint(v) \in 1 .. MaxWidth
         /\ v < WidthLimit[Vint(v)]
         /\ Vint(v) > 1 => v >= WidthLimit[Vint(v) - 1]
<1>. DEFINE Room == {i \in 1 .. MaxWidth : v < WidthLimit[i]}
<1>1. MaxWidth \in 1 .. 10
  BY WidthAssumption
<1>2. Room \in SUBSET Nat /\ Room # {}
  BY <1>1
<1>3. Min(Room) \in Room /\ \A y \in Room : Min(Room) <= y
  <2>. HIDE DEF Room
  <2>. QED
    BY <1>2, MinExists
<1>4. PICK n \in Room : \A y \in Room : n <= y
  BY <1>3
<1>5. n \in 1 .. MaxWidth /\ v < WidthLimit[n]
  BY <1>4
<1>6. ASSUME n > 1 PROVE v >= WidthLimit[n - 1]
  <2>1. n - 1 \in 1 .. MaxWidth /\ n - 1 \notin Room
    BY <1>1, <1>4, <1>6
  <2>2. WidthLimit[n - 1] \in Nat
    BY <2>1, WidthsGrow
  <2>. QED
    BY <2>1, <2>2
<1>. QED
  BY <1>5, <1>6 DEF Vint

\* A larger value is no narrower, and a value that is not much larger has at
\* most one byte more: the first lengths are 16256 apart.
LEMMA VintGrows ==
  ASSUME NEW u \in Nat, NEW v \in Nat, u <= v, v < WidthLimit[MaxWidth]
  PROVE  Vint(u) <= Vint(v) /\ (v <= u + 16256 => Vint(v) <= Vint(u) + 1)
<1>. DEFINE a == Vint(u)
            b == Vint(v)
<1>1. MaxWidth \in 1 .. 10 /\ WidthLimit[MaxWidth] \in Nat
  BY WidthAssumption
<1>2. /\ a \in 1 .. MaxWidth /\ u < WidthLimit[a] /\ (a > 1 => u >= WidthLimit[a - 1])
      /\ b \in 1 .. MaxWidth /\ v < WidthLimit[b] /\ (b > 1 => v >= WidthLimit[b - 1])
  BY <1>1, VintWidth
<1>. HIDE DEF a, b
<1>3. ASSUME a > b PROVE FALSE
  <2>1. b \in 1 .. MaxWidth /\ a - 1 \in b .. MaxWidth
    BY <1>1, <1>2, <1>3
  <2>2. WidthLimit[b] \in Nat /\ WidthLimit[b] <= WidthLimit[a - 1]
    BY <2>1, WidthsGrow
  <2>3. a - 1 \in 1 .. MaxWidth /\ WidthLimit[a - 1] \in Nat
    BY <1>1, <2>1, WidthsGrow
  <2>. QED
    BY <1>2, <1>3, <2>2, <2>3
<1>4. ASSUME v <= u + 16256, b > a + 1 PROVE FALSE
  <2>1. /\ a \in 1 .. MaxWidth /\ a + 1 \in 2 .. MaxWidth /\ a + 1 \in 1 .. MaxWidth
        /\ b - 1 \in (a + 1) .. MaxWidth
    BY <1>1, <1>2, <1>4
  <2>2. a \in a .. MaxWidth /\ a + 1 \in (a + 1) .. MaxWidth
    BY <1>1, <2>1
  <2>3. WidthLimit[a] \in Nat /\ 128 <= WidthLimit[a]
    BY <2>1, <2>2, WidthsGrow
  <2>4. WidthLimit[a + 1] \in Nat /\ WidthLimit[a + 1] <= WidthLimit[b - 1]
    BY <2>1, WidthsGrow
  <2>5. WidthLimit[a + 1] = 128 * WidthLimit[a]
    <3>1. WidthLimit[a + 1] = 128 * WidthLimit[(a + 1) - 1]
      BY <2>1, WidthAssumption
    <3>. QED
      BY <1>2, <3>1
  <2>6. WidthLimit[b - 1] \in Nat
    BY <1>1, <1>2, <1>4, WidthAssumption
  <2>. QED
    BY <1>2, <1>4, <2>3, <2>4, <2>5, <2>6
<1>5. Vint(u) = a /\ Vint(v) = b
  BY DEF a, b
<1>. QED
  BY <1>2, <1>3, <1>4, <1>5

\* Offsets as the header holds them.
Offsets(quick, recovery) ==
  /\ quick \in IF HasQuickOpen THEN 0 .. MaxOffset ELSE {Omitted}
  /\ recovery \in IF layout.recovery THEN 0 .. MaxOffset ELSE {Omitted}

LEMMA FieldWidth ==
  ASSUME NEW v \in 0 .. MaxOffset
  PROVE  v # Omitted /\ v \in Nat /\ v < WidthLimit[MaxWidth] /\ Field(v) = Vint(v) /\ Field(v) \in 1 .. 10
<1>1. /\ MaxWidth \in 1 .. 10 /\ MaxOffset \in Nat /\ WidthLimit[MaxWidth] \in Nat
      /\ MaxOffset < WidthLimit[MaxWidth] /\ Omitted \notin Nat
  BY WidthAssumption, LayoutAssumption
<1>2. v \in Nat /\ v < WidthLimit[MaxWidth] /\ v # Omitted
  BY <1>1
<1>. QED
  BY <1>1, <1>2, VintWidth DEF Field

\* The widths of two fields decide the length of the header, which grows with
\* them: a locator that has any field by at most 18 bytes, the lengths of the
\* extra area and of the header by one each, and the padding to whole blocks
\* makes at most 32 of these 20.
LEMMA HeaderGrows ==
  ASSUME layout \in Layouts,
         NEW q, NEW r, NEW s, NEW t, Offsets(q, r), Offsets(s, t),
         Field(q) <= Field(s), Field(r) <= Field(t)
  PROVE  /\ MainHeader(q, r) \in Nat /\ MainHeader(s, t) \in Nat
         /\ MainHeader(q, r) <= MainHeader(s, t)
         /\ MainHeader(s, t) <= MainHeader(q, r) + 32
         /\ Field(q) = Field(s) /\ Field(r) = Field(t) => MainHeader(q, r) = MainHeader(s, t)
<1>. DEFINE Shown(quick) == IF quick = Omitted /\ layout.record = "given" THEN 0 ELSE quick
            e == MainExtra(q, r)
            f == MainExtra(s, t)
            c == Plain(MainBody(e))
            d == Plain(MainBody(f))
<1>1. /\ layout.encrypted \in BOOLEAN /\ layout.recovery \in BOOLEAN
      /\ layout.record \in {"given", "retained", "none"}
      /\ layout.fixed \in Nat /\ layout.metadata \in Nat
      /\ layout.fixed + layout.metadata + 128 <= MaxOffset
      /\ MaxOffset \in Nat /\ WidthLimit[MaxWidth] \in Nat /\ MaxOffset < WidthLimit[MaxWidth]
      /\ MaxWidth \in 1 .. 10 /\ Omitted \notin Nat
  BY LayoutAssumption, WidthAssumption DEF HeaderSlack
<1>2. \A v \in 0 .. MaxOffset : /\ v # Omitted /\ v \in Nat
                                /\ Field(v) = Vint(v) /\ Field(v) \in 1 .. 10
  BY FieldWidth
<1>3. Field(Omitted) = 0
  BY DEF Field
<1>4. /\ Field(q) \in 0 .. 10 /\ Field(r) \in 0 .. 10 /\ Field(s) \in 0 .. 10 /\ Field(t) \in 0 .. 10
      /\ q = Omitted <=> s = Omitted
      /\ r = Omitted <=> t = Omitted
      /\ Field(s) <= Field(q) + 9 /\ Field(t) <= Field(r) + 9
  BY <1>2, <1>3 DEF Offsets
<1>5. /\ Field(Shown(q)) \in 0 .. 10 /\ Field(Shown(s)) \in 0 .. 10
      /\ Shown(q) = Omitted <=> Shown(s) = Omitted
      /\ Field(Shown(q)) <= Field(Shown(s)) /\ Field(Shown(s)) <= Field(Shown(q)) + 9
      /\ Field(q) = Field(s) => Field(Shown(q)) = Field(Shown(s))
  <2>1. 0 \in 0 .. MaxOffset
    BY <1>1
  <2>2. 0 # Omitted /\ Field(0) \in 1 .. 10
    BY <1>2, <2>1
  <2>3. CASE q = Omitted /\ layout.record = "given"
    BY <1>4, <2>2, <2>3
  <2>4. CASE ~(q = Omitted /\ layout.record = "given")
    BY <1>4, <2>4
  <2>. QED
    BY <2>3, <2>4
<1>. HIDE DEF Shown
<1>6. \A x \in 0 .. 10, y \in 0 .. 10 : Record(1 + x + y) = x + y + 3
  <2>. SUFFICES ASSUME NEW x \in 0 .. 10, NEW y \in 0 .. 10 PROVE Record(1 + x + y) = x + y + 3
    OBVIOUS
  <2>1. 1 + x + y + 1 \in Nat /\ 1 + x + y + 1 < 128
    OBVIOUS
  <2>2. Vint(1 + x + y + 1) = 1
    <3>1. WidthLimit[1] = 128 /\ 1 \in 1 .. MaxWidth
      BY <1>1, WidthAssumption
    <3>2. /\ 1 + x + y + 1 < WidthLimit[MaxWidth] 
      BY <1>1, <2>1, <3>1, WidthsGrow
    <3>. DEFINE n == Vint(1 + x + y + 1)
    <3>3. n \in 1 .. MaxWidth /\ (n > 1 => 1 + x + y + 1 >= WidthLimit[n - 1])
      BY <2>1, <3>2, VintWidth
    <3>. HIDE DEF n
    <3>4. n = 1
      <4>1. SUFFICES ASSUME n > 1 PROVE FALSE
        BY <1>1, <3>3
      <4>2. n - 1 \in 1 .. MaxWidth /\ n - 1 \in (n - 1) .. MaxWidth
        BY <1>1, <3>3, <4>1
      <4>3. WidthLimit[n - 1] \in Nat /\ 128 <= WidthLimit[n - 1]
        BY <4>2, WidthsGrow
      <4>. QED
        BY <2>1, <3>3, <4>1, <4>3
    <3>. QED
      BY <3>4 DEF n
  <2>. QED
    BY <2>1, <2>2 DEF Record
<1>7. /\ Locator(q, r) = IF Shown(q) = Omitted /\ r = Omitted THEN 0
                         ELSE Record(1 + Field(Shown(q)) + Field(r))
      /\ Locator(s, t) = IF Shown(s) = Omitted /\ t = Omitted THEN 0
                         ELSE Record(1 + Field(Shown(s)) + Field(t))
  BY DEF Locator, Shown
<1>8. /\ Locator(q, r) \in 0 .. 23 /\ Locator(s, t) \in 0 .. 23
      /\ Locator(q, r) <= Locator(s, t) /\ Locator(s, t) <= Locator(q, r) + 18
      /\ Locator(q, r) = 0 <=> Locator(s, t) = 0
      /\ Field(q) = Field(s) /\ Field(r) = Field(t) => Locator(q, r) = Locator(s, t)
  BY <1>4, <1>5, <1>6, <1>7
<1>9. /\ e \in Nat /\ f \in Nat /\ e <= f /\ f <= e + 18
      /\ e <= layout.metadata + 23 /\ f <= layout.metadata + 23
      /\ e = 0 <=> f = 0
      /\ Field(q) = Field(s) /\ Field(r) = Field(t) => e = f
  BY <1>1, <1>8 DEF MainExtra
<1>. HIDE DEF e, f
<1>10. /\ MainBody(e) \in Nat /\ MainBody(f) \in Nat
       /\ MainBody(e) <= MainBody(f) /\ MainBody(f) <= MainBody(e) + 19
       /\ MainBody(e) <= MaxOffset /\ MainBody(f) <= MaxOffset
       /\ e = f => MainBody(e) = MainBody(f)
  <2>1. f < WidthLimit[MaxWidth] /\ e < WidthLimit[MaxWidth]
    BY <1>1, <1>9
  <2>2. Vint(e) \in 1 .. MaxWidth /\ Vint(f) \in 1 .. MaxWidth
    BY <1>9, <2>1, VintWidth
  <2>3. Vint(e) <= Vint(f) /\ Vint(f) <= Vint(e) + 1
    BY <1>9, <2>1, VintGrows
  <2>. QED
    BY <1>1, <1>9, <2>2, <2>3 DEF MainBody
<1>11. /\ c \in Nat /\ d \in Nat /\ c <= d /\ d <= c + 20
       /\ e = f => c = d
  <2>. DEFINE m == MainBody(e)
              n == MainBody(f)
  <2>. HIDE DEF m, n
  <2>1. /\ m \in Nat /\ n \in Nat /\ m <= n /\ n <= m + 19
        /\ m <= MaxOffset /\ n <= MaxOffset
    BY <1>10 DEF m, n
  <2>2. m < WidthLimit[MaxWidth] /\ n < WidthLimit[MaxWidth]
    BY <1>1, <2>1
  <2>3. Vint(m) \in 1 .. MaxWidth /\ Vint(n) \in 1 .. MaxWidth
    BY <2>1, <2>2, VintWidth
  <2>4. Vint(m) <= Vint(n) /\ Vint(n) <= Vint(m) + 1
    BY <2>1, <2>2, VintGrows
  <2>5. c = 4 + Vint(m) + m /\ d = 4 + Vint(n) + n
    BY DEF c, d, Plain, m, n
  <2>6. e = f => m = n
    BY <1>10 DEF m, n
  <2>. HIDE DEF c, d
  <2>. QED
    BY <1>1, <2>1, <2>3, <2>4, <2>5, <2>6
<1>12. MainHeader(q, r) = Emitted(c) /\ MainHeader(s, t) = Emitted(d)
  BY DEF MainHeader, c, d, e, f
<1>. HIDE DEF c, d
<1>13. /\ Emitted(c) \in Nat /\ Emitted(d) \in Nat
       /\ Emitted(c) <= Emitted(d) /\ Emitted(d) <= Emitted(c) + 32
  <2>. DEFINE i == (c + 15) \div 16
              j == (d + 15) \div 16
  <2>1. /\ i \in Nat /\ 16 * i <= c + 15 /\ c + 15 < 16 * i + 16
        /\ j \in Nat /\ 16 * j <= d + 15 /\ d + 15 < 16 * j + 16
    BY <1>11
  <2>2. i <= j /\ j <= i + 2
    <3>. HIDE DEF i, j
    <3>. QED
      BY <1>11, <2>1
  <2>3. /\ Emitted(c) = IF layout.encrypted THEN 16 + i * 16 ELSE c
        /\ Emitted(d) = IF layout.encrypted THEN 16 + j * 16 ELSE d
    BY DEF Emitted
  <2>. HIDE DEF i, j
  <2>. QED
    BY <1>11, <2>1, <2>2, <2>3
<1>. QED
  BY <1>9, <1>11, <1>12, <1>13

\* One pair of offsets does not lie behind another.
Ahead(q, r, s, t) == (HasQuickOpen => q <= s) /\ (layout.recovery => r <= t)

Near(q, r, s, t) == (HasQuickOpen => s <= q + 32) /\ (layout.recovery => t <= r + 32)

LEMMA FieldsGrow ==
  ASSUME NEW q, NEW r, NEW s, NEW t, Offsets(q, r), Offsets(s, t), Ahead(q, r, s, t),
         layout \in Layouts
  PROVE  /\ Field(q) \in 0 .. 10 /\ Field(r) \in 0 .. 10 /\ Field(s) \in 0 .. 10 /\ Field(t) \in 0 .. 10
         /\ Field(q) <= Field(s) /\ Field(r) <= Field(t)
         /\ Near(q, r, s, t) => Field(s) <= Field(q) + 1 /\ Field(t) <= Field(r) + 1
<1>1. \A v \in 0 .. MaxOffset : /\ v \in Nat /\ v < WidthLimit[MaxWidth]
                                /\ Field(v) = Vint(v) /\ Field(v) \in 1 .. 10
  BY FieldWidth
<1>2. ASSUME NEW u \in 0 .. MaxOffset, NEW v \in 0 .. MaxOffset, u <= v
      PROVE  Field(u) <= Field(v) /\ (v <= u + 32 => Field(v) <= Field(u) + 1)
  <2>1. u \in Nat /\ v \in Nat /\ v < WidthLimit[MaxWidth] /\ Field(u) = Vint(u) /\ Field(v) = Vint(v)
    BY <1>1
  <2>2. v <= u + 32 => v <= u + 16256
    BY <2>1
  <2>. QED
    BY <1>2, <2>1, <2>2, VintGrows
<1>3. Field(Omitted) = 0
  BY DEF Field
<1>4. /\ Field(q) \in 0 .. 10 /\ Field(s) \in 0 .. 10 /\ Field(q) <= Field(s)
      /\ Near(q, r, s, t) => Field(s) <= Field(q) + 1
  BY <1>1, <1>2, <1>3 DEF Offsets, Ahead, Near
<1>5. /\ Field(r) \in 0 .. 10 /\ Field(t) \in 0 .. 10 /\ Field(r) <= Field(t)
      /\ Near(q, r, s, t) => Field(t) <= Field(r) + 1
  BY <1>1, <1>2, <1>3 DEF Offsets, Ahead, Near
<1>. QED
  BY <1>4, <1>5

\* Where the blocks lie behind the signature when the header holds q and r.
Before(q, r) == CryptBlock + MainHeader(q, r) + layout.body

QuickOf(q, r) == IF HasQuickOpen THEN Before(q, r) ELSE Omitted
RecoveryOf(q, r) == IF layout.recovery THEN Before(q, r) + QuickOpenLength ELSE Omitted

NoQuick == IF HasQuickOpen THEN 0 ELSE Omitted
NoRecovery == IF layout.recovery THEN 0 ELSE Omitted

FirstQuick == QuickOf(NoQuick, NoRecovery)
FirstRecovery == RecoveryOf(NoQuick, NoRecovery)

\* A pass is monotone in the offsets it starts from, moves them by at most 32
\* bytes against any other pass, and depends on their widths alone.
LEMMA PassMoves ==
  ASSUME layout \in Layouts,
         NEW q, NEW r, NEW s, NEW t, Offsets(q, r), Offsets(s, t),
         Field(q) <= Field(s), Field(r) <= Field(t)
  PROVE  /\ Before(q, r) \in Nat /\ Before(s, t) \in Nat /\ QuickOpenLength \in Nat
         /\ Before(q, r) <= Before(s, t)
         /\ Ahead(QuickOf(q, r), RecoveryOf(q, r), QuickOf(s, t), RecoveryOf(s, t))
         /\ Near(QuickOf(q, r), RecoveryOf(q, r), QuickOf(s, t), RecoveryOf(s, t))
         /\ Field(q) = Field(s) /\ Field(r) = Field(t) =>
              QuickOf(q, r) = QuickOf(s, t) /\ RecoveryOf(q, r) = RecoveryOf(s, t)
<1>1. /\ MainHeader(q, r) \in Nat /\ MainHeader(s, t) \in Nat
      /\ MainHeader(q, r) <= MainHeader(s, t)
      /\ MainHeader(s, t) <= MainHeader(q, r) + 32
      /\ Field(q) = Field(s) /\ Field(r) = Field(t) => MainHeader(q, r) = MainHeader(s, t)
  BY HeaderGrows
<1>2. CryptBlock \in Nat /\ QuickOpenLength \in Nat /\ layout.body \in Nat
  BY LayoutAssumption DEF CryptBlock, QuickOpenLength, HasQuickOpen
<1>3. /\ Before(q, r) \in Nat /\ Before(s, t) \in Nat
      /\ Before(q, r) <= Before(s, t) /\ Before(s, t) <= Before(q, r) + 32
      /\ Field(q) = Field(s) /\ Field(r) = Field(t) => Before(q, r) = Before(s, t)
  BY <1>1, <1>2 DEF Before
<1>. QED
  BY <1>2, <1>3 DEF QuickOf, RecoveryOf, Ahead, Near

\* The bytes by which the offsets have become wider since the first pass.
Crossed == (Field(quickOffset) - Field(FirstQuick)) + (Field(recoveryOffset) - Field(FirstRecovery))

\* The offsets grow from pass to pass and stay within 32 bytes of the first
\* ones, so that each of them becomes wider at most once.  Every pass but the
\* first and the last two has to make one of them wider.
LayoutInvariant ==
  /\ layout \in Layouts
  /\ resolution \in {"open", "settled", "overflow"}
  /\ passes \in 0 .. 5
  /\ Offsets(quickOffset, recoveryOffset)
  /\ Ahead(quickOffset, recoveryOffset, NextQuick, NextRecovery)
  /\ resolution = "open" => passes <= 4
  /\ passes = 0 => quickOffset = NoQuick /\ recoveryOffset = NoRecovery
  /\ passes > 0 /\ resolution # "overflow" =>
       /\ Ahead(FirstQuick, FirstRecovery, quickOffset, recoveryOffset)
       /\ Near(FirstQuick, FirstRecovery, quickOffset, recoveryOffset)
  /\ passes > 0 /\ resolution = "open" => OffsetsStay \/ Crossed >= passes - 1
  /\ resolution = "settled" => OffsetsStay

LEMMA NextPass ==
  layout \in Layouts /\ Offsets(quickOffset, recoveryOffset) =>
    /\ NextQuick = QuickOf(quickOffset, recoveryOffset)
    /\ NextRecovery = RecoveryOf(quickOffset, recoveryOffset)
    /\ Fits => Offsets(NextQuick, NextRecovery)
    /\ Fits <=> Signature + Before(quickOffset, recoveryOffset) + QuickOpenLength <= MaxOffset
<1>. SUFFICES ASSUME layout \in Layouts, Offsets(quickOffset, recoveryOffset)
              PROVE  /\ NextQuick = QuickOf(quickOffset, recoveryOffset)
                     /\ NextRecovery = RecoveryOf(quickOffset, recoveryOffset)
                     /\ Fits => Offsets(NextQuick, NextRecovery)
                     /\ Fits <=> Signature + Before(quickOffset, recoveryOffset) + QuickOpenLength
                                  <= MaxOffset
  OBVIOUS
<1>1. /\ quickOffset = Omitted <=> ~HasQuickOpen
      /\ recoveryOffset = Omitted <=> ~layout.recovery
  BY FieldWidth DEF Offsets
<1>. DEFINE h == MainHeader(quickOffset, recoveryOffset)
<1>2. h \in Nat
  <2>1. /\ Field(quickOffset) \in Int /\ Field(recoveryOffset) \in Int
    <3>1. Field(Omitted) = 0 /\ \A v \in 0 .. MaxOffset : Field(v) \in 1 .. 10
      BY FieldWidth DEF Field
    <3>. QED
      BY <3>1 DEF Offsets
  <2>. QED
    BY <2>1, HeaderGrows
<1>3. /\ CryptBlock \in Nat /\ QuickOpenLength \in Nat /\ layout.body \in Nat /\ Signature \in Nat
      /\ MaxOffset \in Nat
  BY LayoutAssumption, WidthAssumption DEF CryptBlock, QuickOpenLength, HasQuickOpen
<1>4. /\ QuickPosition(quickOffset, recoveryOffset) = Signature + CryptBlock + h + layout.body
      /\ RecoveryPosition(quickOffset, recoveryOffset) =
           Signature + CryptBlock + h + layout.body + QuickOpenLength
      /\ Before(quickOffset, recoveryOffset) = CryptBlock + h + layout.body
  BY DEF QuickPosition, RecoveryPosition, Before
<1>. HIDE DEF h
<1>5. /\ NextQuick = QuickOf(quickOffset, recoveryOffset)
      /\ NextRecovery = RecoveryOf(quickOffset, recoveryOffset)
  BY <1>1, <1>2, <1>3, <1>4 DEF NextQuick, NextRecovery, QuickOf, RecoveryOf
<1>6. Fits <=> Signature + Before(quickOffset, recoveryOffset) + QuickOpenLength <= MaxOffset
  BY <1>2, <1>3, <1>4 DEF Fits
<1>7. Fits => Offsets(NextQuick, NextRecovery)
  BY <1>2, <1>3, <1>4, <1>5, <1>6 DEF Offsets, QuickOf, RecoveryOf
<1>. QED
  BY <1>5, <1>6, <1>7

\* The offsets of zero with which the loop starts.
LEMMA StartOffsets ==
  ASSUME layout \in Layouts
  PROVE  /\ Offsets(NoQuick, NoRecovery)
         /\ \A s, t : Offsets(s, t) => Ahead(NoQuick, NoRecovery, s, t)
BY LayoutAssumption, WidthAssumption DEF Offsets, Ahead, NoQuick, NoRecovery

LEMMA LayoutInvariantInit == LayoutInit => LayoutInvariant
<1>. SUFFICES ASSUME LayoutInit PROVE LayoutInvariant
  OBVIOUS
<1>1. /\ layout \in Layouts /\ quickOffset = NoQuick /\ recoveryOffset = NoRecovery
      /\ passes = 0 /\ resolution = "open"
  BY DEF LayoutInit, NoQuick, NoRecovery
<1>2. Offsets(quickOffset, recoveryOffset)
  BY <1>1, StartOffsets
<1>3. Ahead(quickOffset, recoveryOffset, NextQuick, NextRecovery)
  <2>1. /\ NextQuick = QuickOf(quickOffset, recoveryOffset)
        /\ NextRecovery = RecoveryOf(quickOffset, recoveryOffset)
    BY <1>1, <1>2, NextPass
  <2>2. Field(quickOffset) <= Field(quickOffset) /\ Field(recoveryOffset) <= Field(recoveryOffset)
    <3>1. Ahead(quickOffset, recoveryOffset, quickOffset, recoveryOffset)
      BY <1>1, <1>2, StartOffsets
    <3>. QED
      BY <1>1, <1>2, <3>1, FieldsGrow
  <2>3. Before(quickOffset, recoveryOffset) \in Nat /\ QuickOpenLength \in Nat
    BY <1>1, <1>2, <2>2, PassMoves
  <2>. QED
    BY <1>1, <2>1, <2>3 DEF Ahead, QuickOf, RecoveryOf, NoQuick, NoRecovery
<1>. QED
  BY <1>1, <1>2, <1>3 DEF LayoutInvariant

\* While the layout stays, so do the lengths as functions of the offsets.
LEMMA LengthsStay ==
  ASSUME layout' = layout
  PROVE  /\ \A x, y : /\ QuickOf(x, y)' = QuickOf(x, y)
                      /\ RecoveryOf(x, y)' = RecoveryOf(x, y)
                      /\ Offsets(x, y)' = Offsets(x, y)
         /\ NoQuick' = NoQuick /\ NoRecovery' = NoRecovery
         /\ FirstQuick' = FirstQuick /\ FirstRecovery' = FirstRecovery
<1>1. /\ HasQuickOpen' = HasQuickOpen /\ CryptBlock' = CryptBlock
      /\ QuickOpenLength' = QuickOpenLength
  BY DEF HasQuickOpen, CryptBlock, QuickOpenLength
<1>2. ASSUME NEW x, NEW y PROVE MainHeader(x, y)' = MainHeader(x, y)
  <2>1. MainExtra(x, y)' = MainExtra(x, y)
    BY DEF MainExtra, Locator
  <2>2. ASSUME NEW e PROVE Emitted(Plain(MainBody(e)))' = Emitted(Plain(MainBody(e)))
    BY DEF Emitted, Plain, MainBody
  <2>. QED
    BY <2>1, <2>2 DEF MainHeader
<1>3. ASSUME NEW x, NEW y
      PROVE  /\ QuickOf(x, y)' = QuickOf(x, y) /\ RecoveryOf(x, y)' = RecoveryOf(x, y)
             /\ Offsets(x, y)' = Offsets(x, y)
  BY <1>1, <1>2 DEF QuickOf, RecoveryOf, Before, Offsets
<1>4. NoQuick' = NoQuick /\ NoRecovery' = NoRecovery
  BY <1>1 DEF NoQuick, NoRecovery
<1>. QED
  BY <1>3, <1>4 DEF FirstQuick, FirstRecovery

LEMMA LayoutInvariantPass ==
  ASSUME LayoutInvariant, ResolvePass
  PROVE  LayoutInvariant'
<1>. DEFINE q == quickOffset
            r == recoveryOffset
            s == NextQuick
            t == NextRecovery
<1>1. /\ layout \in Layouts /\ layout' = layout /\ Offsets(q, r) /\ Ahead(q, r, s, t)
      /\ passes \in 0 .. 4 /\ passes' = passes + 1 /\ Fits
      /\ quickOffset' = s /\ recoveryOffset' = t
      /\ resolution = "open" /\ resolution' = IF OffsetsStay THEN "settled" ELSE "open"
  BY DEF LayoutInvariant, ResolvePass
<1>2. s = QuickOf(q, r) /\ t = RecoveryOf(q, r) /\ Offsets(s, t)
  BY <1>1, NextPass
<1>3. /\ quickOffset' = s /\ recoveryOffset' = t
      /\ NextQuick' = QuickOf(s, t) /\ NextRecovery' = RecoveryOf(s, t)
      /\ Offsets(quickOffset, recoveryOffset)'
  <2>1. layout' \in Layouts /\ Offsets(quickOffset, recoveryOffset)'
    BY <1>1, <1>2 DEF Offsets, HasQuickOpen
  <2>2. (/\ NextQuick = QuickOf(quickOffset, recoveryOffset)
         /\ NextRecovery = RecoveryOf(quickOffset, recoveryOffset))'
    <3>1. (layout \in Layouts /\ Offsets(quickOffset, recoveryOffset))'
      BY <2>1
    <3>. QED
      BY <3>1, NextPass, PTL
  <2>. QED
    BY <1>1, <2>1, <2>2, LengthsStay
<1>4. Ahead(quickOffset, recoveryOffset, NextQuick, NextRecovery)'
  <2>1. Field(q) <= Field(s) /\ Field(r) <= Field(t)
    BY <1>1, <1>2, FieldsGrow
  <2>2. Ahead(s, t, QuickOf(s, t), RecoveryOf(s, t))
    BY <1>1, <1>2, <2>1, PassMoves
  <2>. QED
    BY <1>1, <1>3, <2>2 DEF Ahead, HasQuickOpen
<1>5. Ahead(FirstQuick, FirstRecovery, s, t) /\ Near(FirstQuick, FirstRecovery, s, t)
  <2>1. Offsets(NoQuick, NoRecovery) /\ Ahead(NoQuick, NoRecovery, q, r)
    BY <1>1, StartOffsets
  <2>2. Field(NoQuick) <= Field(q) /\ Field(NoRecovery) <= Field(r)
    BY <1>1, <2>1, FieldsGrow
  <2>. QED
    BY <1>1, <1>2, <2>1, <2>2, PassMoves DEF FirstQuick, FirstRecovery
<1>6. /\ Ahead(FirstQuick, FirstRecovery, quickOffset, recoveryOffset)'
      /\ Near(FirstQuick, FirstRecovery, quickOffset, recoveryOffset)'
  BY <1>1, <1>5, LengthsStay DEF Ahead, Near, HasQuickOpen
<1>7. /\ OffsetsStay <=> s = q /\ t = r
      /\ OffsetsStay' <=> QuickOf(s, t) = s /\ RecoveryOf(s, t) = t
  BY <1>1, <1>3 DEF OffsetsStay
<1>8. CASE OffsetsStay
  <2>1. OffsetsStay'
    BY <1>2, <1>7, <1>8
  <2>. QED
    BY <1>1, <1>3, <1>4, <1>6, <1>8, <2>1 DEF LayoutInvariant
<1>9. CASE ~OffsetsStay
  <2>1. Offsets(FirstQuick, FirstRecovery)
    <3>1. /\ FirstQuick \in IF HasQuickOpen THEN Nat ELSE {Omitted}
          /\ FirstRecovery \in IF layout.recovery THEN Nat ELSE {Omitted}
      <4>1. Offsets(NoQuick, NoRecovery) /\ Ahead(NoQuick, NoRecovery, NoQuick, NoRecovery)
        BY <1>1, StartOffsets
      <4>2. Field(NoQuick) <= Field(NoQuick) /\ Field(NoRecovery) <= Field(NoRecovery)
        BY <1>1, <4>1, FieldsGrow
      <4>3. Before(NoQuick, NoRecovery) \in Nat /\ QuickOpenLength \in Nat
        BY <1>1, <4>1, <4>2, PassMoves
      <4>. QED
        BY <4>3 DEF FirstQuick, FirstRecovery, QuickOf, RecoveryOf
    <3>2. MaxOffset \in Nat
      BY WidthAssumption
    <3>. QED
      BY <1>2, <1>5, <3>1, <3>2 DEF Offsets, Ahead
  <2>. DEFINE a == Field(FirstQuick)
              b == Field(FirstRecovery)
  <2>2. /\ a \in 0 .. 10 /\ b \in 0 .. 10 /\ Field(s) \in 0 .. 10 /\ Field(t) \in 0 .. 10
        /\ a <= Field(s) /\ b <= Field(t)
    BY <1>1, <1>2, <1>5, <2>1, FieldsGrow
  <2>3. Field(q) \in 0 .. 10 /\ Field(r) \in 0 .. 10 /\ Field(q) <= Field(s) /\ Field(r) <= Field(t)
    BY <1>1, <1>2, FieldsGrow
  <2>4. /\ Crossed = (Field(q) - a) + (Field(r) - b)
        /\ Crossed' = (Field(s) - a) + (Field(t) - b)
    BY <1>1, LengthsStay DEF Crossed, Field
  <2>. HIDE DEF a, b
  <2>5. CASE passes = 0
    <3>1. Crossed' >= 0
      BY <2>2, <2>4
    <3>2. passes' = 1
      BY <1>1, <2>5
    <3>. QED
      BY <1>1, <1>3, <1>4, <1>6, <1>9, <3>1, <3>2 DEF LayoutInvariant
  <2>6. CASE passes > 0
    <3>1. Crossed >= passes - 1
      BY <1>1, <1>9, <2>6 DEF LayoutInvariant
    <3>2. Field(q) <= a + 1 /\ Field(r) <= b + 1
      <4>1. /\ Ahead(FirstQuick, FirstRecovery, q, r)
            /\ Near(FirstQuick, FirstRecovery, q, r)
        BY <1>1, <2>6 DEF LayoutInvariant
      <4>. QED
        BY <1>1, <2>1, <4>1, FieldsGrow DEF a, b
    <3>3. passes \in 1 .. 3
      BY <1>1, <2>2, <2>3, <2>4, <2>6, <3>1, <3>2
    <3>4. OffsetsStay' \/ Crossed' >= passes
      <4>1. CASE Field(q) = Field(s) /\ Field(r) = Field(t)
        <5>1. QuickOf(q, r) = QuickOf(s, t) /\ RecoveryOf(q, r) = RecoveryOf(s, t)
          BY <1>1, <1>2, <4>1, <2>3, PassMoves
        <5>. QED
          BY <1>2, <1>7, <5>1
      <4>2. CASE ~(Field(q) = Field(s) /\ Field(r) = Field(t))
        BY <1>1, <2>2, <2>3, <2>4, <3>1, <4>2
      <4>. QED
        BY <4>1, <4>2
    <3>. QED
      BY <1>1, <1>3, <1>4, <1>6, <1>9, <3>3, <3>4 DEF LayoutInvariant
  <2>. QED
    BY <1>1, <2>5, <2>6
<1>. QED
  BY <1>8, <1>9

LEMMA LayoutInvariantOverflow ==
  ASSUME LayoutInvariant, Overflow
  PROVE  LayoutInvariant'
<1>1. /\ layout' = layout /\ quickOffset' = quickOffset /\ recoveryOffset' = recoveryOffset
      /\ passes \in 0 .. 4 /\ passes' = passes + 1 /\ resolution' = "overflow"
  BY DEF LayoutInvariant, Overflow
<1>2. /\ Offsets(quickOffset, recoveryOffset)'
      /\ Ahead(quickOffset, recoveryOffset, NextQuick, NextRecovery)'
  <2>1. NextQuick' = NextQuick /\ NextRecovery' = NextRecovery
    BY <1>1 DEF NextQuick, NextRecovery, QuickPosition, RecoveryPosition, MainHeader, Emitted, Plain,
         MainBody, MainExtra, Locator, CryptBlock, QuickOpenLength, HasQuickOpen
  <2>. QED
    BY <1>1, <2>1 DEF LayoutInvariant, Offsets, Ahead, HasQuickOpen
<1>. QED
  BY <1>1, <1>2 DEF LayoutInvariant

LEMMA LayoutInvariantStep == LayoutInvariant /\ [LayoutNext]_layoutVars => LayoutInvariant'
<1>. SUFFICES ASSUME LayoutInvariant, [LayoutNext]_layoutVars PROVE LayoutInvariant'
  OBVIOUS
<1>1. CASE ResolvePass
  BY <1>1, LayoutInvariantPass
<1>2. CASE Overflow
  BY <1>2, LayoutInvariantOverflow
<1>3. CASE UNCHANGED layoutVars
  <2>1. NextQuick' = NextQuick /\ NextRecovery' = NextRecovery
    BY <1>3 DEF layoutVars, NextQuick, NextRecovery, QuickPosition, RecoveryPosition, MainHeader,
         Emitted, Plain, MainBody, MainExtra, Locator, CryptBlock, QuickOpenLength, HasQuickOpen
  <2>2. layout' = layout
    BY <1>3 DEF layoutVars
  <2>3. /\ FirstQuick' = FirstQuick /\ FirstRecovery' = FirstRecovery
        /\ NoQuick' = NoQuick /\ NoRecovery' = NoRecovery
    BY <2>2, LengthsStay
  <2>. QED
    BY <1>3, <2>1, <2>3 DEF LayoutInvariant, layoutVars, OffsetsStay, Crossed, Offsets, Ahead, Near,
         HasQuickOpen
<1>. QED
  BY <1>1, <1>2, <1>3 DEF LayoutNext

\* The offsets grow from pass to pass of resolve_layout, each by one byte of
\* width at most after the first, for all lengths.
THEOREM LayoutInvariantHolds == LayoutSpec => []LayoutInvariant
<1>. QED
  BY LayoutInvariantInit, LayoutInvariantStep, PTL DEF LayoutSpec

\* resolve_layout settles within the five passes that its comment promises, for
\* all lengths, and the offsets it settles on are the positions of the blocks.
THEOREM LayoutSettlesHolds == LayoutSpec => []LayoutSettles
<1>1. LayoutInvariant => LayoutSettles
  <2>. SUFFICES ASSUME LayoutInvariant PROVE LayoutSettles
    OBVIOUS
  <2>1. passes <= SettledWithin
    BY SettledAssumption, LayoutAssumption DEF LayoutInvariant
  <2>2. ASSUME resolution = "settled" PROVE Exact(quickOffset, recoveryOffset)
    <3>1. OffsetsStay /\ layout \in Layouts /\ Offsets(quickOffset, recoveryOffset)
      BY <2>2 DEF LayoutInvariant
    <3>2. /\ quickOffset = QuickOf(quickOffset, recoveryOffset)
          /\ recoveryOffset = RecoveryOf(quickOffset, recoveryOffset)
      BY <3>1, NextPass DEF OffsetsStay
    <3>. QED
      BY <3>2 DEF Exact, QuickOf, RecoveryOf, Before
  <2>. QED
    BY <2>1, <2>2 DEF LayoutSettles
<1>. QED
  BY <1>1, LayoutInvariantHolds, PTL

\* Offsets with which the archive could be written.
Possible(x, y) == Offsets(x, y) /\ Exact(x, y) /\ RecoveryPosition(x, y) <= MaxOffset

\* Of all offsets that are exact the loop finds the smallest, and it gives up
\* with an overflow only when there are none.
LeastLayout ==
  /\ resolution = "settled" => \A x, y : Possible(x, y) => Ahead(quickOffset, recoveryOffset, x, y)
  /\ resolution = "overflow" => \A x, y : ~Possible(x, y)

\* No pass moves the offsets beyond exact ones.
NeverBeyond == \A x, y : Possible(x, y) => Ahead(quickOffset, recoveryOffset, x, y)

LEMMA PossibleStays ==
  ASSUME layout' = layout, NEW x, NEW y
  PROVE  Possible(x, y)' <=> Possible(x, y)
<1>1. /\ HasQuickOpen' = HasQuickOpen /\ CryptBlock' = CryptBlock
      /\ QuickOpenLength' = QuickOpenLength
  BY DEF HasQuickOpen, CryptBlock, QuickOpenLength
<1>2. MainHeader(x, y)' = MainHeader(x, y)
  <2>1. MainExtra(x, y)' = MainExtra(x, y)
    BY DEF MainExtra, Locator
  <2>2. ASSUME NEW e PROVE Emitted(Plain(MainBody(e)))' = Emitted(Plain(MainBody(e)))
    BY DEF Emitted, Plain, MainBody
  <2>. QED
    BY <2>1, <2>2 DEF MainHeader
<1>. QED
  BY <1>1, <1>2 DEF Possible, Offsets, Exact, RecoveryPosition, QuickPosition

\* What a pass makes of the offsets stays at or before exact ones.
LEMMA PassStaysBefore ==
  ASSUME layout \in Layouts, Offsets(quickOffset, recoveryOffset),
         NEW x, NEW y, Possible(x, y), Ahead(quickOffset, recoveryOffset, x, y)
  PROVE  Fits /\ Ahead(NextQuick, NextRecovery, x, y)
<1>1. Offsets(x, y) /\ Exact(x, y) /\ RecoveryPosition(x, y) <= MaxOffset
  BY DEF Possible
<1>2. Field(quickOffset) <= Field(x) /\ Field(recoveryOffset) <= Field(y)
  BY <1>1, FieldsGrow
<1>3. /\ Before(quickOffset, recoveryOffset) \in Nat /\ Before(x, y) \in Nat /\ QuickOpenLength \in Nat
      /\ Before(quickOffset, recoveryOffset) <= Before(x, y)
      /\ Ahead(QuickOf(quickOffset, recoveryOffset), RecoveryOf(quickOffset, recoveryOffset),
               QuickOf(x, y), RecoveryOf(x, y))
  BY <1>1, <1>2, PassMoves
<1>4. /\ HasQuickOpen => x = QuickOf(x, y)
      /\ layout.recovery => y = RecoveryOf(x, y)
  BY <1>1 DEF Exact, QuickOf, RecoveryOf, Before
<1>5. Ahead(NextQuick, NextRecovery, x, y)
  BY <1>3, <1>4, NextPass DEF Ahead
<1>6. Fits
  <2>. DEFINE h == MainHeader(x, y)
  <2>1. /\ CryptBlock \in Nat /\ layout.body \in Nat /\ Signature \in Nat /\ MaxOffset \in Nat
    BY LayoutAssumption, WidthAssumption DEF CryptBlock
  <2>2. h \in Nat
    BY <1>1, <1>2, HeaderGrows
  <2>3. /\ RecoveryPosition(x, y) = Signature + CryptBlock + h + layout.body + QuickOpenLength
        /\ Before(x, y) = CryptBlock + h + layout.body
    BY DEF RecoveryPosition, QuickPosition, Before
  <2>. HIDE DEF h
  <2>4. Signature + Before(quickOffset, recoveryOffset) + QuickOpenLength <= MaxOffset
    BY <1>1, <1>3, <2>1, <2>2, <2>3
  <2>. QED
    BY <2>4, NextPass
<1>. QED
  BY <1>5, <1>6

\* resolve_layout yields the shortest archive, and its error means that no
\* archive of these lengths has offsets that the code can hold.
THEOREM LeastLayoutHolds == LayoutSpec => []LeastLayout
<1>1. LayoutInit => NeverBeyond /\ LeastLayout
  <2>. SUFFICES ASSUME LayoutInit PROVE NeverBeyond /\ LeastLayout
    OBVIOUS
  <2>1. /\ layout \in Layouts /\ quickOffset = NoQuick /\ recoveryOffset = NoRecovery
        /\ resolution = "open"
    BY DEF LayoutInit, NoQuick, NoRecovery
  <2>. QED
    BY <2>1, StartOffsets DEF NeverBeyond, LeastLayout, Possible
<1>2. LayoutInvariant /\ NeverBeyond /\ LeastLayout /\ [LayoutNext]_layoutVars
        => NeverBeyond' /\ LeastLayout'
  <2>. SUFFICES ASSUME LayoutInvariant, NeverBeyond, LeastLayout, [LayoutNext]_layoutVars
                PROVE  NeverBeyond' /\ LeastLayout'
    OBVIOUS
  <2>1. layout \in Layouts /\ Offsets(quickOffset, recoveryOffset)
    BY DEF LayoutInvariant
  <2>2. layout' = layout
    BY DEF LayoutNext, ResolvePass, Overflow, layoutVars
  <2>3. \A x, y : Possible(x, y)' <=> Possible(x, y)
    BY <2>2, PossibleStays
  <2>4. \A x, y : Possible(x, y) => Fits /\ Ahead(NextQuick, NextRecovery, x, y)
    BY <2>1, PassStaysBefore DEF NeverBeyond
  <2>5. CASE ResolvePass
    <3>1. quickOffset' = NextQuick /\ recoveryOffset' = NextRecovery /\ resolution' # "overflow"
      BY <2>5 DEF ResolvePass
    <3>2. NeverBeyond'
      BY <2>2, <2>3, <2>4, <3>1 DEF NeverBeyond, Ahead, HasQuickOpen
    <3>. QED
      BY <3>1, <3>2 DEF NeverBeyond, LeastLayout
  <2>6. CASE Overflow
    <3>1. /\ quickOffset' = quickOffset /\ recoveryOffset' = recoveryOffset
          /\ resolution' = "overflow" /\ ~Fits
      BY <2>6 DEF Overflow
    <3>2. \A x, y : ~Possible(x, y)'
      BY <2>3, <2>4, <3>1
    <3>. QED
      BY <3>1, <3>2 DEF NeverBeyond, LeastLayout
  <2>7. CASE UNCHANGED layoutVars
    <3>1. /\ quickOffset' = quickOffset /\ recoveryOffset' = recoveryOffset
          /\ resolution' = resolution
      BY <2>7 DEF layoutVars
    <3>. QED
      BY <2>2, <2>3, <3>1 DEF NeverBeyond, LeastLayout, Ahead, HasQuickOpen
  <2>. QED
    BY <2>5, <2>6, <2>7 DEF LayoutNext
<1>. QED
  BY <1>1, <1>2, LayoutInvariantHolds, PTL DEF LayoutSpec

-----------------------------------------------------------------------------
(* Members on their way from their sources. *)

WritingStages ==
  {"measure", "integrity", "prepare", "encrypt", "cut", "checksum", "copy", "finish"} \cup Over

\* The header of a part, and its payload.
Parts == [of : Everyone, volume : Nat, before : BOOLEAN, after : BOOLEAN,
          size : Nat, checksum : Seq(Cells) \cup {NoData}, data : Seq(Cells)]

WritingTypeOK ==
  /\ writeJob \in WriteJobs
  /\ content \in [Everyone -> Seq(Bytes)]
  /\ revisions \in Nat
  /\ writeStage \in WritingStages
  /\ member \in Everyone
  /\ expected \in [Everyone -> Nat]
  /\ integrity \in [Everyone -> Seq(Bytes) \cup {NoData}]
  /\ kept \in [Everyone -> Seq(Cells) \cup {NoData}]
  /\ seen \in Seq(Bytes)
  /\ start \in Nat
  /\ fragment \in Seq(Bytes) \cup {NoData}
  /\ emitted \in Seq(Cells)
  /\ entries \in Seq(Parts)
  /\ ends \in Seq(BOOLEAN)
  /\ body \in Nat \cup {NoData}

\* What the parts of a set are cut from, and the rest of the way.
Cutting == writeStage \in {"cut", "checksum", "copy"}
Finished == writeStage \in {"finish", "written"}

\* The members of which nothing is known yet.
Unread(m) ==
  IF writeStage = "measure" THEN Rar50 \/ m >= member
  ELSE IF writeStage = "integrity" THEN m >= member
  ELSE ~Rar50 /\ m > member

\* The members of a set that are encrypted already: before they are cut.
Spooled(m) == Finished \/ Cutting \/ (writeStage \in {"prepare", "encrypt"} /\ m < member)

\* What one pass has learned of a member, and what the writer then holds.
Known(m) ==
  /\ integrity[m] \in Seq(Bytes) /\ Len(integrity[m]) = expected[m]
  /\ IF Packed(m) THEN kept[m] = Sealed(m, <<Table>> \o integrity[m])
     ELSE kept[m] \in {NoData, Sealed(m, integrity[m])}

Knowledge ==
  \A m \in Everyone :
    /\ ~Unread(m) => Known(m)
    /\ Volumes /\ writeJob.members[m].encrypted /\ Spooled(m) => kept[m] # NoData

\* The payload of a member of which everything is known.
Payload(m) == IF kept[m] # NoData THEN kept[m] ELSE Sealed(m, integrity[m])

Done(m) == Finished \/ m < member

\* What is written of the payload of a member, now or at last.
Written(m) == IF Done(m) THEN Payload(m) ELSE emitted

\* Where the member at hand stands.
Position ==
  /\ ~Cutting => start = 0
  /\ start = 0 => emitted = <<>>
  /\ start > 0 => Volumes /\ start < PayloadLength
  /\ Len(emitted) = start
  /\ kept[member] = NoData => emitted \in Seq(Bytes)
  /\ kept[member] # NoData /\ Cutting => emitted = SubSeq(kept[member], 1, start)
  /\ writeStage \in {"encrypt", "checksum", "copy"} => kept[member] = NoData
  /\ writeStage \in {"prepare", "encrypt"} => Rar50
  /\ writeStage \in {"checksum", "copy"} => body # NoData /\ ~Full
  /\ writeStage = "checksum" => SplitAfter
  /\ IF writeStage = "copy" THEN fragment # NoData <=> SplitAfter ELSE fragment = NoData
  /\ Finished => member = Len(writeJob.members)

\* A part of a payload, from the place it has there, and its header.
PartOK(at, n) ==
  LET e == entries[n]
      p == Written(e.of)
  IN /\ e.of <= member
     /\ Done(e.of) \/ e.after
     /\ e.before <=> at[n] > 0
     /\ e.size = expected[e.of]
     /\ e.checksum = IF e.after THEN e.data ELSE integrity[e.of]
     /\ e.after => e.data # <<>>
     /\ at[n] + Len(e.data) <= Len(p)
     /\ e.data = SubSeq(p, at[n] + 1, at[n] + Len(e.data))
     /\ ~e.after => at[n] + Len(e.data) = Len(p)

\* A part follows the one before it, of the same member or of the next.
PartFollows(at, n) ==
  LET e == entries[n]
      f == entries[n - 1]
  IN /\ at[n] = IF f.after THEN at[n - 1] + Len(f.data) ELSE 0
     /\ e.of = IF f.after THEN f.of ELSE f.of + 1

\* What comes after the parts that are written.
PartNext(at, n) ==
  LET e == entries[n]
  IN IF e.after THEN e.of = member /\ start = at[n] + Len(e.data) /\ ~Finished
     ELSE start = 0 /\ e.of = IF Finished THEN member ELSE member - 1

PartsOK(at) ==
  /\ \A n \in DOMAIN entries : PartOK(at, n)
  /\ \A n \in DOMAIN entries : n > 1 => PartFollows(at, n)
  /\ \A i, k \in DOMAIN entries : i < k => entries[i].of <= entries[k].of
  /\ entries # <<>> => entries[1].of = 1 /\ at[1] = 0 /\ PartNext(at, Len(entries))
  /\ entries = <<>> => start = 0 /\ ~Finished /\ (Cutting \/ ~Rar50 => member = 1)
  /\ Rar50 /\ ~Cutting /\ ~Finished => entries = <<>>

\* The payload in the open volume, if one is open.
Body == IF body = NoData THEN 0 ELSE body

\* A part in its volume, from the place it has there.
InVolume(filled, n) ==
  LET e == entries[n]
  IN /\ e.volume \in 1 .. Len(ends) + 1
     /\ Volumes => filled[n] + Len(e.data) <= MaxPayload

VolumeFollows(filled, n) ==
  LET e == entries[n]
      f == entries[n - 1]
  IN /\ e.volume \in {f.volume, f.volume + 1}
     /\ f.after => e.volume = f.volume + 1
     /\ filled[n] = IF e.volume = f.volume THEN filled[n - 1] + Len(f.data) ELSE 0

VolumeNext(filled, n) ==
  LET e == entries[n]
  IN IF e.volume = Len(ends) + 1
     THEN body = filled[n] + Len(e.data) /\ (e.after => Full) /\ writeStage # "written"
     ELSE e.volume = Len(ends) /\ Body = 0 /\ writeStage # "finish"

VolumesOK(filled) ==
  /\ \A n \in DOMAIN entries : InVolume(filled, n)
  /\ \A n \in DOMAIN entries : n > 1 => VolumeFollows(filled, n)
  /\ \A i, k \in DOMAIN entries : i < k => entries[i].volume <= entries[k].volume
  /\ entries # <<>> => entries[1].volume = 1 /\ filled[1] = 0 /\ VolumeNext(filled, Len(entries))
  /\ entries = <<>> => ends = <<>> /\ Body = 0 /\ ~Finished
  /\ Volumes => Body <= MaxPayload
  /\ \A v \in DOMAIN ends : ends[v] <=> (writeStage = "written" => v < Len(ends))

Places == [DOMAIN entries -> Nat]

\* The writer goes on, or has come to its end.
Underway ==
  /\ WritingTypeOK /\ Knowledge /\ Position
  /\ \E at \in Places : PartsOK(at)
  /\ \E filled \in Places : VolumesOK(filled)

WritingInvariant == WritingTypeOK /\ (writeStage # "refused" => Underway)

-----------------------------------------------------------------------------
(* What the pieces of a payload are. *)

LEMMA JobFacts ==
  ASSUME WritingAssumption, writeJob \in WriteJobs
  PROVE  /\ Len(writeJob.members) \in Nat \ {0} /\ Everyone = 1 .. Len(writeJob.members)
         /\ Rar50 \in BOOLEAN /\ Volumes \in BOOLEAN
         /\ \A m \in Everyone :
              /\ writeJob.members[m].first \in Seq(Bytes)
              /\ writeJob.members[m].encrypted \in BOOLEAN
              /\ ~Rar50 => ~writeJob.members[m].encrypted
         /\ ~Rar50 /\ Volumes => Len(writeJob.members) = 1
<1>. DEFINE S == [first : Seq(Bytes), coding : {"stored", "packed", "fallback"}, encrypted : BOOLEAN]
<1>1. /\ writeJob.family \in {"legacy", "rar50"} /\ writeJob.volumes \in BOOLEAN
      /\ writeJob.members # <<>> /\ writeJob.members \in Seq(S)
      /\ writeJob.family = "legacy" =>
           \A m \in DOMAIN writeJob.members : ~writeJob.members[m].encrypted
      /\ writeJob.family = "legacy" /\ writeJob.volumes => Len(writeJob.members) = 1
  BY DEF WritingAssumption
<1>2. /\ Len(writeJob.members) \in Nat \ {0}
      /\ DOMAIN writeJob.members = 1 .. Len(writeJob.members)
      /\ \A m \in DOMAIN writeJob.members : writeJob.members[m] \in S
  <2>. HIDE DEF S
  <2>. QED
    BY <1>1, EmptySeq, LenProperties
<1>. QED
  BY <1>1, <1>2 DEF Everyone, Rar50, Volumes

LEMMA CellFacts ==
  /\ \A s \in Seq(Bytes) : s \in Seq(Cells)
  /\ Table \in Cells /\ Padding \in Cells
<1>1. Bytes \subseteq Cells
  BY DEF Cells
<1>. QED
  BY <1>1, SeqMonotonic DEF Cells

LEMMA SealedFacts ==
  ASSUME WritingAssumption, writeJob \in WriteJobs, NEW m \in Everyone, NEW data \in Seq(Cells)
  PROVE  /\ Sealed(m, data) \in Seq(Cells)
         /\ Len(Sealed(m, data)) >= Len(data)
         /\ \A i \in 1 .. Len(data) : Sealed(m, data)[i] = data[i]
         /\ ~writeJob.members[m].encrypted => Sealed(m, data) = data
<1>. DEFINE k == SealedLength(m, Len(data)) - Len(data)
            n == IF k > 0 THEN k ELSE 0
            pad == [i \in 1 .. k |-> Padding]
<1>1. Len(data) \in Nat
  BY LenProperties
<1>2. k \in Int
  BY <1>1 DEF SealedLength, WritingAssumption
<1>3. n \in Nat /\ 1 .. k = 1 .. n
  <2>. HIDE DEF k
  <2>. QED
    BY <1>2
<1>4. pad \in [1 .. n -> Cells]
  <2>. HIDE DEF n, k
  <2>. QED
    BY <1>3, CellFacts
<1>5. pad \in Seq(Cells)
  <2>. HIDE DEF n, pad
  <2>1. [1 .. n -> Cells] \in {[1 .. l -> Cells] : l \in Nat}
    BY <1>3
  <2>. QED
    BY <1>4, <2>1, SeqDef
<1>6. Sealed(m, data) = data \o pad
  BY DEF Sealed
<1>7. ~writeJob.members[m].encrypted => pad = <<>>
  <2>. SUFFICES ASSUME ~writeJob.members[m].encrypted PROVE pad = <<>>
    OBVIOUS
  <2>1. k = 0
    BY <1>1 DEF SealedLength
  <2>2. 1 .. k = {}
    <3>. HIDE DEF k
    <3>. QED
      BY <2>1
  <2>3. DOMAIN pad = {}
    BY <2>2
  <2>4. Len(pad) = 0
    <3>. HIDE DEF pad
    <3>1. Len(pad) \in Nat /\ DOMAIN pad = 1 .. Len(pad)
      BY <1>5, LenProperties
    <3>. QED
      BY <2>3, <3>1
  <2>. HIDE DEF pad
  <2>. QED
    BY <1>5, <2>4, EmptySeq
<1>. HIDE DEF pad
<1>8. /\ data \o pad \in Seq(Cells) /\ Len(data \o pad) = Len(data) + Len(pad)
      /\ \A i \in 1 .. Len(data) + Len(pad) :
           (data \o pad)[i] = IF i <= Len(data) THEN data[i] ELSE pad[i - Len(data)]
  BY <1>5, ConcatProperties
<1>9. Len(pad) \in Nat
  BY <1>5, LenProperties
<1>10. \A i \in 1 .. Len(data) : (data \o pad)[i] = data[i]
  BY <1>1, <1>8, <1>9
<1>11. pad = <<>> => data \o pad = data
  BY ConcatEmptySeq
<1>. QED
  BY <1>1, <1>6, <1>7, <1>8, <1>9, <1>10, <1>11

\* The next part of the member at hand is what is left of it, or what the open
\* volume has room for.
LEMMA FragmentFacts ==
  ASSUME WritingAssumption, WritingTypeOK, Position, Volumes => Body <= MaxPayload
  PROVE  /\ PayloadLength \in Nat /\ Body \in Nat /\ FragmentLength \in Nat
         /\ start <= PayloadLength
         /\ FragmentLength <= PayloadLength - start
         /\ ~SplitAfter => start + FragmentLength = PayloadLength
         /\ SplitAfter => /\ start + FragmentLength < PayloadLength
                          /\ Volumes /\ Body + FragmentLength = MaxPayload
         /\ Volumes => Body + FragmentLength <= MaxPayload
         /\ SplitAfter /\ ~Full => FragmentLength > 0
<1>1. PayloadLength \in Nat
  BY LenProperties DEF PayloadLength, WritingTypeOK
<1>2. Body \in Nat /\ MaxPayload \in Nat \ {0}
  BY DEF Body, WritingTypeOK, WritingAssumption
<1>3. start \in Nat /\ start <= PayloadLength
  BY <1>1 DEF Position, WritingTypeOK
<1>4. FragmentLength = LET room == IF ~Volumes THEN PayloadLength ELSE MaxPayload - Body
                       IN IF room < PayloadLength - start THEN room ELSE PayloadLength - start
  BY DEF FragmentLength, Body
<1>5. SplitAfter <=> start + FragmentLength < PayloadLength
  BY DEF SplitAfter
<1>6. ~Full /\ Volumes => Body # MaxPayload
  BY <1>2 DEF Full, Body
<1>. QED
  BY <1>1, <1>2, <1>3, <1>4, <1>5, <1>6

-----------------------------------------------------------------------------
(* Types. *)

LEMMA RefuseType ==
  ASSUME WritingAssumption, WritingTypeOK, Refuse
  PROVE  WritingTypeOK' /\ writeStage' = "refused"
<1>1. writeJob' = writeJob /\ Everyone' = Everyone /\ Parts' = Parts
  <2>1. writeJob' = writeJob
    BY DEF Refuse
  <2>. QED
    BY <2>1 DEF Everyone, Parts
<1>2. 1 \in Everyone
  <2>1. writeJob \in WriteJobs
    BY DEF WritingTypeOK
  <2>2. Everyone = 1 .. Len(writeJob.members) /\ Len(writeJob.members) \in Nat \ {0}
    BY <2>1, JobFacts
  <2>. QED
    BY <2>2
<1>3. <<>> \in Seq(Bytes) /\ <<>> \in Seq(Cells)
  BY EmptySeq
<1>4. Unasked \in [Everyone -> Nat] /\ Nothing \in [Everyone -> {NoData}]
  BY DEF Unasked, Nothing
<1>5. "refused" \in WritingStages
  BY DEF WritingStages, Over
<1>. QED
  BY <1>1, <1>2, <1>3, <1>4, <1>5 DEF Refuse, WritingTypeOK, sourceVars

LEMMA EachThenType ==
  ASSUME WritingAssumption, WritingTypeOK, NEW following \in WritingStages, EachThen(following)
  PROVE  member' \in Everyone /\ writeStage' \in WritingStages
<1>1. Everyone = 1 .. Len(writeJob.members) /\ Len(writeJob.members) \in Nat \ {0}
  BY JobFacts DEF WritingTypeOK
<1>2. member \in Everyone /\ writeStage \in WritingStages
  BY DEF WritingTypeOK
<1>3. CASE member < Len(writeJob.members)
  <2>1. member' = member + 1 /\ writeStage' = writeStage
    BY <1>3 DEF EachThen
  <2>. QED
    BY <1>1, <1>2, <1>3, <2>1
<1>4. CASE ~(member < Len(writeJob.members))
  <2>1. member' = 1 /\ writeStage' = following
    BY <1>4 DEF EachThen
  <2>. QED
    BY <1>1, <2>1
<1>. QED
  BY <1>3, <1>4

LEMMA EmitType ==
  ASSUME WritingAssumption, WritingTypeOK, NEW data \in Seq(Cells),
         NEW checksum \in Seq(Cells) \cup {NoData}, Emit(data, checksum), FragmentLength \in Nat
  PROVE  WritingTypeOK'
<1>. DEFINE e == [of |-> member, volume |-> Len(ends) + 1, before |-> start > 0, after |-> SplitAfter,
                  size |-> expected[member], checksum |-> checksum, data |-> data]
<1>1. writeJob' = writeJob /\ Everyone' = Everyone /\ Parts' = Parts
  <2>1. writeJob' = writeJob
    BY DEF Emit
  <2>. QED
    BY <2>1 DEF Everyone, Parts
<1>2. Everyone = 1 .. Len(writeJob.members) /\ Len(writeJob.members) \in Nat \ {0}
  BY JobFacts DEF WritingTypeOK
<1>3. <<>> \in Seq(Bytes) /\ <<>> \in Seq(Cells) /\ Len(ends) \in Nat /\ Len(data) \in Nat
  BY EmptySeq, LenProperties DEF WritingTypeOK
<1>4. e \in Parts
  <2>1. SplitAfter \in BOOLEAN /\ (start > 0) \in BOOLEAN
    BY DEF SplitAfter
  <2>2. expected[member] \in Nat /\ member \in Everyone
    BY DEF WritingTypeOK
  <2>. QED
    BY <1>3, <2>1, <2>2 DEF Parts
<1>. HIDE DEF e
<1>5. entries' = Append(entries, e) /\ entries' \in Seq(Parts)
  <2>1. entries' = Append(entries, e)
    BY DEF Emit, e
  <2>. QED
    BY <1>4, <2>1, AppendProperties DEF WritingTypeOK
<1>6. member' \in Everyone /\ writeStage' \in WritingStages
  <2>1. /\ member' = IF ~SplitAfter /\ member # Len(writeJob.members) THEN member + 1 ELSE member
        /\ writeStage' \in {"cut", "finish", "measure"}
    BY DEF Emit
  <2>2. member \in Everyone
    BY DEF WritingTypeOK
  <2>. QED
    BY <1>2, <2>1, <2>2 DEF WritingStages
<1>7. start' \in Nat /\ emitted' \in Seq(Cells)
  <2>1. emitted \o data \in Seq(Cells)
    BY ConcatProperties DEF WritingTypeOK
  <2>2. start' \in {0, start + FragmentLength} /\ emitted' \in {<<>>, emitted \o data}
    BY DEF Emit
  <2>3. start \in Nat
    BY DEF WritingTypeOK
  <2>4. start' \in Nat
    BY <2>2, <2>3
  <2>5. <<>> \in Seq(Cells)
    BY EmptySeq
  <2>6. emitted' \in Seq(Cells)
    BY <2>1, <2>2, <2>5
  <2>. QED
    BY <2>4, <2>6
<1>8. body' \in Nat
  <2>1. body' = (IF body = NoData THEN 0 ELSE body) + Len(data) /\ body \in Nat \cup {NoData}
    BY DEF Emit, WritingTypeOK
  <2>. QED
    BY <1>3, <2>1
<1>9. seen' = <<>> /\ fragment' = NoData /\ UNCHANGED <<content, revisions, expected, integrity, kept, ends>>
  BY DEF Emit, sourceVars, knownVars
<1>. QED
  BY <1>1, <1>3, <1>5, <1>6, <1>7, <1>8, <1>9 DEF WritingTypeOK

LEMMA HeldFacts ==
  ASSUME WritingAssumption, WritingTypeOK, NEW data \in Seq(Bytes)
  PROVE  /\ Held(data) \in Seq(Cells) \cup {NoData}
         /\ Packed(member) => Held(data) = Sealed(member, <<Table>> \o data)
         /\ ~Packed(member) => Held(data) \in {NoData, Sealed(member, data)}
<1>1. member \in Everyone /\ writeJob \in WriteJobs
  BY DEF WritingTypeOK
<1>2. data \in Seq(Cells) /\ <<Table>> \in Seq(Cells)
  BY CellFacts
<1>3. <<Table>> \o data \in Seq(Cells)
  BY <1>2, ConcatProperties
<1>4. Sealed(member, data) \in Seq(Cells) /\ Sealed(member, <<Table>> \o data) \in Seq(Cells)
  BY <1>1, <1>2, <1>3, SealedFacts
<1>5. ~Rar50 => Sealed(member, data) = data
  <2>1. ~Rar50 => ~writeJob.members[member].encrypted
    BY <1>1, JobFacts
  <2>2. ~writeJob.members[member].encrypted => Sealed(member, data) = data
    BY <1>1, <1>2, SealedFacts, ZenonT(60)
  <2>. QED
    BY <2>1, <2>2
<1>. QED
  BY <1>4, <1>5 DEF Held

\* The part that Cut begins is not in memory: its source is read.
OpenCopy ==
  /\ writeStage = "cut" /\ ~Full /\ kept[member] = NoData
  /\ writeStage' = IF SplitAfter THEN "checksum" ELSE "copy"
  /\ body' = Body
  /\ UNCHANGED <<writeJob, member, sourceVars, knownVars, passVars, entries, ends>>

\* The steps that write no part and refuse nothing.
Quiet ==
  \/ Measure \/ ReadByte \/ EndIntegrity \/ Prepare \/ EndEncrypt \/ FinishVolume
  \/ OpenCopy \/ EndChecksum \/ Finish \/ (\E m \in Everyone : Revise(m))
  \/ UNCHANGED writingVars

LEMMA QuietTypes ==
  ASSUME WritingAssumption, WritingTypeOK, Quiet
  PROVE  WritingTypeOK'
<1>1. writeJob' = writeJob
  BY DEF Quiet, Measure, ReadByte, EndIntegrity, Prepare, EndEncrypt, FinishVolume, OpenCopy,
         EndChecksum, Finish, Revise, writingVars
<1>2. Everyone' = Everyone /\ Parts' = Parts
  BY <1>1 DEF Everyone, Parts
<1>3. /\ member \in Everyone /\ writeJob \in WriteJobs
      /\ {"integrity", "prepare", "encrypt", "cut", "checksum", "copy", "written"} \subseteq WritingStages
  BY DEF WritingTypeOK, WritingStages, Over
<1>4. Everyone = 1 .. Len(writeJob.members) /\ Len(writeJob.members) \in Nat \ {0}
  BY <1>3, JobFacts
<1>5. <<>> \in Seq(Bytes)
  BY EmptySeq
<1>6. CASE Measure
  <2>1. member' \in Everyone /\ writeStage' \in WritingStages
    BY <1>3, <1>6, EachThenType DEF Measure, WritingTypeOK
  <2>2. expected' \in [Everyone -> Nat]
    <3>1. Len(content[member]) \in Nat
      BY <1>3, LenProperties DEF WritingTypeOK
    <3>. QED
      BY <1>6, <3>1 DEF Measure, Source, WritingTypeOK
  <2>. QED
    BY <1>1, <1>2, <1>6, <2>1, <2>2
    DEF Measure, WritingTypeOK, sourceVars, passVars, setVars
<1>7. CASE ReadByte
  <2>1. seen' \in Seq(Bytes)
    <3>1. start + Len(seen) + 1 \in 1 .. Len(content[member])
      BY <1>3, <1>7, LenProperties DEF ReadByte, Source, WritingTypeOK
    <3>2. content[member][start + Len(seen) + 1] \in Bytes
      BY <1>3, <3>1, ElementOfSeq DEF WritingTypeOK
    <3>. QED
      BY <1>7, <3>2, AppendProperties DEF ReadByte, Source, WritingTypeOK
  <2>. QED
    BY <1>1, <1>2, <1>7, <2>1 DEF ReadByte, WritingTypeOK, sourceVars, knownVars, setVars
<1>8. CASE EndIntegrity
  <2>1. member' \in Everyone /\ writeStage' \in WritingStages
    BY <1>3, <1>8, EachThenType DEF EndIntegrity, WritingTypeOK
  <2>2. integrity' \in [Everyone -> Seq(Bytes) \cup {NoData}]
    BY <1>8 DEF EndIntegrity, WritingTypeOK
  <2>3. kept' \in [Everyone -> Seq(Cells) \cup {NoData}]
    <3>1. Held(seen) \in Seq(Cells) \cup {NoData}
      BY HeldFacts DEF WritingTypeOK
    <3>. QED
      BY <1>8, <3>1 DEF EndIntegrity, WritingTypeOK
  <2>. QED
    BY <1>1, <1>2, <1>5, <1>8, <2>1, <2>2, <2>3 DEF EndIntegrity, WritingTypeOK, sourceVars, setVars
<1>9. CASE Prepare
  <2>1. member' \in Everyone /\ writeStage' \in WritingStages
    BY <1>3, <1>9, EachThenType DEF Prepare, WritingTypeOK
  <2>. QED
    BY <1>1, <1>2, <1>9, <2>1 DEF Prepare, WritingTypeOK, sourceVars, knownVars, passVars, setVars
<1>10. CASE EndEncrypt
  <2>1. member' \in Everyone /\ writeStage' \in WritingStages
    BY <1>3, <1>4, <1>10 DEF EndEncrypt
  <2>2. kept' \in [Everyone -> Seq(Cells) \cup {NoData}]
    <3>1. seen \in Seq(Cells)
      BY CellFacts DEF WritingTypeOK
    <3>2. Sealed(member, seen) \in Seq(Cells)
      BY <1>3, <3>1, SealedFacts
    <3>. QED
      BY <1>10, <3>2 DEF EndEncrypt, WritingTypeOK
  <2>. QED
    BY <1>1, <1>2, <1>5, <1>10, <2>1, <2>2 DEF EndEncrypt, WritingTypeOK, sourceVars, setVars
<1>11. CASE FinishVolume
  <2>1. ends' \in Seq(BOOLEAN)
    BY <1>11, AppendProperties DEF FinishVolume, WritingTypeOK
  <2>. QED
    BY <1>1, <1>2, <1>11, <2>1 DEF FinishVolume, WritingTypeOK, sourceVars, knownVars, passVars
<1>12. CASE EndChecksum
  BY <1>1, <1>2, <1>3, <1>5, <1>12
  DEF EndChecksum, WritingTypeOK, sourceVars, knownVars, setVars
<1>13. CASE Finish
  <2>1. ends' \in Seq(BOOLEAN)
    BY <1>13, AppendProperties DEF Finish, WritingTypeOK
  <2>. QED
    BY <1>1, <1>2, <1>3, <1>13, <2>1 DEF Finish, WritingTypeOK, sourceVars, knownVars, passVars
<1>14. CASE \E m \in Everyone : Revise(m)
  <2>1. PICK m \in Everyone : Revise(m)
    BY <1>14
  <2>2. content' \in [Everyone -> Seq(Bytes)]
    BY <2>1 DEF Revise, WritingTypeOK, WritingAssumption
  <2>. QED
    BY <1>1, <1>2, <2>1, <2>2 DEF Revise, WritingTypeOK, knownVars, passVars, setVars
<1>15. CASE UNCHANGED writingVars
  BY <1>1, <1>2, <1>15
  DEF writingVars, WritingTypeOK, sourceVars, knownVars, passVars, setVars
<1>16. CASE OpenCopy
  <2>1. body' \in Nat
    BY <1>16 DEF OpenCopy, Body, WritingTypeOK
  <2>2. writeStage' \in WritingStages
    BY <1>3, <1>16 DEF OpenCopy
  <2>. QED
    BY <1>1, <1>2, <1>16, <2>1, <2>2 DEF OpenCopy, WritingTypeOK, sourceVars, knownVars, passVars
<1>. QED
  BY <1>6, <1>7, <1>8, <1>9, <1>10, <1>11, <1>12, <1>13, <1>14, <1>15, <1>16 DEF Quiet

-----------------------------------------------------------------------------
(* What is known of the members. *)

\* A member that a step leaves alone is known as before.
LEMMA KnownStays ==
  ASSUME writeJob' = writeJob, NEW m, expected'[m] = expected[m], integrity'[m] = integrity[m],
         kept'[m] = kept[m], Known(m)
  PROVE  Known(m)'
<1>1. Packed(m)' <=> Packed(m)
  BY DEF Packed, Rar50
<1>2. Sealed(m, <<Table>> \o integrity[m])' = Sealed(m, <<Table>> \o integrity[m])
  BY DEF Sealed, SealedLength
<1>3. Sealed(m, integrity[m])' = Sealed(m, integrity[m])
  BY DEF Sealed, SealedLength
<1>. QED
  BY <1>1, <1>2, <1>3 DEF Known

LEMMA KnowledgeStep ==
  ASSUME WritingAssumption, WritingTypeOK, Knowledge, Position, Quiet
  PROVE  Knowledge'
<1>1. writeJob' = writeJob
  BY DEF Quiet, Measure, ReadByte, EndIntegrity, Prepare, EndEncrypt, FinishVolume, OpenCopy,
         EndChecksum, Finish, Revise, writingVars
<1>2. Everyone' = Everyone /\ Rar50' = Rar50 /\ Volumes' = Volumes
  BY <1>1 DEF Everyone, Rar50, Volumes
<1>3. member \in Everyone /\ writeJob \in WriteJobs
  BY DEF WritingTypeOK
<1>4. /\ Everyone = 1 .. Len(writeJob.members) /\ Len(writeJob.members) \in Nat \ {0}
      /\ Rar50 \in BOOLEAN
      /\ \A m \in Everyone : ~Rar50 => ~writeJob.members[m].encrypted
  BY <1>3, JobFacts
<1>. SUFFICES ASSUME NEW m \in Everyone
              PROVE  /\ ~Unread(m)' => Known(m)'
                     /\ (Volumes /\ writeJob.members[m].encrypted /\ Spooled(m))' => kept'[m] # NoData
  BY <1>2 DEF Knowledge
<1>5. /\ ~Unread(m) => Known(m)
      /\ Volumes /\ writeJob.members[m].encrypted /\ Spooled(m) => kept[m] # NoData
  BY DEF Knowledge
<1>6. CASE Measure
  <2>1. ~Spooled(m)'
    BY <1>6 DEF Measure, EachThen, Spooled, Finished, Cutting
  <2>2. ~Unread(m)' => ~Unread(m) /\ m # member
    <3>1. \/ writeStage' = "measure" /\ Rar50
          \/ writeStage' = "integrity" /\ member' = 1
          \/ writeStage' = "integrity" /\ ~Rar50 /\ member' = member
      BY <1>4, <1>6 DEF Measure, EachThen
    <3>2. writeStage = "measure"
      BY <1>6 DEF Measure
    <3>. QED
      BY <1>2, <1>3, <1>4, <3>1, <3>2 DEF Unread
  <2>3. m # member => expected'[m] = expected[m]
    BY <1>6 DEF Measure, WritingTypeOK
  <2>4. integrity' = integrity /\ kept' = kept
    BY <1>6 DEF Measure
  <2>. QED
    BY <1>1, <1>5, <2>1, <2>2, <2>3, <2>4, KnownStays
<1>7. CASE EndIntegrity
  <2>1. /\ writeStage = "integrity" /\ Len(seen) = expected[member]
        /\ integrity' = [integrity EXCEPT ![member] = seen]
        /\ kept' = [kept EXCEPT ![member] = Held(seen)]
        /\ expected' = expected
    BY <1>7 DEF EndIntegrity, PassEnds, Goal, Whole
  <2>2. \/ Rar50 /\ writeStage' = "integrity" /\ member' = member + 1
        \/ Rar50 /\ writeStage' = "prepare" /\ member = Len(writeJob.members) /\ member' = 1
        \/ ~Rar50 /\ writeStage' = "cut" /\ member' = member
    BY <1>3, <1>4, <1>7, <2>1 DEF EndIntegrity, EachThen
  <2>3. ~Unread(m)' /\ m # member => ~Unread(m)
    BY <1>2, <1>3, <1>4, <2>1, <2>2 DEF Unread
  <2>4. m # member => integrity'[m] = integrity[m] /\ kept'[m] = kept[m]
    BY <2>1 DEF WritingTypeOK
  <2>5. m = member => Known(m)'
    <3>. SUFFICES ASSUME m = member PROVE Known(m)'
      OBVIOUS
    <3>1. integrity'[m] = seen /\ kept'[m] = Held(seen) /\ seen \in Seq(Bytes)
      BY <1>3, <2>1 DEF WritingTypeOK
    <3>2. Packed(m)' = Packed(m)
      BY <1>1, <2>1 DEF Packed, Rar50
    <3>3. /\ Sealed(m, <<Table>> \o integrity[m])' = Sealed(m, <<Table>> \o seen)
          /\ Sealed(m, integrity[m])' = Sealed(m, seen)
      BY <1>1, <3>1 DEF Sealed, SealedLength
    <3>4. /\ Packed(m) => Held(seen) = Sealed(m, <<Table>> \o seen)
          /\ ~Packed(m) => Held(seen) \in {NoData, Sealed(m, seen)}
      BY <3>1, HeldFacts
    <3>. QED
      BY <2>1, <3>1, <3>2, <3>3, <3>4 DEF Known
  <2>6. (Volumes /\ writeJob.members[m].encrypted /\ Spooled(m))' => FALSE
    BY <1>1, <1>2, <1>3, <1>4, <2>2 DEF Spooled, Finished, Cutting
  <2>. QED
    BY <1>1, <1>5, <2>1, <2>3, <2>4, <2>5, <2>6, KnownStays
<1>8. CASE Prepare
  <2>1. Rar50 /\ writeStage = "prepare"
    BY <1>8 DEF Prepare, Position
  <2>2. ~Unread(m)
    BY <2>1 DEF Unread
  <2>3. expected' = expected /\ integrity' = integrity /\ kept' = kept
    BY <1>8 DEF Prepare, knownVars
  <2>. DEFINE Ready == Volumes /\ AtHand.encrypted => kept[member] # NoData
  <2>4. Spooled(m)' => Spooled(m) \/ (m = member /\ Ready)
    <3>1. \/ writeStage' = "encrypt" /\ member' = member
          \/ Ready /\ member < Len(writeJob.members) /\ member' = member + 1 /\ writeStage' = "prepare"
          \/ Ready /\ member = Len(writeJob.members) /\ writeStage' = "cut"
      BY <1>3, <1>4, <1>8, <2>1 DEF Prepare, EachThen
    <3>. HIDE DEF Ready
    <3>. QED
      BY <1>3, <1>4, <2>1, <3>1 DEF Spooled, Finished, Cutting
  <2>. QED
    BY <1>1, <1>2, <1>5, <2>2, <2>3, <2>4, KnownStays DEF AtHand
<1>9. CASE EndEncrypt
  <2>1. /\ Rar50 /\ writeStage = "encrypt" /\ kept[member] = NoData /\ seen = integrity[member]
        /\ kept' = [kept EXCEPT ![member] = Sealed(member, seen)]
        /\ expected' = expected /\ integrity' = integrity
    BY <1>9 DEF EndEncrypt, PassEnds, Verified, Position
  <2>2. ~Unread(m)
    BY <2>1 DEF Unread
  <2>3. Sealed(member, seen) \in Seq(Cells) /\ Sealed(member, <<Table>> \o seen) \in Seq(Cells)
    <3>1. seen \in Seq(Cells) /\ <<Table>> \in Seq(Cells)
      BY CellFacts DEF WritingTypeOK
    <3>. QED
      BY <1>3, <3>1, ConcatProperties, SealedFacts
  <2>4. NoData \notin Seq(Cells)
    BY DEF WritingAssumption
  <2>5. kept'[member] = Sealed(member, seen) /\ (m # member => kept'[m] = kept[m])
    BY <1>3, <2>1 DEF WritingTypeOK
  <2>6. m = member => Known(m)'
    <3>. SUFFICES ASSUME m = member PROVE Known(m)'
      OBVIOUS
    <3>1. Known(m)
      BY <1>5, <2>2
    <3>2. ~Packed(m)
      BY <2>1, <2>3, <2>4, <3>1 DEF Known
    <3>3. Packed(m)' = Packed(m) /\ Sealed(m, integrity[m])' = Sealed(m, integrity[m])
      BY <1>1, <2>1 DEF Packed, Rar50, Sealed, SealedLength
    <3>. QED
      BY <2>1, <2>5, <3>1, <3>2, <3>3 DEF Known
  <2>7. Spooled(m)' => Spooled(m) \/ m = member
    <3>1. \/ member < Len(writeJob.members) /\ member' = member + 1 /\ writeStage' = "prepare"
          \/ member = Len(writeJob.members) /\ writeStage' = "cut"
      BY <1>3, <1>4, <1>9 DEF EndEncrypt
    <3>. QED
      BY <1>3, <1>4, <2>1, <3>1 DEF Spooled, Finished, Cutting
  <2>. QED
    BY <1>1, <1>2, <1>5, <2>1, <2>2, <2>3, <2>4, <2>5, <2>6, <2>7, KnownStays
<1>10. CASE ReadByte \/ FinishVolume \/ OpenCopy \/ EndChecksum \/ Finish
            \/ (\E i \in Everyone : Revise(i)) \/ UNCHANGED writingVars
  <2>1. member' = member /\ expected' = expected /\ integrity' = integrity /\ kept' = kept
    BY <1>10 DEF ReadByte, FinishVolume, OpenCopy, EndChecksum, Finish, Revise, writingVars, knownVars
  <2>2. \/ writeStage' = writeStage
        \/ (Cutting \/ Finished) /\ (Cutting \/ Finished)'
    BY <1>10 DEF ReadByte, FinishVolume, OpenCopy, EndChecksum, Finish, Revise, writingVars,
                 PassEnds, Cutting, Finished
  <2>3. Unread(m)' = Unread(m) /\ Spooled(m)' = Spooled(m)
    BY <1>2, <2>1, <2>2 DEF Unread, Spooled, Cutting, Finished
  <2>. QED
    BY <1>1, <1>2, <1>5, <2>1, <2>3, KnownStays
<1>. QED
  BY <1>6, <1>7, <1>8, <1>9, <1>10 DEF Quiet

-----------------------------------------------------------------------------
(* Where the member at hand stands. *)

LEMMA FragmentStays ==
  ASSUME writeJob' = writeJob, member' = member, kept' = kept, expected' = expected,
         start' = start, Body' = Body
  PROVE  /\ PayloadLength' = PayloadLength /\ FragmentLength' = FragmentLength
         /\ SplitAfter' = SplitAfter
<1>1. PayloadLength' = PayloadLength
  BY DEF PayloadLength
<1>2. FragmentLength' = FragmentLength
  BY <1>1 DEF FragmentLength, Body, Volumes
<1>. QED
  BY <1>1, <1>2 DEF SplitAfter

LEMMA PositionStep ==
  ASSUME WritingAssumption, WritingTypeOK, Position, Quiet
  PROVE  Position'
<1>. USE DEF Cutting, Finished
<1>1. writeJob' = writeJob /\ start' = start /\ emitted' = emitted
  BY DEF Quiet, Measure, ReadByte, EndIntegrity, Prepare, EndEncrypt, FinishVolume, OpenCopy,
         EndChecksum, Finish, Revise, writingVars, passVars
<1>2. Rar50' = Rar50 /\ Volumes' = Volumes /\ Len(emitted) = start
  BY <1>1 DEF Rar50, Volumes, Position
<1>3. member \in Everyone /\ start \in Nat /\ NoData \notin Seq(Bytes) /\ MaxPayload # 0 /\ NoData \notin Nat
  BY CellFacts DEF WritingTypeOK, WritingAssumption
<1>4. CASE Measure \/ EndIntegrity \/ Prepare \/ EndEncrypt
  <2>1. /\ ~Cutting /\ ~Finished /\ start = 0 /\ emitted = <<>> /\ fragment' = NoData
        /\ writeStage' \in {"measure", "integrity", "prepare", "encrypt", "cut"}
    BY <1>4 DEF Measure, EndIntegrity, Prepare, EndEncrypt, EachThen, PassEnds, passVars, Position
  <2>2. \/ writeStage' \in {"measure", "integrity", "cut"}
        \/ writeStage' = "prepare" /\ Rar50
        \/ writeStage' = "encrypt" /\ Rar50 /\ kept'[member'] = NoData
    <3>1. Measure => writeStage' \in {"measure", "integrity"}
      BY DEF Measure, EachThen
    <3>2. EndIntegrity => writeStage' \in {"integrity", "cut"} \/ (writeStage' = "prepare" /\ Rar50)
      BY DEF EndIntegrity, PassEnds, EachThen
    <3>3. Prepare => /\ Rar50
                     /\ \/ writeStage' \in {"prepare", "cut"}
                        \/ writeStage' = "encrypt" /\ kept'[member'] = NoData
      BY DEF Prepare, EachThen, knownVars, Position
    <3>4. EndEncrypt => Rar50 /\ writeStage' \in {"prepare", "cut"}
      BY DEF EndEncrypt, PassEnds, Position
    <3>. QED
      BY <1>4, <3>1, <3>2, <3>3, <3>4
  <2>4. emitted \in Seq(Bytes) /\ \A s : SubSeq(s, 1, 0) = <<>>
    BY <2>1, EmptySeq, SubSeqEmpty
  <2>. QED
    BY <1>1, <1>2, <1>3, <2>1, <2>2, <2>4 DEF Position
<1>5. CASE ReadByte \/ (\E m \in Everyone : Revise(m)) \/ UNCHANGED writingVars
  <2>1. UNCHANGED <<writeStage, member, kept, expected, body, fragment>>
    BY <1>5 DEF ReadByte, Revise, writingVars, knownVars, setVars, passVars
  <2>2. Body' = Body /\ Full' = Full
    BY <1>2, <2>1 DEF Body, Full
  <2>3. PayloadLength' = PayloadLength /\ SplitAfter' = SplitAfter
    BY <1>1, <2>1, <2>2, FragmentStays
  <2>. QED
    BY <1>1, <1>2, <2>1, <2>2, <2>3 DEF Position
<1>6. CASE FinishVolume
  <2>1. writeStage = "cut" /\ UNCHANGED <<writeStage, member, kept, expected, fragment>>
    BY <1>6 DEF FinishVolume, knownVars, passVars
  <2>2. PayloadLength' = PayloadLength
    BY <1>1, <2>1 DEF PayloadLength
  <2>. QED
    BY <1>1, <1>2, <2>1, <2>2 DEF Position
<1>7. CASE OpenCopy
  <2>1. /\ writeStage = "cut" /\ kept[member] = NoData /\ ~Full
        /\ writeStage' = IF SplitAfter THEN "checksum" ELSE "copy"
        /\ body' = Body /\ UNCHANGED <<member, kept, expected, fragment>>
    BY <1>7 DEF OpenCopy, knownVars, passVars
  <2>2. body' # NoData /\ Body' = Body /\ ~Full'
    BY <1>2, <1>3, <2>1 DEF Body, Full, WritingTypeOK
  <2>3. PayloadLength' = PayloadLength /\ SplitAfter' = SplitAfter
    BY <1>1, <2>1, <2>2, FragmentStays
  <2>. QED
    BY <1>1, <1>2, <2>1, <2>2, <2>3 DEF Position
<1>8. CASE EndChecksum
  <2>1. /\ writeStage = "checksum" /\ writeStage' = "copy" /\ fragment' = seen
        /\ UNCHANGED <<member, kept, expected, body>>
    BY <1>8 DEF EndChecksum, PassEnds, knownVars, setVars
  <2>2. Body' = Body /\ Full' = Full /\ fragment' # NoData
    BY <1>2, <1>3, <2>1 DEF Body, Full, WritingTypeOK
  <2>3. PayloadLength' = PayloadLength /\ SplitAfter' = SplitAfter
    BY <1>1, <2>1, <2>2, FragmentStays
  <2>. QED
    BY <1>1, <1>2, <2>1, <2>2, <2>3 DEF Position
<1>9. CASE Finish
  <2>1. /\ writeStage = "finish" /\ writeStage' = "written"
        /\ UNCHANGED <<member, kept, expected, fragment>>
    BY <1>9 DEF Finish, knownVars, passVars
  <2>2. PayloadLength' = PayloadLength
    BY <1>1, <2>1 DEF PayloadLength
  <2>. QED
    BY <1>1, <1>2, <2>1, <2>2 DEF Position
<1>. QED
  BY <1>4, <1>5, <1>6, <1>7, <1>8, <1>9 DEF Quiet

-----------------------------------------------------------------------------
(* The parts that are written, and their volumes. *)

LEMMA EntryFacts ==
  ASSUME WritingTypeOK
  PROVE  /\ Len(entries) \in Nat /\ DOMAIN entries = 1 .. Len(entries)
         /\ entries # <<>> <=> Len(entries) > 0
         /\ \A n \in DOMAIN entries : entries[n] \in Parts /\ Len(entries[n].data) \in Nat
         /\ Len(ends) \in Nat /\ DOMAIN ends = 1 .. Len(ends)
<1>1. entries \in Seq(Parts) /\ ends \in Seq(BOOLEAN)
  BY DEF WritingTypeOK
<1>2. /\ Len(entries) \in Nat /\ DOMAIN entries = 1 .. Len(entries)
      /\ entries # <<>> <=> Len(entries) > 0
      /\ Len(ends) \in Nat /\ DOMAIN ends = 1 .. Len(ends)
  BY <1>1, LenProperties, EmptySeq
<1>3. ASSUME NEW n \in DOMAIN entries
      PROVE  entries[n] \in Parts /\ Len(entries[n].data) \in Nat
  <2>1. entries[n] \in Parts
    BY <1>1, <1>2, ElementOfSeq
  <2>2. entries[n].data \in Seq(Cells)
    BY <2>1 DEF Parts
  <2>. QED
    BY <2>1, <2>2, LenProperties
<1>. QED
  BY <1>2, <1>3

\* A step that leaves the parts, their members and the place that is reached
\* alone leaves what holds of the parts.
LEMMA PartsStay ==
  ASSUME WritingAssumption, WritingTypeOK, NEW at, PartsOK(at),
         writeJob' = writeJob, entries' = entries,
         entries # <<>> =>
           /\ member' = member /\ Finished' = Finished /\ start' = start /\ emitted' = emitted
           /\ \A n \in DOMAIN entries : LET m == entries[n].of IN
                expected'[m] = expected[m] /\ integrity'[m] = integrity[m] /\ kept'[m] = kept[m],
         entries = <<>> => start' = 0 /\ ~Finished' /\ (Cutting' \/ ~Rar50 => member' = 1),
         Rar50 /\ ~Cutting' /\ ~Finished' => entries = <<>>
  PROVE  PartsOK(at)'
<1>1. Rar50' = Rar50
  BY DEF Rar50
<1>2. ASSUME NEW n \in DOMAIN entries PROVE PartOK(at, n)'
  <2>1. entries # <<>>
    BY EntryFacts
  <2>2. Done(entries[n].of)' = Done(entries[n].of)
    BY <2>1 DEF Done
  <2>3. Payload(entries[n].of)' = Payload(entries[n].of)
    BY <2>1 DEF Payload, Sealed, SealedLength
  <2>4. Written(entries[n].of)' = Written(entries[n].of)
    BY <2>1, <2>2, <2>3 DEF Written
  <2>5. PartOK(at, n)
    BY DEF PartsOK
  <2>. QED
    BY <2>1, <2>2, <2>4, <2>5 DEF PartOK
<1>3. ASSUME NEW n \in DOMAIN entries, n > 1 PROVE PartFollows(at, n)'
  BY <1>3 DEF PartsOK, PartFollows
<1>4. entries # <<>> => PartNext(at, Len(entries))'
  BY DEF PartsOK, PartNext
<1>. QED
  BY <1>1, <1>2, <1>3, <1>4 DEF PartsOK

LEMMA PartsStep ==
  ASSUME WritingAssumption, WritingTypeOK, Position, Quiet, NEW at \in Places, PartsOK(at)
  PROVE  PartsOK(at)'
<1>. USE DEF Cutting, Finished
<1>1. /\ writeJob' = writeJob /\ start' = start /\ emitted' = emitted /\ entries' = entries
      /\ Rar50' = Rar50
  BY DEF Quiet, Measure, ReadByte, EndIntegrity, Prepare, EndEncrypt, FinishVolume, OpenCopy,
         EndChecksum, Finish, Revise, writingVars, passVars, setVars, Rar50
<1>2. member \in 1 .. Len(writeJob.members) /\ Len(writeJob.members) \in Nat \ {0} /\ Rar50 \in BOOLEAN
  BY JobFacts DEF WritingTypeOK
<1>3. CASE Measure \/ EndIntegrity \/ Prepare \/ EndEncrypt
  <2>1. ~Cutting /\ ~Finished /\ start = 0 /\ ~Finished'
    BY <1>3 DEF Measure, EndIntegrity, Prepare, EndEncrypt, EachThen, PassEnds, Position
  <2>2. Rar50 => entries = <<>>
    BY <2>1 DEF PartsOK
  <2>3. Prepare \/ EndEncrypt => Rar50
    BY DEF Prepare, EndEncrypt, PassEnds, Position
  <2>4. ~Rar50 => /\ member' = member
                  /\ \A m \in Everyone \ {member} :
                       expected'[m] = expected[m] /\ integrity'[m] = integrity[m] /\ kept'[m] = kept[m]
    <3>1. ~Rar50 /\ Measure => /\ member' = member /\ integrity' = integrity /\ kept' = kept
                               /\ expected' = [expected EXCEPT ![member] = Len(Source)]
      BY DEF Measure
    <3>2. ~Rar50 /\ EndIntegrity => /\ member' = member /\ expected' = expected
                                    /\ integrity' = [integrity EXCEPT ![member] = seen]
                                    /\ kept' = [kept EXCEPT ![member] = Held(seen)]
      BY DEF EndIntegrity
    <3>. QED
      BY <1>3, <2>3, <3>1, <3>2 DEF WritingTypeOK
  <2>5. entries # <<>> => \A n \in DOMAIN entries : entries[n].of \in Everyone \ {member}
    <3>. SUFFICES ASSUME entries # <<>>, NEW n \in DOMAIN entries
                  PROVE  entries[n].of \in Everyone \ {member}
      OBVIOUS
    <3>. DEFINE L == Len(entries)
    <3>1. L \in DOMAIN entries /\ n \in 1 .. L /\ L \in Nat
      BY EntryFacts
    <3>2. at[L] \in Nat /\ entries[L] \in Parts /\ entries[n] \in Parts /\ Len(entries[L].data) \in Nat
      BY <3>1, EntryFacts DEF Places
    <3>3. entries[L].after => Len(entries[L].data) > 0
      <4>1. entries[L].after => entries[L].data # <<>>
        BY <3>1 DEF PartsOK, PartOK
      <4>2. entries[L].data \in Seq(Cells)
        BY <3>2 DEF Parts
      <4>. QED
        BY <4>1, <4>2, EmptySeq
    <3>4. PartNext(at, L)
      BY DEF PartsOK
    <3>5. entries[L].of = member - 1
      BY <2>1, <3>2, <3>3, <3>4 DEF PartNext
    <3>6. entries[n].of <= entries[L].of
      <4>1. n < L => entries[n].of <= entries[L].of
        BY <3>1 DEF PartsOK
      <4>2. n = L \/ n < L
        BY <3>1
      <4>. QED
        BY <1>2, <3>5, <4>1, <4>2
    <3>7. entries[n].of \in Everyone /\ entries[n].of \in Int
      <4>1. Everyone = 1 .. Len(writeJob.members)
        BY JobFacts DEF WritingTypeOK
      <4>. QED
        BY <3>2, <4>1 DEF Parts
    <3>. QED
      BY <1>2, <3>5, <3>6, <3>7
  <2>6. entries = <<>> => (Cutting' \/ ~Rar50 => member' = 1)
    <3>1. entries = <<>> /\ ~Rar50 => member = 1
      BY DEF PartsOK
    <3>2. Rar50 /\ Cutting' => member' = 1
      <4>1. Measure => ~Cutting'
        BY DEF Measure, EachThen
      <4>2. EndIntegrity /\ Rar50 => ~Cutting'
        BY DEF EndIntegrity, PassEnds, EachThen
      <4>3. (Prepare \/ EndEncrypt) /\ Cutting' => member' = 1
        BY DEF Prepare, EndEncrypt, PassEnds, EachThen
      <4>. QED
        BY <1>3, <4>1, <4>2, <4>3
    <3>. QED
      BY <2>4, <3>1, <3>2
  <2>7. entries # <<>> =>
          /\ member' = member
          /\ \A n \in DOMAIN entries : LET m == entries[n].of IN
               expected'[m] = expected[m] /\ integrity'[m] = integrity[m] /\ kept'[m] = kept[m]
    BY <2>2, <2>4, <2>5
  <2>8. Finished' = Finished /\ ~Finished
    BY <2>1
  <2>9. entries = <<>> => start' = 0 /\ (Cutting' \/ ~Rar50 => member' = 1)
    BY <1>1, <2>1, <2>6
  <2>. HIDE DEF Cutting, Finished
  <2>. QED
    BY <1>1, <2>2, <2>7, <2>8, <2>9, PartsStay
<1>4. CASE ReadByte \/ FinishVolume \/ OpenCopy \/ EndChecksum \/ Finish
           \/ (\E i \in Everyone : Revise(i)) \/ UNCHANGED writingVars
  <2>1. member' = member /\ expected' = expected /\ integrity' = integrity /\ kept' = kept
    BY <1>4 DEF ReadByte, FinishVolume, OpenCopy, EndChecksum, Finish, Revise, writingVars, knownVars
  <2>2. writeStage' = writeStage \/ (Cutting /\ Cutting') \/ (Finished /\ Finished')
    BY <1>4 DEF ReadByte, FinishVolume, OpenCopy, EndChecksum, Finish, Revise, writingVars, PassEnds
  <2>3. Finished' = Finished /\ Cutting' = Cutting
    BY <2>2
  <2>4. /\ entries = <<>> => start = 0 /\ ~Finished /\ (Cutting \/ ~Rar50 => member = 1)
        /\ Rar50 /\ ~Cutting /\ ~Finished => entries = <<>>
    BY DEF PartsOK
  <2>. HIDE DEF Cutting, Finished
  <2>. QED
    BY <1>1, <2>1, <2>3, <2>4, PartsStay
<1>. QED
  BY <1>3, <1>4 DEF Quiet

LEMMA VolumesStep ==
  ASSUME WritingAssumption, WritingTypeOK, Quiet, NEW filled \in Places, VolumesOK(filled)
  PROVE  VolumesOK(filled)'
<1>1. writeJob' = writeJob /\ entries' = entries /\ Volumes' = Volumes
  BY DEF Quiet, Measure, ReadByte, EndIntegrity, Prepare, EndEncrypt, FinishVolume, OpenCopy,
         EndChecksum, Finish, Revise, writingVars, setVars, Volumes
<1>. DEFINE L == Len(entries)
<1>2. /\ L \in Nat /\ DOMAIN entries = 1 .. L /\ (entries # <<>> <=> L > 0)
      /\ \A n \in DOMAIN entries : filled[n] \in Nat /\ Len(entries[n].data) \in Nat
      /\ Len(ends) \in Nat /\ DOMAIN ends = 1 .. Len(ends) /\ ends \in Seq(BOOLEAN)
  BY EntryFacts DEF Places, WritingTypeOK
<1>3. MaxPayload \in Nat \ {0} /\ NoData \notin Nat /\ body \in Nat \cup {NoData}
  BY DEF WritingAssumption, WritingTypeOK
<1>4. \A n \in DOMAIN entries : n > 1 => VolumeFollows(filled, n)'
  BY <1>1 DEF VolumesOK, VolumeFollows
<1>5. ASSUME Measure \/ ReadByte \/ EndIntegrity \/ Prepare \/ EndEncrypt \/ OpenCopy \/ EndChecksum
             \/ (\E m \in Everyone : Revise(m)) \/ UNCHANGED writingVars
      PROVE  VolumesOK(filled)'
  <2>1. ends' = ends
    BY <1>5 DEF Measure, ReadByte, EndIntegrity, Prepare, EndEncrypt, OpenCopy, EndChecksum, Revise,
                writingVars, setVars
  <2>2. body' = body \/ body' = Body
    BY <1>5 DEF Measure, ReadByte, EndIntegrity, Prepare, EndEncrypt, OpenCopy, EndChecksum, Revise,
                writingVars, setVars
  <2>3. Body' = Body /\ (body \in Nat => body' = body)
    BY <1>3, <2>2 DEF Body
  <2>4. /\ writeStage' = "written" <=> writeStage = "written"
        /\ writeStage' = "finish" => writeStage = "finish"
    BY <1>5 DEF Measure, ReadByte, EndIntegrity, Prepare, EndEncrypt, OpenCopy, EndChecksum, Revise,
                writingVars, EachThen, Passing, Whole, PassEnds, Over
  <2>5. \A n \in DOMAIN entries : InVolume(filled, n)'
    BY <1>1, <2>1 DEF VolumesOK, InVolume
  <2>6. entries # <<>> => VolumeNext(filled, L)'
    <3>. SUFFICES ASSUME entries # <<>> PROVE VolumeNext(filled, L)'
      OBVIOUS
    <3>1. VolumeNext(filled, L) /\ filled[L] + Len(entries[L].data) \in Nat
      <4>1. L \in DOMAIN entries
        BY <1>2
      <4>2. filled[L] \in Nat /\ Len(entries[L].data) \in Nat
        BY <1>2, <4>1
      <4>. QED
        BY <4>2 DEF VolumesOK
    <3>2. body \in Nat => Full' = Full
      BY <1>1, <2>3 DEF Full
    <3>. QED
      BY <1>1, <2>1, <2>3, <2>4, <3>1, <3>2 DEF VolumeNext
  <2>. QED
    BY <1>1, <1>4, <2>1, <2>3, <2>4, <2>5, <2>6 DEF VolumesOK, Finished
<1>6. ASSUME FinishVolume \/ Finish
      PROVE  VolumesOK(filled)'
  <2>. DEFINE last == writeStage = "finish"
  <2>1. /\ ends' = Append(ends, ~last) /\ body' = NoData
        /\ writeStage' = IF last THEN "written" ELSE "cut"
        /\ ~last => writeStage = "cut" /\ Volumes /\ body = MaxPayload
    BY <1>6 DEF FinishVolume, Finish, Full
  <2>2. entries # <<>> /\ entries[L].volume = Len(ends) + 1
    <3>1. ~last => Body # 0
      BY <1>3, <2>1 DEF Body
    <3>2. entries # <<>> => VolumeNext(filled, L)
      BY DEF VolumesOK
    <3>3. entries # <<>>
      <4>1. last => entries # <<>>
        BY DEF VolumesOK, Finished
      <4>. QED
        BY <3>1, <4>1 DEF VolumesOK
    <3>. QED
      BY <3>1, <3>2, <3>3 DEF VolumeNext
  <2>3. /\ Len(ends') = Len(ends) + 1 /\ DOMAIN ends' = 1 .. Len(ends) + 1
        /\ \A v \in 1 .. Len(ends) : ends'[v] = ends[v]
        /\ ends'[Len(ends) + 1] = ~last
    <3>. DEFINE b == ~last
    <3>1. b \in BOOLEAN /\ ends' = Append(ends, b)
      BY <2>1
    <3>. HIDE DEF b
    <3>2. /\ Len(ends') = Len(ends) + 1 /\ \A v \in 1 .. Len(ends) : ends'[v] = ends[v]
          /\ ends'[Len(ends) + 1] = b /\ ends' \in Seq(BOOLEAN)
      BY <1>2, <3>1, AppendProperties
    <3>. QED
      BY <3>2, LenProperties DEF b
  <2>4. \A n \in DOMAIN entries : InVolume(filled, n)'
    <3>1. ASSUME NEW n \in DOMAIN entries PROVE InVolume(filled, n)'
      <4>1. InVolume(filled, n)
        BY DEF VolumesOK
      <4>. QED
        BY <1>1, <1>2, <2>3, <4>1 DEF InVolume
    <3>. QED
      BY <3>1
  <2>5. VolumeNext(filled, L)'
    BY <1>1, <1>2, <2>1, <2>2, <2>3 DEF VolumeNext, Body
  <2>6. \A v \in DOMAIN ends' : ends'[v] <=> (writeStage' = "written" => v < Len(ends'))
    <3>1. writeStage # "written"
      BY <2>1
    <3>2. \A v \in 1 .. Len(ends) : ends[v]
      BY <1>2, <3>1 DEF VolumesOK
    <3>3. ASSUME NEW v \in 1 .. Len(ends) + 1
          PROVE  ends'[v] <=> (writeStage' = "written" => v < Len(ends'))
      <4>1. CASE v \in 1 .. Len(ends)
        <5>1. ends'[v]
          BY <2>3, <3>2, <4>1
        <5>2. v < Len(ends')
          BY <1>2, <2>3, <4>1
        <5>. QED
          BY <5>1, <5>2
      <4>2. CASE v = Len(ends) + 1
        <5>1. ~(v < Len(ends'))
          BY <1>2, <2>3, <4>2
        <5>2. ends'[v] <=> ~last
          BY <2>3, <4>2
        <5>3. writeStage' = "written" <=> last
          BY <2>1
        <5>. QED
          BY <5>1, <5>2, <5>3
      <4>. QED
        BY <1>2, <4>1, <4>2
    <3>. QED
      BY <2>3, <3>3
  <2>7. Body' = 0
    BY <2>1 DEF Body
  <2>. QED
    BY <1>1, <1>3, <1>4, <2>2, <2>4, <2>5, <2>6, <2>7 DEF VolumesOK
<1>. QED
  BY <1>5, <1>6 DEF Quiet

-----------------------------------------------------------------------------
(* A part is written. *)

\* A part continues what is written of its member's payload; the last one
\* completes it.
Continues(data, checksum) ==
  /\ data \in Seq(Cells)
  /\ Volumes => Len(data) = FragmentLength
  /\ IF SplitAfter
     THEN /\ checksum = data
          /\ kept[member] = NoData => emitted \o data \in Seq(Bytes)
          /\ kept[member] # NoData => emitted \o data = SubSeq(kept[member], 1, start + FragmentLength)
     ELSE checksum = integrity[member] /\ emitted \o data = Payload(member)

\* What every action that writes a part starts from.
Writes(data, checksum) ==
  /\ WritingTypeOK /\ Knowledge /\ Position
  /\ Volumes => Body <= MaxPayload
  /\ writeStage \in {"cut", "copy"} /\ ~Full
  /\ Continues(data, checksum)
  /\ Emit(data, checksum)

\* How the writer stands when a part is written.
AfterEmit(data) ==
  /\ writeJob' = writeJob /\ Everyone' = Everyone /\ Rar50' = Rar50 /\ Volumes' = Volumes
  /\ UNCHANGED <<expected, integrity, kept, ends>> /\ fragment' = NoData
  /\ Everyone = 1 .. Len(writeJob.members) /\ Len(writeJob.members) \in Nat /\ member \in Everyone
  /\ start \in Nat /\ Len(emitted) = start /\ Len(data) \in Nat /\ emitted \in Seq(Cells)
  /\ data \in Seq(Cells)
  /\ SplitAfter => /\ writeStage' = "cut" /\ member' = member /\ start' = start + Len(data)
                   /\ emitted' = emitted \o data /\ Len(data) > 0 /\ Volumes
                   /\ Body + Len(data) = MaxPayload
  /\ ~SplitAfter => /\ start' = 0 /\ emitted' = <<>>
                    /\ \/ /\ writeStage' = "finish" /\ member' = member
                          /\ member = Len(writeJob.members)
                       \/ /\ writeStage' = IF Rar50 THEN "cut" ELSE "measure"
                          /\ member' = member + 1

LEMMA EmitFacts ==
  ASSUME WritingAssumption, NEW data, NEW checksum, Writes(data, checksum)
  PROVE  AfterEmit(data)
<1>1. writeJob' = writeJob
  BY DEF Writes, Emit
<1>2. Everyone' = Everyone /\ Rar50' = Rar50 /\ Volumes' = Volumes
  BY <1>1 DEF Everyone, Rar50, Volumes
<1>3. WritingTypeOK /\ Position /\ (Volumes => Body <= MaxPayload) /\ ~Full
  BY DEF Writes
<1>4. /\ Everyone = 1 .. Len(writeJob.members) /\ Len(writeJob.members) \in Nat /\ member \in Everyone
      /\ start \in Nat /\ Len(emitted) = start /\ emitted \in Seq(Cells)
  BY <1>3, JobFacts DEF WritingTypeOK, Position
<1>5. data \in Seq(Cells) /\ Len(data) \in Nat
  BY LenProperties DEF Writes, Continues
<1>6. SplitAfter => /\ Volumes /\ Len(data) = FragmentLength /\ FragmentLength > 0
                    /\ Body + FragmentLength = MaxPayload
  BY <1>3, FragmentFacts DEF Writes, Continues
<1>7. UNCHANGED <<expected, integrity, kept, ends>> /\ fragment' = NoData
  BY DEF Writes, Emit, knownVars
<1>8. SplitAfter => /\ writeStage' = "cut" /\ member' = member /\ start' = start + FragmentLength
                    /\ emitted' = emitted \o data
  BY DEF Writes, Emit
<1>9. ~SplitAfter => /\ start' = 0 /\ emitted' = <<>>
                     /\ \/ /\ writeStage' = "finish" /\ member' = member
                           /\ member = Len(writeJob.members)
                        \/ /\ writeStage' = IF Rar50 THEN "cut" ELSE "measure"
                           /\ member' = member + 1
  BY DEF Writes, Emit
<1>. QED
  BY <1>1, <1>2, <1>4, <1>5, <1>6, <1>7, <1>8, <1>9 DEF AfterEmit

LEMMA EmitKnowledge ==
  ASSUME WritingAssumption, NEW data, NEW checksum, Writes(data, checksum)
  PROVE  Knowledge'
<1>1. Knowledge /\ writeStage \in {"cut", "copy"} /\ Rar50 \in BOOLEAN
  BY DEF Writes, Rar50
<1>2. AfterEmit(data)
  BY EmitFacts
<1>3. /\ Everyone = 1 .. Len(writeJob.members) /\ member \in Everyone
      /\ \/ writeStage' \in {"cut", "finish"} /\ member' = member
         \/ writeStage' = "cut" /\ Rar50
         \/ writeStage' = "measure" /\ ~Rar50 /\ member' = member + 1
      /\ writeStage' = "finish" => member = Len(writeJob.members)
  BY <1>2 DEF AfterEmit
<1>4. ASSUME NEW m \in Everyone PROVE Unread(m)' = Unread(m) /\ Spooled(m)
  <2>1. Rar50' = Rar50 /\ m \in Int /\ member \in Int
    BY <1>2, <1>3 DEF AfterEmit
  <2>. QED
    BY <1>1, <1>3, <2>1 DEF Unread, Spooled, Cutting
<1>5. \A m \in Everyone : Known(m) => Known(m)'
  BY <1>2, KnownStays DEF AfterEmit
<1>. QED
  BY <1>1, <1>2, <1>4, <1>5 DEF Knowledge, AfterEmit

LEMMA EmitPosition ==
  ASSUME WritingAssumption, NEW data, NEW checksum, Writes(data, checksum)
  PROVE  Position'
<1>1. AfterEmit(data)
  BY EmitFacts
<1>2. /\ writeStage' \in {"cut", "measure", "finish"} /\ (SplitAfter => writeStage' = "cut")
      /\ writeStage' = "finish" => member' = Len(writeJob'.members)
  BY <1>1 DEF AfterEmit
<1>3. CASE ~SplitAfter
  <2>1. start' = 0 /\ emitted' = <<>> /\ fragment' = NoData
    BY <1>1, <1>3 DEF AfterEmit
  <2>2. <<>> \in Seq(Bytes) /\ Len(<<>>) = 0 /\ \A s : SubSeq(s, 1, 0) = <<>>
    BY EmptySeq, SubSeqEmpty
  <2>. QED
    BY <1>2, <2>1, <2>2 DEF Position, Cutting, Finished
<1>4. CASE SplitAfter
  <2>1. /\ writeStage' = "cut" /\ member' = member /\ start' = start + Len(data) /\ start' > 0
        /\ emitted' = emitted \o data /\ kept' = kept /\ fragment' = NoData /\ Volumes'
    BY <1>1, <1>4 DEF AfterEmit
  <2>2. PayloadLength' = PayloadLength
    BY <1>1, <2>1 DEF AfterEmit, PayloadLength
  <2>3. start' < PayloadLength /\ Len(data) = FragmentLength
    <3>1. WritingTypeOK /\ Position /\ (Volumes => Body <= MaxPayload) /\ Len(data) = FragmentLength
      BY <1>1, <2>1 DEF Writes, Continues, AfterEmit
    <3>2. start + FragmentLength < PayloadLength
      BY <1>4, <3>1, FragmentFacts
    <3>. QED
      BY <2>1, <3>1, <3>2
  <2>4. Len(emitted \o data) = start + Len(data)
    BY <1>1, ConcatProperties DEF AfterEmit
  <2>5. /\ kept[member] = NoData => emitted \o data \in Seq(Bytes)
        /\ kept[member] # NoData => emitted \o data = SubSeq(kept[member], 1, start + FragmentLength)
    BY <1>4 DEF Writes, Continues
  <2>. QED
    BY <2>1, <2>2, <2>3, <2>4, <2>5 DEF Position, Cutting, Finished
<1>. QED
  BY <1>3, <1>4

\* The entries after a part is written.
Extended(data, checksum) ==
  LET L == Len(entries)
      e == entries'[L + 1]
  IN /\ L \in Nat /\ DOMAIN entries = 1 .. L /\ (entries # <<>> <=> L > 0)
     /\ Len(entries') = L + 1 /\ DOMAIN entries' = 1 .. L + 1 /\ entries' # <<>>
     /\ \A n \in 1 .. L : entries'[n] = entries[n]
     /\ e.of = member /\ e.volume = Len(ends) + 1 /\ (e.before <=> start > 0)
     /\ (e.after <=> SplitAfter) /\ e.size = expected[member]
     /\ e.checksum = checksum /\ e.data = data

LEMMA EmitEntries ==
  ASSUME WritingAssumption, NEW data, NEW checksum, Writes(data, checksum)
  PROVE  Extended(data, checksum)
<1>. DEFINE L == Len(entries)
            e == [of |-> member, volume |-> Len(ends) + 1, before |-> start > 0, after |-> SplitAfter,
                  size |-> expected[member], checksum |-> checksum, data |-> data]
            S == Parts \cup {e}
<1>1. WritingTypeOK
  BY DEF Writes
<1>2. L \in Nat /\ DOMAIN entries = 1 .. L /\ (entries # <<>> <=> L > 0)
  BY <1>1, EntryFacts
<1>3. entries' = Append(entries, e)
  BY DEF Writes, Emit
<1>4. entries \in Seq(S) /\ e \in S
  <2>1. entries \in Seq(Parts) /\ Parts \subseteq S /\ e \in S
    BY <1>1 DEF WritingTypeOK
  <2>. HIDE DEF S, e
  <2>. QED
    BY <2>1, SeqMonotonic
<1>5. /\ entries' \in Seq(S) /\ Len(entries') = L + 1 /\ entries' # <<>>
      /\ \A n \in 1 .. L : entries'[n] = entries[n]
      /\ entries'[L + 1] = e
  <2>. HIDE DEF S, e
  <2>. QED
    BY <1>3, <1>4, AppendProperties
<1>6. DOMAIN entries' = 1 .. L + 1
  <2>. HIDE DEF S, e, L
  <2>. QED
    BY <1>5, LenProperties
<1>7. /\ e.of = member /\ e.volume = Len(ends) + 1 /\ e.before = (start > 0)
      /\ e.after = SplitAfter /\ e.size = expected[member]
      /\ e.checksum = checksum /\ e.data = data
  OBVIOUS
<1>. HIDE DEF S, e
<1>. QED
  BY <1>2, <1>5, <1>6, <1>7 DEF Extended

\* What was cut from a payload is cut from every longer one.
LEMMA LongerPayload ==
  ASSUME NEW S, NEW p \in Seq(S), NEW q \in Seq(S), NEW i \in Nat, NEW k \in Nat,
         k > 0, i + k <= Len(p)
  PROVE  SubSeq(p \o q, i + 1, i + k) = SubSeq(p, i + 1, i + k)
<1>1. Len(p) \in Nat
  BY LenProperties
<1>2. i + 1 \in 1 .. Len(p) /\ i + k \in 1 .. Len(p)
  BY <1>1
<1>. QED
  BY <1>2, SubSeqOfConcat1

LEMMA AppendedPayload ==
  ASSUME NEW S, NEW p \in Seq(S), NEW q \in Seq(S)
  PROVE  q = SubSeq(p \o q, Len(p) + 1, Len(p) + Len(q))
<1>1. Len(p) \in Nat /\ Len(q) \in Nat
  BY LenProperties
<1>2. CASE Len(q) = 0
  <2>1. q = <<>>
    BY <1>2, EmptySeq
  <2>2. SubSeq(p \o q, Len(p) + 1, Len(p) + Len(q)) = <<>>
    BY <1>1, <1>2, SubSeqEmpty
  <2>. QED
    BY <2>1, <2>2
<1>3. CASE Len(q) > 0
  <2>1. /\ Len(p) + 1 \in Len(p) + 1 .. Len(p) + Len(q)
        /\ Len(p) + Len(q) \in Len(p) + 1 .. Len(p) + Len(q)
    BY <1>1, <1>3
  <2>2. SubSeq(p \o q, Len(p) + 1, Len(p) + Len(q))
          = SubSeq(q, Len(p) + 1 - Len(p), Len(p) + Len(q) - Len(p))
    BY <2>1, SubSeqOfConcat2
  <2>3. Len(p) + 1 - Len(p) = 1 /\ Len(p) + Len(q) - Len(p) = Len(q)
    BY <1>1
  <2>4. SubSeq(q, 1, Len(q)) = q
    BY SubSeqFull
  <2>. QED
    BY <2>2, <2>3, <2>4
<1>. QED
  BY <1>1, <1>2, <1>3

\* What is written of the members that are complete stays, and what is written
\* of the member at hand gets the new part.
LEMMA EmitWritten ==
  ASSUME WritingAssumption, NEW data, NEW checksum, Writes(data, checksum), NEW m \in Everyone, m <= member
  PROVE  /\ Done(m) <=> m < member
         /\ Done(m)' <=> (m < member \/ ~SplitAfter)
         /\ Written(m)' = IF m < member THEN Written(m) ELSE emitted \o data
         /\ m = member => Written(m) = emitted
<1>1. AfterEmit(data) /\ writeStage \in {"cut", "copy"} /\ Continues(data, checksum)
  BY EmitFacts DEF Writes
<1>2. m \in Int /\ member \in Int
  BY <1>1 DEF AfterEmit
<1>3. Done(m) <=> m < member
  BY <1>1 DEF Done, Finished
<1>4. Done(m)' <=> (m < member \/ ~SplitAfter)
  <2>1. CASE SplitAfter
    BY <1>1, <2>1 DEF AfterEmit, Done, Finished
  <2>2. CASE ~SplitAfter
    BY <1>1, <1>2, <2>2 DEF AfterEmit, Done, Finished
  <2>. QED
    BY <2>1, <2>2
<1>5. Payload(m)' = Payload(m)
  BY <1>1 DEF AfterEmit, Payload, Sealed, SealedLength
<1>6. m = member /\ ~SplitAfter => Payload(m) = emitted \o data
  BY <1>1 DEF Continues
<1>7. SplitAfter => emitted' = emitted \o data
  BY <1>1 DEF AfterEmit
<1>8. CASE m < member
  <2>1. Written(m)' = Payload(m) /\ Written(m) = Payload(m)
    BY <1>3, <1>4, <1>5, <1>8 DEF Written
  <2>. QED
    BY <1>2, <1>3, <1>4, <1>8, <2>1
<1>9. CASE m = member
  <2>1. ~Done(m) /\ Written(m) = emitted
    BY <1>2, <1>3, <1>9 DEF Written
  <2>2. SplitAfter => Written(m)' = emitted'
    BY <1>2, <1>4, <1>9 DEF Written
  <2>3. ~SplitAfter => Written(m)' = Payload(m)
    BY <1>4, <1>5 DEF Written
  <2>. QED
    BY <1>2, <1>3, <1>4, <1>6, <1>7, <1>9, <2>1, <2>2, <2>3
<1>. QED
  BY <1>2, <1>8, <1>9

LEMMA EmitParts ==
  ASSUME WritingAssumption, NEW data, NEW checksum, Writes(data, checksum),
         NEW at \in Places, PartsOK(at)
  PROVE  \E place \in Places' : PartsOK(place)'
<1>. DEFINE L == Len(entries)
<1>1. AfterEmit(data) /\ Extended(data, checksum) /\ writeStage \in {"cut", "copy"} /\ Continues(data, checksum)
  BY EmitFacts, EmitEntries DEF Writes
<1>2. /\ L \in Nat /\ DOMAIN entries = 1 .. L /\ DOMAIN entries' = 1 .. L + 1
      /\ \A n \in 1 .. L : /\ at[n] \in Nat /\ entries[n] \in Parts /\ Len(entries[n].data) \in Nat
                             /\ entries[n].data \in Seq(Cells)
                             /\ entries[n].of \in Everyone
                             /\ entries[n].after \in BOOLEAN
  <2>1. L \in Nat /\ DOMAIN entries = 1 .. L /\ DOMAIN entries' = 1 .. L + 1
    BY <1>1 DEF Extended
  <2>2. \A n \in 1 .. L : at[n] \in Nat /\ entries[n] \in Parts /\ Len(entries[n].data) \in Nat
    BY <2>1, EntryFacts DEF Places, Writes
  <2>. QED
    BY <2>1, <2>2 DEF Parts
<1>3. PICK l, e, all, place :
        /\ l = L /\ e = entries'[L + 1] /\ all = emitted \o data
        /\ place = [n \in 1 .. L + 1 |-> IF n = L + 1 THEN start ELSE at[n]]
  OBVIOUS
<1>4. /\ place \in [1 .. l + 1 -> Nat] /\ place[l + 1] = start
      /\ \A n \in 1 .. l : place[n] = at[n] /\ n # l + 1
      /\ l \in Nat /\ l + 1 \in 1 .. l + 1 /\ \A n \in 1 .. l + 1 : n = l + 1 \/ n \in 1 .. l
  BY <1>1, <1>2, <1>3 DEF AfterEmit
<1>5. /\ e.of = member /\ (e.before <=> start > 0) /\ (e.after <=> SplitAfter) /\ e.size = expected[member]
      /\ e.checksum = checksum /\ e.data = data
      /\ \A n \in 1 .. l : entries'[n] = entries[n]
      /\ entries'[l + 1] = e /\ Len(entries') = l + 1 /\ entries' # <<>>
  BY <1>1, <1>3 DEF Extended
<1>6. /\ member \in Nat /\ member' \in {member, member + 1} /\ start \in Nat /\ Len(emitted) = start
      /\ emitted \in Seq(Cells) /\ data \in Seq(Cells) /\ Len(data) \in Nat
      /\ Len(writeJob.members) \in Nat /\ Everyone = 1 .. Len(writeJob.members) /\ member \in Everyone
      /\ UNCHANGED <<expected, integrity>> /\ Rar50' = Rar50 /\ Rar50 \in BOOLEAN
  BY <1>1 DEF AfterEmit, Rar50
<1>7. all \in Seq(Cells) /\ Len(all) = start + Len(data)
  BY <1>3, <1>6, ConcatProperties
<1>8. ASSUME NEW n \in 1 .. l PROVE PartOK(place, n)'
  <2>1. PICK f, m : f = entries[n] /\ m = f.of
    OBVIOUS
  <2>2. /\ PartOK(at, n) /\ entries'[n] = f /\ place[n] = at[n] /\ at[n] \in Nat /\ Len(f.data) \in Nat
        /\ m \in Everyone /\ f.data \in Seq(Cells)
    BY <1>2, <1>3, <1>4, <1>5, <2>1 DEF PartsOK
  <2>3. /\ m <= member /\ (Done(m) \/ f.after) /\ (f.before <=> at[n] > 0)
        /\ f.size = expected[m] /\ f.checksum = (IF f.after THEN f.data ELSE integrity[m])
        /\ f.after => f.data # <<>>
        /\ at[n] + Len(f.data) <= Len(Written(m))
        /\ f.data = SubSeq(Written(m), at[n] + 1, at[n] + Len(f.data))
        /\ ~f.after => at[n] + Len(f.data) = Len(Written(m))
    BY <2>1, <2>2 DEF PartOK
  <2>4. /\ Done(m) <=> m < member
        /\ Done(m)' <=> (m < member \/ ~SplitAfter)
        /\ Written(m)' = IF m < member THEN Written(m) ELSE all
        /\ m = member => Written(m) = emitted
    BY <1>3, <2>2, <2>3, EmitWritten
  <2>5. m \in Int
    BY <1>6, <2>2
  <2>6. /\ at[n] + Len(f.data) <= Len(Written(m)')
        /\ f.data = SubSeq(Written(m)', at[n] + 1, at[n] + Len(f.data))
        /\ ~f.after => at[n] + Len(f.data) = Len(Written(m)')
    <3>1. CASE m < member
      BY <2>3, <2>4, <3>1
    <3>2. CASE m = member
      <4>1. f.after /\ Written(m) = emitted /\ Written(m)' = all
        BY <1>6, <2>3, <2>4, <3>2
      <4>2. Len(f.data) > 0
        <5>1. Len(f.data) # 0
          BY <2>2, <2>3, <4>1, EmptySeq
        <5>. QED
          BY <2>2, <5>1
      <4>3. SubSeq(all, at[n] + 1, at[n] + Len(f.data)) = SubSeq(emitted, at[n] + 1, at[n] + Len(f.data))
        <5>1. at[n] \in Nat /\ Len(f.data) \in Nat /\ at[n] + Len(f.data) <= Len(emitted)
          BY <2>2, <2>3, <4>1
        <5>2. emitted \in Seq(Cells) /\ data \in Seq(Cells)
          BY <1>6
        <5>3. PICK i, k : i = at[n] /\ k = Len(f.data)
          OBVIOUS
        <5>4. i \in Nat /\ k \in Nat /\ k > 0 /\ i + k <= Len(emitted)
          BY <4>2, <5>1, <5>3
        <5>5. SubSeq(emitted \o data, i + 1, i + k) = SubSeq(emitted, i + 1, i + k)
          BY <5>2, <5>4, LongerPayload
        <5>. QED
          BY <1>3, <5>3, <5>5
      <4>4. at[n] + Len(f.data) <= Len(all)
        BY <1>6, <1>7, <2>2, <2>3, <4>1
      <4>. QED
        BY <2>3, <4>1, <4>3, <4>4
    <3>. QED
      BY <1>6, <2>3, <2>5, <3>1, <3>2
  <2>7. m <= member' /\ (Done(m)' \/ f.after)
    BY <1>6, <2>3, <2>4, <2>5
  <2>. QED
    BY <1>6, <2>1, <2>2, <2>3, <2>6, <2>7 DEF PartOK
<1>9. PartOK(place, l + 1)'
  <2>1. PICK m : m = member
    OBVIOUS
  <2>2. (Done(m)' <=> ~SplitAfter) /\ Written(m)' = all
    <3>1. m \in Everyone /\ m <= member /\ ~(m < member)
      BY <1>6, <2>1
    <3>2. /\ Done(m)' <=> (m < member \/ ~SplitAfter)
          /\ Written(m)' = IF m < member THEN Written(m) ELSE emitted \o data
      BY <3>1, EmitWritten
    <3>. QED
      BY <1>3, <3>1, <3>2
  <2>3. SplitAfter => data # <<>>
    <3>1. SplitAfter => Len(data) > 0
      BY <1>1 DEF AfterEmit
    <3>. QED
      BY <3>1, EmptySeq
  <2>4. data = SubSeq(all, start + 1, start + Len(data))
    BY <1>3, <1>6, AppendedPayload
  <2>5. checksum = IF SplitAfter THEN data ELSE integrity[m]
    BY <1>1, <2>1 DEF Continues
  <2>6. /\ entries'[l + 1] = e /\ place[l + 1] = start /\ e.of = m /\ e.data = data
        /\ e.checksum = (IF e.after THEN e.data ELSE integrity[m]) /\ e.size = expected[m]
        /\ (e.before <=> start > 0) /\ (e.after <=> SplitAfter)
    BY <1>4, <1>5, <2>1, <2>5
  <2>7. m <= member' /\ (Done(m)' \/ e.after) /\ (e.after => e.data # <<>>)
    BY <1>6, <2>1, <2>2, <2>3, <2>6
  <2>8. /\ start + Len(data) = Len(Written(m)')
        /\ e.data = SubSeq(Written(m)', start + 1, start + Len(data))
    BY <1>7, <2>2, <2>4, <2>6
  <2>9. start + Len(data) \in Int
    BY <1>6
  <2>. QED
    BY <1>6, <2>6, <2>7, <2>8, <2>9 DEF PartOK
<1>10. entries # <<>> => PartNext(at, l)
  BY <1>3 DEF PartsOK
<1>11. ASSUME NEW n \in 1 .. l + 1, n > 1 PROVE PartFollows(place, n)'
  <2>1. CASE n \in 1 .. l
    <3>1. n - 1 \in 1 .. l
      BY <1>4, <1>11, <2>1
    <3>2. PartFollows(at, n)
      BY <1>2, <1>3, <1>11, <2>1 DEF PartsOK
    <3>. QED
      BY <1>4, <1>5, <2>1, <3>1, <3>2 DEF PartFollows
  <2>2. CASE n = l + 1
    <3>1. n - 1 = l /\ l \in 1 .. l
      BY <1>4, <1>11, <2>2
    <3>2. PartNext(at, l)
      BY <1>2, <1>3, <1>10, <3>1, EmptySeq
    <3>3. entries[l].of \in Int /\ ~Finished
      BY <1>1, <1>2, <1>3, <1>6, <3>1 DEF Finished
    <3>4. IF entries[l].after THEN entries[l].of = member /\ start = at[l] + Len(entries[l].data)
          ELSE start = 0 /\ entries[l].of = member - 1
      BY <3>2, <3>3 DEF PartNext
    <3>5. /\ entries'[n] = e /\ entries'[n - 1] = entries[l] /\ place[n] = start /\ place[n - 1] = at[l]
          /\ e.of = member
      BY <1>4, <1>5, <2>2, <3>1
    <3>6. entries[l].of + 1 = member \/ entries[l].of # member - 1
      BY <1>6, <3>3
    <3>. QED
      BY <3>4, <3>5, <3>6 DEF PartFollows
  <2>. QED
    BY <1>4, <2>1, <2>2
<1>12. ASSUME NEW i \in 1 .. l + 1, NEW k \in 1 .. l + 1, i < k PROVE entries'[i].of <= entries'[k].of
  <2>1. i \in 1 .. l /\ entries'[i] = entries[i]
    BY <1>4, <1>5, <1>12
  <2>2. CASE k \in 1 .. l
    BY <1>2, <1>3, <1>5, <1>12, <2>1, <2>2 DEF PartsOK
  <2>3. CASE k = l + 1
    BY <1>2, <1>3, <1>5, <2>1, <2>3 DEF PartsOK, PartOK
  <2>. QED
    BY <1>4, <2>2, <2>3
<1>13. entries'[1].of = 1 /\ place[1] = 0
  <2>1. CASE l = 0
    <3>1. entries = <<>>
      BY <1>1, <1>3, <2>1 DEF Extended
    <3>2. start = 0 /\ member = 1
      BY <1>1, <3>1 DEF PartsOK, Cutting
    <3>. QED
      BY <1>4, <1>5, <2>1, <3>2
  <2>2. CASE l > 0
    <3>1. entries # <<>> /\ 1 \in 1 .. l
      BY <1>1, <1>3, <1>4, <2>2 DEF Extended
    <3>. QED
      BY <1>4, <1>5, <3>1 DEF PartsOK
  <2>. QED
    BY <1>4, <2>1, <2>2
<1>14. PartNext(place, l + 1)'
  <2>1. CASE SplitAfter
    <3>1. member' = member /\ start' = start + Len(data) /\ ~Finished'
      BY <1>1, <2>1 DEF AfterEmit, Finished
    <3>. QED
      BY <1>4, <1>5, <2>1, <3>1 DEF PartNext
  <2>2. CASE ~SplitAfter
    <3>1. start' = 0 /\ member = IF Finished' THEN member' ELSE member' - 1
      <4>1. /\ start' = 0
            /\ \/ writeStage' = "finish" /\ member' = member
               \/ writeStage' \in {"cut", "measure"} /\ member' = member + 1
        BY <1>1, <2>2 DEF AfterEmit
      <4>2. member' = member + 1 => member = member' - 1
        BY <1>6
      <4>3. CASE writeStage' = "finish"
        BY <4>1, <4>3 DEF Finished
      <4>4. CASE writeStage' \in {"cut", "measure"}
        BY <4>1, <4>2, <4>4 DEF Finished
      <4>. QED
        BY <4>1, <4>3, <4>4
    <3>. QED
      BY <1>4, <1>5, <2>2, <3>1 DEF PartNext
  <2>. QED
    BY <2>1, <2>2
<1>15. ~(Rar50 /\ ~Cutting /\ ~Finished)'
  BY <1>1, <1>6 DEF AfterEmit, Cutting, Finished
<1>16. PartsOK(place)'
  BY <1>2, <1>3, <1>4, <1>5, <1>8, <1>9, <1>11, <1>12, <1>13, <1>14, <1>15, ZenonT(60) DEF PartsOK
<1>. QED
  BY <1>2, <1>3, <1>4, <1>16 DEF Places

LEMMA EmitVolumes ==
  ASSUME WritingAssumption, NEW data, NEW checksum, Writes(data, checksum),
         NEW filled \in Places, VolumesOK(filled)
  PROVE  \E place \in Places' : VolumesOK(place)'
<1>. DEFINE L == Len(entries)
<1>1. AfterEmit(data) /\ Extended(data, checksum) /\ writeStage \in {"cut", "copy"} /\ WritingTypeOK /\ ~Full
  BY EmitFacts, EmitEntries DEF Writes
<1>2. /\ L \in Nat /\ DOMAIN entries = 1 .. L /\ DOMAIN entries' = 1 .. L + 1
      /\ (entries # <<>> <=> L > 0) /\ Len(entries') = L + 1 /\ entries' # <<>>
      /\ Len(ends) \in Nat /\ MaxPayload \in Nat \ {0} /\ Body \in Nat /\ Len(data) \in Nat
      /\ \A n \in 1 .. L : filled[n] \in Nat /\ Len(entries[n].data) \in Nat
  <2>1. /\ L \in Nat /\ DOMAIN entries = 1 .. L /\ DOMAIN entries' = 1 .. L + 1
        /\ (entries # <<>> <=> L > 0) /\ Len(entries') = L + 1 /\ entries' # <<>>
    BY <1>1 DEF Extended
  <2>2. Body \in Nat
    BY <1>1 DEF Body, WritingTypeOK
  <2>3. Len(data) \in Nat /\ MaxPayload \in Nat \ {0}
    BY <1>1 DEF AfterEmit, WritingAssumption
  <2>. QED
    BY <1>1, <2>1, <2>2, <2>3, EntryFacts DEF Places
<1>3. PICK l, e, place :
        /\ l = L /\ e = entries'[L + 1]
        /\ place = [n \in 1 .. L + 1 |-> IF n = L + 1 THEN Body ELSE filled[n]]
  OBVIOUS
<1>4. /\ place \in [1 .. l + 1 -> Nat] /\ place[l + 1] = Body
      /\ \A n \in 1 .. l : place[n] = filled[n] /\ n # l + 1
      /\ l \in Nat /\ l + 1 \in 1 .. l + 1 /\ \A n \in 1 .. l + 1 : n = l + 1 \/ n \in 1 .. l
  BY <1>2, <1>3
<1>5. /\ e.volume = Len(ends) + 1 /\ (e.after <=> SplitAfter) /\ e.data = data
      /\ \A n \in 1 .. l : entries'[n] = entries[n]
      /\ entries'[l + 1] = e
  BY <1>1, <1>3 DEF Extended
<1>6. /\ ends' = ends /\ Volumes' = Volumes
      /\ body' = Body + Len(data) /\ Body' = body' /\ body' \in Nat
      /\ Volumes => Body + Len(data) <= MaxPayload
      /\ SplitAfter => Volumes /\ body' = MaxPayload
      /\ writeStage' \in {"cut", "measure", "finish"}
  <2>1. body' = Body + Len(data)
    BY DEF Writes, Emit, Body
  <2>2. body' # NoData
    BY <1>2, <2>1 DEF WritingAssumption
  <2>3. Volumes => Body + Len(data) <= MaxPayload
    <3>1. Position /\ (Volumes => Body <= MaxPayload) /\ (Volumes => Len(data) = FragmentLength)
      BY DEF Writes, Continues
    <3>2. Volumes => Body + FragmentLength <= MaxPayload
      BY <1>1, <3>1, FragmentFacts
    <3>. QED
      BY <3>1, <3>2
  <2>. QED
    BY <1>1, <1>2, <2>1, <2>2, <2>3 DEF AfterEmit, Body
<1>7. \A n \in 1 .. l + 1 : InVolume(place, n)'
  <2>1. ASSUME NEW n \in 1 .. l PROVE InVolume(place, n)'
    <3>1. InVolume(filled, n)
      BY <1>2, <1>3 DEF VolumesOK
    <3>. QED
      BY <1>4, <1>5, <1>6, <3>1 DEF InVolume
  <2>2. InVolume(place, l + 1)'
    BY <1>2, <1>4, <1>5, <1>6 DEF InVolume
  <2>. QED
    BY <1>4, <2>1, <2>2
<1>8. ASSUME NEW n \in 1 .. l + 1, n > 1 PROVE VolumeFollows(place, n)'
  <2>1. CASE n \in 1 .. l
    <3>1. n - 1 \in 1 .. l
      BY <1>4, <1>8, <2>1
    <3>2. VolumeFollows(filled, n)
      BY <1>2, <1>3, <1>8, <2>1 DEF VolumesOK
    <3>. QED
      BY <1>4, <1>5, <2>1, <3>1, <3>2 DEF VolumeFollows
  <2>2. CASE n = l + 1
    <3>1. n - 1 = l /\ l \in 1 .. l
      BY <1>4, <1>8, <2>2
    <3>2. VolumeNext(filled, l)
      BY <1>2, <1>3, <3>1 DEF VolumesOK
    <3>3. /\ entries'[n] = e /\ entries'[n - 1] = entries[l] /\ place[n] = Body /\ place[n - 1] = filled[l]
      BY <1>4, <1>5, <2>2, <3>1
    <3>4. CASE entries[l].volume = Len(ends) + 1
      <4>1. ~entries[l].after /\ body = filled[l] + Len(entries[l].data)
        BY <1>1, <3>2, <3>4 DEF VolumeNext
      <4>2. Body = body
        <5>1. body \in Nat
          BY <1>2, <1>3, <3>1, <4>1
        <5>. QED
          BY <5>1 DEF Body, WritingAssumption
      <4>. QED
        BY <1>5, <3>3, <3>4, <4>1, <4>2 DEF VolumeFollows
    <3>5. CASE entries[l].volume = Len(ends) /\ entries[l].volume # Len(ends) + 1
      <4>1. Body = 0
        BY <3>2, <3>5 DEF VolumeNext
      <4>. QED
        BY <1>5, <3>3, <3>5, <4>1 DEF VolumeFollows
    <3>. QED
      BY <3>2, <3>4, <3>5 DEF VolumeNext
  <2>. QED
    BY <1>4, <2>1, <2>2
<1>9. ASSUME NEW i \in 1 .. l + 1, NEW k \in 1 .. l + 1, i < k
      PROVE  entries'[i].volume <= entries'[k].volume
  <2>1. i \in 1 .. l /\ entries'[i] = entries[i]
    BY <1>4, <1>5, <1>9
  <2>2. CASE k \in 1 .. l
    BY <1>2, <1>3, <1>5, <1>9, <2>1, <2>2 DEF VolumesOK
  <2>3. CASE k = l + 1
    BY <1>2, <1>3, <1>5, <2>1, <2>3 DEF VolumesOK, InVolume
  <2>. QED
    BY <1>4, <2>2, <2>3
<1>10. entries'[1].volume = 1 /\ place[1] = 0
  <2>1. CASE l = 0
    <3>1. entries = <<>>
      BY <1>2, <1>3, <2>1
    <3>2. ends = <<>> /\ Body = 0
      BY <3>1 DEF VolumesOK
    <3>3. Len(ends) = 0
      BY <3>2, EmptySeq
    <3>. QED
      BY <1>4, <1>5, <2>1, <3>2, <3>3
  <2>2. CASE l > 0
    <3>1. entries # <<>> /\ 1 \in 1 .. l
      BY <1>2, <1>3, <1>4, <2>2
    <3>. QED
      BY <1>4, <1>5, <3>1 DEF VolumesOK
  <2>. QED
    BY <1>4, <2>1, <2>2
<1>11. VolumeNext(place, l + 1)'
  <2>1. SplitAfter => Full'
    BY <1>6 DEF Full
  <2>. QED
    BY <1>2, <1>4, <1>5, <1>6, <2>1 DEF VolumeNext
<1>12. \A v \in DOMAIN ends : ends[v]
  BY <1>1 DEF VolumesOK
<1>13. \A v \in DOMAIN ends' : ends'[v] <=> (writeStage' = "written" => v < Len(ends'))
  BY <1>6, <1>12
<1>14. VolumesOK(place)'
  BY <1>2, <1>3, <1>6, <1>7, <1>8, <1>9, <1>10, <1>11, <1>13 DEF VolumesOK
<1>. QED
  BY <1>2, <1>3, <1>4, <1>14 DEF Places

\* What is cut from a payload that the writer holds continues it.
LEMMA CutWrites ==
  ASSUME WritingAssumption, WritingTypeOK, Knowledge, Position, Volumes => Body <= MaxPayload,
         Cut, kept[member] # NoData
  PROVE  \E data, checksum : Writes(data, checksum)
<1>. DEFINE p == kept[member]
            data == SubSeq(p, start + 1, start + FragmentLength)
            checksum == IF SplitAfter THEN data ELSE integrity[member]
<1>1. writeStage = "cut" /\ ~Full /\ Emit(data, checksum)
  BY DEF Cut
<1>2. p \in Seq(Cells) /\ start \in Nat /\ PayloadLength = Len(p) /\ Len(p) \in Nat
  <2>1. p \in Seq(Cells) /\ start \in Nat
    BY DEF WritingTypeOK
  <2>. QED
    BY <2>1, LenProperties DEF PayloadLength
<1>3. /\ FragmentLength \in Nat /\ start + FragmentLength <= Len(p)
      /\ ~SplitAfter => start + FragmentLength = Len(p)
  <2>1. /\ FragmentLength \in Nat /\ FragmentLength <= PayloadLength - start
        /\ ~SplitAfter => start + FragmentLength = PayloadLength
    BY FragmentFacts
  <2>2. PICK l : l = Len(p)
    OBVIOUS
  <2>. HIDE DEF p
  <2>. QED
    BY <1>2, <2>1, <2>2
<1>4. emitted = SubSeq(p, 1, start)
  BY <1>1 DEF Position, Cutting
<1>. HIDE DEF p
<1>5. data \in Seq(Cells) /\ Len(data) = FragmentLength
  <2>1. \A i \in start + 1 .. start + FragmentLength : p[i] \in Cells
    BY <1>2, <1>3, ElementOfSeq
  <2>2. start + 1 \in Int /\ start + FragmentLength \in Int
    BY <1>2, <1>3
  <2>3. PICK i, k : i = start + 1 /\ k = start + FragmentLength
    OBVIOUS
  <2>4. i \in Int /\ k \in Int /\ \A n \in i .. k : p[n] \in Cells
    BY <2>1, <2>2, <2>3
  <2>5. SubSeq(p, i, k) \in Seq(Cells) /\ Len(SubSeq(p, i, k)) = IF i <= k THEN k - i + 1 ELSE 0
    BY <2>4, SubSeqProperties
  <2>6. (IF i <= k THEN k - i + 1 ELSE 0) = FragmentLength
    BY <1>2, <1>3, <2>3
  <2>. QED
    BY <2>3, <2>5, <2>6
<1>6. emitted \o data = SubSeq(p, 1, start + FragmentLength)
  <2>1. 1 \in 1 .. Len(p) + 1 /\ start \in 1 - 1 .. Len(p) /\ start + FragmentLength \in start .. Len(p)
    BY <1>2, <1>3
  <2>. QED
    BY <1>2, <1>4, <2>1, ConcatAdjacentSubSeq
<1>7. ~SplitAfter => emitted \o data = p
  BY <1>2, <1>3, <1>6, SubSeqFull
<1>8. Continues(data, checksum)
  <2>1. p = kept[member]
    BY DEF p
  <2>2. Payload(member) = p
    BY <2>1 DEF Payload
  <2>. HIDE DEF data
  <2>. QED
    BY <1>5, <1>6, <1>7, <2>1, <2>2 DEF Continues
<1>. QED
  BY <1>1, <1>8 DEF Writes

\* What is copied from a source and compared with the checksums continues it.
LEMMA CopyWrites ==
  ASSUME WritingAssumption, WritingTypeOK, Knowledge, Position, Volumes => Body <= MaxPayload, EndCopy
  PROVE  \E data, checksum : Writes(data, checksum)
<1>. DEFINE data == Sealed(member, seen)
            checksum == IF SplitAfter THEN fragment ELSE integrity[member]
<1>1. /\ writeStage = "copy" /\ Len(seen) = FragmentLength /\ Verified /\ Emit(data, checksum)
  BY DEF EndCopy, PassEnds, Goal, Whole
<1>2. kept[member] = NoData /\ ~Full /\ (fragment # NoData <=> SplitAfter)
  BY <1>1 DEF Position
<1>3. /\ member \in Everyone /\ writeJob \in WriteJobs /\ seen \in Seq(Bytes) /\ seen \in Seq(Cells)
      /\ emitted \in Seq(Bytes) /\ emitted \in Seq(Cells) /\ start \in Nat
  BY <1>2, CellFacts DEF WritingTypeOK, Position
<1>4. Volumes => data = seen
  <2>1. Spooled(member)
    BY <1>1 DEF Spooled, Cutting
  <2>2. Volumes => ~writeJob.members[member].encrypted
    BY <1>2, <1>3, <2>1 DEF Knowledge
  <2>. QED
    BY <1>3, <2>2, SealedFacts
<1>5. data \in Seq(Cells)
  BY <1>3, SealedFacts
<1>6. SplitAfter => Volumes
  BY FragmentFacts
<1>7. SplitAfter => checksum = data /\ emitted \o data \in Seq(Bytes)
  <2>. SUFFICES ASSUME SplitAfter PROVE checksum = data /\ emitted \o data \in Seq(Bytes)
    OBVIOUS
  <2>1. seen = fragment
    BY <1>1, <1>2 DEF Verified
  <2>. QED
    BY <1>3, <1>4, <1>6, <2>1, ConcatProperties
<1>8. ~SplitAfter => emitted \o data = Payload(member)
  <2>. SUFFICES ASSUME ~SplitAfter PROVE emitted \o data = Payload(member)
    OBVIOUS
  <2>1. start + FragmentLength = PayloadLength /\ PayloadLength = expected[member]
    BY <1>2, FragmentFacts DEF PayloadLength
  <2>2. ReachesEnd
    BY <1>1, <2>1 DEF ReachesEnd, Goal, Whole
  <2>3. emitted \o seen = integrity[member]
    BY <1>1, <2>2 DEF Verified
  <2>4. Payload(member) = Sealed(member, emitted \o seen)
    BY <1>2, <2>3 DEF Payload
  <2>5. CASE Volumes
    <3>1. emitted \o seen \in Seq(Cells)
      BY <1>3, ConcatProperties
    <3>2. Sealed(member, emitted \o seen) = emitted \o seen
      <4>1. ~writeJob.members[member].encrypted
        BY <1>1, <1>2, <1>3, <2>5 DEF Knowledge, Spooled, Cutting
      <4>. QED
        BY <1>3, <3>1, <4>1, SealedFacts
    <3>. QED
      BY <1>4, <2>4, <2>5, <3>2
  <2>6. CASE ~Volumes
    <3>1. start = 0
      BY <1>3, <2>6 DEF Position
    <3>2. emitted = <<>>
      BY <3>1 DEF Position
    <3>3. emitted \o seen = seen /\ emitted \o data = data
      BY <1>3, <1>5, <3>2, ConcatEmptySeq
    <3>. QED
      BY <2>4, <3>3
  <2>. QED
    BY <2>5, <2>6
<1>9. Continues(data, checksum)
  <2>. HIDE DEF data
  <2>. QED
    BY <1>1, <1>2, <1>4, <1>5, <1>7, <1>8 DEF Continues
<1>. QED
  BY <1>1, <1>2, <1>9 DEF Writes

-----------------------------------------------------------------------------
(* The invariant. *)

LEMMA WritingStarts == ASSUME WritingAssumption, WritingInit PROVE WritingInvariant
<1>1. writeJob \in WriteJobs /\ entries = <<>> /\ ends = <<>> /\ emitted = <<>> /\ start = 0
  BY DEF WritingInit
<1>2. /\ Everyone = 1 .. Len(writeJob.members) /\ Len(writeJob.members) \in Nat \ {0}
      /\ \A m \in Everyone : writeJob.members[m].first \in Seq(Bytes)
      /\ Rar50 \in BOOLEAN
  BY <1>1, JobFacts
<1>3. /\ <<>> \in Seq(Bytes) /\ <<>> \in Seq(Cells) /\ <<>> \in Seq(Parts) /\ <<>> \in Seq(BOOLEAN)
      /\ Len(<<>>) = 0
  BY EmptySeq
<1>4. WritingTypeOK
  <2>1. /\ Unasked \in [Everyone -> Nat] /\ Nothing \in [Everyone -> {NoData}]
        /\ content \in [Everyone -> Seq(Bytes)]
    BY <1>2 DEF Unasked, Nothing, WritingInit
  <2>2. "measure" \in WritingStages /\ 1 \in Everyone
    BY <1>2 DEF WritingStages
  <2>. QED
    BY <1>3, <2>1, <2>2 DEF WritingInit, WritingTypeOK
<1>5. Knowledge
  BY <1>2 DEF WritingInit, Knowledge, Unread, Spooled, Finished, Cutting
<1>6. Position
  BY <1>3 DEF WritingInit, Position, Cutting, Finished
<1>7. DOMAIN entries = {} /\ DOMAIN ends = {}
  BY <1>1, <1>4, <1>3, EntryFacts
<1>8. \E at \in Places : PartsOK(at)
  <2>1. PICK at : at = [n \in {} |-> 0]
    OBVIOUS
  <2>2. at \in Places
    BY <1>7, <2>1 DEF Places
  <2>3. PartsOK(at)
    BY <1>1, <1>7 DEF PartsOK, WritingInit, Finished, Cutting
  <2>. QED
    BY <2>2, <2>3
<1>9. \E filled \in Places : VolumesOK(filled)
  <2>1. PICK filled : filled = [n \in {} |-> 0]
    OBVIOUS
  <2>2. filled \in Places
    BY <1>7, <2>1 DEF Places
  <2>3. Body = 0 /\ ~Finished /\ MaxPayload \in Nat
    BY DEF WritingInit, Body, Finished, WritingAssumption
  <2>4. VolumesOK(filled)
    BY <1>1, <1>7, <2>3 DEF VolumesOK
  <2>. QED
    BY <2>2, <2>4
<1>. QED
  BY <1>4, <1>5, <1>6, <1>8, <1>9 DEF WritingInvariant, Underway

LEMMA QuietKeeps ==
  ASSUME WritingAssumption, Underway, Quiet
  PROVE  WritingInvariant'
<1>1. WritingTypeOK /\ Knowledge /\ Position
  BY DEF Underway
<1>2. entries' = entries /\ Places' = Places
  BY DEF Quiet, Measure, ReadByte, EndIntegrity, Prepare, EndEncrypt, FinishVolume, OpenCopy,
         EndChecksum, Finish, Revise, writingVars, setVars, Places
<1>3. PICK at \in Places, filled \in Places : PartsOK(at) /\ VolumesOK(filled)
  BY DEF Underway
<1>4. PartsOK(at)' /\ VolumesOK(filled)'
  BY <1>1, <1>3, PartsStep, VolumesStep
<1>5. WritingTypeOK' /\ Knowledge' /\ Position'
  BY <1>1, QuietTypes, KnowledgeStep, PositionStep
<1>. QED
  BY <1>2, <1>4, <1>5 DEF WritingInvariant, Underway

LEMMA WritesStep ==
  ASSUME WritingAssumption, Underway, NEW data, NEW checksum, Writes(data, checksum)
  PROVE  WritingInvariant'
<1>1. PICK at \in Places, filled \in Places : PartsOK(at) /\ VolumesOK(filled)
  BY DEF Underway
<1>2. (\E place \in Places : PartsOK(place))' /\ (\E place \in Places : VolumesOK(place))'
  BY <1>1, EmitParts, EmitVolumes
<1>3. Knowledge' /\ Position'
  BY EmitKnowledge, EmitPosition
<1>4. WritingTypeOK'
  <2>1. WritingTypeOK /\ Position /\ (Volumes => Body <= MaxPayload) /\ Emit(data, checksum)
    BY DEF Writes
  <2>2. FragmentLength \in Nat
    BY <2>1, FragmentFacts
  <2>3. data \in Seq(Cells) /\ checksum \in {data, integrity[member]}
    BY DEF Writes, Continues
  <2>4. integrity[member] \in Seq(Cells) \cup {NoData}
    BY <2>1, CellFacts DEF WritingTypeOK
  <2>. QED
    BY <2>1, <2>2, <2>3, <2>4, EmitType
<1>. QED
  BY <1>2, <1>3, <1>4 DEF WritingInvariant, Underway

LEMMA WritingSteps ==
  ASSUME WritingAssumption, WritingInvariant, [WritingNext]_writingVars
  PROVE  WritingInvariant'
<1>1. WritingTypeOK
  BY DEF WritingInvariant, Underway
<1>2. CASE writeStage = "refused"
  <2>1. ~WritingNext
    BY <1>2 DEF WritingNext, Measure, ReadByte, FindShort, FindChanged, EndIntegrity, Prepare, EndEncrypt,
                FinishVolume, RefuseEmpty, Cut, EndChecksum, EndCopy, Finish, Revise, StopWriting,
                PassEnds, Passing, Whole, Over
  <2>2. UNCHANGED writingVars
    BY <2>1
  <2>3. WritingTypeOK'
    BY <1>1, <2>2, QuietTypes DEF Quiet
  <2>. QED
    BY <1>2, <2>2, <2>3 DEF WritingInvariant, writingVars
<1>3. CASE writeStage # "refused"
  <2>1. Underway
    BY <1>3 DEF WritingInvariant, Underway
  <2>2. Volumes => Body <= MaxPayload
    BY <2>1 DEF Underway, VolumesOK
  <2>3. CASE FindShort \/ FindChanged \/ RefuseEmpty \/ StopWriting
    <3>1. Refuse
      BY <2>3 DEF FindShort, FindChanged, RefuseEmpty, StopWriting
    <3>. QED
      BY <1>1, <3>1, RefuseType DEF WritingInvariant, Underway
  <2>4. CASE Quiet
    BY <2>1, <2>4, QuietKeeps
  <2>5. CASE Cut
    <3>1. CASE kept[member] # NoData
      <4>1. \E data, checksum : Writes(data, checksum)
        BY <2>1, <2>2, <2>5, <3>1, CutWrites DEF Underway
      <4>. QED
        BY <2>1, <4>1, WritesStep
    <3>2. CASE kept[member] = NoData
      <4>1. OpenCopy
        BY <2>5, <3>2 DEF Cut, OpenCopy, Body
      <4>. QED
        BY <2>1, <4>1, QuietKeeps DEF Quiet
    <3>. QED
      BY <3>1, <3>2
  <2>6. CASE EndCopy
    <3>1. \E data, checksum : Writes(data, checksum)
      BY <2>1, <2>2, <2>6, CopyWrites DEF Underway
    <3>. QED
      BY <2>1, <3>1, WritesStep
  <2>. QED
    BY <2>3, <2>4, <2>5, <2>6 DEF WritingNext, Quiet
<1>. QED
  BY <1>2, <1>3

-----------------------------------------------------------------------------
(* What a reader finds in a set that was written. *)

\* The parts of a member joined one after the other, and a sum of lengths: each
\* value is made from the one before.
Joining(f, d, n, L) == f = [k \in n .. L |-> IF k = n THEN d[k] ELSE f[k - 1] \o d[k]]
Summing(f, w, L) == f = [k \in 0 .. L |-> IF k = 0 THEN 0 ELSE f[k - 1] + w[k]]

\* There are such functions: one for as many values as one likes.
LEMMA JoinExists ==
  ASSUME NEW n \in Nat, NEW L \in Nat, n <= L, NEW d
  PROVE  \E f : Joining(f, d, n, L)
<1>. USE DEF Joining
<1>. DEFINE Joins(u) == \E f : f = [k \in n .. u |-> IF k = n THEN d[k] ELSE f[k - 1] \o d[k]]
            bad == {u \in Nat : u >= n /\ ~Joins(u)}
<1>1. SUFFICES ASSUME bad # {} PROVE FALSE
  <2>1. bad = {} => Joins(L)
    OBVIOUS
  <2>. QED
    BY <2>1
<1>2. PICK u \in bad : \A v \in bad : u <= v
  <2>1. bad \in SUBSET Nat
    OBVIOUS
  <2>. HIDE DEF bad
  <2>. QED
    BY <1>1, <2>1, MinExists
<1>3. CASE u = n
  <2>1. PICK f : f = [k \in n .. u |-> d[k]]
    OBVIOUS
  <2>2. f = [k \in n .. u |-> IF k = n THEN d[k] ELSE f[k - 1] \o d[k]]
    BY <1>3, <2>1
  <2>. QED
    BY <1>2, <2>2
<1>4. CASE u > n
  <2>1. u - 1 \in Nat /\ u - 1 >= n /\ u \in Nat /\ ~(u <= u - 1)
    BY <1>2, <1>4
  <2>2. Joins(u - 1)
    <3>. HIDE DEF Joins
    <3>. QED
      BY <1>2, <2>1
  <2>3. PICK f : f = [k \in n .. u - 1 |-> IF k = n THEN d[k] ELSE f[k - 1] \o d[k]]
    BY <2>2
  <2>4. PICK g : g = [k \in n .. u |-> IF k = n THEN d[k] ELSE f[k - 1] \o d[k]]
    OBVIOUS
  <2>5. ASSUME NEW k \in n .. u, k # n PROVE g[k - 1] = f[k - 1]
    <3>1. k - 1 \in n .. u - 1 /\ k - 1 \in n .. u
      BY <2>1, <2>5
    <3>. QED
      BY <2>3, <2>4, <3>1
  <2>6. g = [k \in n .. u |-> IF k = n THEN d[k] ELSE g[k - 1] \o d[k]]
    BY <2>4, <2>5
  <2>. QED
    BY <1>2, <2>6
<1>. QED
  BY <1>2, <1>3, <1>4

LEMMA SumExists ==
  ASSUME NEW L \in Nat, NEW w
  PROVE  \E f : Summing(f, w, L)
<1>. USE DEF Summing
<1>. DEFINE Sums(u) == \E f : f = [k \in 0 .. u |-> IF k = 0 THEN 0 ELSE f[k - 1] + w[k]]
            bad == {u \in Nat : ~Sums(u)}
<1>1. SUFFICES ASSUME bad # {} PROVE FALSE
  <2>1. bad = {} => Sums(L)
    OBVIOUS
  <2>. QED
    BY <2>1
<1>2. PICK u \in bad : \A v \in bad : u <= v
  <2>1. bad \in SUBSET Nat
    OBVIOUS
  <2>. HIDE DEF bad
  <2>. QED
    BY <1>1, <2>1, MinExists
<1>3. CASE u = 0
  <2>1. PICK f : f = [k \in 0 .. u |-> 0]
    OBVIOUS
  <2>2. f = [k \in 0 .. u |-> IF k = 0 THEN 0 ELSE f[k - 1] + w[k]]
    BY <1>3, <2>1
  <2>. QED
    BY <1>2, <2>2
<1>4. CASE u > 0
  <2>1. u - 1 \in Nat /\ u \in Nat /\ ~(u <= u - 1)
    BY <1>2, <1>4
  <2>2. Sums(u - 1)
    <3>. HIDE DEF Sums
    <3>. QED
      BY <1>2, <2>1
  <2>3. PICK f : f = [k \in 0 .. u - 1 |-> IF k = 0 THEN 0 ELSE f[k - 1] + w[k]]
    BY <2>2
  <2>4. PICK g : g = [k \in 0 .. u |-> IF k = 0 THEN 0 ELSE f[k - 1] + w[k]]
    OBVIOUS
  <2>5. ASSUME NEW k \in 0 .. u, k # 0 PROVE g[k - 1] = f[k - 1]
    <3>1. k - 1 \in 0 .. u - 1 /\ k - 1 \in 0 .. u
      BY <2>1, <2>5
    <3>. QED
      BY <2>3, <2>4, <3>1
  <2>6. g = [k \in 0 .. u |-> IF k = 0 THEN 0 ELSE g[k - 1] + w[k]]
    BY <2>4, <2>5
  <2>. QED
    BY <1>2, <2>6
<1>. QED
  BY <1>2, <1>3, <1>4

\* A sequence that is found at a place of another is its subsequence there.
LEMMA WithinPayload ==
  ASSUME NEW S, NEW p \in Seq(S), NEW s \in Seq(S), NEW k \in Nat, k + Len(s) <= Len(p),
         \A i \in 1 .. Len(s) : p[k + i] = s[i]
  PROVE  SubSeq(p, k + 1, k + Len(s)) = s
<1>1. Len(s) \in Nat /\ Len(p) \in Nat
  BY LenProperties
<1>2. PICK i, j : i = k + 1 /\ j = k + Len(s)
  OBVIOUS
<1>3. i \in Int /\ j \in Int /\ \A n \in i .. j : p[n] \in S
  <2>1. \A n \in i .. j : n \in 1 .. Len(p)
    BY <1>1, <1>2
  <2>. QED
    BY <1>1, <1>2, <2>1, ElementOfSeq
<1>4. /\ SubSeq(p, i, j) \in Seq(S) /\ Len(SubSeq(p, i, j)) = IF i <= j THEN j - i + 1 ELSE 0
      /\ \A n \in 1 .. j - i + 1 : SubSeq(p, i, j)[n] = p[i + n - 1]
  BY <1>3, SubSeqProperties
<1>5. Len(SubSeq(p, i, j)) = Len(s) /\ j - i + 1 = Len(s)
  BY <1>1, <1>2, <1>4
<1>6. ASSUME NEW n \in 1 .. Len(s) PROVE SubSeq(p, i, j)[n] = s[n]
  <2>1. i + n - 1 = k + n
    BY <1>1, <1>2
  <2>. QED
    BY <1>4, <1>5, <2>1
<1>. QED
  BY <1>2, <1>4, <1>5, <1>6, SeqEqual

\* The parts of a set that is complete.
Complete(at) ==
  LET L == Len(entries) IN
  /\ L \in Nat \ {0} /\ DOMAIN entries = 1 .. L
  /\ Everyone = 1 .. Len(writeJob.members) /\ Len(writeJob.members) \in Nat
  /\ \A n \in 1 .. L : LET e == entries[n] IN
       /\ at[n] \in Nat /\ Len(e.data) \in Nat /\ e.of \in Everyone
       /\ e.before <=> at[n] > 0
       /\ e.size = expected[e.of]
       /\ e.checksum = IF e.after THEN e.data ELSE integrity[e.of]
       /\ e.after => e.data # <<>> /\ Len(e.data) > 0
       /\ at[n] + Len(e.data) <= Len(Payload(e.of))
       /\ e.data = SubSeq(Payload(e.of), at[n] + 1, at[n] + Len(e.data))
       /\ ~e.after => at[n] + Len(e.data) = Len(Payload(e.of))
       /\ n > 1 => PartFollows(at, n)
  /\ \A i, k \in 1 .. L : i < k => entries[i].of <= entries[k].of
  /\ entries[1].of = 1 /\ at[1] = 0
  /\ entries[L].of = Len(writeJob.members) /\ ~entries[L].after

LEMMA WrittenIsComplete ==
  ASSUME WritingAssumption, Underway, writeStage = "written", NEW at \in Places, PartsOK(at)
  PROVE  Complete(at)
<1>. DEFINE L == Len(entries)
<1>1. WritingTypeOK /\ Position /\ Finished
  BY DEF Underway, Finished
<1>2. L \in Nat \ {0} /\ DOMAIN entries = 1 .. L /\ entries # <<>>
  <2>1. entries # <<>>
    BY <1>1 DEF PartsOK
  <2>. QED
    BY <1>1, <2>1, EntryFacts
<1>3. Everyone = 1 .. Len(writeJob.members) /\ Len(writeJob.members) \in Nat
  BY <1>1, JobFacts DEF WritingTypeOK
<1>4. ASSUME NEW n \in 1 .. L
      PROVE  LET e == entries[n] IN
             /\ at[n] \in Nat /\ Len(e.data) \in Nat /\ e.of \in Everyone
             /\ e.before <=> at[n] > 0
             /\ e.size = expected[e.of]
             /\ e.checksum = IF e.after THEN e.data ELSE integrity[e.of]
             /\ e.after => e.data # <<>> /\ Len(e.data) > 0
             /\ at[n] + Len(e.data) <= Len(Payload(e.of))
             /\ e.data = SubSeq(Payload(e.of), at[n] + 1, at[n] + Len(e.data))
             /\ ~e.after => at[n] + Len(e.data) = Len(Payload(e.of))
             /\ n > 1 => PartFollows(at, n)
  <2>1. /\ at[n] \in Nat /\ Len(entries[n].data) \in Nat /\ entries[n].of \in Everyone
        /\ entries[n].data \in Seq(Cells)
    BY <1>1, <1>2, EntryFacts DEF Places, Parts
  <2>2. PartOK(at, n) /\ (n > 1 => PartFollows(at, n))
    BY <1>2 DEF PartsOK
  <2>3. Written(entries[n].of) = Payload(entries[n].of)
    BY <1>1 DEF Written, Done
  <2>4. entries[n].data # <<>> => Len(entries[n].data) > 0
    <3>1. entries[n].data # <<>> => Len(entries[n].data) # 0
      BY <2>1, EmptySeq
    <3>. QED
      BY <2>1, <3>1
  <2>. QED
    BY <2>1, <2>2, <2>3, <2>4 DEF PartOK
<1>5. /\ \A i, k \in 1 .. L : i < k => entries[i].of <= entries[k].of
      /\ entries[1].of = 1 /\ at[1] = 0 /\ PartNext(at, L)
  BY <1>2 DEF PartsOK
<1>6. entries[L].of = Len(writeJob.members) /\ ~entries[L].after
  BY <1>1, <1>5 DEF PartNext, Position
<1>. QED
  BY <1>2, <1>3, <1>4, <1>5, <1>6 DEF Complete

\* A part continues another exactly when the one before it is continued.
LEMMA FlagsMeet ==
  ASSUME NEW at, Complete(at), NEW n \in 1 .. Len(entries), n > 1
  PROVE  /\ n - 1 \in 1 .. Len(entries)
         /\ entries[n].before <=> entries[n - 1].after
         /\ entries[n].after \/ ~entries[n].after
         /\ entries[n - 1].after => /\ entries[n].of = entries[n - 1].of
                                    /\ at[n] = at[n - 1] + Len(entries[n - 1].data)
         /\ ~entries[n - 1].after => entries[n].of = entries[n - 1].of + 1 /\ at[n] = 0
<1>1. n - 1 \in 1 .. Len(entries)
  BY DEF Complete
<1>2. PartFollows(at, n) /\ (entries[n].before <=> at[n] > 0)
  BY DEF Complete
<1>3. /\ at[n - 1] \in Nat /\ Len(entries[n - 1].data) \in Nat
      /\ entries[n - 1].after => Len(entries[n - 1].data) > 0
  BY <1>1 DEF Complete
<1>4. CASE entries[n - 1].after
  <2>1. at[n] = at[n - 1] + Len(entries[n - 1].data) /\ entries[n].of = entries[n - 1].of
    BY <1>2, <1>4 DEF PartFollows
  <2>2. at[n] > 0
    BY <1>3, <1>4, <2>1
  <2>. QED
    BY <1>1, <1>2, <1>4, <2>1, <2>2
<1>5. CASE ~entries[n - 1].after
  <2>1. at[n] = 0 /\ entries[n].of = entries[n - 1].of + 1
    BY <1>2, <1>5 DEF PartFollows
  <2>. QED
    BY <1>1, <1>2, <1>5, <2>1
<1>. QED
  BY <1>4, <1>5

\* Every member has one first part, in the order of the members.
LEMMA StartsInOrder ==
  ASSUME NEW at, Complete(at)
  PROVE  /\ {entries[n].of : n \in Starts} = Everyone
         /\ \A n, k \in Starts : n < k => entries[n].of < entries[k].of
<1>. DEFINE L == Len(entries)
<1>1. /\ L \in Nat \ {0} /\ DOMAIN entries = 1 .. L
      /\ Everyone = 1 .. Len(writeJob.members) /\ Len(writeJob.members) \in Nat
      /\ \A n \in 1 .. L : entries[n].of \in Everyone /\ entries[n].of \in Int
      /\ \A i, k \in 1 .. L : i < k => entries[i].of <= entries[k].of
  BY DEF Complete
<1>2. Starts = {n \in 1 .. L : ~entries[n].before}
  BY <1>1 DEF Starts
<1>3. ASSUME NEW m \in Everyone PROVE \E n \in Starts : entries[n].of = m
  <2>. DEFINE late == {n \in 1 .. L : entries[n].of >= m}
  <2>1. late \in SUBSET Nat
    BY <1>1
  <2>2. L \in late
    BY <1>1 DEF Complete
  <2>3. PICK n \in late : \A k \in late : n <= k
    <3>. HIDE DEF late
    <3>. QED
      BY <2>1, <2>2, MinExists
  <2>4. n \in 1 .. L /\ entries[n].of >= m /\ entries[n].of \in Int /\ m \in Int
    BY <1>1, <2>3
  <2>5. CASE n = 1
    <3>1. entries[1].of = 1 /\ at[1] = 0 /\ (entries[1].before <=> at[1] > 0)
      BY <2>4, <2>5 DEF Complete
    <3>2. m = 1
      BY <1>1, <2>4, <2>5, <3>1
    <3>. QED
      BY <1>2, <2>4, <2>5, <3>1, <3>2
  <2>6. CASE n > 1
    <3>1. n - 1 \in 1 .. L /\ ~(n <= n - 1)
      BY <1>1, <2>4, <2>6
    <3>2. ~(entries[n - 1].of >= m) /\ entries[n - 1].of \in Int
      BY <1>1, <2>3, <3>1
    <3>3. /\ entries[n].before <=> entries[n - 1].after
          /\ entries[n - 1].after => entries[n].of = entries[n - 1].of
          /\ ~entries[n - 1].after => entries[n].of = entries[n - 1].of + 1
      BY <2>4, <2>6, FlagsMeet
    <3>4. ~entries[n - 1].after /\ entries[n].of = m
      BY <2>4, <3>2, <3>3
    <3>. QED
      BY <1>2, <2>4, <3>3, <3>4
  <2>. QED
    BY <1>1, <2>4, <2>5, <2>6
<1>4. ASSUME NEW n \in Starts, NEW k \in Starts, n < k PROVE entries[n].of < entries[k].of
  <2>1. n \in 1 .. L /\ k \in 1 .. L /\ ~entries[k].before /\ k > 1
    BY <1>2, <1>4
  <2>2. /\ k - 1 \in 1 .. L /\ (entries[k].before <=> entries[k - 1].after)
        /\ ~entries[k - 1].after => entries[k].of = entries[k - 1].of + 1
    BY <2>1, FlagsMeet
  <2>3. entries[k].of = entries[k - 1].of + 1
    BY <2>1, <2>2
  <2>4. entries[n].of <= entries[k - 1].of
    <3>1. n < k - 1 => entries[n].of <= entries[k - 1].of
      BY <1>1, <2>1, <2>2
    <3>2. n < k - 1 \/ n = k - 1
      BY <1>4, <2>1
    <3>. QED
      BY <1>1, <2>1, <3>1, <3>2
  <2>. QED
    BY <1>1, <2>1, <2>2, <2>3, <2>4
<1>. QED
  BY <1>1, <1>2, <1>3, <1>4


\* The parts, and what each adds to the payload of a volume.
PartData == [k \in DOMAIN entries |-> entries[k].data]
PartLengths(v) ==
  [n \in DOMAIN entries |-> IF entries[n].volume = v THEN Len(entries[n].data) ELSE 0]

LEMMA JoinUnfolds ==
  ASSUME NEW n \in Nat, Len(entries) \in Nat, n > 0, n <= Len(entries),
         DOMAIN entries = 1 .. Len(entries)
  PROVE  \E f : Joining(f, PartData, n, Len(entries)) /\ JoinedTo(n) = f[LastPart(n)]
<1>. DEFINE Joins(f) == f = [k \in n .. Len(entries) |->
                               IF k = n THEN entries[k].data ELSE f[k - 1] \o entries[k].data]
<1>1. PICK f : Joining(f, PartData, n, Len(entries))
  BY JoinExists
<1>2. ASSUME NEW g PROVE Joins(g) <=> Joining(g, PartData, n, Len(entries))
  <2>1. \A k \in n .. Len(entries) : PartData[k] = entries[k].data
    BY DEF PartData
  <2>. QED
    BY <2>1 DEF Joining
<1>3. Joins(CHOOSE g : Joins(g))
  <2>. HIDE DEF Joins
  <2>. QED
    BY <1>1, <1>2
<1>4. JoinedTo(n) = (CHOOSE g : Joins(g))[LastPart(n)]
  BY DEF JoinedTo
<1>. HIDE DEF Joins
<1>. QED
  BY <1>2, <1>3, <1>4


\* And so is the payload of a volume a value of a sum.
LEMMA SumUnfolds ==
  ASSUME NEW v, Len(entries) \in Nat, DOMAIN entries = 1 .. Len(entries)
  PROVE  \E f : Summing(f, PartLengths(v), Len(entries)) /\ PayloadOf(v) = f[Len(entries)]
<1>. DEFINE Sums(f) == f = [n \in 0 .. Len(entries) |->
                              IF n = 0 THEN 0
                              ELSE f[n - 1] + IF entries[n].volume = v THEN Len(entries[n].data) ELSE 0]
<1>1. PICK f : Summing(f, PartLengths(v), Len(entries))
  BY SumExists
<1>2. ASSUME NEW g PROVE Sums(g) <=> Summing(g, PartLengths(v), Len(entries))
  <2>1. \A n \in 0 .. Len(entries) : n # 0 => n \in 1 .. Len(entries)
    OBVIOUS
  <2>2. \A n \in 1 .. Len(entries) :
          PartLengths(v)[n] = IF entries[n].volume = v THEN Len(entries[n].data) ELSE 0
    BY DEF PartLengths
  <2>. QED
    BY <2>1, <2>2 DEF Summing
<1>3. Sums(CHOOSE g : Sums(g))
  <2>. HIDE DEF Sums
  <2>. QED
    BY <1>1, <1>2
<1>4. PayloadOf(v) = (CHOOSE g : Sums(g))[Len(entries)]
  BY DEF PayloadOf
<1>. HIDE DEF Sums
<1>. QED
  BY <1>2, <1>3, <1>4

\* The volumes of a set that was written, and the lengths in them.
LEMMA VolumesInOrder ==
  ASSUME WritingAssumption, Underway, writeStage = "written", NEW at, Complete(at),
         NEW filled \in Places, VolumesOK(filled)
  PROVE  /\ {entries[n].volume : n \in DOMAIN entries} = DOMAIN ends
         /\ \A v \in DOMAIN ends : ends[v] <=> v < Len(ends)
<1>. DEFINE L == Len(entries)
<1>1. L \in Nat \ {0} /\ DOMAIN entries = 1 .. L /\ entries # <<>>
  <2>1. L \in Nat \ {0} /\ DOMAIN entries = 1 .. L
    BY DEF Complete
  <2>2. entries # <<>>
    BY <2>1, EmptySeq
  <2>. QED
    BY <2>1, <2>2
<1>2. Len(ends) \in Nat /\ DOMAIN ends = 1 .. Len(ends)
  BY LenProperties DEF Underway, WritingTypeOK
<1>3. \A n \in 1 .. L : entries[n].volume \in 1 .. Len(ends) + 1
  BY <1>1 DEF VolumesOK, InVolume
<1>4. entries[1].volume = 1 /\ VolumeNext(filled, L)
  BY <1>1 DEF VolumesOK
<1>5. entries[L].volume = Len(ends)
  BY <1>1, <1>2, <1>3, <1>4 DEF VolumeNext
<1>6. ASSUME NEW n \in 1 .. L PROVE entries[n].volume \in 1 .. Len(ends)
  <2>1. n < L => entries[n].volume <= entries[L].volume
    BY <1>1 DEF VolumesOK
  <2>2. n < L \/ n = L
    BY <1>1
  <2>. QED
    BY <1>2, <1>3, <1>5, <2>1, <2>2
<1>7. ASSUME NEW v \in 1 .. Len(ends) PROVE \E n \in 1 .. L : entries[n].volume = v
  <2>. DEFINE late == {n \in 1 .. L : entries[n].volume >= v}
  <2>1. late \in SUBSET Nat /\ L \in late
    BY <1>1, <1>2, <1>5
  <2>2. PICK n \in late : \A k \in late : n <= k
    <3>. HIDE DEF late
    <3>. QED
      BY <2>1, MinExists
  <2>3. n \in 1 .. L /\ entries[n].volume >= v /\ entries[n].volume \in Int /\ v \in Int
    BY <1>2, <1>6, <2>2
  <2>4. CASE n = 1
    BY <1>2, <1>4, <2>3, <2>4
  <2>5. CASE n > 1
    <3>1. n - 1 \in 1 .. L /\ ~(n <= n - 1)
      BY <1>1, <2>3, <2>5
    <3>2. ~(entries[n - 1].volume >= v) /\ entries[n - 1].volume \in Int
      BY <1>2, <1>6, <2>2, <3>1
    <3>3. entries[n].volume \in {entries[n - 1].volume, entries[n - 1].volume + 1}
      BY <1>1, <2>3, <2>5 DEF VolumesOK, VolumeFollows
    <3>. QED
      BY <2>3, <3>2, <3>3
  <2>. QED
    BY <1>1, <2>3, <2>4, <2>5
<1>8. \A v \in DOMAIN ends : ends[v] <=> v < Len(ends)
  BY <1>2 DEF VolumesOK
<1>9. ASSUME NEW v \in DOMAIN ends PROVE \E n \in DOMAIN entries : v = entries[n].volume
  BY <1>1, <1>2, <1>7
<1>10. ASSUME NEW n \in DOMAIN entries PROVE entries[n].volume \in DOMAIN ends
  BY <1>1, <1>2, <1>6
<1>11. {entries[n].volume : n \in DOMAIN entries} = DOMAIN ends
  <2>1. \A v : v \in DOMAIN ends => v \in {entries[n].volume : n \in DOMAIN entries}
    BY <1>9
  <2>2. \A v : v \in {entries[n].volume : n \in DOMAIN entries} => v \in DOMAIN ends
    BY <1>10
  <2>. QED
    BY <2>1, <2>2
<1>. QED
  BY <1>8, <1>11

\* No volume is longer than asked.
LEMMA VolumesFit ==
  ASSUME WritingAssumption, Volumes, NEW at, Complete(at),
         NEW filled \in Places, VolumesOK(filled), NEW v \in Nat \ {0}
  PROVE  PayloadOf(v) <= MaxPayload
<1>. DEFINE L == Len(entries)
<1>1. L \in Nat \ {0} /\ DOMAIN entries = 1 .. L /\ entries # <<>>
  <2>1. L \in Nat \ {0} /\ DOMAIN entries = 1 .. L
    BY DEF Complete
  <2>2. entries # <<>>
    BY <2>1, EmptySeq
  <2>. QED
    BY <2>1, <2>2
<1>2. MaxPayload \in Nat
  BY DEF WritingAssumption
<1>3. PICK f : Summing(f, PartLengths(v), L) /\ PayloadOf(v) = f[L]
  BY <1>1, SumUnfolds
<1>4. f[0] = 0
  BY <1>1, <1>3 DEF Summing
<1>5. ASSUME NEW n \in 1 .. L
      PROVE  f[n] = f[n - 1] + IF entries[n].volume = v THEN Len(entries[n].data) ELSE 0
  <2>1. f[n] = f[n - 1] + PartLengths(v)[n]
    BY <1>1, <1>3 DEF Summing
  <2>. QED
    BY <1>1, <2>1 DEF PartLengths
<1>6. ASSUME NEW n \in 1 .. L
      PROVE  /\ filled[n] \in Nat /\ Len(entries[n].data) \in Nat /\ entries[n].volume \in Int
             /\ entries[n].volume >= 1
             /\ filled[n] + Len(entries[n].data) <= MaxPayload
  <2>1. filled[n] \in Nat
    BY <1>1 DEF Places
  <2>2. Len(entries[n].data) \in Nat
    BY DEF Complete
  <2>3. entries[n].volume \in 1 .. Len(ends) + 1 /\ filled[n] + Len(entries[n].data) <= MaxPayload
    BY <1>1 DEF VolumesOK, InVolume
  <2>. QED
    BY <2>1, <2>2, <2>3
<1>. DEFINE Counted(n) ==
       /\ f[n] \in Nat
       /\ entries[n].volume < v => f[n] = 0
       /\ entries[n].volume = v => f[n] = filled[n] + Len(entries[n].data)
       /\ entries[n].volume > v => f[n] <= MaxPayload
<1>7. ASSUME NEW n \in 1 .. L, \A k \in 1 .. L : k < n => Counted(k)
      PROVE  Counted(n)
  <2>1. CASE n = 1
    <3>1. entries[1].volume = 1 /\ filled[1] = 0
      BY <1>1 DEF VolumesOK
    <3>2. f[1] = IF entries[1].volume = v THEN 0 + Len(entries[1].data) ELSE 0
      BY <1>4, <1>5, <1>6, <2>1
    <3>. QED
      BY <1>2, <1>6, <2>1, <3>1, <3>2
  <2>2. CASE n > 1
    <3>1. n - 1 \in 1 .. L /\ n - 1 < n
      BY <1>1, <2>2
    <3>2. Counted(n - 1)
      <4>. HIDE DEF Counted
      <4>. QED
        BY <1>7, <3>1
    <3>3. /\ entries[n].volume \in {entries[n - 1].volume, entries[n - 1].volume + 1}
          /\ filled[n] = IF entries[n].volume = entries[n - 1].volume
                         THEN filled[n - 1] + Len(entries[n - 1].data) ELSE 0
      BY <1>1, <2>2 DEF VolumesOK, VolumeFollows
    <3>4. f[n] = f[n - 1] + IF entries[n].volume = v THEN Len(entries[n].data) ELSE 0
      BY <1>5
    <3>5. /\ filled[n - 1] \in Nat /\ Len(entries[n - 1].data) \in Nat
          /\ entries[n - 1].volume \in Int
          /\ filled[n - 1] + Len(entries[n - 1].data) <= MaxPayload
      BY <1>6, <3>1
    <3>6. PICK u, w, g, l : /\ u = entries[n - 1].volume /\ w = entries[n].volume
                            /\ g = f[n - 1] /\ l = Len(entries[n].data)
      OBVIOUS
    <3>7. /\ w \in {u, u + 1} /\ u \in Int /\ w \in Int /\ g \in Nat /\ l \in Nat /\ v \in Nat
          /\ filled[n] \in Nat /\ filled[n] + l <= MaxPayload
          /\ f[n] = g + IF w = v THEN l ELSE 0
      BY <1>6, <3>2, <3>3, <3>4, <3>5, <3>6
    <3>8. /\ u < v => g = 0
          /\ u = v /\ w = u => g = filled[n]
          /\ u = v => g <= MaxPayload
          /\ u > v => g <= MaxPayload
          /\ w # u => filled[n] = 0
      BY <3>2, <3>3, <3>5, <3>6
    <3>9. f[n] \in Nat /\ (w < v => f[n] = 0)
      BY <3>7, <3>8
    <3>10. w = v => f[n] = filled[n] + l
      BY <3>7, <3>8
    <3>11. w > v => f[n] <= MaxPayload
      BY <1>2, <3>7, <3>8
    <3>. QED
      BY <3>6, <3>9, <3>10, <3>11
  <2>. QED
    BY <1>1, <2>1, <2>2
<1>8. \A n \in 1 .. L : Counted(n)
  <2>. DEFINE bad == {n \in 1 .. L : ~Counted(n)}
  <2>1. SUFFICES ASSUME bad # {} PROVE FALSE
    OBVIOUS
  <2>2. bad \in SUBSET Nat
    BY <1>1
  <2>3. PICK n \in bad : \A k \in bad : n <= k
    <3>. HIDE DEF bad
    <3>. QED
      BY <2>1, <2>2, MinExists
  <2>. HIDE DEF Counted
  <2>4. n \in 1 .. L /\ ~Counted(n)
    BY <2>3
  <2>5. ASSUME NEW k \in 1 .. L, k < n PROVE Counted(k)
    <3>1. ~(n <= k)
      BY <1>1, <2>4, <2>5
    <3>. QED
      BY <2>3, <3>1
  <2>. QED
    BY <1>7, <2>4, <2>5
<1>9. Counted(L) /\ L \in 1 .. L
  <2>1. L \in 1 .. L
    BY <1>1
  <2>. HIDE DEF Counted
  <2>. QED
    BY <1>8, <2>1
<1>10. f[L] <= MaxPayload
  BY <1>2, <1>6, <1>9
<1>. QED
  BY <1>3, <1>10

\* The last of the parts of a member.
LEMMA LastPartFacts ==
  ASSUME NEW at, Complete(at), NEW n \in 1 .. Len(entries)
  PROVE  /\ LastPart(n) \in n .. Len(entries) /\ ~entries[LastPart(n)].after
         /\ \A i \in n .. LastPart(n) - 1 : entries[i].after
<1>. DEFINE L == Len(entries)
            Last(k) == ~entries[k].after /\ \A i \in n .. k - 1 : entries[i].after
            open == {k \in n .. L : ~entries[k].after}
<1>1. L \in Nat \ {0} /\ ~entries[L].after
  BY DEF Complete
<1>2. open \in SUBSET Nat /\ L \in open
  BY <1>1
<1>3. PICK k \in open : \A j \in open : k <= j
  <2>. HIDE DEF open
  <2>. QED
    BY <1>2, MinExists
<1>4. k \in n .. L /\ Last(k)
  <2>1. k \in n .. L /\ ~entries[k].after
    BY <1>3
  <2>2. ASSUME NEW i \in n .. k - 1 PROVE entries[i].after
    <3>1. i \in n .. L /\ ~(k <= i)
      BY <1>1, <2>1, <2>2
    <3>. QED
      BY <1>3, <3>1
  <2>. QED
    BY <2>1, <2>2
<1>5. LastPart(n) = CHOOSE j \in n .. L : Last(j)
  BY DEF LastPart
<1>6. LastPart(n) \in n .. L /\ Last(LastPart(n))
  <2>. HIDE DEF Last
  <2>. QED
    BY <1>4, <1>5
<1>. QED
  BY <1>6

\* The parts of a member, joined, are its payload.
LEMMA PartsJoin ==
  ASSUME NEW at, Complete(at), NEW n \in Starts, Payload(entries[n].of) \in Seq(Cells)
  PROVE  /\ entries[LastPart(n)].of = entries[n].of
         /\ JoinedTo(n) = Payload(entries[n].of)
<1>. DEFINE L == Len(entries)
<1>1. L \in Nat \ {0} /\ DOMAIN entries = 1 .. L /\ n \in 1 .. L /\ ~entries[n].before
  BY DEF Complete, Starts
<1>2. PICK p : p = Payload(entries[n].of)
  OBVIOUS
<1>3. p \in Seq(Cells) /\ Len(p) \in Nat
  BY <1>2, LenProperties
<1>4. PICK f : Joining(f, PartData, n, L) /\ JoinedTo(n) = f[LastPart(n)]
  <2>1. n \in Nat /\ n > 0 /\ n <= L
    BY <1>1
  <2>. QED
    BY <1>1, <2>1, JoinUnfolds
<1>5. ASSUME NEW k \in n .. L
      PROVE  f[k] = IF k = n THEN entries[k].data ELSE f[k - 1] \o entries[k].data
  <2>1. k \in 1 .. L
    BY <1>1, <1>5
  <2>2. PartData[k] = entries[k].data
    BY <1>1, <2>1 DEF PartData
  <2>. QED
    BY <1>4, <2>2 DEF Joining
<1>6. PICK last : last = LastPart(n)
  OBVIOUS
<1>7. /\ last \in n .. L /\ ~entries[last].after /\ last \in Int
      /\ \A i \in n .. last - 1 : entries[i].after
  BY <1>1, <1>6, LastPartFacts
<1>8. ASSUME NEW k \in 1 .. L
      PROVE  LET e == entries[k] IN
             /\ at[k] \in Nat /\ Len(e.data) \in Nat
             /\ e.before <=> at[k] > 0
             /\ at[k] + Len(e.data) <= Len(Payload(e.of))
             /\ e.data = SubSeq(Payload(e.of), at[k] + 1, at[k] + Len(e.data))
             /\ ~e.after => at[k] + Len(e.data) = Len(Payload(e.of))
  BY <1>1 DEF Complete
<1>. DEFINE Joined(k) ==
       /\ entries[k].of = entries[n].of
       /\ f[k] = SubSeq(p, 1, at[k] + Len(entries[k].data))
<1>9. ASSUME NEW k \in n .. last, \A j \in n .. last : j < k => Joined(j)
      PROVE  Joined(k)
  <2>1. k \in 1 .. L /\ k \in n .. L
    BY <1>1, <1>7
  <2>2. CASE k = n
    <3>1. at[n] = 0
      BY <1>1, <1>8
    <3>2. PICK i, j : i = at[n] + 1 /\ j = at[n] + Len(entries[n].data)
      OBVIOUS
    <3>3. i = 1
      BY <3>1, <3>2
    <3>4. entries[n].data = SubSeq(p, i, j)
      BY <1>1, <1>2, <1>8, <3>2
    <3>5. f[n] = entries[n].data
      BY <1>5, <2>1, <2>2
    <3>. QED
      BY <2>2, <3>2, <3>3, <3>4, <3>5
  <2>3. CASE k > n
    <3>1. k - 1 \in n .. last /\ k - 1 \in n .. last - 1 /\ k - 1 < k /\ k > 1
      BY <1>1, <1>7, <2>1, <2>3
    <3>2. Joined(k - 1)
      <4>. HIDE DEF Joined
      <4>. QED
        BY <1>9, <3>1
    <3>3. entries[k - 1].after
      BY <1>7, <3>1
    <3>4. entries[k].of = entries[k - 1].of /\ at[k] = at[k - 1] + Len(entries[k - 1].data)
      BY <2>1, <3>1, <3>3, FlagsMeet
    <3>5. PICK i, j : i = at[k] /\ j = at[k] + Len(entries[k].data)
      OBVIOUS
    <3>6. i \in Nat /\ j \in Nat /\ i <= j /\ j <= Len(p)
      <4>1. entries[k].of = entries[n].of
        BY <3>2, <3>4
      <4>2. at[k] \in Nat /\ Len(entries[k].data) \in Nat /\ j <= Len(p)
        BY <1>2, <1>8, <2>1, <3>5, <4>1
      <4>. QED
        BY <3>5, <4>2
    <3>7. f[k - 1] = SubSeq(p, 1, i)
      BY <3>2, <3>4, <3>5
    <3>8. entries[k].data = SubSeq(p, i + 1, j)
      BY <1>2, <1>8, <2>1, <3>2, <3>4, <3>5
    <3>9. f[k] = f[k - 1] \o entries[k].data
      <4>1. k \in n .. L /\ k # n
        BY <1>1, <2>1, <2>3
      <4>. QED
        BY <1>5, <4>1
    <3>10. SubSeq(p, 1, i) \o SubSeq(p, i + 1, j) = SubSeq(p, 1, j)
      <4>1. 1 \in 1 .. Len(p) + 1 /\ i \in 1 - 1 .. Len(p) /\ j \in i .. Len(p)
        BY <1>3, <3>6
      <4>. QED
        BY <1>3, <4>1, ConcatAdjacentSubSeq
    <3>. QED
      BY <3>2, <3>4, <3>5, <3>7, <3>8, <3>9, <3>10
  <2>. QED
    BY <1>1, <2>1, <2>2, <2>3
<1>10. Joined(last)
  <2>. DEFINE bad == {k \in n .. last : ~Joined(k)}
  <2>1. SUFFICES ASSUME bad # {} PROVE FALSE
    <3>1. last \in n .. last
      BY <1>1, <1>7
    <3>. HIDE DEF Joined
    <3>. QED
      BY <3>1
  <2>2. bad \in SUBSET Nat
    BY <1>1
  <2>3. PICK k \in bad : \A j \in bad : k <= j
    <3>. HIDE DEF bad
    <3>. QED
      BY <2>1, <2>2, MinExists
  <2>. HIDE DEF Joined
  <2>4. k \in n .. last /\ ~Joined(k)
    BY <2>3
  <2>5. ASSUME NEW j \in n .. last, j < k PROVE Joined(j)
    <3>1. ~(k <= j)
      BY <1>1, <2>4, <2>5
    <3>. QED
      BY <2>3, <3>1
  <2>. QED
    BY <1>9, <2>4, <2>5
<1>11. at[last] + Len(entries[last].data) = Len(p)
  <2>1. last \in 1 .. L
    BY <1>1, <1>7
  <2>. QED
    BY <1>2, <1>7, <1>8, <1>10, <2>1
<1>12. f[last] = p
  BY <1>3, <1>10, <1>11, SubSeqFull
<1>. QED
  BY <1>2, <1>4, <1>6, <1>10, <1>12

\* The padding of a payload follows its data.
LEMMA SealedBegins ==
  ASSUME WritingAssumption, WritingTypeOK, NEW m \in Everyone, NEW data \in Seq(Cells)
  PROVE  /\ Sealed(m, data) \in Seq(Cells) /\ Len(Sealed(m, data)) >= Len(data)
         /\ \A i \in 1 .. Len(data) : Sealed(m, data)[i] = data[i]
<1>1. writeJob \in WriteJobs
  BY DEF WritingTypeOK
<1>. QED
  BY <1>1, SealedFacts, ZenonT(60)

\* What is decoded is what the checksum was made of.
LEMMA PartsDecode ==
  ASSUME WritingAssumption, Underway, writeStage = "written", NEW at, Complete(at), NEW n \in Starts
  PROVE  /\ Len(Decoded(n)) = entries[LastPart(n)].size
         /\ Decoded(n) = entries[LastPart(n)].checksum
<1>1. WritingTypeOK /\ Knowledge /\ Position
  BY DEF Underway
<1>2. PICK m : m = entries[n].of
  OBVIOUS
<1>3. n \in 1 .. Len(entries) /\ m \in Everyone
  BY <1>2 DEF Complete, Starts
<1>4. Known(m)
  <2>1. member = Len(writeJob.members) /\ Everyone = 1 .. Len(writeJob.members)
    BY <1>1 DEF Position, Finished, Complete
  <2>2. ~(m > member)
    <3>1. Len(writeJob.members) \in Nat
      BY DEF Complete
    <3>. QED
      BY <1>3, <2>1, <3>1
  <2>3. ~Unread(m)
    BY <2>2 DEF Unread
  <2>. QED
    BY <1>1, <1>3, <2>3 DEF Knowledge
<1>5. PICK s : s = integrity[m]
  OBVIOUS
<1>6. s \in Seq(Bytes) /\ s \in Seq(Cells) /\ Len(s) = expected[m] /\ Len(s) \in Nat
  BY <1>4, <1>5, CellFacts, LenProperties DEF Known
<1>7. writeJob \in WriteJobs /\ kept[m] \in Seq(Cells) \cup {NoData} /\ NoData \notin Seq(Cells)
  BY <1>1, <1>3 DEF WritingTypeOK, WritingAssumption
<1>8. /\ <<Table>> \o s \in Seq(Cells) /\ Len(<<Table>> \o s) = 1 + Len(s)
      /\ \A i \in 1 .. Len(s) : (<<Table>> \o s)[1 + i] = s[i]
  <2>1. <<Table>> \in Seq(Cells) /\ Len(<<Table>>) = 1
    BY CellFacts
  <2>2. /\ <<Table>> \o s \in Seq(Cells) /\ Len(<<Table>> \o s) = 1 + Len(s)
        /\ \A i \in 1 .. 1 + Len(s) :
             (<<Table>> \o s)[i] = IF i <= 1 THEN <<Table>>[i] ELSE s[i - 1]
    BY <1>6, <2>1, ConcatProperties
  <2>3. ASSUME NEW i \in 1 .. Len(s) PROVE (<<Table>> \o s)[1 + i] = s[i]
    <3>1. 1 + i \in 1 .. 1 + Len(s) /\ ~(1 + i <= 1) /\ (1 + i) - 1 = i
      BY <1>6, <2>3
    <3>. QED
      BY <2>2, <3>1
  <2>. QED
    BY <2>2, <2>3
<1>9. Payload(m) = IF Packed(m) THEN Sealed(m, <<Table>> \o s) ELSE Sealed(m, s)
  <2>1. Sealed(m, <<Table>> \o s) \in Seq(Cells)
    BY <1>1, <1>3, <1>6, <1>8, SealedBegins
  <2>2. /\ Packed(m) => kept[m] = Sealed(m, <<Table>> \o s)
        /\ ~Packed(m) => kept[m] \in {NoData, Sealed(m, s)}
    BY <1>4, <1>5 DEF Known
  <2>. QED
    BY <1>5, <1>7, <2>1, <2>2 DEF Payload
<1>10. Payload(m) \in Seq(Cells)
  <2>1. Sealed(m, <<Table>> \o s) \in Seq(Cells) /\ Sealed(m, s) \in Seq(Cells)
    BY <1>1, <1>3, <1>6, <1>8, SealedBegins
  <2>. QED
    BY <1>9, <2>1
<1>11. entries[LastPart(n)].of = m /\ JoinedTo(n) = Payload(m)
  BY <1>2, <1>10, PartsJoin
<1>12. entries[LastPart(n)].size = Len(s) /\ entries[LastPart(n)].checksum = s
  <2>1. LastPart(n) \in n .. Len(entries) /\ ~entries[LastPart(n)].after
    BY <1>3, LastPartFacts
  <2>2. LastPart(n) \in 1 .. Len(entries)
    BY <1>3, <2>1
  <2>3. entries[LastPart(n)].size = expected[m] /\ entries[LastPart(n)].checksum = integrity[m]
    BY <1>11, <2>1, <2>2 DEF Complete
  <2>. QED
    BY <1>5, <1>6, <2>3
<1>13. Decoded(n) = IF Packed(m) THEN SubSeq(Payload(m), 2, Len(s) + 1)
                    ELSE SubSeq(Payload(m), 1, Len(s))
  BY <1>2, <1>11, <1>12 DEF Decoded
<1>14. CASE Packed(m)
  <2>1. PICK t : t = <<Table>> \o s
    OBVIOUS
  <2>2. PICK p : p = Sealed(m, t)
    OBVIOUS
  <2>3. p \in Seq(Cells) /\ Len(p) >= Len(t) /\ \A i \in 1 .. Len(t) : p[i] = t[i]
    <3>1. t \in Seq(Cells)
      BY <1>8, <2>1
    <3>. QED
      BY <1>1, <1>3, <2>2, <3>1, SealedBegins
  <2>4. 1 + Len(s) <= Len(p) /\ Len(p) \in Nat
    BY <1>6, <1>8, <2>1, <2>3, LenProperties
  <2>5. ASSUME NEW i \in 1 .. Len(s) PROVE p[1 + i] = s[i]
    <3>1. 1 + i \in 1 .. Len(t)
      BY <1>6, <1>8, <2>1, <2>5
    <3>. QED
      BY <1>8, <2>1, <2>3, <3>1
  <2>6. SubSeq(p, 1 + 1, 1 + Len(s)) = s
    BY <1>6, <2>3, <2>4, <2>5, WithinPayload
  <2>7. SubSeq(p, 2, Len(s) + 1) = s
    <3>1. 1 + 1 = 2 /\ 1 + Len(s) = Len(s) + 1
      BY <1>6
    <3>. QED
      BY <2>6, <3>1
  <2>8. Payload(m) = p
    BY <1>9, <1>14, <2>1, <2>2
  <2>. QED
    BY <1>12, <1>13, <1>14, <2>7, <2>8
<1>15. CASE ~Packed(m)
  <2>1. PICK p : p = Sealed(m, s)
    OBVIOUS
  <2>2. p \in Seq(Cells) /\ Len(p) >= Len(s) /\ \A i \in 1 .. Len(s) : p[i] = s[i]
    BY <1>1, <1>3, <1>6, <2>1, SealedBegins
  <2>3. 0 + Len(s) <= Len(p) /\ \A i \in 1 .. Len(s) : p[0 + i] = s[i]
    <3>1. Len(p) \in Nat
      BY <2>2, LenProperties
    <3>. QED
      BY <1>6, <2>2, <3>1
  <2>4. SubSeq(p, 0 + 1, 0 + Len(s)) = s
    BY <1>6, <2>2, <2>3, WithinPayload
  <2>5. SubSeq(p, 1, Len(s)) = s
    <3>1. 0 + 1 = 1 /\ 0 + Len(s) = Len(s)
      BY <1>6
    <3>. QED
      BY <2>4, <3>1
  <2>6. Payload(m) = p
    BY <1>9, <1>15, <2>1
  <2>. QED
    BY <1>12, <1>13, <1>15, <2>5, <2>6
<1>. QED
  BY <1>14, <1>15

\* A set that was written verifies: every conjunct from the places of its parts.
LEMMA WrittenVerifies ==
  ASSUME WritingAssumption, WritingInvariant
  PROVE  WrittenSetsVerify
<1>. SUFFICES ASSUME writeStage = "written" PROVE WrittenSetsVerify
  BY DEF WrittenSetsVerify
<1>1. Underway
  BY DEF WritingInvariant
<1>2. PICK at \in Places : PartsOK(at)
  BY <1>1 DEF Underway
<1>3. PICK filled \in Places : VolumesOK(filled)
  BY <1>1 DEF Underway
<1>4. Complete(at)
  BY <1>1, <1>2, WrittenIsComplete
<1>5. /\ Len(entries) \in Nat \ {0} /\ DOMAIN entries = 1 .. Len(entries)
      /\ \A n \in DOMAIN entries : entries[n].after => entries[n].checksum = entries[n].data
  BY <1>4 DEF Complete
<1>6. /\ {entries[n].of : n \in Starts} = Everyone
      /\ \A n, k \in Starts : n < k => entries[n].of < entries[k].of
  BY <1>4, StartsInOrder
<1>7. ~entries[1].before /\ ~entries[Len(entries)].after
  <2>1. at[1] = 0 /\ (entries[1].before <=> at[1] > 0) /\ ~entries[Len(entries)].after
    BY <1>4, <1>5 DEF Complete
  <2>. QED
    BY <2>1
<1>8. ASSUME NEW n \in 1 .. Len(entries) - 1
      PROVE  /\ entries[n].after <=> entries[n + 1].before
             /\ entries[n].after => /\ entries[n + 1].of = entries[n].of
                                    /\ entries[n + 1].volume = entries[n].volume + 1
                                    /\ entries[n].data # <<>>
  <2>1. PICK k : k = n + 1
    OBVIOUS
  <2>2. k \in 1 .. Len(entries) /\ k > 1 /\ k - 1 = n /\ n \in 1 .. Len(entries)
    BY <1>5, <2>1
  <2>3. /\ entries[k].before <=> entries[n].after
        /\ entries[n].after => entries[k].of = entries[n].of
    BY <1>4, <2>2, FlagsMeet
  <2>4. entries[n].after => entries[k].volume = entries[n].volume + 1
    BY <1>3, <1>5, <2>2 DEF VolumesOK, VolumeFollows
  <2>5. entries[n].after => entries[n].data # <<>>
    BY <1>4, <2>2 DEF Complete
  <2>. QED
    BY <2>1, <2>3, <2>4, <2>5
<1>9. \A n \in Starts : /\ Len(Decoded(n)) = entries[LastPart(n)].size
                        /\ Decoded(n) = entries[LastPart(n)].checksum
  BY <1>1, <1>4, PartsDecode
<1>10. /\ {entries[n].volume : n \in DOMAIN entries} = DOMAIN ends
       /\ \A v \in DOMAIN ends : ends[v] <=> v < Len(ends)
  BY <1>1, <1>3, <1>4, VolumesInOrder
<1>11. \A v \in DOMAIN ends : Volumes => PayloadOf(v) <= MaxPayload
  <2>1. DOMAIN ends = 1 .. Len(ends) /\ Len(ends) \in Nat
    BY <1>1, LenProperties DEF Underway, WritingTypeOK
  <2>2. \A v \in DOMAIN ends : v \in Nat \ {0}
    BY <2>1
  <2>. QED
    BY <1>3, <1>4, <2>2, VolumesFit
<1>. QED
  BY <1>5, <1>6, <1>7, <1>8, <1>9, <1>10, <1>11 DEF WrittenSetsVerify

-----------------------------------------------------------------------------
\* Everything that is known of a member was read of it in one pass, and every
\* part that is written has a place in its member's payload and in its volume,
\* whatever happens to the sources and wherever the volumes end.
THEOREM WritingInvariantHolds == WritingSpec => []WritingInvariant
<1>1. WritingInit => WritingInvariant
  BY WritingAssumption, WritingStarts
<1>2. WritingInvariant /\ [WritingNext]_writingVars => WritingInvariant'
  BY WritingAssumption, WritingSteps
<1>. QED
  BY <1>1, <1>2, PTL DEF WritingSpec

\* A set that was written verifies: for all sources, however they change during
\* the call, and for all lengths of volumes, what a reader joins and decodes is
\* what the headers declare, in order, without a gap and within the limit.
THEOREM WrittenSetsVerifyHolds == WritingSpec => []WrittenSetsVerify
<1>1. WritingInvariant => WrittenSetsVerify
  BY WritingAssumption, WrittenVerifies
<1>. QED
  BY <1>1, WritingInvariantHolds, PTL
=============================================================================
