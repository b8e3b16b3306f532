--------------------------- MODULE ExtractWindowed ---------------------------
(***************************************************************************)
(* Bounded parallel extraction (codec/workspace/coordinator.rs).  A        *)
(* coordinator admits a batch of members, reserves a scope of the          *)
(* workspace ledger for each, lets workers decode them concurrently, joins *)
(* them, and publishes the outputs in order - or nothing of the batch if   *)
(* one of them failed.  Every step that touches memory is an operation of  *)
(* WorkspaceLedger; slot i of a batch uses scope i.                        *)
(***************************************************************************)
EXTENDS WorkspaceLedger, Sequences

CONSTANTS N,          \* number of members to extract
          Window,     \* parallel::default_window()
          Overhead,   \* size_of::<Slot>()
          Hints,      \* the admission hints a call may meet: functions of the members
          MaxNeed     \* bound: bytes a decoded member may need

ASSUME ExtractAssumption ==
  /\ N \in Nat /\ Window \in Nat \ {0} /\ MaxNeed \in Nat
  /\ Overhead \in Nat \ {0} /\ ReservationBytes > 0 /\ MaxHandles > 0
  /\ Scopes = 1 .. Window
  /\ Charges = {0} \cup (Window + 1 .. 2 * Window)
  /\ Hints \subseteq [1 .. N -> Nat]

SlotsCharge == 0               \* the buffer of slots
OutputOf(s) == Window + s      \* what the worker of slot s allocates

VARIABLES hint,      \* hint(item) of each member
          pc,        \* where the coordinator is
          first,     \* the first member of the current batch
          room,      \* capacity of the slot buffer
          batch,     \* members admitted to the current batch
          required,  \* sum of hints and control blocks of the batch
          extra,     \* equal share of the spare bytes
          worker,    \* what the worker of each slot is doing
          result,    \* Slot.result: "none", "ok", or the error
          stopped,   \* the batch's AtomicBool
          published, \* members handed to publish so far
          outcome    \* what extract_windowed returned

coordVars   == <<hint, pc, first, room, batch, required, extra, published, outcome>>
workerVars  == <<worker, result, stopped>>
extractVars == <<ledgerVars, coordVars, workerVars>>

Slots == 1 .. Len(batch)
Errors == {"limit", "decode", "panic"}

ExtractInit ==
  /\ LedgerInit
  /\ hint \in Hints
  /\ pc = "admit" /\ first = 1 /\ room = 0 /\ batch = <<>> /\ required = 0 /\ extra = 0
  /\ worker = [s \in Scopes |-> "idle"]
  /\ result = [s \in Scopes |-> "none"]
  /\ stopped = FALSE /\ published = 0 /\ outcome = "running"

----------------------------------------------------------------------------
(* The coordinator before dispatch.                                        *)

FirstCost(m) == hint[m] + Overhead + ReservationBytes

\* No member is left: extract_windowed returns Ok.
Complete ==
  /\ pc = "admit" /\ first > N
  /\ pc' = "done" /\ outcome' = "ok"
  /\ UNCHANGED <<ledgerVars, workerVars, hint, first, room, batch, required, extra, published>>

\* check_capacity(first_cost) refuses the member, before any allocation.
RefuseByWaiting ==  \* mistake: it waits for room that nobody else can make
  /\ pc = "admit" /\ first <= N
  /\ ~Fits(FirstCost(first))
  /\ UNCHANGED extractVars

Refuse ==
  /\ pc = "admit" /\ first <= N
  /\ ~Fits(FirstCost(first))
  /\ pc' = "done" /\ outcome' = "limit"
  /\ UNCHANGED <<ledgerVars, workerVars, hint, first, room, batch, required, extra, published>>

\* The slot buffer's charge, and the number of slots it is made for.
OpenBatch ==
  /\ pc = "admit" /\ first <= N
  /\ Fits(FirstCost(first))
  /\ NewCharge(SlotsCharge, Global)
  /\ LET fit == (Limit - used) \div FirstCost(first)
     IN  room' = IF fit < Window THEN fit ELSE Window
  /\ pc' = "alloc"
  /\ UNCHANGED <<workerVars, hint, first, batch, required, extra, published, outcome>>

AllocateSlots ==
  /\ pc = "alloc"
  /\ GrowGlobal(SlotsCharge, room * Overhead)
  /\ pc' = "fill" /\ batch' = <<>> /\ required' = 0
  /\ UNCHANGED <<workerVars, hint, first, room, extra, published, outcome>>

\* One more member, while the hints of the batch fit what is available.
FitsAfterHint(m) == required + hint[m] + ReservationBytes <= Limit - used

Admissible(m) ==
  /\ Len(batch) < room /\ m <= N
  /\ FitsAfterHint(m)

Admit ==
  LET m == first + Len(batch) IN
  /\ pc = "fill" /\ Admissible(m)
  /\ batch' = Append(batch, m)
  /\ required' = required + hint[m] + ReservationBytes
  /\ UNCHANGED <<ledgerVars, workerVars, hint, pc, first, room, extra, published, outcome>>

\* The batch is full: what is still available is shared out equally.
GiveAllSpare == Limit - used - required  \* mistake: each worker gets all of it

ShareSpare == (Limit - used - required) \div Len(batch)

CloseBatch ==
  /\ pc = "fill" /\ ~Admissible(first + Len(batch))
  /\ extra' = ShareSpare
  /\ stopped' = FALSE
  /\ pc' = "reserve"
  /\ UNCHANGED <<ledgerVars, worker, result, hint, first, room, batch, required, published, outcome>>

\* The slots get their reservations one by one, in order.
NextSlot == CHOOSE s \in Slots : phase[s] = "none" /\ \A t \in Slots : t < s => phase[t] # "none"

ReserveSlot ==
  /\ pc = "reserve" /\ \E s \in Slots : phase[s] = "none"
  /\ Reserve(NextSlot, hint[batch[NextSlot]] + extra)
  /\ worker' = [worker EXCEPT ![NextSlot] = "queued"]
  /\ UNCHANGED <<coordVars, result, stopped>>

Dispatch ==
  /\ pc = "reserve" /\ \A s \in Slots : phase[s] # "none"
  /\ pc' = "run"
  /\ UNCHANGED <<ledgerVars, workerVars, hint, first, room, batch, required, extra, published, outcome>>

----------------------------------------------------------------------------
(* The workers, in any interleaving.                                       *)

\* A worker that finds the flag set leaves its slot without a result.
SkipWork(s) ==
  /\ pc = "run" /\ worker[s] = "queued" /\ stopped
  /\ worker' = [worker EXCEPT ![s] = "retiring"]
  /\ UNCHANGED <<ledgerVars, coordVars, result, stopped>>

BeginWork(s) ==
  /\ pc = "run" /\ worker[s] = "queued" /\ ~stopped
  /\ Start(s)
  /\ worker' = [worker EXCEPT ![s] = "started"]
  /\ UNCHANGED <<coordVars, result, stopped>>

\* map receives a clone of the allowance and makes its output on it.
EnterMap(s) ==
  /\ worker[s] = "started"
  /\ IF handles[s] = 0 THEN CloneHandle(s) /\ UNCHANGED worker
                       ELSE NewCharge(OutputOf(s), s)
                            /\ worker' = [worker EXCEPT ![s] = "mapping"]
  /\ UNCHANGED <<coordVars, result, stopped>>

\* The output's allocation: admitted by the scope, or refused by it.
Allocate(s, n) ==
  /\ worker[s] = "mapping" /\ result[s] = "none"
  /\ IF n > Room(s)
       THEN result' = [result EXCEPT ![s] = "limit"] /\ UNCHANGED ledgerVars
       ELSE IF n = 0
              THEN result' = [result EXCEPT ![s] = "ok"] /\ UNCHANGED ledgerVars
              ELSE GrowScoped(OutputOf(s), n) /\ result' = [result EXCEPT ![s] = "ok"]
  /\ UNCHANGED <<worker, stopped, coordVars>>

\* Decoding the allocated output fails, or the callback panics.
Spoil(s, e) ==
  /\ worker[s] = "mapping" /\ result[s] = "ok"
  /\ result' = [result EXCEPT ![s] = e]
  /\ UNCHANGED <<ledgerVars, coordVars, worker, stopped>>

\* A failed callback has dropped what it allocated before it returns.
DropFailed(s) ==
  /\ worker[s] = "mapping" /\ result[s] \in Errors /\ owner[OutputOf(s)] # None
  /\ IF bytes[OutputOf(s)] > 0 THEN ShrinkScoped(OutputOf(s), 0) ELSE DropCharge(OutputOf(s))
  /\ UNCHANGED <<coordVars, workerVars>>

\* map returns: its handle goes and an error stops the batch.  A panic unwinds
\* past the store.
StopAfter(r) == stopped \/ r \in {"limit", "decode"}

LeaveMap(s) ==
  /\ worker[s] = "mapping"
  /\ result[s] = "ok" \/ (result[s] \in Errors /\ owner[OutputOf(s)] = None)
  /\ DropHandle(s)
  /\ worker' = [worker EXCEPT ![s] = "retiring"]
  /\ stopped' = StopAfter(result[s])
  /\ UNCHANGED <<coordVars, result>>

RetireWork(s) ==
  /\ worker[s] = "retiring" \/ (worker[s] = "abandoned" /\ pc = "drop")
  /\ Retire(s)
  /\ worker' = [worker EXCEPT ![s] = "joined"]
  /\ UNCHANGED <<coordVars, result, stopped>>

\* After a panic the pool may leave queued slots undone; their reservations
\* are dropped with the slots, in the unwinding.
Abandon(s) ==
  /\ pc = "run" /\ worker[s] = "queued"
  /\ \E t \in Slots : result[t] = "panic" /\ worker[t] \in {"retiring", "joined"}
  /\ worker' = [worker EXCEPT ![s] = "abandoned"]
  /\ UNCHANGED <<ledgerVars, coordVars, result, stopped>>

----------------------------------------------------------------------------
(* The coordinator after the join.                                         *)

Failed == {s \in Slots : result[s] \in Errors}

\* The error reported: an unwinding panic, else the first in slot order.
FirstError ==
  IF \E s \in Slots : result[s] = "panic" THEN "panic"
  ELSE result[CHOOSE s \in Failed : \A t \in Failed : s <= t]

JoinKeepsPrefix ==  \* mistake: siblings of a failed member are published
  /\ pc = "run" /\ \A s \in Slots : worker[s] \in {"joined", "abandoned"}
  /\ IF result[1] \notin Errors
       THEN pc' = "publish" /\ UNCHANGED outcome
       ELSE pc' = "drop" /\ outcome' = FirstError
  /\ UNCHANGED <<ledgerVars, workerVars, hint, first, room, batch, required, extra, published>>

Join ==
  /\ pc = "run" /\ \A s \in Slots : worker[s] \in {"joined", "abandoned"}
  /\ IF Failed = {}
       THEN pc' = "publish" /\ UNCHANGED outcome
       ELSE pc' = "drop" /\ outcome' = FirstError
  /\ UNCHANGED <<ledgerVars, workerVars, hint, first, room, batch, required, extra, published>>

\* The next output in slot order goes to publish, which consumes it.
PublishSlot == published + 2 - first

PublishOk ==
  /\ pc = "publish" /\ PublishSlot \in Slots
  /\ published' = published + 1
  /\ result' = [result EXCEPT ![PublishSlot] = "none"]
  /\ UNCHANGED <<ledgerVars, hint, pc, first, room, batch, required, extra, outcome, worker, stopped>>

\* publish reports an error: the call ends, the rest of the batch is dropped.
PublishPastError ==  \* mistake: the rest of the batch is published all the same
  /\ pc = "publish" /\ PublishSlot \in Slots
  /\ published' = published + 1
  /\ result' = [result EXCEPT ![PublishSlot] = "none"]
  /\ outcome' = "sink"
  /\ UNCHANGED <<ledgerVars, hint, pc, first, room, batch, required, extra, worker, stopped>>

PublishError ==
  /\ pc = "publish" /\ PublishSlot \in Slots
  /\ pc' = "drop" /\ outcome' = "sink"
  /\ UNCHANGED <<ledgerVars, workerVars, hint, first, room, batch, required, extra, published>>

\* A published output is freed; the others are freed with the slots.
Droppable(s) ==
  /\ owner[OutputOf(s)] # None
  /\ pc = "drop" \/ (pc = "publish" /\ result[s] = "none")

DropOutput(s) ==
  /\ s \in Slots /\ Droppable(s)
  /\ IF bytes[OutputOf(s)] > 0 THEN ShrinkScoped(OutputOf(s), 0) ELSE DropCharge(OutputOf(s))
  /\ UNCHANGED <<coordVars, workerVars>>

EndPublish ==
  /\ pc = "publish" /\ PublishSlot \notin Slots
  /\ \A s \in Slots : owner[OutputOf(s)] = None
  /\ pc' = "drop"
  /\ UNCHANGED <<ledgerVars, workerVars, hint, first, room, batch, required, extra, published, outcome>>

\* The slot buffer goes last; then the next batch, or the return.
DropSlots ==
  /\ pc = "drop"
  /\ \A s \in Slots : owner[OutputOf(s)] = None /\ worker[s] # "abandoned"
  /\ owner[SlotsCharge] # None
  /\ IF bytes[SlotsCharge] > 0 THEN ShrinkGlobal(SlotsCharge, 0) ELSE DropCharge(SlotsCharge)
  /\ UNCHANGED <<coordVars, workerVars>>

EndBatch ==
  /\ pc = "drop" /\ owner[SlotsCharge] = None
  /\ worker' = [s \in Scopes |-> "idle"]
  /\ result' = [s \in Scopes |-> "none"]
  /\ IF outcome = "running"
       THEN pc' = "admit" /\ first' = first + Len(batch)
       ELSE pc' = "done" /\ UNCHANGED first
  /\ batch' = <<>>
  /\ UNCHANGED <<ledgerVars, hint, room, required, extra, stopped, published, outcome>>

CoordinatorNext ==
  \/ Complete \/ Refuse \/ OpenBatch \/ AllocateSlots \/ Admit \/ CloseBatch
  \/ ReserveSlot \/ Dispatch \/ Join \/ PublishOk \/ PublishError
  \/ (\E s \in Scopes : DropOutput(s)) \/ EndPublish \/ DropSlots \/ EndBatch

WorkerNext(s) ==
  \/ SkipWork(s) \/ BeginWork(s) \/ EnterMap(s)
  \/ \E n \in 0 .. MaxNeed : Allocate(s, n)
  \/ \E e \in {"decode", "panic"} : Spoil(s, e)
  \/ DropFailed(s) \/ LeaveMap(s) \/ RetireWork(s) \/ Abandon(s)

Finished == pc = "done" /\ UNCHANGED extractVars

ExtractNext == CoordinatorNext \/ (\E s \in Scopes : WorkerNext(s)) \/ Finished

\* The coordinator and each dispatched worker keep running: a member's decoder
\* and the publishing sink terminate.
ExtractSpec ==
  /\ ExtractInit /\ [][ExtractNext]_extractVars
  /\ WF_extractVars(CoordinatorNext)
  /\ \A s \in Scopes : WF_extractVars(WorkerNext(s))
----------------------------------------------------------------------------
(* Properties.                                                             *)

\* The debug assertion and the division behind it: a batch that closes has a
\* member, because the first-cost check counted its slot, although the slot
\* buffer has been charged between the check and the division.
NonEmptyBatch == pc = "fill" /\ Len(batch) = 0 => Admissible(first)

\* What the reservations still to be made for the closed batch come to.  One that
\* is larger than the limit counts for Limit + 1, which does not fit either.
Promise ==
  [s \in Scopes |-> IF s \in Slots /\ phase[s] = "none"
                      THEN hint[batch[s]] + extra + ReservationBytes ELSE 0]

Promised == Total(Promise, Scopes, Limit + 1)

\* The hints only choose the width, yet a batch has a member, and once it is
\* closed none of its reservations is refused: the hints, the control blocks and
\* the equal shares of the spare fit together in what the ledger had left.
AdmissionIsSound == NonEmptyBatch /\ (pc = "reserve" => Fits(Promised))

\* When publication starts every slot holds a good result, so the Cancelled that a
\* slot without a result would give is never returned.
BatchIsWhole ==
  pc = "publish" => \A s \in Slots : s >= PublishSlot => result[s] = "ok"

\* The call returns every byte it took, whichever worker failed or panicked and
\* wherever it stopped: no charge, no reservation and no control block is left.
DrainedAtEnd ==
  pc = "done" => used = 0 /\ (\A c \in Charges : owner[c] = None) /\ \A s \in Scopes : ~Live(s)

\* The extraction delivers the members in order, each once, and ends after the
\* last or at an error; no successful sibling of a failed or skipped worker is
\* published.
Delivery == INSTANCE InOrderDelivery WITH
  delivered <- published,
  outcome   <- IF outcome \in {"running", "ok"} THEN outcome ELSE "failed"

ImplementsDelivery == Delivery!Spec /\ []BatchIsWhole
=============================================================================
