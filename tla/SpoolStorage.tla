---------------------------- MODULE SpoolStorage ----------------------------
(***************************************************************************)
(* The spools of a writer (streaming.rs) and the storage budget they share.*)
(* A spool is a temporary file with a cursor.  Its handle is dropped while *)
(* it waits (parked) and opened again at the cursor; into_source turns it  *)
(* into a shared payload that lives until its last source and reader are   *)
(* gone.  A write first reserves the length it could reach, then writes,   *)
(* then keeps what was written.  A file that cannot be removed stays       *)
(* charged to the budget for ever.                                         *)
(*                                                                         *)
(* Each lock of the budget is one step, and so is each use of the file:    *)
(* only the owner of a spool uses its handle.  A file is known by its      *)
(* name; names come from a process-wide sequence, and files of an earlier  *)
(* process may already have some of them (temp_file.rs).                   *)
(***************************************************************************)
EXTENDS Naturals, FiniteSets, Totals

CONSTANTS Spools,       \* identities of Spool values; reused once dropped
          MaxName,      \* bound: sequence numbers the process draws
          MaxAttempts,  \* names one creation tries (128)
          StorageLimit, \* StorageBudget.limit
          MaxWrite,     \* bound: bytes of one write call
          MaxHolders,   \* bound: sources, and readers, of one payload
          Absent        \* no file, no handle, no write in flight

ASSUME SpoolAssumption ==
  /\ IsFiniteSet(Spools) /\ Spools # {}
  /\ MaxName \in Nat /\ MaxAttempts \in Nat \ {0} /\ StorageLimit \in Nat
  /\ MaxWrite \in Nat /\ MaxHolders \in Nat
  /\ Absent \notin Nat

Names == 1 .. MaxName

VARIABLES sequence,  \* temp_file::SEQUENCE
          disk,      \* bytes of the file of each name, or Absent
          leftover,  \* names whose files an earlier process left
          debt,      \* bytes that stay charged for a file that was not removed
          reserved,  \* *StorageBudget.used
          phase,     \* none, creating, owned, or shared by into_source
          attempt,   \* names tried by a creation
          name,      \* Spool.path
          handle,    \* offset of Spool.file, or Absent while parked
          pos,       \* Spool.pos
          len,       \* Spool.len
          charge,    \* Spool.charge.bytes
          writing,   \* bytes of the write that has its reservation, or Absent
          sources,   \* EntrySources that own the payload
          readers    \* SpoolReaders that are open on it

directoryVars == <<sequence, disk, leftover, debt>>
cursorVars == <<handle, pos, len, writing>>
sharingVars == <<sources, readers>>
spoolVars == <<directoryVars, reserved, phase, attempt, name, cursorVars, charge,
               sharingVars>>

SpoolInit ==
  /\ sequence = 0
  /\ leftover \in SUBSET Names
  /\ disk = [n \in Names |-> IF n \in leftover THEN 0 ELSE Absent]
  /\ debt = [n \in Names |-> 0]
  /\ reserved = 0
  /\ phase = [s \in Spools |-> "none"]
  /\ attempt = [s \in Spools |-> 0]
  /\ name = [s \in Spools |-> 0]
  /\ handle = [s \in Spools |-> Absent]
  /\ pos = [s \in Spools |-> 0]
  /\ len = [s \in Spools |-> 0]
  /\ charge = [s \in Spools |-> 0]
  /\ writing = [s \in Spools |-> Absent]
  /\ sources = [s \in Spools |-> 0]
  /\ readers = [s \in Spools |-> 0]

Larger(a, b) == IF a >= b THEN a ELSE b

\* The owner of a spool is not inside a write.
Idle(s) == phase[s] = "owned" /\ writing[s] = Absent

----------------------------------------------------------------------------
\* Spool::create.
BeginCreate(s) ==
  /\ phase[s] = "none"
  /\ phase' = [phase EXCEPT ![s] = "creating"]
  /\ UNCHANGED <<directoryVars, reserved, attempt, name, cursorVars, charge,
                 sharingVars>>

TakeAnyName(n) == TRUE  \* mistake: an existing file is opened

\* create_new refuses a name that exists.
TakeName(n) == disk[n] = Absent

\* create_named_with_sequence draws a name and creates its file, which opens
\* an empty spool.
CreateFile(s) ==
  LET n == sequence + 1 IN
  /\ phase[s] = "creating" /\ n \in Names /\ TakeName(n)
  /\ sequence' = n
  /\ disk' = [disk EXCEPT ![n] = 0]
  /\ phase' = [phase EXCEPT ![s] = "owned"]
  /\ name' = [name EXCEPT ![s] = n]
  /\ handle' = [handle EXCEPT ![s] = 0]
  /\ pos' = [pos EXCEPT ![s] = 0]
  /\ len' = [len EXCEPT ![s] = 0]
  /\ attempt' = [attempt EXCEPT ![s] = 0]
  /\ UNCHANGED <<leftover, debt, reserved, charge, writing, sharingVars>>

\* The name is taken: the next one is tried, MaxAttempts times.
NameTaken(s) ==
  LET n == sequence + 1 IN
  /\ phase[s] = "creating" /\ n \in Names /\ ~TakeName(n)
  /\ sequence' = n
  /\ IF attempt[s] + 1 = MaxAttempts
     THEN /\ phase' = [phase EXCEPT ![s] = "none"]
          /\ attempt' = [attempt EXCEPT ![s] = 0]
     ELSE attempt' = [attempt EXCEPT ![s] = @ + 1] /\ UNCHANGED phase
  /\ UNCHANGED <<disk, leftover, debt, reserved, name, cursorVars, charge,
                 sharingVars>>

\* Any other error of the file system ends the creation.
CreateFails(s) ==
  /\ phase[s] = "creating" /\ sequence < MaxName
  /\ sequence' = sequence + 1
  /\ phase' = [phase EXCEPT ![s] = "none"]
  /\ attempt' = [attempt EXCEPT ![s] = 0]
  /\ UNCHANGED <<disk, leftover, debt, reserved, name, cursorVars, charge,
                 sharingVars>>

\* Spool::park, which create_parked calls too.
Park(s) ==
  /\ Idle(s)
  /\ handle' = [handle EXCEPT ![s] = Absent]
  /\ UNCHANGED <<directoryVars, reserved, phase, attempt, name, pos, len, writing,
                 charge, sharingVars>>

ReopenAtStart(s) ==  \* mistake: the reopened handle is not moved to the cursor
  IF handle[s] = Absent THEN 0 ELSE handle[s]

\* Spool::file: the offset at which the open or reopened handle stands.
Reopened(s) == IF handle[s] = Absent THEN pos[s] ELSE handle[s]

\* The handle is open, or its file is still there to be opened.
Usable(s) == handle[s] # Absent \/ disk[name[s]] # Absent

----------------------------------------------------------------------------
\* What a write of n bytes may need at most: the spool's length, or its end.
Reach(s, n) == Larger(len[s], pos[s] + n)

\* Spool::write_with, first: the reservation.  A refusal changes nothing.
ReserveWrite(s, n) ==
  LET growth == Reach(s, n) - charge[s] IN
  /\ Idle(s)
  /\ reserved + growth <= StorageLimit
  /\ reserved' = reserved + growth
  /\ charge' = [charge EXCEPT ![s] = Reach(s, n)]
  /\ writing' = [writing EXCEPT ![s] = n]
  /\ UNCHANGED <<directoryVars, phase, attempt, name, handle, pos, len, sharingVars>>

\* StorageCharge::shrink_to.
KeepReservation(s, bytes) ==  \* mistake: a short write keeps its reservation
  UNCHANGED <<reserved, charge>>

ShrinkTo(s, bytes) ==
  /\ reserved' = reserved - (charge[s] - bytes)
  /\ charge' = [charge EXCEPT ![s] = bytes]

\* write_with, then: `written' bytes of it reach the file, perhaps none, and
\* the charge shrinks to what the spool now holds.
FinishWrite(s, written) ==
  LET at == Reopened(s)
      length == IF written = 0 THEN len[s] ELSE Larger(len[s], pos[s] + written)
  IN
  /\ writing[s] # Absent /\ written <= writing[s] /\ Usable(s)
  /\ IF written = 0 THEN UNCHANGED disk
     ELSE disk' = [disk EXCEPT ![name[s]] = Larger(@, at + written)]
  /\ handle' = [handle EXCEPT ![s] = at + written]
  /\ pos' = [pos EXCEPT ![s] = @ + written]
  /\ len' = [len EXCEPT ![s] = length]
  /\ writing' = [writing EXCEPT ![s] = Absent]
  /\ ShrinkTo(s, length)
  /\ UNCHANGED <<sequence, leftover, debt, phase, attempt, name, sharingVars>>

\* write_with when the parked file cannot be opened again.
WriteUnopened(s) ==
  /\ writing[s] # Absent /\ handle[s] = Absent
  /\ writing' = [writing EXCEPT ![s] = Absent]
  /\ ShrinkTo(s, len[s])
  /\ UNCHANGED <<directoryVars, phase, attempt, name, handle, pos, len, sharingVars>>

\* Write::flush opens the handle and has nothing to flush.
Flush(s) ==
  /\ Idle(s) /\ Usable(s)
  /\ handle' = [handle EXCEPT ![s] = Reopened(s)]
  /\ UNCHANGED <<directoryVars, reserved, phase, attempt, name, pos, len, writing,
                 charge, sharingVars>>

\* Seek::seek, rewind, seek_to: to any offset, past the end too.
SeekTo(s, p) ==
  /\ Idle(s) /\ Usable(s)
  /\ handle' = [handle EXCEPT ![s] = p]
  /\ pos' = [pos EXCEPT ![s] = p]
  /\ UNCHANGED <<directoryVars, reserved, phase, attempt, name, len, writing, charge,
                 sharingVars>>

\* Read::read of r bytes, from the handle.
ReadSome(s, r) ==
  /\ Idle(s) /\ Usable(s) /\ disk[name[s]] # Absent
  /\ Reopened(s) + r <= disk[name[s]]
  /\ handle' = [handle EXCEPT ![s] = Reopened(s) + r]
  /\ pos' = [pos EXCEPT ![s] = @ + r]
  /\ UNCHANGED <<directoryVars, reserved, phase, attempt, name, len, writing, charge,
                 sharingVars>>

\* Spool::copy_to and copy_range_to: seek, copy up to `stop', and park,
\* wherever the source or the output failed.
CopyOut(s, start, stop) ==
  /\ Idle(s) /\ Usable(s)
  /\ start <= stop /\ stop <= Larger(start, len[s])
  /\ pos' = [pos EXCEPT ![s] = stop]
  /\ handle' = [handle EXCEPT ![s] = Absent]
  /\ UNCHANGED <<directoryVars, reserved, phase, attempt, name, len, writing, charge,
                 sharingVars>>

----------------------------------------------------------------------------
\* Spool::into_source parks the spool and shares it.
IntoSource(s) ==
  /\ Idle(s)
  /\ handle' = [handle EXCEPT ![s] = Absent]
  /\ phase' = [phase EXCEPT ![s] = "shared"]
  /\ sources' = [sources EXCEPT ![s] = 1]
  /\ UNCHANGED <<directoryVars, reserved, attempt, name, pos, len, writing, charge,
                 readers>>

CloneSource(s) ==
  /\ sources[s] \in 1 .. MaxHolders - 1
  /\ sources' = [sources EXCEPT ![s] = @ + 1]
  /\ UNCHANGED <<directoryVars, reserved, phase, attempt, name, cursorVars, charge,
                 readers>>

\* The opener of the source: a reader has its own handle and keeps the spool.
OpenReader(s) ==
  /\ sources[s] > 0 /\ readers[s] < MaxHolders
  /\ disk[name[s]] # Absent
  /\ readers' = [readers EXCEPT ![s] = @ + 1]
  /\ UNCHANGED <<directoryVars, reserved, phase, attempt, name, cursorVars, charge,
                 sources>>

ReleaseOnFailure(s) == TRUE  \* mistake: the charge returns with the file in place

\* A file that another program has removed is no debt; one that could not be
\* removed keeps its charge.
Releases(s) == disk'[name[s]] = Absent

\* Spool::drop, run by the last owner of the spool: the file is removed, or it
\* stays because its removal failed, and the StorageCharge then drops.
Remove(s) ==
  /\ \/ disk' = [disk EXCEPT ![name[s]] = Absent]
     \/ UNCHANGED disk
  /\ IF Releases(s)
     THEN reserved' = reserved - charge[s] /\ UNCHANGED debt
     ELSE debt' = [debt EXCEPT ![name[s]] = charge[s]] /\ UNCHANGED reserved
  /\ charge' = [charge EXCEPT ![s] = 0]
  /\ phase' = [phase EXCEPT ![s] = "none"]
  /\ name' = [name EXCEPT ![s] = 0]
  /\ handle' = [handle EXCEPT ![s] = Absent]
  /\ pos' = [pos EXCEPT ![s] = 0]
  /\ len' = [len EXCEPT ![s] = 0]
  /\ UNCHANGED <<sequence, leftover, attempt, writing>>

Keep(s) == UNCHANGED <<directoryVars, reserved, phase, attempt, name, cursorVars, charge>>

LastSource(s) == sources[s] = 1  \* mistake: readers do not keep the spool

\* The holder that goes is the last one.
LastHolder(s) == sources[s] + readers[s] = 1

DropHolder(s) ==
  /\ \/ sources[s] > 0 /\ sources' = [sources EXCEPT ![s] = @ - 1] /\ UNCHANGED readers
     \/ readers[s] > 0 /\ readers' = [readers EXCEPT ![s] = @ - 1] /\ UNCHANGED sources
  /\ IF LastHolder(s) THEN Remove(s) ELSE Keep(s)

\* The owner drops a spool it never shared, after a failed write too.
DropSpool(s) ==
  /\ Idle(s)
  /\ Remove(s)
  /\ UNCHANGED sharingVars

\* Another program cleans the temporary directory: a parked spool loses its
\* file and cannot be opened again.
Sweep(n) ==
  /\ disk[n] # Absent
  /\ \A s \in Spools : name[s] = n /\ phase[s] # "none" =>
       handle[s] = Absent /\ readers[s] = 0
  /\ disk' = [disk EXCEPT ![n] = Absent]
  /\ leftover' = leftover \ {n}
  /\ UNCHANGED <<sequence, debt, reserved, phase, attempt, name, cursorVars, charge,
                 sharingVars>>

SpoolNext ==
  \/ \E s \in Spools :
       \/ BeginCreate(s) \/ CreateFile(s) \/ NameTaken(s) \/ CreateFails(s)
       \/ Park(s) \/ Flush(s) \/ WriteUnopened(s)
       \/ \E n \in 1 .. MaxWrite : ReserveWrite(s, n)
       \/ \E w \in 0 .. MaxWrite : FinishWrite(s, w)
       \/ \E p \in 0 .. StorageLimit : SeekTo(s, p)
       \/ \E r \in 1 .. MaxWrite : ReadSome(s, r)
       \/ \E start, stop \in 0 .. StorageLimit : CopyOut(s, start, stop)
       \/ IntoSource(s) \/ CloneSource(s) \/ OpenReader(s)
       \/ DropHolder(s) \/ DropSpool(s)
  \/ \E n \in Names : Sweep(n)

SpoolSpec == SpoolInit /\ [][SpoolNext]_spoolVars

----------------------------------------------------------------------------
Alive(s) == phase[s] \in {"owned", "shared"}

OwnerOf(n) == {s \in Spools : Alive(s) /\ name[s] = n}

\* What a file answers for: its owner's charge, or its debt.
Answers == [n \in Names |->
  debt[n] + Total([s \in Spools |-> IF s \in OwnerOf(n) THEN charge[s] ELSE 0],
                  Spools, StorageLimit)]

\* The storage budget is one implementation of the quota: files hold its bytes.
StorageQuota == INSTANCE Quota WITH held <- Answers, Holders <- Names, Limit <- StorageLimit
StorageImplementsQuota == StorageQuota!Spec

\* The budget counts exactly what the files answer for, never more than its
\* limit, and no file of this process is larger than that: the limit bounds the
\* bytes on the disk, those that could not be removed included, through
\* overwrites, short and failed writes and parking (StorageCharge, write_with,
\* Spool::drop).  A spool that is not inside a write is charged its length and
\* not a byte more.
StorageAccounted ==
  /\ reserved <= StorageLimit
  /\ reserved = Total(Answers, Names, StorageLimit)
  /\ \A n \in Names \ leftover : disk[n] = Absent \/ disk[n] <= Answers[n]
  /\ \A s \in Spools : Alive(s) /\ writing[s] = Absent => charge[s] = len[s]

\* The cursor of a spool survives parking: an open handle stands where the
\* spool believes it does, after any mix of writes, reads, seeks, copies and
\* reopenings, and the file is as long as the spool believes unless another
\* program removed it (Spool::file, park, write_with).
CursorIsExact ==
  \A s \in Spools : phase[s] = "owned" =>
    /\ handle[s] \in {Absent, pos[s]}
    /\ disk[name[s]] \in {Absent, len[s]}

\* Both: what the budget counts, and what a spool believes of its file.
SpoolsAreExact == StorageAccounted /\ CursorIsExact

\* A shared payload is not written, resized or removed by this process while a
\* source or a reader of it is left, and a file of an earlier process is never
\* touched at all (into_source, SpoolReader._owner, create_new).
FilesKept ==
  [][\A n \in Names :
       \/ disk'[n] = disk[n]
       \/ disk'[n] = Absent /\ Sweep(n)
       \/ /\ n \notin leftover
          /\ \A s \in OwnerOf(n) : sources'[s] + readers'[s] = 0]_spoolVars
=============================================================================
