---------------------------- MODULE ParallelPrefix ----------------------------
(***************************************************************************)
(* Parallel extraction without a workspace limit: parallel_to_impl of      *)
(* rar50/extract.rs and extract_parallel_with_links of rar15_40.rs on top  *)
(* of map_prefix (parallel.rs).  Members are taken in batches, decoded     *)
(* into memory by workers in any order, and given to the caller in order   *)
(* up to the first failure of the batch, which then ends the call.         *)
(*                                                                         *)
(* The caller may set its cancellation token at any time; its callbacks    *)
(* and its sinks may fail.                                                 *)
(***************************************************************************)
EXTENDS Naturals, Sequences, FiniteSets, FiniteSetsExt, Totals

CONSTANTS Tasks,     \* the calls: sizes of the members and which are damaged
          BatchMost, \* parallel::default_window()
          Memory     \* rar50_buffered_decode_limit

\* Size 0 stands for what is not decoded: directories and redirections.
ASSUME TasksAssumption ==
  /\ BatchMost \in Nat \ {0} /\ Memory \in Nat
  /\ \A t \in Tasks : /\ t.family \in {"rar15", "rar50"} /\ t.sizes \in Seq(Nat)
                      /\ t.damaged \subseteq {m \in DOMAIN t.sizes : t.sizes[m] > 0}
                      /\ t.ordered \in BOOLEAN

VARIABLES task,     \* the call
          taken,    \* members that were handed to batches
          lot,      \* the current batch, an interval of members
          left,     \* bytes the batch may still retain
          decode,   \* what the worker of each member has done
          given,    \* members the caller has received in full
          phaseOf,  \* where the calling thread is
          stopToken,\* the caller's ReadCancellation
          returned  \* what the call returned, "none" while it runs

lotVars    == <<taken, lot, left>>
prefixVars == <<task, lotVars, decode, given, phaseOf, stopToken, returned>>

Count == Len(task.sizes)
Waits == "waiting"

\* The call goes on sequentially (MemberExtraction) when its members depend on
\* each other or on a common limit, and with RAR 5 when one is too large.
TakesAll == ~task.ordered  \* mistake: members of any size are buffered
Buffers ==
  /\ ~task.ordered
  /\ task.family = "rar50" => \A m \in 1 .. Count : task.sizes[m] <= Memory

PrefixInit ==
  /\ task \in Tasks
  /\ taken = 0 /\ lot = {} /\ left = 0 /\ given = 0
  /\ decode = [m \in 1 .. Count |-> "none"]
  /\ phaseOf = "enter" /\ stopToken = FALSE /\ returned = "none"

\* The verified prefix of the batch is not out yet.
PastFailures == given + 1 \in lot  \* mistake: the failures are kept for later
More == given + 1 \in lot /\ decode[given + 1] = "verified"

GiveBack(r) == phaseOf' = "returned" /\ returned' = r

CancelTask ==
  /\ returned = "none" /\ ~stopToken
  /\ stopToken' = TRUE
  /\ UNCHANGED <<task, lotVars, decode, given, phaseOf, returned>>

\* The checks of the calling thread: on entry, before each batch, before, within
\* and after the publication of each member, and before the call returns.
StopHere ==
  /\ stopToken /\ phaseOf \in {"enter", "next", "publish", "opened", "written"}
  /\ phaseOf = "publish" => More
  /\ GiveBack("cancelled")
  /\ UNCHANGED <<task, lotVars, decode, given, stopToken>>

Enter ==
  /\ phaseOf = "enter" /\ ~stopToken
  /\ IF Buffers THEN phaseOf' = "next" /\ UNCHANGED returned ELSE GiveBack("sequential")
  /\ UNCHANGED <<task, lotVars, decode, given, stopToken>>

FinishCall ==
  /\ phaseOf = "next" /\ ~stopToken /\ taken = Count
  /\ GiveBack("complete")
  /\ UNCHANGED <<task, lotVars, decode, given, stopToken>>

BeginLot ==
  /\ phaseOf = "next" /\ ~stopToken /\ taken < Count
  /\ phaseOf' = "fill" /\ lot' = {} /\ left' = Memory
  /\ UNCHANGED <<task, taken, decode, given, stopToken, returned>>

\* RAR 5 fills a batch up to its limit in bytes; the legacy families only count.
JoinsAlways(m) == m <= Count /\ Cardinality(lot) < BatchMost  \* mistake: bytes are not counted
Joins(m) ==
  /\ m <= Count /\ Cardinality(lot) < BatchMost
  /\ task.family = "rar50" => task.sizes[m] <= left

TakeIntoLot ==
  /\ phaseOf = "fill" /\ Joins(taken + 1)
  /\ lot' = lot \cup {taken + 1} /\ taken' = taken + 1
  /\ left' = IF task.sizes[taken + 1] <= left THEN left - task.sizes[taken + 1] ELSE 0
  /\ decode' = [decode EXCEPT ![taken + 1] = Waits]
  /\ UNCHANGED <<task, given, phaseOf, stopToken, returned>>

StartLot ==
  /\ phaseOf = "fill" /\ ~Joins(taken + 1)
  /\ phaseOf' = "map"
  /\ UNCHANGED <<task, lotVars, decode, given, stopToken, returned>>

----------------------------------------------------------------------------
(* The workers: decode_parallel_entry, with a decoder of its own each.     *)

BeginMember(m) ==
  /\ phaseOf = "map" /\ decode[m] = Waits
  /\ decode' = [decode EXCEPT ![m] = IF stopToken THEN "cancelled"
                                     ELSE IF task.sizes[m] = 0 THEN "verified" ELSE "decoding"]
  /\ UNCHANGED <<task, lotVars, given, phaseOf, stopToken, returned>>

\* A check in the decoder sees the token, or the payload is decoded to its end.
EndMember(m) ==
  /\ decode[m] = "decoding"
  /\ \/ stopToken /\ decode' = [decode EXCEPT ![m] = "cancelled"]
     \/ m \in task.damaged /\ decode' = [decode EXCEPT ![m] = "damaged"]
     \/ m \notin task.damaged /\ ~stopToken /\ decode' = [decode EXCEPT ![m] = "verified"]
  /\ UNCHANGED <<task, lotVars, given, phaseOf, stopToken, returned>>

----------------------------------------------------------------------------
(* map_prefix has the results of the whole batch; publication.             *)

Unfinished == {m \in lot : decode[m] \in {Waits, "decoding"}}

JoinLot ==
  /\ phaseOf = "map" /\ Unfinished = {}
  /\ phaseOf' = "publish"
  /\ UNCHANGED <<task, lotVars, decode, given, stopToken, returned>>

\* write_parallel_entry: open, which is all for a member without output, then
\* the whole output.
OpenMember ==
  /\ phaseOf = "publish" /\ More /\ ~stopToken
  /\ \/ GiveBack("callback") /\ UNCHANGED given
     \/ /\ UNCHANGED returned
        /\ IF task.sizes[given + 1] = 0 THEN phaseOf' = "written" /\ given' = given + 1
                                        ELSE phaseOf' = "opened" /\ UNCHANGED given
  /\ UNCHANGED <<task, lotVars, decode, stopToken>>

WriteMember ==
  /\ phaseOf = "opened" /\ ~stopToken
  /\ \/ phaseOf' = "written" /\ given' = given + 1 /\ UNCHANGED returned
     \/ GiveBack("sink") /\ UNCHANGED given
  /\ UNCHANGED <<task, lotVars, decode, stopToken>>

NextOutput ==
  /\ phaseOf = "written" /\ ~stopToken
  /\ phaseOf' = "publish"
  /\ UNCHANGED <<task, lotVars, decode, given, stopToken, returned>>

\* The prefix is out: the failure is reported, or the next batch begins.
EndLot ==
  /\ phaseOf = "publish" /\ ~More
  /\ IF given + 1 \in lot THEN GiveBack(decode[given + 1]) ELSE phaseOf' = "next" /\ UNCHANGED returned
  /\ UNCHANGED <<task, lotVars, decode, given, stopToken>>

PrefixDone == phaseOf = "returned" /\ UNCHANGED prefixVars

CallerNext ==
  \/ StopHere \/ Enter \/ FinishCall \/ BeginLot \/ TakeIntoLot \/ StartLot
  \/ JoinLot \/ OpenMember \/ WriteMember \/ NextOutput \/ EndLot

DecoderNext(m) == BeginMember(m) \/ EndMember(m)

PrefixNext ==
  \/ CancelTask \/ CallerNext
  \/ (\E m \in 1 .. Count : DecoderNext(m))
  \/ PrefixDone
----------------------------------------------------------------------------
(* Properties.                                                             *)

\* The bytes of the batch that are in memory: members decoded or to be decoded
\* that the caller has not received.
Retained ==
  [m \in 1 .. Count |-> IF m \in lot /\ decode[m] # "none" /\ m > given THEN task.sizes[m] ELSE 0]

\* Whatever the order in which the workers ran, the caller receives the members
\* in front of the first damaged one, it is that one which is reported once the
\* prefix is out, and a call that completes has met no damage.  The outputs in
\* memory stay within the limit of a batch.
PrefixIsDelivered ==
  /\ \A m \in task.damaged : given < m
  /\ returned = "damaged" => given + 1 = Min(task.damaged)
  /\ returned = "complete" => given = Count /\ task.damaged = {}
  /\ returned = "cancelled" => stopToken
  /\ task.family = "rar50" => Total(Retained, 1 .. Count, Memory + 1) <= Memory
=============================================================================
