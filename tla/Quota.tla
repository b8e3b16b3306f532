-------------------------------- MODULE Quota --------------------------------
(***************************************************************************)
(* What every byte ledger of the library promises: holders take and give   *)
(* back bytes one at a time, and what they hold together never exceeds the *)
(* configured limit.  The detailed ledgers implement this specification.   *)
(***************************************************************************)
EXTENDS Totals

CONSTANTS Holders,  \* whoever may own bytes of the quota
          Limit     \* the configured number of bytes

VARIABLE held       \* held[h]: the bytes committed to holder h

Sum(f) == Total(f, Holders, Limit)

TypeOK == held \in [Holders -> 0 .. Limit]

WithinLimit == Sum(held) <= Limit

Init == held = [h \in Holders |-> 0]

\* Holder h takes n more bytes, provided the quota has them to spare.
Acquire(h, n) ==
  /\ Sum(held) + n <= Limit
  /\ held' = [held EXCEPT ![h] = @ + n]

\* Holder h gives back n of the bytes it holds.
Release(h, n) ==
  /\ n <= held[h]
  /\ held' = [held EXCEPT ![h] = @ - n]

Next == \E h \in Holders, n \in 1 .. Limit : Acquire(h, n) \/ Release(h, n)

Spec == Init /\ [][Next]_held
=============================================================================
