--------------------------- MODULE InOrderDelivery ---------------------------
(***************************************************************************)
(* What a caller sees of every windowed, parallel operation: the outputs   *)
(* of the members 1..N reach it in archive order, each once, and the call  *)
(* ends either after the last of them or at an error.                      *)
(***************************************************************************)
EXTENDS Naturals

CONSTANT N           \* number of members

VARIABLES delivered, \* how many members the caller has received
          outcome    \* "running", "ok" or "failed"

deliveryVars == <<delivered, outcome>>

Init == delivered = 0 /\ outcome = "running"

Deliver ==
  /\ outcome = "running" /\ delivered < N
  /\ delivered' = delivered + 1
  /\ UNCHANGED outcome

Complete ==
  /\ outcome = "running" /\ delivered = N
  /\ outcome' = "ok"
  /\ UNCHANGED delivered

Fail ==
  /\ outcome = "running"
  /\ outcome' = "failed"
  /\ UNCHANGED delivered

Next == Deliver \/ Complete \/ Fail

Spec == Init /\ [][Next]_deliveryVars
=============================================================================
