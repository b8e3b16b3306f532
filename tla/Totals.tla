------------------------------- MODULE Totals -------------------------------
(***************************************************************************)
(* The sum of a function that assigns to each member of a finite set S a   *)
(* number of bytes in 0..M.  It is written as the number of (member, byte) *)
(* pairs, which makes it a cardinality: the facts about finite sets then   *)
(* say all there is to know about it, without induction.                   *)
(***************************************************************************)
EXTENDS Naturals, FiniteSets

Units(f, S, M) == {p \in S \X (1 .. M) : p[2] <= f[p[1]]}

Total(f, S, M) == Cardinality(Units(f, S, M))
=============================================================================
