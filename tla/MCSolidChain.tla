----------------------------- MODULE MCSolidChain -----------------------------
(* Solid RAR 1.5 archives of a file, a link and a file, in every order.      *)
EXTENDS SolidChain

MCLinkedJobs ==
  [family : {"rar15"},
   members : [1 .. 3 -> {[kind |-> k, size |-> 2, packed |-> 1] : k \in {"file", "link"}}]]
=============================================================================
