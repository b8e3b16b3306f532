-------------------------- MODULE MCCompressBatch --------------------------
EXTENDS CompressBatch

Member(whole, workspace) == [whole |-> whole, workspace |-> workspace]

\* A call of three members in waves of two and one, or alone; one with a member
\* that falls back to blocks; one with a member too large to be compressed.
MCPlans == {
  <<Member(TRUE, 1), Member(TRUE, 2), Member(TRUE, 2)>>,
  <<Member(TRUE, 2), Member(FALSE, 1), Member(TRUE, 4)>>}

MCFaults == {{}, {1, 2}}
TwoFaults == {{1, 2}}
OnePlan == {<<Member(TRUE, 1), Member(TRUE, 2), Member(TRUE, 2)>>}
=============================================================================
