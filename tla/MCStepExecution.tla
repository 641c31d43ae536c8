-------------------------- MODULE MCStepExecution --------------------------
(***************************************************************************)
(* Instances of StepExecution for TLC.                                      *)
(***************************************************************************)
EXTENDS StepExecution

CONSTANTS q1, q2, s1, s2, w1, w2

\* Every query may find every source; each source covers a fact of its own.
AllHits == [q \in Queries |-> Sources]
OwnFact == [s \in Sources |-> {s}]
AllDirect == Sources
=============================================================================
