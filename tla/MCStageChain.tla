----------------------------- MODULE MCStageChain -----------------------------
(* Instances of StageChain.                                                  *)
EXTENDS StageChain

\* Every stage is made from the one before it.
Line == [s \in 1 .. NStages |-> IF s = 1 THEN {} ELSE {s - 1}]
=============================================================================
