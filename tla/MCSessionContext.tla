-------------------------- MODULE MCSessionContext --------------------------
(* SessionContext for TLC: a wide and a narrow window; the last message is  *)
(* as long as two others.                                                   *)
EXTENDS SessionContext, FiniteSetsExt, TLC

CONSTANTS narrow, wide

Windows  == [g \in Gen |-> IF g = narrow THEN 0 ELSE 2]
Length(m)  == IF m = 3 THEN 2 ELSE 1
Budget     == 2
Fitting    == [g \in Gen |-> {S \in SUBSET Msg : MapThenSumSet(Length, S) <= Budget}]
Symmetry == Permutations(Worker) \cup Permutations(Dir)
=============================================================================
