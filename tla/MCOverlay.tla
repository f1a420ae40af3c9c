------------------------------- MODULE MCOverlay -------------------------------
(* Overlay for TLC: who opens which files, and what is interchangeable.     *)
EXTENDS Overlay, TLC

CONSTANT s1    \* the session that opens the crate root too

OneOpensRoot    == [s \in Sessions |-> IF s = s1 THEN {} ELSE {Root}]
NobodyOpensRoot == [s \in Sessions |-> {Root}]

Symmetry == Permutations(Runtimes)
=============================================================================
