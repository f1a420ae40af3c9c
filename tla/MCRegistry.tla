------------------------------ MODULE MCRegistry ------------------------------
(* Registry for TLC.  Two of the registrations meet in the world of the     *)
(* first key and the third has that of the second to itself.  The           *)
(* registrations are interchangeable; the worlds are not, a free one is     *)
(* picked by CHOOSE, and the keys are ordered.                              *)
EXTENDS Registry, TLC

TwoMeet == \A k \in Keys \ {1} : Cardinality({r \in Runtimes : key[r] = k}) = 1

MCInit == Init /\ TwoMeet

MCSpec == MCInit /\ [][Next]_vars

Symmetry == Permutations(Runtimes)
=============================================================================
