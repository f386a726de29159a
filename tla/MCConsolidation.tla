-------------------------- MODULE MCConsolidation --------------------------
(* Instances of Consolidation for TLC. *)
EXTENDS Consolidation, TLC

CONSTANTS c1, j1, j2

OneChat  == {c1}
OneJob   == {j1}
TwoJobs  == {j1, j2}
SameChat == [s \in Sessions |-> c1]

Symmetry == Permutations(Jobs)
=============================================================================
