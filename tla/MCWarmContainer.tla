-------------------------- MODULE MCWarmContainer --------------------------
(* Instances of WarmContainer for TLC. *)
EXTENDS WarmContainer, TLC

CONSTANTS e1, e2, i1, i2, k1, k2

OneCall    == {e1}
TwoCalls   == {e1, e2}
OneIdler   == {i1}
TwoIdlers  == {i1, i2}
OneBackup  == {k1}
TwoBackups == {k1, k2}

Symmetry == Permutations(Calls) \cup Permutations(Idlers) \cup Permutations(Backups)
=============================================================================
