---------------------------- MODULE MCAuthBridge ----------------------------
(* Instances of AuthBridge for TLC. *)
EXTENDS AuthBridge, TLC
CONSTANTS m1, m2, b1, b2, t1, t2
TwoMachines == {m1, m2}
TwoBrowsers == {b1, b2}
TwoTokens   == {t1, t2}
Symmetry    == Permutations(Machines) \cup Permutations(Browsers) \cup Permutations(Tokens)
=============================================================================
