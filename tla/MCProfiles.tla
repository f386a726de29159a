----------------------------- MODULE MCProfiles -----------------------------
(* An instance of ProfileFrontends for TLC. *)
EXTENDS ProfileFrontends, TLC

Symmetry == Permutations(Chats) \cup Permutations(Callers)
=============================================================================
