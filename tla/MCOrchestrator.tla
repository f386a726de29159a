--------------------------- MODULE MCOrchestrator ---------------------------
(* Instances of Orchestrator for TLC. *)
EXTENDS Orchestrator, TLC

CONSTANTS c1, c2, h1, h2, h3

TwoChats      == {c1, c2}
OneChat       == {c1}
TwoHandlers   == {h1, h2}
ThreeHandlers == {h1, h2, h3}

Symmetry == Permutations(Handlers) \cup Permutations(Chats)
=============================================================================
